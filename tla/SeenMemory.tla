---------------------------- MODULE SeenMemory ----------------------------
(***************************************************************************)
(* What loop detection promises: a peis remembers exactly the last Size    *)
(* distinct package identifiers it marked.                                 *)
(***************************************************************************)
EXTENDS SeenWindow

CONSTANTS Ids, Size
VARIABLE window

Init == window = <<>>
Mark(id) == window' = MarkAsRepeated(Size, window, id)
Next == \E id \in Ids : Mark(id)
Spec == Init /\ [][Next]_window
===========================================================================
