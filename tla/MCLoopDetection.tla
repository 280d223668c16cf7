-------------------------- MODULE MCLoopDetection --------------------------
(* A ring of four entries, two chains, six identifiers: entries are reused *)
(* at the end of longer chains and as the only one of theirs, for a new    *)
(* identifier of the same chain or of the other.                           *)
EXTENDS LoopDetection

const_Ids == 1 .. 6
============================================================================
