--------------------------- MODULE MCLongMessages ---------------------------
(* Instances of LongMessages for TLC. *)
EXTENDS LongMessages, TLC

CONSTANTS short, long, q1, q2

const_Messages == {short, long}
const_LenOf == short :> 2 @@ long :> 3

SeqSymmetry == Permutations(SeqIds)
============================================================================
