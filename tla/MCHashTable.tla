---------------------------- MODULE MCHashTable -----------------------------
(* An instance of HashTable for TLC: keys that share a bucket of five, two of *)
(* them the hash value too.                                                  *)
EXTENDS HashTable, TLC

CONSTANTS k1, k2, k3, k4, k5, v1, v2

const_Keys == {k1, k2, k3, k4, k5}
const_Hash == k1 :> 0 @@ k2 :> 0 @@ k3 :> 5 @@ k4 :> 10 @@ k5 :> 15

Symmetry == Permutations({k1, k2}) \cup Permutations(Values)
=============================================================================
