----------------------------- MODULE MCRouting -----------------------------
(* Instances of Routing for TLC. *)
EXTENDS Routing

Line == {{1, 2}, {2, 3}}
Triangle == {{1, 2}, {2, 3}, {1, 3}}
OneAboutThree == {<<1, 3>>}

TwoUpTo2 == [p \in Peis |-> IF p = 2 THEN 2 ELSE 1]
ThreeUpTo1 == [p \in Peis |-> IF p = 3 THEN 1 ELSE 2]
=============================================================================
