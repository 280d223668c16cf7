------------------------ MODULE MCReliableTransfer ------------------------
(* Instances of ReliableTransfer for TLC. *)
EXTENDS ReliableTransfer, TLC

CONSTANTS m1, m2, m3, c1, c2, p1, p2

const_Two == {m1, m2}
const_Three == {m1, m2, m3}
const_First == {m1}
const_Second == {m2}
const_Third == {m3}
const_OneConn == {c1}
const_TwoConns == {c1, c2}
const_TwoPackages == {p1, p2}

PoolSymmetry == Permutations(Packages) \cup Permutations(Conns)
============================================================================
