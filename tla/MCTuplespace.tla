--------------------------- MODULE MCTuplespace ---------------------------
(* Instances of Tuplespace: an owner, a subscriber, one tuple. *)
EXTENDS Tuplespace

CONSTANTS o, s, a, P

OneName == [n \in Names |-> o]
TwoWrites == [n \in Names |-> 2]
ThreeWrites == [n \in Names |-> 3]
AllNames == [p \in Prototypes |-> Names]
NoNames == [p \in Prototypes |-> {}]
ToOwner == [p \in Prototypes |-> o]
ToAnyone == [p \in Prototypes |-> AnyHost]
OthersWant == [h \in Hosts |-> IF h = o THEN {} ELSE {P}]

Register ==
  INSTANCE TupleRegister WITH
    Readers <- ReadersOf(a),
    latest <- Holds(o, a),
    copy <- [h \in ReadersOf(a) |-> Holds(h, a)]

ImplementsRegister == Register!FairSpec
=============================================================================
