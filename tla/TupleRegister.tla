--------------------------- MODULE TupleRegister ---------------------------
(***************************************************************************)
(* What a subscriber is promised of a tuple (tuples.h:45-90): its copy is  *)
(* a value the owner gave the tuple, never goes back to an older one, and  *)
(* is the latest value in the end.                                         *)
(***************************************************************************)
EXTENDS Naturals

CONSTANT Readers

VARIABLES
  latest,  \* when the owner gave the tuple its value
  copy     \* and when the value was written that each subscriber holds, 0 for none

vars == <<latest, copy>>

Init ==
  /\ latest = 0
  /\ copy = [h \in Readers |-> 0]

Write ==
  /\ latest' \in Nat /\ latest' > latest
  /\ UNCHANGED copy

Update(h) ==
  /\ \E v \in copy[h] + 1 .. latest : copy' = [copy EXCEPT ![h] = v]
  /\ UNCHANGED latest

Next == Write \/ \E h \in Readers : Update(h)

Spec == Init /\ [][Next]_vars

\* A subscriber that is behind is updated in the end.
Fairness == \A h \in Readers : WF_vars(Update(h))

FairSpec == Spec /\ Fairness
=============================================================================
