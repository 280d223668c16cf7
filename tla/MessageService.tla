-------------------------- MODULE MessageService --------------------------
(***************************************************************************)
(* What the reliable mode of the P2P layer promises its users (p2p.h:48,   *)
(* p2p.h:696): a message that was accepted is delivered at most once, its  *)
(* hook is called once, with success only if it was delivered.             *)
(***************************************************************************)
EXTENDS Naturals

CONSTANTS
  Messages,
  Guaranteed   \* the messages sent in reliable mode under a hook

VARIABLES
  phase,     \* of each message
  delivered  \* whether each message reached its receiver

vars == <<phase, delivered>>
Phases == {"unsent", "rejected", "accepted", "succeeded", "failed"}

Init ==
  /\ phase = [m \in Messages |-> "unsent"]
  /\ delivered = [m \in Messages |-> FALSE]

\* The send call returns: with an error, or with the message on its way, or
\* with its hook already told of a failure.
Send(m) ==
  /\ phase[m] = "unsent"
  /\ \E p \in {"rejected", "accepted", "failed"} : phase' = [phase EXCEPT ![m] = p]
  /\ UNCHANGED delivered

\* A failure report does not mean that the message is not still under way.
Deliver(m) ==
  /\ phase[m] \in {"accepted", "failed"}
  /\ ~ delivered[m]
  /\ delivered' = [delivered EXCEPT ![m] = TRUE]
  /\ UNCHANGED phase

\* The hooks of the messages M are called, in one handler.
Report(M, outcome) ==
  /\ M # {}
  /\ \A m \in M : /\ phase[m] = "accepted"
                  /\ outcome = "succeeded" => delivered[m]
  /\ phase' = [m \in Messages |-> IF m \in M THEN outcome ELSE phase[m]]
  /\ UNCHANGED delivered

Settle(M) == \E outcome \in {"succeeded", "failed"} : Report(M, outcome)

Next ==
  \/ \E m \in Messages : Send(m) \/ Deliver(m)
  \/ \E M \in SUBSET Messages : Settle(M)

Fairness ==
  \A m \in Guaranteed : WF_vars(\E M \in SUBSET Messages : m \in M /\ Settle(M))

Spec == Init /\ [][Next]_vars /\ Fairness
===========================================================================
