--------------------------- MODULE MCSupervisor ---------------------------
(* Instances of Supervisor: one command, with two threads of each kind. *)
EXTENDS Supervisor
=============================================================================
