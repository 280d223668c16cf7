--------------------------- MODULE MCConnections ---------------------------
(* Instances of Connections: two other peis and one autohost. *)
EXTENDS Connections
=============================================================================
