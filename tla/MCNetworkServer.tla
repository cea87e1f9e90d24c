-------------------------- MODULE MCNetworkServer --------------------------
(* The connections of a server: see connections.cfg. *)
EXTENDS NetworkServer

=============================================================================
