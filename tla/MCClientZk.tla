----------------------------- MODULE MCClientZk -----------------------------
(* A client of a chain of two servers: see client.cfg. *)
EXTENDS ClientZk

=============================================================================
