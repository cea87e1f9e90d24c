--------------------------- MODULE MCChainSystem ---------------------------
(* Three servers, one of which joins: see system.cfg. *)
EXTENDS ChainSystem

=============================================================================
