-------------------------- MODULE MCChainTopology --------------------------
(* Small instances of ChainTopology for TLC. *)
EXTENDS ChainTopology

=============================================================================
