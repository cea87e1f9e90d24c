---------------------------- MODULE MCBubbleSort ----------------------------
(* Small instances of BubbleSort: two models tell cars of one year apart.   *)
EXTENDS BubbleSort

CONSTANTS m1, m2, toyota

MCModelo == {m1, m2}
MCAno == {2001, 2002, 2003}
MCMarca == {toyota}
=============================================================================
