--------------------------- MODULE MCTxEscalator ---------------------------
(* Two calls of the node's account. The liveness property rules out        *)
(* symmetry.                                                               *)
EXTENDS TxEscalator
CONSTANTS c1, c2
=============================================================================
