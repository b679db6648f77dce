----------------------------- MODULE MCTxQueue -----------------------------
(* Two users, three messages of one or two units; the cfg sets the cap and   *)
(* the window in the same units.                                             *)
EXTENDS TxQueue

=============================================================================
