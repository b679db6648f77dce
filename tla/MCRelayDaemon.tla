--------------------------- MODULE MCRelayDaemon ---------------------------
(* Three packets of one or two units, a budget of three units in a window  *)
(* of two ticks, and one error.                                            *)
EXTENDS RelayDaemon

=============================================================================
