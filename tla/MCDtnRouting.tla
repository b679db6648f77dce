---------------------------- MODULE MCDtnRouting ----------------------------
(* An origin, a destination and two relays. *)
EXTENDS DtnRouting

CONSTANTS o, r1, r2, d

MCNodes == {o, r1, r2, d}
=============================================================================
