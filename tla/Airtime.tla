------------------------------ MODULE Airtime ------------------------------
(***************************************************************************)
(* Airtime of a set of transmissions, shared by the duty-cycle trackers:   *)
(* sum(r.duration for r in records), in whole units.  air gives each       *)
(* transmission its units; most bounds the units of one transmission.      *)
(***************************************************************************)
EXTENDS Naturals, FiniteSets

Units(S, air, most) == {u \in S \X (1..most) : u[2] <= air[u[1]]}

AirtimeOf(S, air, most) == Cardinality(Units(S, air, most))

=============================================================================
