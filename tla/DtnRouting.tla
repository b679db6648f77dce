----------------------------- MODULE DtnRouting -----------------------------
(***************************************************************************)
(* Multi-hop routing of a bundle: a DTNRouter (protocol/dtn_routing.py) at  *)
(* each node, which meet in pairs.  A router decides on each bundle alone,  *)
(* so one bundle stands for all of them; it is followed from the moment its *)
(* origin has registered it with originate.                                *)
(*                                                                         *)
(* What on_encounter returns is transmitted by the caller: a transmission  *)
(* may be delayed, lost or duplicated before on_receive is called.         *)
(***************************************************************************)
EXTENDS Integers, FiniteSets

CONSTANTS
    Nodes,
    Origin, Dest, \* where the bundle comes from and goes to
    SprayCopies,  \* spray_copies
    MaxHops,      \* max_hops
    TTL,          \* bundle_ttl_s of the routers that let bundles expire
    MaxDups       \* bound: transmissions that arrive twice

ASSUME RoutingAssumption ==
    /\ IsFiniteSet(Nodes)
    /\ Origin \in Nodes
    /\ Dest \in Nodes \ {Origin}
    /\ SprayCopies \in Nat \ {0}
    /\ MaxHops \in Nat
    /\ TTL \in Nat \ {0}
    /\ MaxDups \in Nat

VARIABLES
    strategy,   \* of all routers
    expires,    \* whether bundle_ttl_s is positive
    held,       \* nodes that have the bundle in their routing_table
    copies,     \* and of their entries there: copies_remaining,
    hops,       \* hop_count,
    to,         \* forwarded_to, which source_node is in,
    left,       \* time until expires_at
    deliveries, \* times the destination took the bundle as new
    air,        \* transmissions under way
    dups,       \* transmissions that arrived twice
    carriers,   \* history: nodes that ever stored the bundle
    lost        \* history: a transmission was lost

entryVars == <<held, copies, hops, to, left>>
vars == <<strategy, expires, entryVars, deliveries, air, dups, carriers, lost>>

-----------------------------------------------------------------------------

Expired(n) == expires /\ left[n] = 0

\* Nodes whose entry of the bundle is alive.
Alive == { n \in held : ~Expired(n) }

\* What was delivered is forgotten.
KnownHeld(n) == n \in held

\* The bundle is in the summary vector of n, and a duplicate if it arrives.
Known(n) == n \in held \/ (n = Dest /\ deliveries > 0)

\* Relays spray as well as the origin.
MaySprayOne(n, m) == copies[n] >= 1 \/ m = Dest

\* The choice of SPRAY_AND_WAIT: spray, or wait for the destination.
MaySpray(n, m) == copies[n] > 1 \/ m = Dest

\* The destination is no exception while a node waits.
ShouldForwardToRelays(n, m) ==
    /\ ~Expired(n) /\ hops[n] < MaxHops
    /\ m \notin to[n]
    /\ \/ strategy = "direct" /\ m = Dest
       \/ strategy = "epidemic"
       \/ strategy = "spray" /\ copies[n] > 1

\* should_forward.  The node that a bundle came from is in forwarded_to, where
\* on_receive puts it.
ShouldForward(n, m) ==
    /\ ~Expired(n) /\ hops[n] < MaxHops
    /\ m \notin to[n]
    /\ \/ strategy = "direct" /\ m = Dest
       \/ strategy = "epidemic"
       \/ strategy = "spray" /\ MaySpray(n, m)

\* A node gives its last copy away and keeps the entry.
GiveAll(n) == IF strategy = "spray" /\ copies[n] > 1 THEN copies[n] ELSE 0

\* Copies that on_encounter takes off the entry: half of them, in the spray.
Give(n) == IF strategy = "spray" /\ copies[n] > 1 THEN copies[n] \div 2 ELSE 0

-----------------------------------------------------------------------------

\* Every field of a table without the bundle has its initial value.
Init ==
    /\ strategy \in {"direct", "epidemic", "spray"}
    /\ expires \in BOOLEAN
    /\ held = {Origin}
    /\ copies = [n \in Nodes |-> IF n = Origin /\ strategy = "spray" THEN SprayCopies ELSE 1]
    /\ hops = [n \in Nodes |-> 0]
    /\ to = [n \in Nodes |-> {}]
    /\ left = [n \in Nodes |-> TTL]
    /\ deliveries = 0
    /\ air = {}
    /\ dups = 0
    /\ carriers = {Origin}
    /\ lost = FALSE

\* n meets m, whose summary lacks the bundle, and gives it away.
Encounter(n, m) ==
    /\ n \in held
    /\ ~Known(m)
    /\ ShouldForward(n, m)
    /\ <<n, m>> \notin air
    /\ air' = air \cup {<<n, m>>}
    /\ to' = [to EXCEPT ![n] = @ \cup {m}]
    /\ hops' = [hops EXCEPT ![n] = @ + 1]
    /\ copies' = [copies EXCEPT ![n] = @ - Give(n)]
    /\ UNCHANGED <<strategy, expires, held, left, deliveries, dups, carriers, lost>>

\* prune_expired and on_encounter delete an expired entry.
Prune(n) ==
    /\ n \in held
    /\ Expired(n)
    /\ held' = held \ {n}
    /\ copies' = [copies EXCEPT ![n] = 1]
    /\ hops' = [hops EXCEPT ![n] = 0]
    /\ to' = [to EXCEPT ![n] = {}]
    /\ left' = [left EXCEPT ![n] = TTL]
    /\ UNCHANGED <<strategy, expires, deliveries, air, dups, carriers, lost>>

\* on_receive at a node that is not the destination: an entry of its own.
Store(n, m) ==
    /\ held' = held \cup {m}
    /\ copies' = [copies EXCEPT ![m] = 1]
    /\ hops' = [hops EXCEPT ![m] = 1]
    /\ to' = [to EXCEPT ![m] = {n}]
    /\ left' = [left EXCEPT ![m] = TTL]
    /\ carriers' = carriers \cup {m}
    /\ deliveries' = deliveries

\* on_receive at m of what n sent.
OnReceive(n, m) ==
    \/ /\ Known(m)
       /\ UNCHANGED <<entryVars, deliveries, carriers>>
    \/ /\ ~Known(m)
       /\ m = Dest
       /\ deliveries' = deliveries + 1
       /\ UNCHANGED <<entryVars, carriers>>
    \/ /\ ~Known(m)
       /\ m # Dest
       /\ Store(n, m)

Arrive(n, m) ==
    /\ <<n, m>> \in air
    /\ air' = air \ {<<n, m>>}
    /\ OnReceive(n, m)
    /\ UNCHANGED <<strategy, expires, dups, lost>>

ArriveTwice(n, m) ==
    /\ <<n, m>> \in air
    /\ dups < MaxDups
    /\ dups' = dups + 1
    /\ OnReceive(n, m)
    /\ UNCHANGED <<strategy, expires, air, lost>>

Lose(n, m) ==
    /\ <<n, m>> \in air
    /\ air' = air \ {<<n, m>>}
    /\ lost' = TRUE
    /\ UNCHANGED <<strategy, expires, entryVars, deliveries, dups, carriers>>

Tick ==
    /\ expires
    /\ \E n \in held : left[n] > 0
    /\ left' = [n \in Nodes |-> IF n \in held /\ left[n] > 0 THEN left[n] - 1 ELSE left[n]]
    /\ UNCHANGED <<strategy, expires, held, copies, hops, to, deliveries, air, dups,
                   carriers, lost>>

Next ==
    \/ \E n, m \in Nodes :
         \/ Encounter(n, m)
         \/ Arrive(n, m)
         \/ ArriveTwice(n, m)
         \/ Lose(n, m)
    \/ \E n \in Nodes : Prune(n)
    \/ Tick

Spec == Init /\ [][Next]_vars

\* Each node meets the destination again and again, what is under way arrives
\* or is lost, and time passes.
FairSpec ==
    /\ Spec
    /\ \A n \in Nodes : SF_vars(Encounter(n, Dest))
    /\ WF_vars(\E n, m \in Nodes : Arrive(n, m) \/ Lose(n, m))
    /\ WF_vars(Tick)

-----------------------------------------------------------------------------

\* Every variable has its type.
TypeOK ==
    /\ strategy \in {"direct", "epidemic", "spray"}
    /\ expires \in BOOLEAN
    /\ held \subseteq Nodes \ {Dest}
    /\ copies \in [Nodes -> 1..SprayCopies]
    /\ hops \in [Nodes -> Nat]
    /\ to \in [Nodes -> SUBSET Nodes]
    /\ left \in [Nodes -> 0..TTL]
    /\ deliveries \in Nat
    /\ air \subseteq Nodes \X Nodes
    /\ dups \in 0..MaxDups
    /\ carriers \subseteq Nodes
    /\ lost \in BOOLEAN

\* The destination takes the bundle once, whatever arrives twice and whoever
\* else still carries it.
DeliveredOnce == deliveries <= 1

\* "L copies in spray phase, then direct delivery" (dtn_routing.py:10): never
\* more than spray_copies nodes carry the bundle, however they meet and
\* whatever is lost, duplicated or expires.
CopyBudget == strategy = "spray" => Cardinality(carriers) <= SprayCopies

\* A bundle that may expire does not outlive its copies, except in the flood,
\* where each hop starts its time anew.
BundleDies == expires /\ strategy # "epidemic" => <>[](Alive = {})

\* A bundle that does not expire gets to a destination that its carriers keep
\* meeting, unless a transmission is lost: forwarded_to bars a second one.
MeetingDelivers == ~expires => <>(deliveries > 0 \/ lost)
=============================================================================
