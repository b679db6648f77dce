-------------------------------- MODULE TxPlan --------------------------------
(***************************************************************************)
(* The smart pass scheduler: messages queued by priority and age, and the  *)
(* plan of those that fit the duty cycle in one pass.  A plan takes        *)
(* nothing off the queue, and nothing else does.                           *)
(*                                                                         *)
(* Airtime is counted in quarters of a symbol at spreading factor 7.       *)
(***************************************************************************)
EXTENDS Naturals, Sequences, FiniteSets, SequencesExt

CONSTANTS
    Sizes,      \* bound: compressed sizes
    Budget,     \* duty_cycle_remaining_s; the route never says how much remains
    Elevations, \* bound: maximum elevations
    Waiting,    \* bound: messages queued
    Times       \* bound: values of created_at

TxPlanAssumption == Sizes \cup Elevations \subseteq Nat /\ {Budget, Waiting, Times} \subseteq Nat

VARIABLES queue, plan

vars == <<queue, plan>>

NoPlan == [elevation |-> 0, scheduled |-> {}, airtime |-> 0]
Priorities == 0..3 \* SOS, urgent, normal, bulk

-----------------------------------------------------------------------------
Before(m, n) == m.priority < n.priority \/ (m.priority = n.priority /\ m.created <= n.created)

\* Mutant: a message goes to the end, whatever its priority.
EnqueuedLast(q, m) == Append(q, m)
\* The sort is stable: a message goes behind those of its priority and age.
Enqueued(q, m) == InsertAt(q, 1 + Cardinality({i \in DOMAIN q : Before(q[i], m)}), m)

SfForElevation(el) ==
    IF el > 60 THEN 7 ELSE IF el > 45 THEN 8 ELSE IF el > 30 THEN 9
    ELSE IF el > 20 THEN 10 ELSE IF el > 10 THEN 11 ELSE 12

SymbolTime(sf) == <<1, 2, 4, 8, 16, 32>>[sf - 6] \* it doubles with each
SymbolsIn(size) == IF size \div 2 > 8 THEN size \div 2 ELSE 8
Airtime(size, el) == SymbolTime(SfForElevation(el)) * (4 * 8 + 17 + 4 * SymbolsIn(size))

\* Down the queue: what fits in what is left is scheduled, the rest deferred.
Greedy(q, el) ==
    LET upto[i \in 0..Len(q)] ==
            IF i = 0 THEN [elevation |-> el, scheduled |-> {}, airtime |-> 0]
            ELSE IF upto[i - 1].airtime + Airtime(q[i].size, el) <= Budget
            THEN [elevation |-> el, scheduled |-> upto[i - 1].scheduled \cup {i},
                  airtime |-> upto[i - 1].airtime + Airtime(q[i].size, el)]
            ELSE upto[i - 1]
    IN upto[Len(q)]

-----------------------------------------------------------------------------
Init == queue = <<>> /\ plan = NoPlan

Enqueue(m) ==
    /\ Len(queue) < Waiting
    /\ queue' = Enqueued(queue, m)
    /\ plan' = NoPlan

GetTransmissionPlan(el) ==
    /\ plan = NoPlan
    /\ plan' = Greedy(queue, el)
    /\ UNCHANGED queue

Next ==
    \/ \E p \in Priorities, t \in 1..Times, s \in Sizes :
           Enqueue([priority |-> p, created |-> t, size |-> s])
    \/ \E el \in Elevations : GetTransmissionPlan(el)

Spec == Init /\ [][Next]_vars

-----------------------------------------------------------------------------
TypeOK ==
    /\ Len(queue) <= Waiting
    /\ \A i \in DOMAIN queue : queue[i] \in [priority : Priorities, created : 1..Times, size : Sizes]
    /\ plan.scheduled \subseteq DOMAIN queue /\ plan.airtime \in 0..Budget

Load(messages) ==
    LET sum[k \in 0..Len(queue)] ==
            IF k = 0 THEN 0
            ELSE sum[k - 1] + IF k \in messages THEN Airtime(queue[k].size, plan.elevation) ELSE 0
    IN sum[Len(queue)]

\* A message is deferred only because those at least as urgent, itself among
\* them, do not fit the duty cycle: no bulk message takes the place of an SOS.
PlanKeepsPriorities ==
    plan # NoPlan =>
        /\ Load(plan.scheduled) <= Budget
        /\ \A d \in DOMAIN queue \ plan.scheduled :
               Load({i \in DOMAIN queue : i = d \/ (i \in plan.scheduled /\ Before(queue[i], queue[d]))})
                   > Budget

=============================================================================
