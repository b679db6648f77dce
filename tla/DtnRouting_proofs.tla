------------------------- MODULE DtnRouting_proofs -------------------------
(***************************************************************************)
(* Proofs about the routing of a bundle: it is delivered once, and spray    *)
(* and wait keeps to its copies, for every set of nodes, every number of    *)
(* copies, hop limit and time to live.                                     *)
(***************************************************************************)
EXTENDS DtnRouting, FiniteSetTheorems, TLAPS

-----------------------------------------------------------------------------
(* Type correctness. *)

LEMMA GiveType ==
    ASSUME TypeOK, NEW n \in Nodes
    PROVE  /\ Give(n) \in Nat
           /\ copies[n] - Give(n) \in 1..copies[n]
           /\ strategy = "spray" /\ copies[n] > 1 => copies[n] - Give(n) < copies[n]
<1> DEFINE c == copies[n]
<1>1. c \in Nat /\ c >= 1
    BY RoutingAssumption DEF TypeOK
<1> HIDE DEF c
<1>2. c > 1 => c \div 2 \in Nat /\ c - c \div 2 \in 1..c /\ c - c \div 2 < c
    BY <1>1
<1> QED
    BY <1>1, <1>2 DEF Give, c

LEMMA ReceiveType ==
    ASSUME TypeOK, NEW n \in Nodes, NEW m \in Nodes, OnReceive(n, m)
    PROVE  /\ held' \subseteq Nodes \ {Dest}
           /\ copies' \in [Nodes -> 1..SprayCopies]
           /\ hops' \in [Nodes -> Nat]
           /\ to' \in [Nodes -> SUBSET Nodes]
           /\ left' \in [Nodes -> 0..TTL]
           /\ deliveries' \in Nat
           /\ carriers' \subseteq Nodes
<1> USE RoutingAssumption
<1>1. CASE UNCHANGED <<entryVars, carriers>> /\ deliveries' \in {deliveries, deliveries + 1}
    BY <1>1 DEF TypeOK, entryVars
<1>2. CASE m # Dest /\ Store(n, m)
    BY <1>2 DEF TypeOK, Store
<1> QED
    BY <1>1, <1>2 DEF OnReceive

LEMMA TypeInit == Init => TypeOK
<1> SUFFICES ASSUME Init PROVE TypeOK
    OBVIOUS
<1>1. 1 \in 1..SprayCopies /\ SprayCopies \in 1..SprayCopies
    BY RoutingAssumption
<1>2. copies \in [Nodes -> 1..SprayCopies]
    BY <1>1 DEF Init
<1>3. TTL \in 0..TTL /\ 0 \in 0..MaxDups
    BY RoutingAssumption
<1> QED
    BY <1>2, <1>3, RoutingAssumption DEF Init, TypeOK

LEMMA TypeStep == TypeOK /\ [Next]_vars => TypeOK'
<1> SUFFICES ASSUME TypeOK, [Next]_vars PROVE TypeOK'
    OBVIOUS
<1> USE RoutingAssumption DEF entryVars
<1>1. ASSUME NEW n \in Nodes, NEW m \in Nodes, Encounter(n, m) PROVE TypeOK'
    <2>1. copies' \in [Nodes -> 1..SprayCopies]
        <3>1. copies[n] - Give(n) \in 1..SprayCopies
            BY GiveType DEF TypeOK
        <3> QED
            BY <1>1, <3>1 DEF Encounter, TypeOK
    <2> QED
        BY <1>1, <2>1 DEF Encounter, TypeOK
<1>2. ASSUME NEW n \in Nodes, NEW m \in Nodes, Arrive(n, m) \/ ArriveTwice(n, m) PROVE TypeOK'
    <2>1. OnReceive(n, m) /\ strategy' = strategy /\ expires' = expires /\ lost' = lost
        BY <1>2 DEF Arrive, ArriveTwice
    <2>2. air' \subseteq air /\ dups' \in 0..MaxDups
        BY <1>2 DEF Arrive, ArriveTwice, TypeOK
    <2> QED
        BY <2>1, <2>2, ReceiveType DEF TypeOK
<1>3. ASSUME NEW n \in Nodes, NEW m \in Nodes, Lose(n, m) PROVE TypeOK'
    BY <1>3 DEF Lose, TypeOK
<1>4. ASSUME NEW n \in Nodes, Prune(n) PROVE TypeOK'
    BY <1>4 DEF Prune, TypeOK
<1>5. CASE Tick
    BY <1>5 DEF Tick, TypeOK
<1>6. CASE UNCHANGED vars
    BY <1>6 DEF vars, TypeOK
<1> QED
    BY <1>1, <1>2, <1>3, <1>4, <1>5, <1>6 DEF Next

\* Every variable of the routers keeps its type.
THEOREM TypeCorrect == Spec => []TypeOK
<1> QED
    BY TypeInit, TypeStep, PTL DEF Spec

-----------------------------------------------------------------------------
(* One delivery. *)

\* A destination that has the bundle does not take it again.
THEOREM DeliveredOnceHolds == Spec => []DeliveredOnce
<1>1. Init => DeliveredOnce
    BY DEF Init, DeliveredOnce
<1>2. TypeOK /\ DeliveredOnce /\ [Next]_vars => DeliveredOnce'
    <2> SUFFICES ASSUME TypeOK, DeliveredOnce, [Next]_vars PROVE DeliveredOnce'
        OBVIOUS
    <2>1. ASSUME NEW n \in Nodes, NEW m \in Nodes, OnReceive(n, m) PROVE DeliveredOnce'
        BY <2>1 DEF OnReceive, Known, Store, DeliveredOnce, TypeOK
    <2>2. deliveries' = deliveries \/ \E n, m \in Nodes : OnReceive(n, m)
        BY DEF Next, Encounter, Arrive, ArriveTwice, Lose, Prune, Tick, vars
    <2> QED
        BY <2>1, <2>2 DEF DeliveredOnce
<1> QED
    BY <1>1, <1>2, TypeCorrect, PTL DEF Spec

-----------------------------------------------------------------------------
(* The budget of spray and wait. *)

\* Who carries the bundle, or will when what is under way arrives.
Given == {Origin} \cup { m \in Nodes \ {Dest} : m \in carriers \/ \E n \in Nodes : <<n, m>> \in air }

LEMMA GivenFinite == TypeOK => Given \subseteq Nodes /\ IsFiniteSet(Given)
    BY RoutingAssumption, FS_Subset DEF Given

\* Only the origin has copies to give, it never gets the bundle back, and what
\* it gave away and still has to give is within the budget.
Budget ==
    /\ carriers \subseteq Given
    /\ \A n \in Nodes \ {Origin} : copies[n] = 1
    /\ \A n \in Nodes : <<n, Origin>> \notin air
    /\ Cardinality(Given) <= SprayCopies
    /\ Origin \in held => Cardinality(Given) + copies[Origin] <= SprayCopies + 1

\* A step that adds nobody to Given and no copies to the origin keeps it.
LEMMA BudgetKept ==
    ASSUME TypeOK, Budget, TypeOK', Given' \subseteq Given,
           Origin \in held' => Origin \in held /\ copies'[Origin] <= copies[Origin]
    PROVE  /\ Cardinality(Given)' <= SprayCopies
           /\ Origin \in held' => Cardinality(Given)' + copies'[Origin] <= SprayCopies + 1
<1>1. IsFiniteSet(Given) /\ IsFiniteSet(Given')
    BY GivenFinite, FS_Subset
<1>2. Cardinality(Given)' <= Cardinality(Given) /\ Cardinality(Given) \in Nat /\ Cardinality(Given)' \in Nat
    BY <1>1, FS_Subset, FS_CardinalityType
<1>3. copies[Origin] \in Nat /\ copies'[Origin] \in Nat /\ SprayCopies \in Nat
    BY RoutingAssumption DEF TypeOK
<1> QED
    BY <1>2, <1>3 DEF Budget

LEMMA BudgetInit == Init /\ strategy = "spray" => Budget
<1> SUFFICES ASSUME Init, strategy = "spray" PROVE Budget
    OBVIOUS
<1>1. Given = {Origin} /\ carriers = {Origin} /\ copies[Origin] = SprayCopies /\ air = {}
    BY RoutingAssumption DEF Init, Given
<1>2. Cardinality(Given) = 1
    BY <1>1, FS_Singleton
<1> QED
    BY <1>1, <1>2, RoutingAssumption DEF Init, Budget

LEMMA BudgetStep ==
    ASSUME TypeOK, Budget, strategy = "spray", [Next]_vars
    PROVE  Budget'
<1> USE RoutingAssumption DEF entryVars
<1>0. TypeOK'
    BY TypeStep
<1>1. ASSUME NEW n \in Nodes, NEW m \in Nodes, Encounter(n, m) PROVE Budget'
    <2>1. n \in held /\ m \notin held /\ MaySpray(n, m) /\ n # Dest
        BY <1>1 DEF Encounter, ShouldForward, Known, TypeOK
    <2>2. /\ copies[n] - Give(n) \in 1..copies[n]
          /\ copies[n] > 1 => copies[n] - Give(n) < copies[n]
        BY GiveType
    <2>3. copies' = [copies EXCEPT ![n] = copies[n] - Give(n)] /\ held' = held
          /\ carriers' = carriers /\ air' = air \cup {<<n, m>>}
        BY <1>1 DEF Encounter
    <2>4. \A k \in Nodes \ {Origin} : copies'[k] = 1
        BY <2>2, <2>3 DEF Budget, TypeOK
    <2>5. m # Origin
        BY <2>1 DEF MaySpray, Budget
    <2>6. carriers' \subseteq Given' /\ \A k \in Nodes : <<k, Origin>> \notin air'
        BY <2>3, <2>5 DEF Budget, Given
    <2>7. CASE m = Dest
        <3>1. Given' \subseteq Given
            BY <2>3, <2>7 DEF Given
        <3>2. copies'[Origin] <= copies[Origin]
            BY <2>2, <2>3 DEF TypeOK
        <3> QED
            BY <1>0, <2>3, <2>4, <2>6, <3>1, <3>2, BudgetKept DEF Budget
    <2>8. CASE m # Dest
        <3>1. n = Origin /\ copies[n] > 1
            BY <2>1, <2>8 DEF MaySpray, Budget
        <3>2. Given' \subseteq Given \cup {m}
            BY <2>3 DEF Given
        <3>3. Cardinality(Given)' <= Cardinality(Given) + 1
              /\ Cardinality(Given) \in Nat /\ Cardinality(Given)' \in Nat
            <4>1. IsFiniteSet(Given)
                BY GivenFinite
            <4>2. IsFiniteSet(Given \cup {m}) /\ Cardinality(Given) \in Nat
                  /\ Cardinality(Given \cup {m}) <= Cardinality(Given) + 1
                <5>1. Cardinality(Given) \in Nat
                    BY <4>1, FS_CardinalityType
                <5>2. /\ IsFiniteSet(Given \cup {m})
                      /\ Cardinality(Given \cup {m}) \in {Cardinality(Given), Cardinality(Given) + 1}
                    BY <4>1, FS_AddElement, Zenon
                <5> QED
                    BY <5>1, <5>2
            <4>3. IsFiniteSet(Given') /\ Cardinality(Given)' <= Cardinality(Given \cup {m})
                BY <3>2, <4>2, FS_Subset
            <4> QED
                BY <4>2, <4>3, FS_CardinalityType
        <3>4. copies'[Origin] \in Nat /\ copies[Origin] \in Nat
              /\ copies'[Origin] <= copies[Origin] - 1
            <4>1. copies[Origin] \in 1..SprayCopies /\ copies'[Origin] = copies[n] - Give(n)
                BY <2>3, <3>1 DEF TypeOK
            <4>2. copies'[Origin] \in 1..copies[Origin] /\ copies'[Origin] < copies[Origin]
                BY <2>2, <3>1, <4>1
            <4>3. \A a \in 1..SprayCopies : \A b \in 1..a : b < a => b \in Nat /\ a \in Nat /\ b <= a - 1
                OBVIOUS
            <4> QED
                BY <4>1, <4>2, <4>3
        <3>5. Cardinality(Given) + copies[Origin] <= SprayCopies + 1
            BY <2>1, <3>1 DEF Budget
        <3>6. /\ Cardinality(Given)' + copies'[Origin] <= SprayCopies + 1
              /\ Cardinality(Given)' <= SprayCopies
            <4>1. copies'[Origin] >= 1
                BY <1>0 DEF TypeOK
            <4> QED
                BY <3>3, <3>4, <3>5, <4>1
        <3> QED
            BY <2>4, <2>6, <3>6 DEF Budget
    <2> QED
        BY <2>7, <2>8
<1>2. ASSUME NEW n \in Nodes, NEW m \in Nodes, Arrive(n, m) \/ ArriveTwice(n, m) PROVE Budget'
    <2>1. OnReceive(n, m) /\ air' \subseteq air /\ <<n, m>> \in air /\ m # Origin
        BY <1>2 DEF Arrive, ArriveTwice, Budget
    <2>2. carriers' \subseteq carriers \cup {m} /\ (m = Dest => carriers' = carriers)
        BY <2>1 DEF OnReceive, Store
    <2>3. carriers' \subseteq Given /\ carriers \subseteq carriers'
        BY <2>1, <2>2 DEF Given, Budget, OnReceive, Store
    <2>4. Given' \subseteq Given /\ carriers' \subseteq Given'
        BY <1>0, <2>1, <2>3 DEF Given, TypeOK
    <2>5. /\ \A k \in Nodes \ {Origin} : copies'[k] = 1
          /\ copies'[Origin] = copies[Origin]
          /\ Origin \in held' => Origin \in held
        BY <2>1 DEF OnReceive, Store, Budget, TypeOK
    <2>6. copies'[Origin] <= copies[Origin]
        BY <2>5 DEF TypeOK
    <2> QED
        BY <1>0, <2>1, <2>4, <2>5, <2>6, BudgetKept DEF Budget
<1>3. ASSUME NEW n \in Nodes, NEW m \in Nodes, Lose(n, m) PROVE Budget'
    <2>1. Given' \subseteq Given /\ carriers' = carriers /\ copies' = copies /\ held' = held
        BY <1>3 DEF Lose, Given
    <2>2. carriers' \subseteq Given' /\ \A k \in Nodes : <<k, Origin>> \notin air'
        BY <1>3 DEF Lose, Given, Budget
    <2>3. copies'[Origin] <= copies[Origin]
        BY <2>1 DEF TypeOK
    <2> QED
        BY <1>0, <2>1, <2>2, <2>3, BudgetKept DEF Budget
<1>4. ASSUME NEW n \in Nodes, Prune(n) PROVE Budget'
    <2>1. Given' = Given /\ carriers' = carriers /\ air' = air
        BY <1>4 DEF Prune, Given
    <2>2. \A k \in Nodes \ {Origin} : copies'[k] = 1
        BY <1>4 DEF Prune, Budget, TypeOK
    <2>3. Origin \in held' => Origin \in held /\ copies'[Origin] <= copies[Origin]
        BY <1>4 DEF Prune, TypeOK
    <2> QED
        BY <1>0, <2>1, <2>2, <2>3, BudgetKept DEF Budget
<1>5. CASE Tick \/ UNCHANGED vars
    BY <1>5 DEF Tick, vars, Budget, Given
<1> QED
    BY <1>1, <1>2, <1>3, <1>4, <1>5 DEF Next

\* However nodes meet and whatever is lost, late, repeated or expired, no more
\* nodes carry a bundle than spray_copies.
THEOREM CopyBudgetHolds == Spec => []CopyBudget
<1>1. Init => TypeOK /\ (strategy = "spray" => Budget)
    BY TypeInit, BudgetInit
<1>2. TypeOK /\ (strategy = "spray" => Budget) /\ [Next]_vars
        => (TypeOK /\ (strategy = "spray" => Budget))'
    <2>1. [Next]_vars => strategy' = strategy
        BY DEF Next, Encounter, Arrive, ArriveTwice, Lose, Prune, Tick, vars
    <2> QED
        BY <2>1, TypeStep, BudgetStep
<1>3. TypeOK /\ (strategy = "spray" => Budget) => CopyBudget
    <2> SUFFICES ASSUME TypeOK, Budget PROVE Cardinality(carriers) <= SprayCopies
        BY DEF CopyBudget
    <2>1. Cardinality(carriers) <= Cardinality(Given) /\ Cardinality(carriers) \in Nat
          /\ Cardinality(Given) \in Nat
        BY GivenFinite, FS_Subset, FS_CardinalityType DEF Budget
    <2> QED
        BY <2>1, RoutingAssumption DEF Budget
<1> QED
    BY <1>1, <1>2, <1>3, PTL DEF Spec

=============================================================================
