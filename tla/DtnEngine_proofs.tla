-------------------------- MODULE DtnEngine_proofs --------------------------
(***************************************************************************)
(* Proofs about the DTN engine, for every number of windows and bundles,   *)
(* every mix of types, lifetimes, limit and number of crashes.             *)
(***************************************************************************)
EXTENDS DtnEngine, FiniteSetTheorems, TLAPS

LEMMA OldestNat == OldestAge \in Nat
BY DtnAssumption DEF OldestAge

\* Marking keeps the types of the table and of the windows.
LEMMA MarkTypes ==
    ASSUME TypeOK, NEW w \in Windows,
           NEW st \in [Ids -> BundleState \cup {"none"}],
           NEW S \in SUBSET Ids, NEW sos \in SUBSET Ids,
           Mark(w, st, S, sos)
    PROVE  /\ state' \in [Ids -> BundleState \cup {"none"}]
           /\ pc' \in [Windows -> {"closed", "next", "airing"}]
           /\ todo' \in [Windows -> SUBSET Ids]
           /\ cur' \in [Windows -> Ids \cup {0}]
           /\ \A v \in Windows : pc'[v] = "airing" => cur'[v] \in Ids
           /\ owed' \in [Windows -> SUBSET Ids]
BY DEF TypeOK, Mark, BundleState

LEMMA CleanupTypes ==
    TypeOK => CleanupExpired \in [Ids -> BundleState \cup {"none"}]
BY DEF TypeOK, CleanupExpired

LEMMA TypeStep == TypeOK /\ [Next]_vars => TypeOK'
<1> SUFFICES ASSUME TypeOK, [Next]_vars PROVE TypeOK'
  OBVIOUS
<1> USE DtnAssumption, OldestNat
<1>1. ASSUME NEW b \in Ids, QueueMessage(b) PROVE TypeOK'
  BY <1>1 DEF TypeOK, QueueMessage, windows, BundleState
<1>2. ASSUME NEW b \in Ids, ReceiveAck(b) PROVE TypeOK'
  BY <1>2 DEF TypeOK, ReceiveAck, SetState, windows, BundleState
<1>3. ASSUME NEW w \in Windows, OpenWindow(w) PROVE TypeOK'
  <2> DEFINE st == CleanupExpired
  <2>1. PICK S \in First(Limit, Pending(st)),
             T \in First(Limit, {b \in Pending(st) : type[b] = "sos"}) :
             \/ S = {} /\ state' = st /\ UNCHANGED windows
             \/ Mark(w, st, S, T)
    BY <1>3 DEF OpenWindow
  <2>2. S \in SUBSET Ids /\ T \in SUBSET Ids
    BY DEF First, Pending
  <2>3. /\ state' \in [Ids -> BundleState \cup {"none"}]
        /\ pc' \in [Windows -> {"closed", "next", "airing"}]
        /\ todo' \in [Windows -> SUBSET Ids]
        /\ cur' \in [Windows -> Ids \cup {0}]
        /\ \A v \in Windows : pc'[v] = "airing" => cur'[v] \in Ids
        /\ owed' \in [Windows -> SUBSET Ids]
    <3>1. CASE Mark(w, st, S, T)
      BY <3>1, <2>2, CleanupTypes, MarkTypes
    <3>2. CASE state' = st /\ UNCHANGED windows
      BY <3>2, CleanupTypes DEF TypeOK, windows
    <3> QED BY <2>1, <3>1, <3>2
  <2>4. UNCHANGED <<type, age, retries, aired, confirmed, crashes>>
    BY <1>3 DEF OpenWindow
  <2> QED BY <2>3, <2>4 DEF TypeOK
<1>4. ASSUME NEW w \in Windows, NextBundle(w) PROVE TypeOK'
  <2>1. Mark(w, state, todo[w], owed[w])
    BY <1>4 DEF NextBundle
  <2>2. todo[w] \in SUBSET Ids /\ owed[w] \in SUBSET Ids
    BY DEF TypeOK
  <2>3. state \in [Ids -> BundleState \cup {"none"}]
    BY DEF TypeOK
  <2>4. /\ state' \in [Ids -> BundleState \cup {"none"}]
        /\ pc' \in [Windows -> {"closed", "next", "airing"}]
        /\ todo' \in [Windows -> SUBSET Ids]
        /\ cur' \in [Windows -> Ids \cup {0}]
        /\ \A v \in Windows : pc'[v] = "airing" => cur'[v] \in Ids
        /\ owed' \in [Windows -> SUBSET Ids]
    BY <2>1, <2>2, <2>3, MarkTypes
  <2> QED BY <1>4, <2>4 DEF TypeOK, NextBundle
<1>5. ASSUME NEW w \in Windows, CloseWindow(w) PROVE TypeOK'
  BY <1>5 DEF TypeOK, CloseWindow, rows
<1>6. ASSUME NEW w \in Windows, AirSucceeds(w) PROVE TypeOK'
  BY <1>6 DEF TypeOK, AirSucceeds, Landed, SetState, BundleState
<1>7. ASSUME NEW w \in Windows, AirFails(w) PROVE TypeOK'
  BY <1>7 DEF TypeOK, AirFails, Landed, SetState, BundleState, Counted
<1>8. CASE Crash
  <2>1. aired' \subseteq Ids
    <3>1. PICK S \in SUBSET OnAir : aired' = aired \cup S
      BY <1>8 DEF Crash
    <3>2. OnAir \subseteq Ids
      BY DEF TypeOK, OnAir
    <3> QED BY <3>1, <3>2 DEF TypeOK
  <2> QED BY <1>8, <2>1 DEF TypeOK, Crash, rows
<1>9. CASE Tick
  BY <1>9 DEF TypeOK, Tick, windows
<1>10. CASE UNCHANGED vars
  BY <1>10 DEF TypeOK, vars, rows, windows
<1> QED BY <1>1, <1>2, <1>3, <1>4, <1>5, <1>6, <1>7, <1>8, <1>9, <1>10 DEF Next

-----------------------------------------------------------------------------
(* Type correctness. *)

\* Every variable keeps its type, and what a window has on the air is a row.
THEOREM TypeCorrect == Spec => []TypeOK
<1>1. Init => TypeOK
  BY DtnAssumption, OldestNat DEF Init, TypeOK
<1> QED BY <1>1, TypeStep, PTL DEF Spec

-----------------------------------------------------------------------------
(* No orphan. *)

\* As long as a window keeps its row on the air, the row is in OnAir.
LEMMA OrphanStep == TypeOK /\ NoOrphan /\ [Next]_vars => NoOrphan'
<1> SUFFICES ASSUME TypeOK, NoOrphan, [Next]_vars, crashes' = 0,
                    NEW b \in Ids, state'[b] = "transmitting"
             PROVE  \E w \in Windows : pc'[w] = "airing" /\ cur'[w] = b
  BY DEF NoOrphan, OnAir
<1> USE DtnAssumption
<1>0. ASSUME crashes = 0, state[b] = "transmitting"
      PROVE  \E w \in Windows : pc[w] = "airing" /\ cur[w] = b
  BY <1>0 DEF NoOrphan, OnAir
<1>1. ASSUME NEW n \in Ids, QueueMessage(n) PROVE \E w \in Windows : pc'[w] = "airing" /\ cur'[w] = b
  <2>1. state[b] = "transmitting" /\ crashes = 0
    BY <1>1 DEF QueueMessage, TypeOK
  <2> QED BY <1>0, <1>1, <2>1 DEF QueueMessage, windows
<1>2. ASSUME NEW n \in Ids, ReceiveAck(n) PROVE \E w \in Windows : pc'[w] = "airing" /\ cur'[w] = b
  <2>1. state[b] = "transmitting" /\ crashes = 0
    BY <1>2 DEF ReceiveAck, SetState, TypeOK
  <2> QED BY <1>0, <1>2, <2>1 DEF ReceiveAck, windows
<1>3. ASSUME NEW w \in Windows, pc[w] # "airing", crashes = 0,
             NEW st \in [Ids -> BundleState \cup {"none"}],
             \A n \in Ids : st[n] = "transmitting" => state[n] = "transmitting",
             NEW S, NEW sos, Mark(w, st, S, sos)
      PROVE  \E v \in Windows : pc'[v] = "airing" /\ cur'[v] = b
  <2>1. PICK n \in S : /\ state' = [st EXCEPT ![n] = IF @ = "none" THEN @ ELSE "transmitting"]
                       /\ cur' = [cur EXCEPT ![w] = n]
                       /\ pc' = [pc EXCEPT ![w] = "airing"]
    BY <1>3 DEF Mark
  <2>2. CASE b = n
    BY <2>1, <2>2 DEF TypeOK
  <2>3. CASE b # n
    <3>1. state[b] = "transmitting"
      BY <1>3, <2>1, <2>3
    <3>2. PICK v \in Windows : pc[v] = "airing" /\ cur[v] = b
      BY <1>0, <1>3, <3>1
    <3>3. v # w
      BY <1>3, <3>2
    <3> QED BY <2>1, <3>2, <3>3 DEF TypeOK
  <2> QED BY <2>2, <2>3
<1>4. ASSUME NEW w \in Windows, OpenWindow(w) PROVE \E v \in Windows : pc'[v] = "airing" /\ cur'[v] = b
  <2>1. PICK S, T : \/ state' = CleanupExpired /\ UNCHANGED windows
                    \/ Mark(w, CleanupExpired, S, T)
    BY <1>4 DEF OpenWindow
  <2>2. \A n \in Ids : CleanupExpired[n] = "transmitting" => state[n] = "transmitting"
    BY DEF CleanupExpired
  <2>3. pc[w] # "airing" /\ crashes = 0
    BY <1>4 DEF OpenWindow
  <2>4. CASE Mark(w, CleanupExpired, S, T)
    BY <2>2, <2>3, <2>4, <1>3, CleanupTypes
  <2>5. CASE state' = CleanupExpired /\ UNCHANGED windows
    BY <2>2, <2>3, <2>5, <1>0 DEF windows
  <2> QED BY <2>1, <2>4, <2>5
<1>5. ASSUME NEW w \in Windows, NextBundle(w) PROVE \E v \in Windows : pc'[v] = "airing" /\ cur'[v] = b
  <2>1. Mark(w, state, todo[w], owed[w]) /\ pc[w] # "airing" /\ crashes = 0
    BY <1>5 DEF NextBundle
  <2>2. state \in [Ids -> BundleState \cup {"none"}]
    BY DEF TypeOK
  <2> QED BY <2>1, <2>2, <1>3
<1>6. ASSUME NEW w \in Windows, CloseWindow(w) PROVE \E v \in Windows : pc'[v] = "airing" /\ cur'[v] = b
  <2>1. PICK v \in Windows : pc[v] = "airing" /\ cur[v] = b
    BY <1>6, <1>0 DEF CloseWindow, rows
  <2>2. v # w
    BY <1>6, <2>1 DEF CloseWindow
  <2> QED BY <1>6, <2>1, <2>2 DEF CloseWindow, TypeOK
<1>7. ASSUME NEW w \in Windows, Landed(w),
             NEW s \in {"awaiting_ack", "queued"}, state' = SetState(cur[w], s)
      PROVE  \E v \in Windows : pc'[v] = "airing" /\ cur'[v] = b
  <2>1. b # cur[w]
    <3> SUFFICES ASSUME b = cur[w] PROVE FALSE
      OBVIOUS
    <3>1. state'[b] = IF state[b] # "none" THEN s ELSE state[b]
      BY <1>7 DEF SetState, Exists, TypeOK
    <3> QED BY <3>1
  <2>2. state[b] = "transmitting" /\ crashes = 0
    BY <1>7, <2>1 DEF SetState, Landed, TypeOK
  <2>3. PICK v \in Windows : pc[v] = "airing" /\ cur[v] = b
    BY <1>0, <2>2
  <2>4. v # w
    BY <2>1, <2>3
  <2> QED BY <1>7, <2>3, <2>4 DEF Landed, TypeOK
<1>8. ASSUME NEW w \in Windows, AirSucceeds(w) \/ AirFails(w)
      PROVE  \E v \in Windows : pc'[v] = "airing" /\ cur'[v] = b
  BY <1>7, <1>8 DEF AirSucceeds, AirFails
<1>9. CASE Crash
  BY <1>9 DEF Crash, TypeOK
<1>10. CASE Tick
  BY <1>10, <1>0 DEF Tick, windows
<1>11. CASE UNCHANGED vars
  BY <1>11, <1>0 DEF vars, rows, windows
<1> QED BY <1>1, <1>2, <1>4, <1>5, <1>6, <1>8, <1>9, <1>10, <1>11 DEF Next

\* Without a crash, a row in TRANSMITTING is on the air of some window.
THEOREM NoOrphanHolds == Spec => []NoOrphan
<1>1. Init => TypeOK /\ NoOrphan
  BY DtnAssumption, OldestNat DEF Init, TypeOK, NoOrphan
<1>2. TypeOK /\ NoOrphan /\ [Next]_vars => (TypeOK /\ NoOrphan)'
  BY TypeStep, OrphanStep
<1> QED BY <1>1, <1>2, PTL DEF Spec

-----------------------------------------------------------------------------
(* SOS bundles are kept, and go first. *)

\* No step but the cleanup removes a row, and the cleanup spares SOS.
LEMMA KeptStep ==
    ASSUME TypeOK, [Next]_vars, NEW b \in Ids, type[b] = "sos", state[b] # "none"
    PROVE  state'[b] # "none"
<1> USE DtnAssumption
<1>1. ASSUME NEW st, st \in [Ids -> BundleState \cup {"none"}], st[b] # "none",
             NEW w \in Windows, NEW S, NEW sos, Mark(w, st, S, sos)
      PROVE  state'[b] # "none"
  BY <1>1 DEF Mark
<1>2. CleanupExpired[b] # "none"
  BY DEF CleanupExpired, IsExpired, TTL
<1>3. ASSUME NEW n \in Ids, QueueMessage(n) \/ ReceiveAck(n) PROVE state'[b] # "none"
  BY <1>3 DEF QueueMessage, ReceiveAck, SetState, TypeOK
<1>4. ASSUME NEW w \in Windows, OpenWindow(w) PROVE state'[b] # "none"
  <2>1. PICK S, T : state' = CleanupExpired \/ Mark(w, CleanupExpired, S, T)
    BY <1>4 DEF OpenWindow
  <2> QED BY <2>1, <1>1, <1>2, CleanupTypes
<1>5. ASSUME NEW w \in Windows, NextBundle(w) PROVE state'[b] # "none"
  <2>1. state \in [Ids -> BundleState \cup {"none"}]
    BY DEF TypeOK
  <2> QED BY <1>5, <1>1, <2>1 DEF NextBundle
<1>6. ASSUME NEW w \in Windows, AirSucceeds(w) \/ AirFails(w) PROVE state'[b] # "none"
  BY <1>6 DEF AirSucceeds, AirFails, SetState, TypeOK
<1>7. ASSUME UNCHANGED state PROVE state'[b] # "none"
  BY <1>7
<1> QED BY <1>3, <1>4, <1>5, <1>6, <1>7
        DEF Next, CloseWindow, Crash, Tick, vars, rows

\* An SOS is never dropped from the store.
THEOREM SosKeptHolds == Spec => SosKept
<1>1. TypeOK /\ [Next]_vars =>
        [\A b \in Ids : type[b] = "sos" /\ Exists(b) => state'[b] # "none"]_vars
  BY KeptStep DEF Exists
<1> QED BY <1>1, TypeCorrect, PTL DEF Spec, SosKept

\* A DELIVERED row changes only under a window that already held it.
LEMMA DeliveredStep ==
    ASSUME TypeOK, [Next]_vars, NEW b \in Ids, state[b] = "delivered",
           \A w \in Windows : b \notin todo[w] /\ cur[w] # b
    PROVE  state'[b] = "delivered"
<1>1. ASSUME NEW w \in Windows, NEW st, NEW S, NEW sos, Mark(w, st, S, sos),
             st \in [Ids -> BundleState \cup {"none"}],
             st[b] = "delivered", b \notin S
      PROVE  state'[b] = "delivered"
  BY <1>1 DEF Mark
<1>2. CleanupExpired[b] = "delivered" /\ b \notin Pending(CleanupExpired)
  BY DEF CleanupExpired, Pending
<1>3. ASSUME NEW n \in Ids, QueueMessage(n) \/ ReceiveAck(n) PROVE state'[b] = "delivered"
  BY <1>3 DEF QueueMessage, ReceiveAck, SetState, TypeOK, Fresh, Exists
<1>4. ASSUME NEW w \in Windows, OpenWindow(w) PROVE state'[b] = "delivered"
  <2>1. PICK S, T : /\ S \in First(Limit, Pending(CleanupExpired))
                    /\ state' = CleanupExpired \/ Mark(w, CleanupExpired, S, T)
    BY <1>4 DEF OpenWindow
  <2>2. b \notin S
    BY <1>2, <2>1 DEF First
  <2> QED BY <2>1, <2>2, <1>1, <1>2, CleanupTypes
<1>5. ASSUME NEW w \in Windows, NextBundle(w) PROVE state'[b] = "delivered"
  <2>1. state \in [Ids -> BundleState \cup {"none"}]
    BY DEF TypeOK
  <2> QED BY <1>5, <1>1, <2>1 DEF NextBundle
<1>6. ASSUME NEW w \in Windows, AirSucceeds(w) \/ AirFails(w) PROVE state'[b] = "delivered"
  BY <1>6 DEF AirSucceeds, AirFails, SetState, TypeOK
<1> QED BY <1>3, <1>4, <1>5, <1>6 DEF Next, CloseWindow, Crash, Tick, vars, rows

\* A DELIVERED row is reopened only by a pass that held it before.
THEOREM DeliveredStaysHolds == Spec => DeliveredStays
<1>1. TypeOK /\ [Next]_vars =>
        [\A b \in Ids :
            state[b] = "delivered" /\ state'[b] # "delivered"
                => \E w \in Windows : b \in todo[w] \cup {cur[w]}]_vars
  BY DeliveredStep
<1> QED BY <1>1, TypeCorrect, PTL DEF Spec, DeliveredStays

\* What makes SosFirst inductive: the snapshot holds what is owed, the row on
\* the air precedes the rest of the snapshot, and what is owed is SOS.
Order ==
    \A w \in Windows :
        /\ owed[w] \subseteq todo[w]
        /\ \A b \in owed[w] : type[b] = "sos"
        /\ pc[w] = "airing" => \A b \in todo[w] : Before(cur[w], b)

LEMMA IdsFinite == IsFiniteSet(Ids)
BY FS_Interval, DtnAssumption DEF Ids

\* An SOS that LIMIT keeps among the pending SOS it keeps among all pending:
\* nothing but an SOS precedes an SOS.
LEMMA LimitKeepsSos ==
    ASSUME NEW P \in SUBSET Ids,
           NEW S \in First(Limit, P),
           NEW T \in First(Limit, {b \in P : type[b] = "sos"})
    PROVE  T \subseteq S
<1> USE DtnAssumption
<1> DEFINE sos == {b \in P : type[b] = "sos"}
<1> SUFFICES ASSUME NEW t \in T, t \notin S PROVE FALSE
  OBVIOUS
<1>1. t \in sos /\ S \subseteq P /\ T \subseteq sos
  BY DEF First
<1>2. \A a \in S : Before(a, t)
  BY <1>1 DEF First
<1>3. S \subseteq sos
  BY <1>1, <1>2 DEF Before, Priority
<1>4. S \subseteq T
  <2> SUFFICES ASSUME NEW a \in S, a \notin T PROVE FALSE
    OBVIOUS
  <2>1. Before(a, t) /\ Before(t, a)
    BY <1>2, <1>3 DEF First
  <2>2. type[a] = "sos" /\ type[t] = "sos" /\ a \in Nat /\ t \in Nat
    BY <1>1, <1>3 DEF Ids
  <2> QED BY <2>1, <2>2 DEF Before, Priority
<1>5. IsFiniteSet(T) /\ IsFiniteSet(S)
  BY <1>1, IdsFinite, FS_Subset
<1>6. Cardinality(S) = Limit /\ Cardinality(T) <= Limit
  BY <1>1 DEF First
<1>7. Cardinality(S) \in Nat /\ Cardinality(T) \in Nat
  BY <1>5, FS_CardinalityType
<1>8. Cardinality(S) < Cardinality(T)
  BY <1>4, <1>5, <1>7, FS_Subset
<1> QED BY <1>6, <1>7, <1>8

\* Marking the first row of a snapshot that holds what is owed.
LEMMA MarkOrder ==
    ASSUME TypeOK, Order, NEW w \in Windows, NEW st,
           NEW S \in SUBSET Ids, NEW sos \in SUBSET S,
           \A b \in sos : type[b] = "sos",
           Mark(w, st, S, sos), UNCHANGED type
    PROVE  Order'
<1>1. PICK n \in S : /\ \A o \in S \ {n} : Before(n, o)
                     /\ cur' = [cur EXCEPT ![w] = n]
                     /\ todo' = [todo EXCEPT ![w] = S \ {n}]
                     /\ owed' = [owed EXCEPT ![w] = sos \ {n}]
                     /\ pc' = [pc EXCEPT ![w] = "airing"]
  BY DEF Mark
<1>2. ASSUME NEW v \in Windows, v # w
      PROVE  /\ owed'[v] \subseteq todo'[v]
             /\ \A b \in owed'[v] : type'[b] = "sos"
             /\ pc'[v] = "airing" => \A b \in todo'[v] : Before(cur'[v], b)
  BY <1>1, <1>2 DEF Order, TypeOK
<1>3. /\ owed'[w] \subseteq todo'[w]
      /\ \A b \in owed'[w] : type'[b] = "sos"
      /\ \A b \in todo'[w] : Before(cur'[w], b)
  BY <1>1 DEF TypeOK
<1>4. \A v \in Windows :
         /\ owed'[v] \subseteq todo'[v]
         /\ \A b \in owed'[v] : type'[b] = "sos"
         /\ pc'[v] = "airing" => \A b \in todo'[v] : Before(cur'[v], b)
  BY <1>2, <1>3
<1> QED BY <1>4 DEF Order, Before

LEMMA OrderStep == TypeOK /\ Order /\ [Next]_vars => Order'
<1> SUFFICES ASSUME TypeOK, Order, [Next]_vars PROVE Order'
  OBVIOUS
<1>1. ASSUME UNCHANGED <<type, pc, todo, cur, owed>> PROVE Order'
  BY <1>1 DEF Order, Before
<1>2. ASSUME NEW w \in Windows, OpenWindow(w) PROVE Order'
  <2> DEFINE P == Pending(CleanupExpired)
  <2>1. PICK S \in First(Limit, P), T \in First(Limit, {b \in P : type[b] = "sos"}) :
             UNCHANGED windows \/ Mark(w, CleanupExpired, S, T)
    BY <1>2 DEF OpenWindow
  <2>2. P \in SUBSET Ids /\ S \in SUBSET Ids /\ \A b \in T : type[b] = "sos"
    BY DEF First, Pending
  <2>3. T \subseteq S
    BY <2>2, LimitKeepsSos
  <2>4. UNCHANGED type
    BY <1>2 DEF OpenWindow
  <2>5. CASE Mark(w, CleanupExpired, S, T)
    BY <2>2, <2>3, <2>4, <2>5, MarkOrder
  <2> QED BY <2>1, <2>4, <2>5, <1>1 DEF windows
<1>3. ASSUME NEW w \in Windows, NextBundle(w) PROVE Order'
  <2>1. todo[w] \in SUBSET Ids /\ owed[w] \in SUBSET todo[w]
        /\ \A b \in owed[w] : type[b] = "sos"
    BY DEF TypeOK, Order
  <2>2. Mark(w, state, todo[w], owed[w]) /\ UNCHANGED type
    BY <1>3 DEF NextBundle
  <2> QED BY <2>1, <2>2, MarkOrder
<1>4. ASSUME NEW w \in Windows, CloseWindow(w) PROVE Order'
  BY <1>4 DEF CloseWindow, Order, TypeOK, rows, Before
<1>5. ASSUME NEW w \in Windows, Landed(w) PROVE Order'
  BY <1>5 DEF Landed, Order, TypeOK, Before
<1>6. CASE Crash
  BY <1>6 DEF Crash, Order, rows
<1> QED BY <1>1, <1>2, <1>3, <1>4, <1>5, <1>6
        DEF Next, QueueMessage, ReceiveAck, AirSucceeds, AirFails, Tick, vars, rows, windows

LEMMA OrderImpliesFirst == TypeOK /\ Order => SosFirst
<1> SUFFICES ASSUME TypeOK, Order, NEW w \in Windows, pc[w] = "airing",
                    type[cur[w]] # "sos", NEW b \in owed[w]
             PROVE  FALSE
  BY DEF SosFirst
<1>1. type[b] = "sos" /\ Before(cur[w], b)
  BY DEF Order
<1>2. Priority(type[b]) = 0 /\ Priority(type[cur[w]]) \in {1, 2}
  BY <1>1 DEF Priority
<1> QED BY <1>1, <1>2 DEF Before

\* What was an SOS pending when the pass began is attempted before the rest.
THEOREM SosFirstHolds == Spec => []SosFirst
<1>1. Init => TypeOK /\ Order
  BY DtnAssumption, OldestNat DEF Init, TypeOK, Order
<1>2. TypeOK /\ Order /\ [Next]_vars => (TypeOK /\ Order)'
  BY TypeStep, OrderStep
<1> QED BY <1>1, <1>2, OrderImpliesFirst, PTL DEF Spec

=============================================================================
