--------------------------- MODULE TxQueue_proofs ---------------------------
(***************************************************************************)
(* Proofs that the transmit queue keeps the duty cycle once its tracker is *)
(* warm, transmits a message at most once and keeps a truthful log, for    *)
(* every number of users, messages, halts and faults.                      *)
(***************************************************************************)
EXTENDS TxQueue, Airtime_proofs

-----------------------------------------------------------------------------
(* The inductive invariant, by concern. *)

InFlight == pc \in {"mark", "send", "log", "fail"}

\* The worker has a row at hand exactly while it transmits it.
AtRow == InFlight <=> cur # 0

\* What the worker's locals say about the rows.
WorkerInv ==
    /\ AtRow
    /\ batch \subseteq Queued \ {cur}
    /\ pc \in {"poll"} \cup Down => batch = {}
    /\ pc = "mark" => status[cur] = "queued"
    /\ pc \in {"send", "log", "fail"} => status[cur] = "transmitting"

\* What was sent, against the rows and the worker.
SentInv ==
    /\ \A m \in Ids : sent[m] \in {0, 1}
    /\ \A m \in Ids : status[m] \in {"none", "queued"} => sent[m] = 0
    /\ pc = "send" => sent[cur] = 0
    /\ pc = "log" => sent[cur] = 1

\* While the tracker remembers a time, it has every transmission since then.
MemoryInv == \A m \in Ids : airAge[m] < memAge => recAge[m] = airAge[m]

\* The message admitted and not recorded yet is within the cap already.
Admitted == IF pc \in {"mark", "send"} THEN {cur} ELSE {}
CapInv == Used(InWindow(recAge) \cup Admitted) <= Cap

-----------------------------------------------------------------------------
(* Airtime of the messages. *)

LEMMA IdsFinite == ASSUME NEW S \in SUBSET Ids PROVE IsFiniteSet(S)
<1>1. IsFiniteSet(Ids)
    BY FS_Interval, ConstantsAssumption DEF Ids
<1> QED
    BY <1>1, FS_Subset

LEMMA UsedNat == ASSUME NEW S \in SUBSET Ids PROVE Used(S) \in Nat
    BY IdsFinite, AirtimeFinite, ConstantsAssumption DEF Used

LEMMA UsedMonotone ==
    ASSUME NEW T \in SUBSET Ids, NEW S \in SUBSET T
    PROVE  Used(S) <= Used(T)
    BY IdsFinite, AirtimeMonotone, ConstantsAssumption DEF Used

LEMMA UsedAdd ==
    ASSUME TypeOK, NEW S \in SUBSET Ids, NEW m \in Ids
    PROVE  Used(S \cup {m}) <= Used(S) + air[m]
<1>1. air[m] \in Nat
    BY ConstantsAssumption DEF TypeOK
<1> QED
    BY <1>1, IdsFinite, AirtimeAdd, ConstantsAssumption DEF Used

-----------------------------------------------------------------------------
(* Type correctness. *)

LEMMA TypeStep == TypeOK /\ AtRow /\ [Next]_vars => (TypeOK /\ AtRow)'
<1> SUFFICES ASSUME TypeOK, AtRow, [Next]_vars PROVE (TypeOK /\ AtRow)'
    OBVIOUS
<1> USE ConstantsAssumption
    DEF AtRow, InFlight, TypeOK, PCs, Down, MessageStatus, Expired, rows, worker, history
<1>1. ASSUME NEW m \in Ids, Post(m) PROVE (TypeOK /\ AtRow)'
    BY <1>1 DEF Post
<1>2. CASE Poll
    BY <1>2 DEF Poll, Queued
<1>3. CASE Defer
    BY <1>3 DEF Defer, Continue, OldestOf
<1>4. CASE Admit
    BY <1>4 DEF Admit, OldestOf, Ids
<1>5. CASE CommitMark
    BY <1>5 DEF CommitMark, ApplyMark, Fault, AbandonBatch
<1>6. CASE Send
    BY <1>6 DEF Send, Fault
<1>7. CASE CommitLog
    BY <1>7 DEF CommitLog, ApplyLog, Fault, Continue
<1>8. CASE CommitFail
    BY <1>8 DEF CommitFail, ApplyFail, Fault, Continue, AbandonBatch
<1>9. ASSUME NEW how \in Down, Halt(how) PROVE (TypeOK /\ AtRow)'
    BY <1>9 DEF Halt, ApplyMark, ApplyLog, ApplyFail
<1>10. CASE Boot
    BY <1>10 DEF Boot
<1>11. CASE Tick
    BY <1>11 DEF Tick, Older
<1>12. CASE UNCHANGED vars
    BY <1>12 DEF vars
<1> QED
    BY <1>1, <1>2, <1>3, <1>4, <1>5, <1>6, <1>7, <1>8, <1>9, <1>10, <1>11,
       <1>12 DEF Next, Worker

LEMMA TypeInit == Init => TypeOK /\ AtRow
    BY ConstantsAssumption
    DEF Init, TypeOK, PCs, Down, Expired, MessageStatus, AtRow, InFlight

\* Every variable of the transmit queue keeps its type.
THEOREM TypeCorrect == Spec => []TypeOK
<1> QED
    BY TypeInit, TypeStep, PTL DEF Spec

-----------------------------------------------------------------------------
(* The discrete parts of the invariant: worker, rows, log and transmissions. *)

Discrete == TypeOK /\ WorkerInv /\ SentInv /\ LogTruthful

LEMMA DiscreteInit == Init => Discrete
<1> QED
    BY TypeInit DEF Init, Discrete, WorkerInv, SentInv, LogTruthful, AtRow, Queued, Down

LEMMA DiscreteStep == Discrete /\ [Next]_vars => Discrete'
<1> SUFFICES ASSUME Discrete, [Next]_vars PROVE Discrete'
    OBVIOUS
<1>0. TypeOK /\ TypeOK' /\ AtRow'
    BY TypeStep DEF Discrete, WorkerInv
<1> USE <1>0 DEF Discrete, WorkerInv, SentInv, LogTruthful, AtRow, InFlight, Queued,
                 Down, rows, worker, history
<1>1. ASSUME NEW m \in Ids, Post(m) PROVE Discrete'
    <2>1. WorkerInv'
        BY <1>1 DEF TypeOK, PCs, Post
    <2>2. SentInv'
        BY <1>1 DEF TypeOK, Post
    <2>3. LogTruthful'
        BY <1>1 DEF TypeOK, Post
    <2> QED
        BY <2>1, <2>2, <2>3
<1>2. CASE Poll
    <2>1. WorkerInv'
        BY <1>2 DEF TypeOK, PCs, Ids, Poll
    <2>2. SentInv'
        BY <1>2 DEF TypeOK, Poll
    <2>3. LogTruthful'
        BY <1>2 DEF TypeOK, Poll
    <2> QED
        BY <2>1, <2>2, <2>3
<1>3. CASE Defer
    <2>1. WorkerInv'
        BY <1>3 DEF TypeOK, PCs, Ids, Defer, Continue, OldestOf
    <2>2. SentInv'
        BY <1>3 DEF TypeOK, Defer, Continue, OldestOf
    <2>3. LogTruthful'
        BY <1>3 DEF TypeOK, Defer, Continue, OldestOf
    <2> QED
        BY <2>1, <2>2, <2>3
<1>4. CASE Admit
    <2>1. WorkerInv'
        BY <1>4 DEF TypeOK, PCs, Admit, OldestOf
    <2>2. SentInv'
        BY <1>4 DEF TypeOK, Admit, OldestOf
    <2>3. LogTruthful'
        BY <1>4 DEF TypeOK, Admit, OldestOf
    <2> QED
        BY <2>1, <2>2, <2>3
<1>5. CASE CommitMark
    <2>1. WorkerInv'
        BY <1>5 DEF TypeOK, PCs, CommitMark, ApplyMark, Fault, AbandonBatch
    <2>2. SentInv'
        BY <1>5 DEF TypeOK, CommitMark, ApplyMark, Fault, AbandonBatch
    <2>3. LogTruthful'
        BY <1>5 DEF TypeOK, CommitMark, ApplyMark, Fault, AbandonBatch
    <2> QED
        BY <2>1, <2>2, <2>3
<1>6. CASE Send
    <2>1. WorkerInv'
        BY <1>6 DEF TypeOK, PCs, Send, Fault
    <2>2. SentInv'
        BY <1>6 DEF TypeOK, Send, Fault
    <2>3. LogTruthful'
        BY <1>6 DEF TypeOK, Send, Fault
    <2> QED
        BY <2>1, <2>2, <2>3
<1>7. CASE CommitLog
    <2>1. WorkerInv'
        BY <1>7 DEF TypeOK, PCs, Ids, CommitLog, ApplyLog, Fault, Continue
    <2>2. SentInv'
        BY <1>7 DEF TypeOK, CommitLog, ApplyLog, Fault, Continue
    <2>3. LogTruthful'
        BY <1>7 DEF TypeOK, CommitLog, ApplyLog, Fault, Continue
    <2> QED
        BY <2>1, <2>2, <2>3
<1>8. CASE CommitFail
    <2>1. WorkerInv'
        BY <1>8 DEF TypeOK, PCs, Ids, CommitFail, ApplyFail, Fault, Continue, AbandonBatch
    <2>2. SentInv'
        BY <1>8 DEF TypeOK, CommitFail, ApplyFail, Fault, Continue, AbandonBatch
    <2>3. LogTruthful'
        BY <1>8 DEF TypeOK, CommitFail, ApplyFail, Fault, Continue, AbandonBatch
    <2> QED
        BY <2>1, <2>2, <2>3
<1>9. ASSUME NEW how \in Down, Halt(how) PROVE Discrete'
    <2>1. WorkerInv'
        BY <1>9 DEF TypeOK, PCs, Halt, ApplyMark, ApplyLog, ApplyFail
    <2>2. SentInv'
        BY <1>9 DEF TypeOK, Halt, ApplyMark, ApplyLog, ApplyFail
    <2>3. LogTruthful'
        BY <1>9 DEF TypeOK, Halt, ApplyMark, ApplyLog, ApplyFail
    <2> QED
        BY <2>1, <2>2, <2>3
<1>10. CASE Boot
    <2>1. WorkerInv'
        BY <1>10 DEF TypeOK, PCs, Boot
    <2>2. SentInv'
        BY <1>10 DEF TypeOK, Boot
    <2>3. LogTruthful'
        BY <1>10 DEF TypeOK, Boot
    <2> QED
        BY <2>1, <2>2, <2>3
<1>11. CASE Tick
    <2>1. WorkerInv'
        BY <1>11 DEF TypeOK, PCs, Tick
    <2>2. SentInv'
        BY <1>11 DEF TypeOK, Tick
    <2>3. LogTruthful'
        BY <1>11 DEF TypeOK, Tick
    <2> QED
        BY <2>1, <2>2, <2>3
<1>12. CASE UNCHANGED vars
    <2>1. WorkerInv'
        BY <1>12 DEF TypeOK, PCs, vars
    <2>2. SentInv'
        BY <1>12 DEF TypeOK, vars
    <2>3. LogTruthful'
        BY <1>12 DEF TypeOK, vars
    <2> QED
        BY <2>1, <2>2, <2>3
<1> QED
    BY <1>1, <1>2, <1>3, <1>4, <1>5, <1>6, <1>7, <1>8, <1>9, <1>10, <1>11,
       <1>12 DEF Next, Worker

\* A message is transmitted at most once, whatever halts and faults do.
THEOREM AtMostOnceHolds == Spec => []AtMostOnce
<1>1. Discrete => AtMostOnce
    BY DEF Discrete, SentInv, AtMostOnce
<1> QED
    BY <1>1, DiscreteInit, DiscreteStep, PTL DEF Spec

\* The log names exactly the rows that await their ACK, all transmitted.
THEOREM LogTruthfulHolds == Spec => []LogTruthful
<1>1. Discrete => LogTruthful
    BY DEF Discrete
<1> QED
    BY <1>1, DiscreteInit, DiscreteStep, PTL DEF Spec

-----------------------------------------------------------------------------
(* The duty cycle. *)

LEMMA MemoryInit == Init => MemoryInv
    BY DEF Init, MemoryInv, Expired

LEMMA MemoryStep == TypeOK /\ AtRow /\ MemoryInv /\ [Next]_vars => MemoryInv'
<1> SUFFICES ASSUME TypeOK, AtRow, MemoryInv, [Next]_vars PROVE MemoryInv'
    OBVIOUS
<1> USE ConstantsAssumption DEF MemoryInv, rows, worker, history
<1>1. CASE Send
    BY <1>1 DEF Send, TypeOK, AtRow, InFlight
<1>2. ASSUME NEW how \in Down, Halt(how) PROVE MemoryInv'
    BY <1>2 DEF Halt, TypeOK, Expired
<1>3. CASE Tick
    BY <1>3 DEF Tick, Older, TypeOK, Expired
<1>4. CASE UNCHANGED <<recAge, airAge, memAge>>
    BY <1>4
<1> QED
    BY <1>1, <1>2, <1>3, <1>4
    DEF Next, Worker, Post, Poll, Defer, Admit, CommitMark, CommitLog, CommitFail,
        Boot, vars

\* The airtimes of the rows never change, so Used changes with its set only.
LEMMA SameAirtime == ASSUME [Next]_vars PROVE air' = air
    BY DEF Next, Worker, Post, Poll, Defer, Admit, CommitMark, Send, CommitLog,
           CommitFail, Halt, Boot, Tick, vars, rows

\* The window and the admitted message may only lose messages, or gain one
\* that can_transmit has just accepted.
LEMMA CapStep == Discrete /\ CapInv /\ [Next]_vars => CapInv'
<1> DEFINE Held == InWindow(recAge) \cup Admitted
<1> SUFFICES ASSUME Discrete, CapInv, [Next]_vars PROVE CapInv'
    OBVIOUS
<1>0. /\ TypeOK /\ AtRow
      /\ Held \in SUBSET Ids /\ Held' \in SUBSET Ids
      /\ Used(Held) <= Cap
      /\ Used(Held)' = Used(Held')
    <2>1. TypeOK /\ AtRow /\ TypeOK' /\ AtRow'
        BY TypeStep DEF Discrete, WorkerInv
    <2>2. Held \in SUBSET Ids /\ Held' \in SUBSET Ids
        BY <2>1 DEF InWindow, Admitted, TypeOK, AtRow, InFlight
    <2>3. Used(Held)' = Used(Held')
        BY SameAirtime DEF Used, AirtimeOf, Units
    <2> QED
        BY <2>1, <2>2, <2>3 DEF CapInv
<1>1. CASE Held' \subseteq Held
    <2>1. Used(Held') <= Used(Held)
        BY <1>0, <1>1, UsedMonotone
    <2>2. Used(Held) \in Nat /\ Used(Held') \in Nat
        BY <1>0, UsedNat
    <2> QED
        BY <1>0, <2>1, <2>2, ConstantsAssumption DEF CapInv
<1>2. CASE Admit
    <2>1. PICK m \in batch : CanTransmit(owner[m], air[m]) /\ cur' = m
        BY <1>2 DEF Admit, OldestOf
    <2>2. m \in Ids /\ InWindow(recAge) \in SUBSET Ids /\ air[m] \in Nat
        BY <1>0, ConstantsAssumption DEF TypeOK, InWindow
    <2>3. Used(InWindow(recAge)) + air[m] <= Cap
        BY <2>1 DEF CanTransmit
    <2>4. Held' = InWindow(recAge) \cup {m}
        BY <1>2, <2>1 DEF Admit, Admitted, InWindow
    <2>5. Used(Held') <= Used(InWindow(recAge)) + air[m]
        BY <1>0, <2>2, <2>4, UsedAdd
    <2>6. Used(InWindow(recAge)) \in Nat /\ Used(Held') \in Nat
        BY <1>0, <2>2, UsedNat
    <2> QED
        BY <1>0, <2>2, <2>3, <2>5, <2>6, ConstantsAssumption DEF CapInv
<1>3. ~Admit => Held' \subseteq Held
    <2> USE <1>0 DEF Admitted, InWindow
    <2>1. CASE CommitMark
        BY <2>1 DEF CommitMark, AbandonBatch
    <2>2. CASE Send
        BY <2>2 DEF Send, TypeOK
    <2>3. ASSUME NEW how \in Down, Halt(how) PROVE Held' \subseteq Held
        BY <2>3, ConstantsAssumption DEF Halt, Down, Expired
    <2>4. CASE Tick
        BY <2>4, ConstantsAssumption DEF Tick, Older, TypeOK, Expired, worker
    <2>5. CASE UNCHANGED recAge /\ pc' \notin {"mark", "send"}
        BY <2>5
    <2>6. CASE UNCHANGED <<recAge, pc, cur>>
        BY <2>6
    <2> QED
        BY <2>1, <2>2, <2>3, <2>4, <2>5, <2>6
        DEF Next, Worker, Post, Poll, Defer, CommitLog, CommitFail, Boot, vars,
            worker, Continue, AbandonBatch
<1> QED
    BY <1>1, <1>2, <1>3

\* Once the tracker has a full window behind it, the airtime of every window
\* is within the cap: what is on the air is in its memory, and that is capped.
THEOREM CapOnceWarmHolds == Spec => []CapOnceWarm
<1> DEFINE IInv == Discrete /\ MemoryInv /\ CapInv
<1>1. Init => IInv
    <2>1. ASSUME Init PROVE CapInv
        <3>1. InWindow(recAge) \cup Admitted = {}
            BY <2>1, ConstantsAssumption DEF Init, InWindow, Admitted, Expired
        <3>2. Used({}) = 0
            BY AirtimeEmpty, ConstantsAssumption DEF Used
        <3> QED
            BY <3>1, <3>2, ConstantsAssumption DEF CapInv
    <2> QED
        BY <2>1, DiscreteInit, MemoryInit
<1>2. IInv /\ [Next]_vars => IInv'
    BY DiscreteStep, MemoryStep, CapStep DEF Discrete, WorkerInv
<1>3. IInv => CapOnceWarm
    <2> SUFFICES ASSUME IInv, memAge > Window PROVE Used(InWindow(airAge)) <= Cap
        BY DEF CapOnceWarm
    <2>1. TypeOK
        BY DEF Discrete
    <2> DEFINE Held == InWindow(recAge) \cup Admitted
    <2>2. InWindow(airAge) \subseteq Held
        BY <2>1, ConstantsAssumption DEF InWindow, MemoryInv, TypeOK, Expired
    <2>3. Held \in SUBSET Ids
        BY <2>1 DEF InWindow, Admitted, Discrete, WorkerInv, AtRow, InFlight, TypeOK
    <2>4. Used(InWindow(airAge)) <= Used(Held)
        BY <2>2, <2>3, UsedMonotone
    <2>5. Used(Held) \in Nat /\ Used(InWindow(airAge)) \in Nat
        BY <2>2, <2>3, UsedNat
    <2> QED
        BY <2>4, <2>5, ConstantsAssumption DEF CapInv
<1> QED
    BY <1>1, <1>2, <1>3, PTL DEF Spec

=============================================================================
