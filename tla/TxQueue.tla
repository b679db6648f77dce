------------------------------ MODULE TxQueue ------------------------------
(***************************************************************************)
(* The backend's transmit queue: POST /api/v1/send inserts a Message row,  *)
(* one worker task polls the QUEUED rows, asks the shared duty-cycle       *)
(* tracker, marks the row, transmits, records the airtime and logs it.     *)
(*                                                                         *)
(* The database (status, owner, air, txlog) survives the process; the      *)
(* tracker's records (recAge) and the worker's locals (pc, batch, cur) do  *)
(* not.  airAge, memAge and sent are history: what the radio really did.   *)
(*                                                                         *)
(* Time is discrete.  recAge[m] is the age of the tracker's record for m,  *)
(* airAge[m] the age of m's last transmission; both saturate at Expired,   *)
(* which also stands for "there is none", so time itself is unbounded.     *)
(* Airtime is in whole units; Cap and MinPerUser are in the same unit.     *)
(***************************************************************************)
EXTENDS Airtime

CONSTANTS
    Users,       \* registered users
    MaxId,       \* bound: number of rows the messages table may reach
    Airtimes,    \* airtimes, in units, that a payload may need
    Cap,         \* settings.MAX_TX_SECONDS_PER_HOUR
    MinPerUser,  \* min_per_user_seconds
    Window,      \* WINDOW_SECONDS, in ticks
    BatchLimit,  \* LIMIT of the worker's SELECT
    MaxHalts,    \* bound: stops and crashes of the process
    MaxFaults    \* bound: commits and transmissions that raise

ASSUME ConstantsAssumption ==
    /\ MaxId \in Nat
    /\ Airtimes \subseteq Nat \ {0}
    /\ Cap \in Nat
    /\ MinPerUser \in Nat
    /\ Window \in Nat
    /\ BatchLimit \in Nat \ {0}
    /\ MaxHalts \in Nat
    /\ MaxFaults \in Nat

VARIABLES
    status,   \* Message.status per id; "none": no such row yet
    owner,    \* Message.user_id
    air,      \* airtime the worker estimates for the row's payload
    txlog,    \* ids with a TxLog row
    recAge,   \* DutyCycleTracker._records
    pc,       \* where the worker task is
    batch,    \* rows fetched by the last poll and not looked at yet
    cur,      \* row being transmitted, 0 when there is none
    airAge,   \* history: age of each message's transmission
    memAge,   \* history: time since the tracker's memory was last lost
    sent,     \* history: how often each message went on the air
    halts, faults

rows == <<status, owner, air, txlog>>
worker == <<pc, batch, cur>>
history == <<airAge, memAge, sent>>
vars == <<rows, worker, recAge, history, halts, faults>>

Ids == 1..MaxId
Expired == Window + 1
MessageStatus == {"queued", "transmitting", "awaiting_ack", "failed"}
Down == {"stopped", "crashed"}
PCs == {"poll", "next", "mark", "send", "log", "fail"} \cup Down

-----------------------------------------------------------------------------
(* DutyCycleTracker *)

\* _prune_expired: the records that are still inside the sliding window.
InWindow(age) == {m \in Ids : age[m] <= Window}

\* _global_used of a set of messages; what exceeds the cap is not told apart.
Used(S) == AirtimeOf(S, air, Cap + 1)

OwnedBy(S, u) == {m \in S : owner[m] = u}
ActiveUsers == {owner[m] : m \in InWindow(recAge)}
ActiveCount == IF ActiveUsers = {} THEN 1 ELSE Cardinality(ActiveUsers)

\* x > max(Cap / active, MinPerUser), without the division.
ExceedsShare(x) == x * ActiveCount > Cap /\ x > MinPerUser

\* Mutant: the check forgets the message it is asked about.
CanTransmitForgets(u, d) ==
    /\ Used(InWindow(recAge)) <= Cap
    /\ ~ExceedsShare(Used(OwnedBy(InWindow(recAge), u)) + d)

CanTransmit(u, d) ==
    /\ Used(InWindow(recAge)) + d <= Cap
    /\ ~ExceedsShare(Used(OwnedBy(InWindow(recAge), u)) + d)

\* get_budget(u).can_transmit: what is left, globally and to u, is positive.
HasBudget(u) ==
    LET used == Used(OwnedBy(InWindow(recAge), u))
    IN  /\ Used(InWindow(recAge)) < Cap
        /\ used * ActiveCount < Cap \/ used < MinPerUser

-----------------------------------------------------------------------------
Init ==
    /\ status = [m \in Ids |-> "none"]
    /\ owner \in [Ids -> Users]
    /\ air \in [Ids -> Airtimes]
    /\ txlog = {}
    /\ recAge = [m \in Ids |-> Expired]
    /\ pc = "poll" /\ batch = {} /\ cur = 0
    /\ airAge = [m \in Ids |-> Expired]
    /\ memAge = 0
    /\ sent = [m \in Ids |-> 0]
    /\ halts = 0 /\ faults = 0

Queued == {m \in Ids : status[m] = "queued"}
OldestOf(S) == {m \in S : \A n \in S : m <= n}

\* POST /api/v1/send, when the tracker leaves the user some budget.
Post(m) ==
    /\ pc \notin Down
    /\ status[m] = "none"
    /\ \A n \in Ids : n < m => status[n] # "none"
    /\ HasBudget(owner[m])
    /\ status' = [status EXCEPT ![m] = "queued"]
    /\ UNCHANGED <<owner, air, txlog, worker, recAge, history, halts, faults>>

\* The SELECT: the BatchLimit oldest QUEUED rows.
Poll ==
    /\ pc = "poll"
    /\ Queued # {}
    /\ \E S \in SUBSET Queued :
          /\ \A m \in S, n \in Queued \ S : m < n
          /\ Cardinality(S) <= BatchLimit
          /\ Cardinality(S) = BatchLimit \/ S = Queued
          /\ batch' = S
    /\ pc' = "next"
    /\ UNCHANGED <<rows, cur, recAge, history, halts, faults>>

\* The for loop goes to the rest of the batch, or the session is closed.
Continue(rest) ==
    /\ batch' = rest
    /\ pc' = IF rest = {} THEN "poll" ELSE "next"
    /\ cur' = 0

\* can_transmit says no: the row stays QUEUED until a later poll.
Defer ==
    /\ pc = "next"
    /\ \E m \in OldestOf(batch) :
           /\ ~CanTransmit(owner[m], air[m])
           /\ Continue(batch \ {m})
    /\ UNCHANGED <<rows, recAge, history, halts, faults>>

\* can_transmit says yes: TRANSMITTING is set and its commit awaited.
Admit ==
    /\ pc = "next"
    /\ \E m \in OldestOf(batch) :
           /\ CanTransmit(owner[m], air[m])
           /\ cur' = m
           /\ batch' = batch \ {m}
    /\ pc' = "mark"
    /\ UNCHANGED <<rows, recAge, history, halts, faults>>

-----------------------------------------------------------------------------
(* The three commits of _transmit_message, as the database applies them. *)

\* Mutant: TRANSMITTING is set in memory only.
ApplyMarkLost == UNCHANGED <<status, txlog>>

ApplyMark == status' = [status EXCEPT ![cur] = "transmitting"] /\ UNCHANGED txlog
\* Mutant: the TxLog row is left out of the commit.
ApplyLogBare == status' = [status EXCEPT ![cur] = "awaiting_ack"] /\ UNCHANGED txlog

ApplyLog ==
    /\ status' = [status EXCEPT ![cur] = "awaiting_ack"]
    /\ txlog' = txlog \cup {cur}
ApplyFail == status' = [status EXCEPT ![cur] = "failed"] /\ UNCHANGED txlog

\* An exception that _transmit_message lets through ends the whole poll.
AbandonBatch == pc' = "poll" /\ batch' = {} /\ cur' = 0

Fault == faults < MaxFaults /\ faults' = faults + 1

CommitMark ==
    /\ pc = "mark"
    /\ \/ ApplyMark /\ pc' = "send" /\ UNCHANGED <<batch, cur, faults>>
       \/ Fault /\ AbandonBatch /\ UNCHANGED <<status, txlog>>
    /\ UNCHANGED <<owner, air, recAge, history, halts>>

\* The bundle is made and transmitted, then record_transmission.
Send ==
    /\ pc = "send"
    /\ \/ /\ recAge' = [recAge EXCEPT ![cur] = 0]
          /\ airAge' = [airAge EXCEPT ![cur] = 0]
          /\ sent' = [sent EXCEPT ![cur] = @ + 1]
          /\ pc' = "log"
          /\ UNCHANGED faults
       \/ Fault /\ pc' = "fail" /\ UNCHANGED <<recAge, airAge, sent>>
    /\ UNCHANGED <<rows, batch, cur, memAge, halts>>

CommitLog ==
    /\ pc = "log"
    /\ \/ ApplyLog /\ Continue(batch) /\ UNCHANGED faults
       \/ Fault /\ pc' = "fail" /\ UNCHANGED <<status, txlog, batch, cur>>
    /\ UNCHANGED <<owner, air, recAge, history, halts>>

\* The except branch commits FAILED on the same session, which may refuse it.
CommitFail ==
    /\ pc = "fail"
    /\ \/ ApplyFail /\ Continue(batch) /\ UNCHANGED faults
       \/ Fault /\ AbandonBatch /\ UNCHANGED <<status, txlog>>
    /\ UNCHANGED <<owner, air, recAge, history, halts>>

-----------------------------------------------------------------------------
(* The process ends: by stop(), which cancels the task at its await, or by *)
(* a crash anywhere.  A commit in flight is applied or it is not.          *)

Halt(how) ==
    /\ pc \notin Down
    /\ halts < MaxHalts
    /\ how = "stopped" => pc \in {"poll", "mark", "log", "fail"}
    /\ \/ UNCHANGED <<status, txlog>>
       \/ pc = "mark" /\ ApplyMark
       \/ pc = "log" /\ ApplyLog
       \/ pc = "fail" /\ ApplyFail
    /\ pc' = how /\ batch' = {} /\ cur' = 0
    /\ recAge' = [m \in Ids |-> Expired]
    /\ memAge' = 0
    /\ halts' = halts + 1
    /\ UNCHANGED <<owner, air, airAge, sent, faults>>

Boot ==
    /\ pc \in Down
    /\ pc' = "poll"
    /\ UNCHANGED <<rows, batch, cur, recAge, history, halts, faults>>

\* Mutants: ages that leave their type, records that never leave the window.
OlderUnbounded(a) == a + 1
OlderKept(a) == IF a < Window THEN a + 1 ELSE a

\* A record's age; past the window the next call prunes the record.
Older(a) == IF a <= Window THEN a + 1 ELSE a

Tick ==
    /\ recAge' = [m \in Ids |-> Older(recAge[m])]
    /\ airAge' = [m \in Ids |-> Older(airAge[m])]
    /\ memAge' = Older(memAge)
    /\ UNCHANGED <<rows, worker, sent, halts, faults>>

Worker == Poll \/ Defer \/ Admit \/ CommitMark \/ Send \/ CommitLog \/ CommitFail

Next ==
    \/ \E m \in Ids : Post(m)
    \/ Worker
    \/ \E how \in Down : Halt(how)
    \/ Boot
    \/ Tick

Spec == Init /\ [][Next]_vars

\* The event loop runs the task, the container restarts, time passes.
FairSpec == Spec /\ WF_vars(Worker) /\ WF_vars(Boot) /\ WF_vars(Tick)

-----------------------------------------------------------------------------
(* Types of the rows, of the tracker, of the worker and of the history. *)
TypeOK ==
    /\ status \in [Ids -> MessageStatus \cup {"none"}]
    /\ owner \in [Ids -> Users]
    /\ air \in [Ids -> Airtimes]
    /\ txlog \subseteq Ids
    /\ recAge \in [Ids -> 0..Expired]
    /\ pc \in PCs
    /\ batch \subseteq Ids
    /\ cur \in Ids \cup {0}
    /\ airAge \in [Ids -> 0..Expired]
    /\ memAge \in 0..Expired
    /\ sent \in [Ids -> Nat]
    /\ halts \in 0..MaxHalts
    /\ faults \in 0..MaxFaults

\* Once the process has run for a whole window, what is on the air in any
\* window stays within the cap: check and record are apart, with commits and
\* the clock in between, and can_transmit still accounts for every message
\* (rate_limiter.py can_transmit / record_transmission, tx_queue.py).
CapOnceWarm == memAge > Window => Used(InWindow(airAge)) <= Cap

\* A message goes on the air at most once, whatever crashes, stops or commits
\* that fail come between its two status changes (tx_queue.py
\* _transmit_message marks and commits before it transmits).
AtMostOnce == \A m \in Ids : sent[m] <= 1

\* The persisted trail never lies: a row awaits its ACK exactly when its
\* transmission is logged, and what is logged was transmitted.
LogTruthful ==
    \A m \in Ids :
        /\ m \in txlog <=> status[m] = "awaiting_ack"
        /\ m \in txlog => sent[m] = 1

Arrival == \E m \in Ids : status[m] = "none" /\ status'[m] = "queued"

\* Once nobody posts any more the queue drains: every queued message leaves it,
\* whoever's deferred rows stand before it in the batch, whatever stops, crashes
\* or fails.  While messages keep arriving a large one may wait for ever: small
\* ones behind it in its batch use up the window (tx_queue.py _process_pending).
QueueDrains ==
    <>[][~Arrival]_vars
        => \A m \in Ids : status[m] = "queued" ~> status[m] # "queued"

-----------------------------------------------------------------------------
(* A statement of the repository that the code does not keep. *)

\* "Global limit: 36 seconds/hour total (hard regulatory cap)"
HardCap == Used(InWindow(airAge)) <= Cap

=============================================================================
