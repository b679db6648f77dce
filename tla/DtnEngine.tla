----------------------------- MODULE DtnEngine -----------------------------
(***************************************************************************)
(* The DTN engine: messages are kept in an SQLite bundle store, and each   *)
(* satellite pass runs transmission_window, which deletes what expired,    *)
(* takes a snapshot of the pending rows and sends them one by one,         *)
(* awaiting the radio for each.  While it awaits, ACKs arrive, messages    *)
(* are queued, and another pass may open its own window.                   *)
(*                                                                         *)
(* Bundles are numbered in the order of created_at.  Rows survive a crash; *)
(* windows do not.  aired, confirmed and owed are history.                 *)
(***************************************************************************)
EXTENDS Naturals, FiniteSets

CONSTANTS
    Windows,     \* transmission_window calls that may overlap
    MaxId,       \* bound: bundles queued
    Types,       \* payload types queued
    VoiceTTL,    \* ttl_map[VOICE], in ticks
    DefaultTTL,  \* the day that text and every unlisted type lives, in ticks
    MaxRetries,  \* Bundle.max_retries
    Limit,       \* LIMIT of get_pending
    MaxCrashes   \* bound: crashes or cancellations of the windows

ASSUME DtnAssumption ==
    /\ MaxId \in Nat
    /\ Types \subseteq {"sos", "voice", "text", "voice_chunk"}
    /\ VoiceTTL \in Nat \ {0} /\ DefaultTTL \in Nat \ {0}
    /\ MaxRetries \in Nat
    /\ Limit \in Nat \ {0}
    /\ MaxCrashes \in Nat

VARIABLES
    state,      \* bundles.state; "none": no such row
    type,       \* bundles.payload_type
    age,        \* now - created_at
    retries,    \* bundles.retry_count, saturating one above MaxRetries
    pc, todo, cur,  \* of each window: where it is, rows left, row on the air
    aired,      \* history: bundles the radio sent at least once
    confirmed,  \* history: bundles whose ACK was received
    owed,       \* history: SOS pending when the window opened, not yet tried
    crashes

rows == <<state, type, age, retries>>
windows == <<pc, todo, cur, owed>>
vars == <<rows, windows, aired, confirmed, crashes>>

Ids == 1..MaxId
BundleState == {"queued", "transmitting", "awaiting_ack", "delivered"}

\* Mutant: SOS has fallen out of ttl_map.
TTLDefault(t) == IF t = "voice" THEN VoiceTTL ELSE DefaultTTL

\* ttl_map and prio_map of Bundle.__post_init__, defaults included; 0: never.
TTL(t) == CASE t = "sos" -> 0 [] t = "voice" -> VoiceTTL [] OTHER -> DefaultTTL

Priority(t) == CASE t = "sos" -> 0 [] t = "voice" -> 1 [] OTHER -> 2

IsExpired(b) == TTL(type[b]) # 0 /\ age[b] > TTL(type[b])
OldestAge == IF VoiceTTL > DefaultTTL THEN VoiceTTL + 1 ELSE DefaultTTL + 1

\* Mutant: ORDER BY created_at only.
BeforeByAge(a, b) == a < b

\* ORDER BY priority ASC, created_at ASC
Before(a, b) ==
    \/ Priority(type[a]) < Priority(type[b])
    \/ Priority(type[a]) = Priority(type[b]) /\ a < b

\* get_pending: the first Limit rows of a set.
First(n, S) ==
    {T \in SUBSET S :
        /\ \A a \in T, b \in S \ T : Before(a, b)
        /\ Cardinality(T) <= n
        /\ Cardinality(T) = n \/ T = S}

-----------------------------------------------------------------------------
Init ==
    /\ state = [b \in Ids |-> "none"]
    /\ type \in [Ids -> Types]
    /\ age = [b \in Ids |-> 0]
    /\ retries = [b \in Ids |-> 0]
    /\ pc = [w \in Windows |-> "closed"]
    /\ todo = [w \in Windows |-> {}]
    /\ cur = [w \in Windows |-> 0]
    /\ owed = [w \in Windows |-> {}]
    /\ aired = {} /\ confirmed = {}
    /\ crashes = 0

Fresh(b) == state[b] = "none" /\ age[b] = 0
Exists(b) == state[b] # "none"

\* queue_message; queue_voice calls it for the meta packet and each chunk.
QueueMessage(b) ==
    /\ Fresh(b)
    /\ \A n \in Ids : n < b => ~Fresh(n)
    /\ state' = [state EXCEPT ![b] = "queued"]
    /\ UNCHANGED <<type, age, retries, windows, aired, confirmed, crashes>>

\* Mutant: delivered rows are selected too.
PendingAll(st) == {b \in Ids : st[b] \notin {"none", "transmitting"}}

\* Mutant: a row that awaits its ACK is not selected again.
PendingOnce(st) == {b \in Ids : st[b] = "queued"}

Pending(st) == {b \in Ids : st[b] \in {"queued", "awaiting_ack"}}

\* DELETE FROM bundles WHERE expired AND state NOT IN (DELIVERED)
CleanupExpired ==
    [b \in Ids |-> IF Exists(b) /\ IsExpired(b) /\ state[b] # "delivered"
                   THEN "none" ELSE state[b]]

\* The first row of S is marked and goes to the radio.  st is the table; an
\* UPDATE of a row that is gone changes nothing.
Mark(w, st, S, sos) ==
    /\ \E b \in S :
          /\ \A o \in S \ {b} : Before(b, o)
          /\ state' = [st EXCEPT ![b] = IF @ = "none" THEN @ ELSE "transmitting"]
          /\ cur' = [cur EXCEPT ![w] = b]
          /\ todo' = [todo EXCEPT ![w] = S \ {b}]
          /\ owed' = [owed EXCEPT ![w] = sos \ {b}]
    /\ pc' = [pc EXCEPT ![w] = "airing"]

\* Cleanup, snapshot and the first mark: nothing is awaited between them.
OpenWindow(w) ==
    /\ pc[w] = "closed"
    /\ LET st == CleanupExpired
           sos == {b \in Pending(st) : type[b] = "sos"}
       IN  \E S \in First(Limit, Pending(st)), T \in First(Limit, sos) :
              \/ /\ S = {}
                 /\ state' = st
                 /\ UNCHANGED windows
              \/ Mark(w, st, S, T)
    /\ UNCHANGED <<type, age, retries, aired, confirmed, crashes>>

\* The next row of the snapshot, whatever became of it since.
NextBundle(w) ==
    /\ pc[w] = "next"
    /\ Mark(w, state, todo[w], owed[w])
    /\ UNCHANGED <<type, age, retries, aired, confirmed, crashes>>

SetState(b, s) == [state EXCEPT ![b] = IF Exists(b) THEN s ELSE @]

\* The loop ends: nothing left, or the window's time is over.
CloseWindow(w) ==
    /\ pc[w] = "next"
    /\ pc' = [pc EXCEPT ![w] = "closed"]
    /\ todo' = [todo EXCEPT ![w] = {}]
    /\ owed' = [owed EXCEPT ![w] = {}]
    /\ UNCHANGED <<rows, cur, aired, confirmed, crashes>>

Landed(w) ==
    /\ pc[w] = "airing"
    /\ pc' = [pc EXCEPT ![w] = "next"]
    /\ cur' = [cur EXCEPT ![w] = 0]
    /\ UNCHANGED <<type, age, todo, owed, confirmed, crashes>>

\* on_transmit returns True.
AirSucceeds(w) ==
    /\ Landed(w)
    /\ state' = SetState(cur[w], "awaiting_ack")
    /\ aired' = aired \cup {cur[w]}
    /\ UNCHANGED retries

\* Mutant: a failure leaves the row as it is.
AirFailsStuck(w) == Landed(w) /\ UNCHANGED <<state, retries, aired>>

\* Mutant: a count without the bound of the model.
CountedOn(n) == n + 1

\* retry_count + 1; the model stops counting one above MaxRetries.
Counted(n) == IF n <= MaxRetries THEN n + 1 ELSE n

\* on_transmit returns False or raises; it may have sent the frame or not.
AirFails(w) ==
    /\ Landed(w)
    /\ state' = SetState(cur[w], "queued")
    /\ retries' = [retries EXCEPT ![cur[w]] =
                      IF Exists(cur[w]) THEN Counted(@) ELSE @]
    /\ aired' \in {aired, aired \cup {cur[w]}}

OnAir == {cur[w] : w \in {v \in Windows : pc[v] = "airing"}}

\* receive_ack: an ACK may overtake the radio's answer, be late or come twice.
ReceiveAck(b) ==
    /\ b \in aired \cup OnAir
    /\ state' = SetState(b, "delivered")
    /\ confirmed' = confirmed \cup {b}
    /\ UNCHANGED <<type, age, retries, windows, aired, crashes>>

\* The process dies, or its window tasks are cancelled, at an await.
Crash ==
    /\ crashes < MaxCrashes
    /\ \E w \in Windows : pc[w] # "closed"
    /\ pc' = [w \in Windows |-> "closed"]
    /\ todo' = [w \in Windows |-> {}]
    /\ cur' = [w \in Windows |-> 0]
    /\ owed' = [w \in Windows |-> {}]
    /\ crashes' = crashes + 1
    /\ \E S \in SUBSET OnAir : aired' = aired \cup S
    /\ UNCHANGED <<rows, confirmed>>

Tick ==
    /\ age' = [b \in Ids |->
                  IF Exists(b) /\ age[b] < OldestAge THEN age[b] + 1 ELSE age[b]]
    /\ UNCHANGED <<state, type, retries, windows, aired, confirmed, crashes>>

Radio(w) == AirSucceeds(w) \/ AirFails(w)

Next ==
    \/ \E b \in Ids : QueueMessage(b) \/ ReceiveAck(b)
    \/ \E w \in Windows :
          OpenWindow(w) \/ NextBundle(w) \/ CloseWindow(w) \/ AirSucceeds(w) \/ AirFails(w)
    \/ Crash
    \/ Tick

Spec == Init /\ [][Next]_vars

\* Passes recur, the loop runs, and the radio answers; it need not succeed.
FairSpec ==
    /\ Spec
    /\ \A w \in Windows :
          WF_vars(OpenWindow(w)) /\ WF_vars(NextBundle(w) \/ CloseWindow(w))
          /\ WF_vars(Radio(w))

-----------------------------------------------------------------------------
\* Types of the rows, of the windows and of the history; a window on the air
\* has a row there.
TypeOK ==
    /\ state \in [Ids -> BundleState \cup {"none"}]
    /\ type \in [Ids -> Types]
    /\ age \in [Ids -> 0..OldestAge]
    /\ retries \in [Ids -> 0..MaxRetries + 1]
    /\ pc \in [Windows -> {"closed", "next", "airing"}]
    /\ todo \in [Windows -> SUBSET Ids]
    /\ cur \in [Windows -> Ids \cup {0}]
    /\ \A w \in Windows : pc[w] = "airing" => cur[w] \in Ids
    /\ owed \in [Windows -> SUBSET Ids]
    /\ aired \subseteq Ids /\ confirmed \subseteq Ids
    /\ crashes \in 0..MaxCrashes

\* An SOS that was pending when the pass began is attempted in that pass
\* before anything else goes on the air, whatever is queued, acknowledged or
\* sent by an overlapping pass meanwhile (get_pending, transmission_window).
SosFirst ==
    \A w \in Windows :
        pc[w] = "airing" /\ type[cur[w]] # "sos" => owed[w] = {}

\* An SOS is never dropped from the store, however old it gets.
SosKept == [][\A b \in Ids : type[b] = "sos" /\ Exists(b) => state'[b] # "none"]_vars

\* As long as no pass is cut short by a crash, a TRANSMITTING row, which
\* get_pending does not select, is on the air of some window: none is orphaned.
NoOrphan ==
    crashes = 0 => \A b \in Ids : state[b] = "transmitting" => b \in OnAir

\* A DELIVERED row is only reopened by a pass that had it in its snapshot or
\* on the air when the ACK came: it is never selected again (get_pending) and
\* never expires.
DeliveredStays ==
    [][\A b \in Ids :
          state[b] = "delivered" /\ state'[b] # "delivered"
              => \E w \in Windows : b \in todo[w] \cup {cur[w]}]_vars

\* As long as no pass is cut short by a crash, the first SOS is transmitted
\* again and again until its ACK is in, however often the radio fails: no pass
\* gives it up (get_pending never asks can_retry).
SosRetried ==
    \A b \in Ids :
        /\ Exists(b) /\ type[b] = "sos" /\ b \notin confirmed
        /\ \A n \in Ids : n < b => type[n] # "sos"
        ~> b \in confirmed \cup OnAir \/ crashes > 0

-----------------------------------------------------------------------------
(* Statements of the repository that the code does not keep. *)

\* "Process received ACK -- mark bundle as delivered"; "Delivered --> [*]"
DeliveredIsFinal ==
    [][\A b \in Ids : state[b] = "delivered" => state'[b] = "delivered"]_vars

\* "max_retries: int = 5" with can_retry, and "Queued: Retry (max 5)"
RetryLimit == \A b \in Ids : retries[b] <= MaxRetries

=============================================================================
