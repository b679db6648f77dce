------------------------------- MODULE Inbox --------------------------------
(***************************************************************************)
(* Reading one user's messages while they change: GET /api/v1/messages and *)
(* /inbox are read page by page by offset, GET /api/v1/queue counts the    *)
(* rows of each status with a query of its own.  Between two queries the   *)
(* user posts, and the transmit worker moves a row on.  A row's created_at *)
(* is the second of the database's clock, and pages are ordered by it      *)
(* alone: rows of one second come in any order, anew in each query.        *)
(***************************************************************************)
EXTENDS Naturals, Sequences, FiniteSets, Functions

CONSTANTS
    MaxRows,  \* bound: messages the user posts
    Page      \* the query parameter limit

InboxAssumption == MaxRows \in Nat /\ Page \in Nat \ {0}

\* The order in which get_queue_status asks: that of MessageStatus.
Statuses == <<"queued", "transmitting", "awaiting_ack", "delivered",
              "failed", "expired">>
StatusesBackwards == <<"expired", "failed", "delivered", "awaiting_ack",
                       "transmitting", "queued">>
Asked == Statuses
Any == "any"

VARIABLES
    status,   \* Message.status of each row posted, by id
    created,  \* Message.created_at of each row; only whether it changes matters
    filter,   \* the query parameter status of the walk; Any: none
    offset,   \* of the walk's next page
    walked,   \* ids the walk has read
    walking,  \* whether the walk goes on
    at0,      \* history: rows there were when the walk began
    tally,    \* what get_queue_status has counted
    turn,     \* the status it asks for next; 0: it is not running
    owed      \* history: rows there were when it began

walk == <<filter, offset, walked, walking, at0>>
report == <<tally, turn, owed>>
rows == <<status, created>>
vars == <<rows, walk, report>>

Ids == DOMAIN status
TypeOK ==
    /\ status \in Seq({Statuses[i] : i \in 1..6}) /\ Len(status) <= MaxRows
    /\ created \in Seq(Nat) /\ Len(created) = Len(status)
    /\ filter \in {Any, "queued"}
    /\ offset \in Nat /\ walked \subseteq Ids /\ walking \in BOOLEAN
    /\ at0 \in 0..MaxRows
    /\ tally \in Nat /\ turn \in 0..6 /\ owed \in 0..MaxRows

Init ==
    /\ status = <<>> /\ created = <<>>
    /\ filter = Any /\ offset = 0 /\ walked = {} /\ walking = FALSE /\ at0 = 0
    /\ tally = 0 /\ turn = 0 /\ owed = 0

-----------------------------------------------------------------------------
\* The clock of the newest row; the next one has it too, or a later one.
Newest == IF created = <<>> THEN 0 ELSE created[Len(created)]

Post ==
    /\ Len(status) < MaxRows
    /\ status' = Append(status, "queued")
    /\ \E t \in {Newest, Newest + 1} : created' = Append(created, t)
    /\ UNCHANGED <<walk, report>>

\* What tx_queue.py makes of a row; nothing ends a row that awaits its ACK.
Moves == {<<"queued", "transmitting">>, <<"transmitting", "awaiting_ack">>,
          <<"transmitting", "failed">>}

Move(i) ==
    /\ \E m \in Moves : status[i] = m[1] /\ status' = [status EXCEPT ![i] = m[2]]
    /\ UNCHANGED <<created, walk, report>>

-----------------------------------------------------------------------------
\* order_by(created_at.desc()) of the rows that match, as the place of each:
\* nothing breaks a tie.
Matching(f) == {i \in Ids : f = Any \/ status[i] = f}
Listings(S) == {place \in Bijection(S, 0..(Cardinality(S) - 1)) :
                   \A i, j \in S : created[i] > created[j] => place[i] < place[j]}
PageOf(place, from) == {i \in DOMAIN place : place[i] \in from..(from + Page - 1)}
\* Mutant: a page starts one row late.
PageAfter(place, from) == {i \in DOMAIN place : place[i] \in (from + 1)..(from + Page)}
Fetched(place, from) == PageOf(place, from)

StartWalk(f) ==
    /\ ~walking
    /\ filter' = f /\ offset' = 0 /\ walked' = {} /\ walking' = TRUE
    /\ at0' = Len(status)
    /\ UNCHANGED <<rows, report>>

\* The client reads on until a page is not full.
NextPage ==
    /\ walking
    /\ \E place \in Listings(Matching(filter)) :
          /\ walked' = walked \cup Fetched(place, offset)
          /\ walking' = (Cardinality(Fetched(place, offset)) = Page)
    /\ offset' = offset + Page
    /\ UNCHANGED <<rows, filter, at0, report>>

-----------------------------------------------------------------------------
StartReport ==
    /\ turn = 0
    /\ turn' = 1 /\ tally' = 0 /\ owed' = Len(status)
    /\ UNCHANGED <<rows, walk>>

\* Mutant: the count goes on past the last status.
PastEnd(i) == i + 1
Following(i) == IF i = Len(Asked) THEN 0 ELSE i + 1

CountStatus ==
    /\ turn # 0
    /\ tally' = tally + Cardinality({i \in Ids : status[i] = Asked[turn]})
    /\ turn' = Following(turn)
    /\ UNCHANGED <<rows, walk, owed>>

Changes == Post \/ \E i \in Ids : Move(i)

Walks ==
    \/ Changes
    \/ \E f \in {Any, "queued"} : StartWalk(f)
    \/ NextPage

Reports ==
    \/ Changes
    \/ StartReport
    \/ CountStatus

Next == Walks \/ Reports

Spec == Init /\ [][Next]_vars

-----------------------------------------------------------------------------
(* A walk without a filter reads every row there was when it began, or     *)
(* another of the same second: rows that come meanwhile push others to a   *)
(* later page, never to an earlier, and only rows of one second change     *)
(* places between two pages, so that a row alone in its second is read.    *)
WalkComplete ==
    ~walking /\ filter = Any =>
        \A i \in 1..at0 : \E j \in walked : created[j] = created[i]

(* The total of the queue's status misses no row there was when it began:  *)
(* rows move on in the order in which the statuses are asked for.          *)
TotalComplete == turn = 0 => tally >= owed

=============================================================================
