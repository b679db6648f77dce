------------------------------ MODULE Downlink ------------------------------
(***************************************************************************)
(* The downlink of the ground station: the polling loop of                 *)
(* ground_station/relay_daemon.py, the packet feed it reads through         *)
(* TinyGSClient.receive_packets, and InboxRouter.route_packet, which posts *)
(* a packet to the backend unless a copy of it was seen in the last         *)
(* dedup_ttl_s seconds.  The loop chooses its interval anew at each poll,   *)
(* 30 s during a pass and 300 s otherwise, and asks for the packets of the *)
(* last two intervals.                                                     *)
(*                                                                         *)
(* Time is discrete.  A moment in the past is kept as its age, which stops *)
(* counting at TTL: a dedup entry that old is pruned and a packet that old *)
(* is out of reach of every poll, so greater ages need no distinction.     *)
(***************************************************************************)
EXTENDS Integers, FiniteSets, FiniteSetsExt

CONSTANTS
    Entries,    \* receptions in the feed: two stations that hear one packet make two
    Data,       \* what records may hold, all that the dedup hash tells apart
    Unreadable, \* data too short to hold a header
    Malformed,  \* records without data, with bad base64, or an rssi that is no number
    Fast, Slow, \* the two polling intervals
    ErrorWait,  \* how long the loop sleeps after an error
    TTL,        \* dedup_ttl_s
    Limit,      \* how many packets one poll may return, the newest ones
    Busy,       \* bound: the longest a poll and the posts after it take
    MaxStops    \* bound: how often the daemon is stopped

ASSUME FeedAssumption ==
    /\ IsFiniteSet(Entries)
    /\ Unreadable \subseteq Data /\ Malformed \subseteq Data
ASSUME TimeAssumption ==
    /\ Fast \in Nat \ {0} /\ Slow \in Nat /\ Fast <= Slow
    /\ ErrorWait \in Nat /\ ErrorWait <= Slow
    /\ TTL \in Nat /\ Limit \in Nat /\ Busy \in Nat /\ MaxStops \in Nat
    /\ 2 * Slow + Busy < TTL

VARIABLES
    heard,    \* receptions the feed holds
    copyOf,   \* the data of each reception
    age,      \* how long ago each was heard
    phase,    \* where the loop is; "down" when the daemon does not run
    interval, \* interval of the latest poll
    asked,    \* how long ago the latest poll began
    left,     \* what is left of a sleep
    todo,     \* packets of the latest poll not routed yet
    seen,     \* _seen_hashes: age of each mark, TTL for data without one
    status,   \* what became of each reception in this run of the daemon
    stops,    \* how often the daemon was stopped
    steady    \* history: FALSE once a poll came late, failed or was cut short

feedVars == <<heard, copyOf, age>>
loopVars == <<phase, interval, asked, left>>
routeVars == <<todo, seen, status>>
vars == <<feedVars, loopVars, routeVars, stops, steady>>

-----------------------------------------------------------------------------

(* No limit on ages: entries are never pruned. *)
OlderUnbounded(a) == a + 1

(* An age one unit later. *)
Older(a) == IF a < TTL THEN a + 1 ELSE TTL

(* The window is the interval itself: what arrives while the loop is busy   *)
(* after a poll is out of the next one's reach.                            *)
InWindowOnce(e) == age[e] <= interval + asked

(* The timestamps receive_packets lets through: now - interval * 2 was      *)
(* taken before the request, asked units ago.                              *)
InWindow(e) == age[e] <= 2 * interval + asked

(* What the feed may answer: as many of its packets as the limit allows,    *)
(* none of them older than one left out.                                   *)
Newest == { S \in SUBSET heard :
              /\ Cardinality(S) <= Limit
              /\ S # heard => Cardinality(S) = Limit
              /\ \A e \in S, f \in heard \ S : age[e] <= age[f] }

(* The cache is pruned after two short intervals, and a window can be two  *)
(* long ones.                                                              *)
IsDuplicateBriefly(e) == seen[copyOf[e]] < 2 * Fast

(* InboxRouter._is_duplicate after its pruning. *)
IsDuplicate(e) == seen[copyOf[e]] < TTL

Mark(e) == [seen EXCEPT ![copyOf[e]] = 0]

Posting == { e \in Entries : status[e] = "posting" }

(* Receptions whose record the loop can read. *)
WellFormed == { e \in heard : copyOf[e] \notin Malformed }

(* Receptions that were posted in this run of the daemon. *)
Posted == { e \in Entries : status[e] \in {"posting", "delivered", "failed"} }

-----------------------------------------------------------------------------

Init ==
    /\ heard = {}
    /\ copyOf \in [Entries -> Data]
    /\ age = [e \in Entries |-> 0]
    /\ phase = "decide"
    /\ interval = Fast
    /\ asked = 0
    /\ left = 0
    /\ todo = {}
    /\ seen = [d \in Data |-> TTL]
    /\ status = [e \in Entries |-> "new"]
    /\ stops = 0
    /\ steady = TRUE

(* A ground station of the TinyGS network uploads a packet. *)
Hear(e) ==
    /\ e \notin heard
    /\ heard' = heard \union {e}
    /\ age' = [age EXCEPT ![e] = 0]
    /\ UNCHANGED <<copyOf, loopVars, routeVars, stops, steady>>

(* The loop asks the pass scheduler for the interval; a poll that comes     *)
(* sooner than the one before it planned looks less far back.              *)
Decide ==
    /\ phase = "decide"
    /\ \E i \in {Fast, Slow} :
         /\ interval' = i
         /\ steady' = (steady /\ interval <= i)
    /\ asked' = 0
    /\ phase' = "ask"
    /\ UNCHANGED <<feedVars, left, routeVars, stops>>

(* receive_packets returns; an answer that is not a list counts as empty.   *)
Answer ==
    /\ phase = "ask"
    /\ \/ \E S \in Newest :
            /\ todo' = { e \in S : InWindow(e) }
            /\ steady' = (steady /\ \A e \in heard : InWindow(e) => e \in S)
       \/ /\ todo' = {}
          /\ steady' = FALSE
    /\ phase' = "route"
    /\ UNCHANGED <<feedVars, interval, asked, left, seen, status, stops>>

(* The request or the scheduler raises: the loop logs and sleeps. *)
Fail ==
    /\ phase \in {"decide", "ask"}
    /\ phase' = "sleep"
    /\ left' = ErrorWait
    /\ steady' = FALSE
    /\ UNCHANGED <<feedVars, interval, asked, routeVars, stops>>

(* route_packet skips a duplicate, and gives up on data without a header    *)
(* after marking it.                                                       *)
Skip(e) ==
    /\ \/ /\ IsDuplicate(e)
          /\ seen' = seen
       \/ /\ ~IsDuplicate(e)
          /\ copyOf[e] \in Unreadable
          /\ seen' = Mark(e)
    /\ status' = [status EXCEPT ![e] = IF @ = "new" THEN "skipped" ELSE @]

(* A record that cannot be read never gets to route_packet: no data is      *)
(* passed over and an exception is swallowed.  Nothing is marked, so every  *)
(* poll that answers it drops it again.                                    *)
Drop == UNCHANGED <<seen, status>>

(* route_packet marks the data and posts it. *)
Post(e) ==
    /\ ~IsDuplicate(e)
    /\ copyOf[e] \notin Unreadable
    /\ seen' = Mark(e)
    /\ status' = [status EXCEPT ![e] = "posting"]

Route(e) ==
    /\ phase = "route"
    /\ Posting = {}
    /\ e \in todo
    /\ todo' = todo \ {e}
    /\ IF copyOf[e] \in Malformed THEN Drop ELSE Skip(e) \/ Post(e)
    /\ UNCHANGED <<feedVars, loopVars, stops, steady>>

(* _deliver_to_backend returns: a 2xx answer, or an error, a refusal or a   *)
(* time out, after which the backend may have stored the packet or not.    *)
Delivered(e) ==
    /\ \E result \in {"delivered", "failed"} : status' = [status EXCEPT ![e] = result]
    /\ seen' = seen

PostEnds(e) ==
    /\ e \in Posting
    /\ Delivered(e)
    /\ UNCHANGED <<feedVars, loopVars, todo, stops, steady>>

(* A refused post raises out of the loop. *)
SleepUnlessFailed ==
    /\ phase = "route"
    /\ todo = {}
    /\ Posting = {}
    /\ \A e \in Entries : status[e] # "failed"
    /\ phase' = "sleep"
    /\ left' = interval
    /\ UNCHANGED <<feedVars, interval, asked, routeVars, stops, steady>>

Sleep ==
    /\ phase = "route"
    /\ todo = {}
    /\ Posting = {}
    /\ phase' = "sleep"
    /\ left' = interval
    /\ UNCHANGED <<feedVars, interval, asked, routeVars, stops, steady>>

(* The loop goes on to the next poll only after a poll with packets. *)
WakeIfMarked ==
    /\ phase = "sleep"
    /\ left = 0
    /\ \E d \in Data : seen[d] < TTL
    /\ phase' = "decide"
    /\ UNCHANGED <<feedVars, interval, asked, left, routeVars, stops, steady>>

Wake ==
    /\ phase = "sleep"
    /\ left = 0
    /\ phase' = "decide"
    /\ UNCHANGED <<feedVars, interval, asked, left, routeVars, stops, steady>>

(* The process ends, and its dedup cache with it.  What a run did is not    *)
(* remembered in the next.                                                 *)
Stop ==
    /\ phase # "down"
    /\ stops < MaxStops
    /\ stops' = stops + 1
    /\ phase' = "down"
    /\ left' = 0
    /\ todo' = {}
    /\ seen' = [d \in Data |-> TTL]
    /\ status' = [e \in Entries |-> "new"]
    /\ steady' = FALSE
    /\ asked' = 0
    /\ UNCHANGED <<feedVars, interval>>

Restart ==
    /\ phase = "down"
    /\ phase' = "decide"
    /\ UNCHANGED <<feedVars, interval, asked, left, routeVars, stops, steady>>

(* Time passes in a sleep, in the request and the posts, which block the    *)
(* loop, and while the daemon is down.  Posts that outlast an interval make *)
(* the next poll late.                                                     *)
Tick ==
    /\ \/ /\ phase = "sleep"
          /\ left > 0
          /\ left' = left - 1
          /\ steady' = steady
       \/ /\ phase \in {"ask", "route"}
          /\ asked < Busy
          /\ left' = left
          /\ steady' = (steady /\ asked < interval)
       \/ /\ phase = "down"
          /\ UNCHANGED <<left, steady>>
    /\ asked' = IF phase = "down" THEN asked ELSE Older(asked)
    /\ age' = [e \in Entries |-> Older(age[e])]
    /\ seen' = [d \in Data |-> Older(seen[d])]
    /\ UNCHANGED <<heard, copyOf, phase, interval, todo, status, stops>>

Loop ==
    \/ Decide
    \/ Answer
    \/ Fail
    \/ \E e \in Entries : Route(e)
    \/ \E e \in Entries : PostEnds(e)
    \/ Sleep
    \/ Wake

Next ==
    \/ \E e \in Entries : Hear(e)
    \/ Loop
    \/ Stop
    \/ Restart
    \/ Tick

Spec == Init /\ [][Next]_vars

(* The loop runs on, the service manager restarts the daemon and time       *)
(* passes.  The feed, the backend and the pass scheduler may always fail.  *)
FairSpec == Spec /\ WF_vars(Loop) /\ WF_vars(Restart) /\ WF_vars(Tick)

-----------------------------------------------------------------------------

(* Every variable has its type. *)
TypeOK ==
    /\ heard \subseteq Entries
    /\ copyOf \in [Entries -> Data]
    /\ age \in [Entries -> 0..TTL]
    /\ phase \in {"decide", "ask", "route", "sleep", "down"}
    /\ interval \in {Fast, Slow}
    /\ asked \in 0..TTL
    /\ left \in 0..Slow
    /\ todo \subseteq heard
    /\ seen \in [Data -> 0..TTL]
    /\ status \in [Entries -> {"new", "skipped", "posting", "delivered", "failed"}]
    /\ stops \in 0..MaxStops
    /\ steady \in BOOLEAN

(* No copy of e was posted in this run and heard less than TTL ago, and e   *)
(* itself was not posted at all.                                           *)
NotPosted(e) ==
    /\ e \notin Posted
    /\ \A f \in Posted : copyOf[f] = copyOf[e] => age[f] = TTL

(* The dedup cache of inbox_router.py prevents double delivery: while it    *)
(* runs, the daemon posts a reception at most once although consecutive     *)
(* windows overlap, and posts no copy of a packet that was posted and heard *)
(* less than TTL ago, whatever became of the earlier post.                 *)
OnePost ==
    [][\A e \in Entries :
         status[e] # "posting" /\ status'[e] = "posting" => NotPosted(e)]_vars

(* The windows of consecutive polls leave no gap: as long as no poll was    *)
(* sooner than planned, late, failed or cut short, each reception with a    *)
(* readable record was routed, is being routed, or is recent enough for the *)
(* next poll to see.  An unreadable record costs no other reception its     *)
(* turn; it itself is lost, unless another station heard the packet too.    *)
NoGap ==
    steady => \A e \in WellFormed :
        \/ status[e] # "new"
        \/ e \in todo
        \/ age[e] <= asked
        \/ phase = "ask" /\ InWindow(e)

(* A reception with a readable record is routed in the end, unless the      *)
(* polls ceased to be steady.  Routed is not delivered: one post is all it  *)
(* gets, refused or not.                                                   *)
HeardIsRouted ==
    \A e \in Entries :
        e \in WellFormed ~> (status[e] # "new" \/ ~steady)

(* No error, refused post or restart ends the polling. *)
PollsAgain == []<>(phase = "decide")

=============================================================================
