-------------------------- MODULE Downlink_proofs --------------------------
(***************************************************************************)
(* Proofs about the downlink: polls leave no gap while they are steady, and *)
(* no packet is posted twice within the dedup time, for every set of        *)
(* receptions, every interval, limit and dedup time that TimeAssumption     *)
(* admits and every number of restarts.                                    *)
(***************************************************************************)
EXTENDS Downlink, TLAPS

-----------------------------------------------------------------------------
(* Type correctness. *)

LEMMA OlderType == \A a \in 0..TTL : Older(a) \in 0..TTL /\ a <= Older(a)
    BY TimeAssumption DEF Older

LEMMA OlderMonotone == \A a, b \in 0..TTL : a <= b => Older(a) <= Older(b)
    BY TimeAssumption DEF Older

LEMMA TypeInit == Init => TypeOK
    BY TimeAssumption DEF Init, TypeOK

LEMMA TypeStep == TypeOK /\ [Next]_vars => TypeOK'
<1> SUFFICES ASSUME TypeOK, [Next]_vars PROVE TypeOK'
    OBVIOUS
<1> USE TimeAssumption DEF feedVars, loopVars, routeVars
<1>1. ASSUME NEW e \in Entries, Hear(e) PROVE TypeOK'
    BY <1>1 DEF TypeOK, Hear
<1>2. CASE Decide
    BY <1>2 DEF TypeOK, Decide
<1>3. CASE Answer
    <2>1. todo' \subseteq heard /\ steady' \in BOOLEAN
        BY <1>3 DEF TypeOK, Answer, Newest
    <2> QED
        BY <1>3, <2>1 DEF TypeOK, Answer
<1>4. CASE Fail
    <2>1. ErrorWait \in 0..Slow
        OBVIOUS
    <2> QED
        BY <1>4, <2>1 DEF TypeOK, Fail
<1>5. ASSUME NEW e \in Entries, Route(e) PROVE TypeOK'
    <2>1. seen' \in [Data -> 0..TTL]
        BY <1>5 DEF TypeOK, Route, Drop, Skip, Post, Mark
    <2>2. status' \in [Entries -> {"new", "skipped", "posting", "delivered", "failed"}]
        BY <1>5 DEF TypeOK, Route, Drop, Skip, Post
    <2> QED
        BY <1>5, <2>1, <2>2 DEF TypeOK, Route
<1>6. ASSUME NEW e \in Entries, PostEnds(e) PROVE TypeOK'
    BY <1>6 DEF TypeOK, PostEnds, Delivered
<1>7. CASE Sleep
    BY <1>7 DEF TypeOK, Sleep
<1>8. CASE Wake
    BY <1>8 DEF TypeOK, Wake
<1>9. CASE Stop
    <2>1. stops' \in 0..MaxStops /\ 0 \in 0..Slow /\ 0 \in 0..TTL /\ TTL \in 0..TTL
        BY <1>9 DEF TypeOK, Stop
    <2>2. seen' \in [Data -> 0..TTL] /\ todo' \subseteq heard
        BY <1>9, <2>1 DEF Stop
    <2> QED
        BY <1>9, <2>1, <2>2 DEF TypeOK, Stop
<1>10. CASE Restart
    BY <1>10 DEF TypeOK, Restart
<1>11. CASE Tick
    <2>1. asked' \in 0..TTL /\ age' \in [Entries -> 0..TTL] /\ seen' \in [Data -> 0..TTL]
        BY <1>11, OlderType DEF TypeOK, Tick
    <2>2. left' \in 0..Slow /\ steady' \in BOOLEAN
        <3>1. left \in 0..Slow /\ (left > 0 => left - 1 \in 0..Slow)
            BY DEF TypeOK
        <3>2. left' = left \/ (left > 0 /\ left' = left - 1)
            BY <1>11 DEF Tick
        <3>3. steady' \in BOOLEAN
            BY <1>11 DEF Tick, TypeOK
        <3> QED
            BY <3>1, <3>2, <3>3
    <2> QED
        BY <1>11, <2>1, <2>2 DEF TypeOK, Tick
<1>12. CASE UNCHANGED vars
    BY <1>12 DEF TypeOK, vars
<1> QED
    BY <1>1, <1>2, <1>3, <1>4, <1>5, <1>6, <1>7, <1>8, <1>9, <1>10, <1>11, <1>12 DEF Next, Loop

\* Every variable of the downlink keeps its type.
THEOREM TypeCorrect == Spec => []TypeOK
<1> QED
    BY TypeInit, TypeStep, PTL DEF Spec

-----------------------------------------------------------------------------
(* No second post. *)

\* Packets are routed, and posts awaited, only between an answer and the
\* sleep, and the packets were in the window when the poll began.
InReach ==
    /\ phase \in {"ask", "route"} => asked <= Busy
    /\ phase # "route" => todo = {}
    /\ \A e \in todo : InWindow(e)

\* What was posted is marked, and the mark is no older than the packet.
Marked ==
    \A e \in Posted : e \in heard /\ seen[copyOf[e]] <= age[e]

LEMMA ReachStep == TypeOK /\ InReach /\ [Next]_vars => InReach'
<1> SUFFICES ASSUME TypeOK, InReach, [Next]_vars PROVE InReach'
    OBVIOUS
<1> USE TimeAssumption DEF feedVars, loopVars, routeVars, InReach, InWindow
<1>1. ASSUME NEW e \in Entries, Hear(e) PROVE InReach'
    BY <1>1 DEF TypeOK, Hear
<1>2. CASE Decide
    BY <1>2 DEF TypeOK, Decide
<1>3. CASE Answer
    BY <1>3 DEF TypeOK, Answer
<1>4. CASE Fail
    <2>1. ErrorWait \in 0..Slow
        OBVIOUS
    <2> QED
        BY <1>4, <2>1 DEF TypeOK, Fail
<1>5. ASSUME NEW e \in Entries, Route(e) PROVE InReach'
    BY <1>5 DEF TypeOK, Route
<1>6. ASSUME NEW e \in Entries, PostEnds(e) PROVE InReach'
    BY <1>6 DEF PostEnds
<1>7. CASE Sleep \/ Wake \/ Restart
    BY <1>7 DEF Sleep, Wake, Restart
<1>8. CASE Stop
    BY <1>8 DEF Stop
<1>9. CASE Tick
    <2>1. CASE phase \in {"ask", "route"}
        <3>1. asked' = asked + 1 /\ asked' <= Busy
            BY <1>9, <2>1 DEF Tick, TypeOK, Older
        <3>2. \A e \in todo : age'[e] <= age[e] + 1 /\ age[e] \in Nat /\ age'[e] \in Nat
            BY <1>9, OlderType DEF Tick, TypeOK, Older
        <3>3. \A e \in todo : age'[e] <= 2 * interval + asked'
            BY <3>1, <3>2 DEF TypeOK
        <3> QED
            BY <1>9, <2>1, <3>1, <3>3 DEF Tick
    <2>2. CASE phase \notin {"ask", "route"}
        BY <1>9, <2>2 DEF Tick
    <2> QED
        BY <2>1, <2>2
<1>10. CASE UNCHANGED vars
    BY <1>10 DEF vars
<1> QED
    BY <1>1, <1>2, <1>3, <1>4, <1>5, <1>6, <1>7, <1>8, <1>9, <1>10 DEF Next, Loop

LEMMA MarkedStep == TypeOK /\ InReach /\ Marked /\ [Next]_vars => Marked'
<1> SUFFICES ASSUME TypeOK, InReach, Marked, [Next]_vars PROVE Marked'
    OBVIOUS
<1> USE TimeAssumption DEF feedVars, loopVars, routeVars, Marked, Posted
<1>1. ASSUME NEW e \in Entries, Hear(e) PROVE Marked'
    BY <1>1 DEF TypeOK, Hear
<1>2. CASE Decide \/ Answer \/ Fail \/ Sleep \/ Wake \/ Restart \/ UNCHANGED vars
    BY <1>2 DEF Decide, Answer, Fail, Sleep, Wake, Restart, vars
<1>3. ASSUME NEW e \in Entries, Route(e), Skip(e) PROVE Marked'
    <2>1. Posted' = Posted /\ \A d \in Data : seen'[d] <= seen[d]
        BY <1>3 DEF Route, Skip, Mark, TypeOK
    <2>2. seen' \in [Data -> 0..TTL]
        BY <1>3, TypeStep DEF TypeOK
    <2> QED
        BY <1>3, <2>1, <2>2 DEF Route, TypeOK
<1>4. ASSUME NEW e \in Entries, Route(e), Post(e) PROVE Marked'
    <2>1. Posted' \subseteq Posted \cup {e} /\ e \in heard
        BY <1>4 DEF Route, Post, TypeOK
    <2>2. \A f \in Entries : seen'[copyOf[f]] <= seen[copyOf[f]] /\ seen'[copyOf[f]] \in Nat
        BY <1>4 DEF Post, Mark, TypeOK
    <2>3. seen'[copyOf[e]] = 0
        BY <1>4 DEF Post, Mark, TypeOK
    <2> QED
        BY <1>4, <2>1, <2>2, <2>3 DEF Route, TypeOK
<1>5. ASSUME NEW e \in Entries, PostEnds(e) PROVE Marked'
    <2>1. Posted' \subseteq Posted
        BY <1>5 DEF PostEnds, Delivered, Posting, TypeOK
    <2> QED
        BY <1>5, <2>1 DEF PostEnds, Delivered
<1>6. CASE Stop
    BY <1>6 DEF Stop
<1>7. CASE Tick
    <2>1. \A e \in Posted : seen'[copyOf[e]] <= age'[e]
        BY <1>7, OlderMonotone DEF Tick, TypeOK
    <2> QED
        BY <1>7, <2>1 DEF Tick
<1>8. ASSUME NEW e \in Entries, Route(e), Drop PROVE Marked'
    BY <1>8 DEF Route, Drop
<1> QED
    BY <1>1, <1>2, <1>3, <1>4, <1>5, <1>6, <1>7, <1>8 DEF Next, Loop, Route

\* Every step that posts a packet posts one that no copy precedes.
LEMMA PostStep ==
    ASSUME TypeOK, InReach, Marked, [Next]_vars,
           NEW e \in Entries, status[e] # "posting", status'[e] = "posting"
    PROVE  NotPosted(e)
<1> USE TimeAssumption
<1>1. Route(e) /\ Post(e)
    <2>1. PICK f \in Entries : Route(f) \/ PostEnds(f)
        BY DEF Next, Loop, Hear, Decide, Answer, Fail, Sleep, Wake, Stop, Restart, Tick,
               vars, feedVars, loopVars, routeVars, TypeOK
    <2>2. ~PostEnds(f)
        BY DEF PostEnds, Delivered, TypeOK
    <2>3. ~Skip(f)
        BY DEF Skip, TypeOK
    <2>4. ~Drop
        BY DEF Drop, TypeOK
    <2> QED
        BY <2>1, <2>2, <2>3, <2>4 DEF Route, Post, TypeOK
<1>2. seen[copyOf[e]] = TTL
    BY <1>1 DEF Post, IsDuplicate, TypeOK
<1>3. \A f \in Posted : copyOf[f] = copyOf[e] => age[f] = TTL
    BY <1>2 DEF Marked, TypeOK, Posted
<1>4. age[e] < TTL
    BY <1>1 DEF Route, InReach, InWindow, TypeOK
<1> QED
    BY <1>3, <1>4 DEF NotPosted

\* The dedup cache prevents double posts, however the windows overlap and
\* whatever the backend answers.
THEOREM OnePostHolds == Spec => OnePost
<1>1. Init => TypeOK /\ InReach /\ Marked
    BY TypeInit, TimeAssumption DEF Init, InReach, Marked, Posted
<1>2. TypeOK /\ InReach /\ Marked /\ [Next]_vars => (TypeOK /\ InReach /\ Marked)'
    BY TypeStep, ReachStep, MarkedStep
<1>3. TypeOK /\ InReach /\ Marked /\ [Next]_vars =>
        [\A e \in Entries :
            status[e] # "posting" /\ status'[e] = "posting" => NotPosted(e)]_vars
    BY PostStep
<1> QED
    BY <1>1, <1>2, <1>3, PTL DEF Spec, OnePost

-----------------------------------------------------------------------------
(* No gap. *)

\* While polls are steady each one begins before twice its interval is over,
\* and whatever was heard before it was routed or is about to be.
Steady ==
    /\ phase \in {"ask", "route"} => asked <= interval
    /\ phase = "sleep" => asked + left <= 2 * interval
    /\ phase = "decide" => asked <= 2 * interval
    /\ phase # "down"
    /\ \A e \in WellFormed : status[e] = "new" =>
         \/ e \in todo
         \/ phase # "ask" /\ age[e] <= asked
         \/ phase = "ask" /\ InWindow(e)

LEMMA SteadyStep == TypeOK /\ InReach /\ (steady => Steady) /\ [Next]_vars => (steady => Steady)'
<1> SUFFICES ASSUME TypeOK, InReach, steady => Steady, [Next]_vars, steady' PROVE Steady'
    OBVIOUS
<1> USE TimeAssumption DEF feedVars, loopVars, routeVars, WellFormed
<1>0. steady /\ Steady
    BY DEF Next, Loop, Hear, Decide, Answer, Fail, Route, PostEnds, Sleep, Wake, Stop, Restart,
           Tick, vars, TypeOK
<1>1. ASSUME NEW e \in Entries, Hear(e) PROVE Steady'
    <2>1. age'[e] = 0 /\ \A f \in heard : age'[f] = age[f]
        BY <1>1 DEF Hear, TypeOK
    <2> QED
        BY <1>0, <1>1, <2>1 DEF Hear, Steady, InWindow, TypeOK
<1>2. CASE Decide
    <2>1. asked <= 2 * interval /\ interval <= interval' /\ {interval, interval'} \subseteq Nat
        BY <1>0, <1>2 DEF Decide, Steady, TypeOK
    <2>2. \A e \in WellFormed : status[e] = "new" => age[e] <= asked
        BY <1>0, <1>2 DEF Decide, Steady, InReach
    <2>3. \A e \in WellFormed : status[e] = "new" => age[e] <= 2 * interval' + 0
        BY <2>1, <2>2 DEF TypeOK
    <2> QED
        BY <1>2, <2>1, <2>3 DEF Decide, Steady, InWindow
<1>3. CASE Answer
    <2>1. \A e \in heard : InWindow(e) => e \in todo'
        BY <1>3 DEF Answer
    <2> QED
        BY <1>0, <1>3, <2>1 DEF Answer, Steady, InReach
<1>4. CASE Fail \/ Stop \/ Restart
    BY <1>0, <1>4 DEF Fail, Stop, Restart, Steady
<1>5. ASSUME NEW e \in Entries, Route(e) PROVE Steady'
    <2>1. /\ e \in WellFormed => status'[e] # "new"
          /\ \A f \in Entries \ {e} : status'[f] = status[f]
        BY <1>5 DEF Route, Drop, Skip, Post, WellFormed, TypeOK
    <2> QED
        BY <1>0, <1>5, <2>1 DEF Route, Steady, TypeOK
<1>6. ASSUME NEW e \in Entries, PostEnds(e) PROVE Steady'
    <2>1. status'[e] # "new" /\ \A f \in Entries \ {e} : status'[f] = status[f]
        BY <1>6 DEF PostEnds, Delivered, TypeOK
    <2> QED
        BY <1>0, <1>6, <2>1 DEF PostEnds, Steady, InWindow, TypeOK
<1>7. CASE Sleep
    BY <1>0, <1>7 DEF Sleep, Steady, TypeOK
<1>8. CASE Wake
    BY <1>0, <1>8 DEF Wake, Steady, TypeOK
<1>9. CASE Tick
    <2>1. asked < TTL /\ asked' = asked + 1
        BY <1>0, <1>9 DEF Tick, Steady, TypeOK, InReach, Older
    <2>2. \A e \in heard : age'[e] <= age[e] + 1 /\ age[e] \in Nat /\ age'[e] \in Nat
        BY <1>9, OlderType DEF Tick, TypeOK, Older
    <2>3. \A e \in heard : age[e] <= asked => age'[e] <= asked'
        BY <2>1, <2>2 DEF TypeOK
    <2>4. \A e \in heard : age[e] <= 2 * interval + asked => age'[e] <= 2 * interval + asked'
        BY <2>1, <2>2 DEF TypeOK
    <2>5. \A e \in WellFormed : status[e] = "new" =>
            \/ e \in todo
            \/ phase # "ask" /\ age'[e] <= asked'
            \/ phase = "ask" /\ age'[e] <= 2 * interval + asked'
        BY <1>0, <2>3, <2>4 DEF Steady, InWindow
    <2>6. /\ phase \in {"ask", "route"} => asked' <= interval
          /\ phase = "sleep" => asked' + left' <= 2 * interval
          /\ phase # "decide"
        <3>1. asked \in Nat /\ interval \in Nat /\ left \in Nat
            BY DEF TypeOK
        <3>2. CASE phase = "sleep" /\ left > 0 /\ left' = left - 1
            BY <1>0, <2>1, <3>1, <3>2 DEF Steady
        <3>3. CASE phase \in {"ask", "route"} /\ asked < interval
            BY <2>1, <3>1, <3>3
        <3> QED
            BY <1>0, <1>9, <3>2, <3>3 DEF Tick, Steady
    <2> QED
        BY <1>0, <1>9, <2>5, <2>6 DEF Tick, Steady, InWindow
<1>10. CASE UNCHANGED vars
    BY <1>0, <1>10 DEF vars, Steady, InWindow
<1> QED
    BY <1>1, <1>2, <1>3, <1>4, <1>5, <1>6, <1>7, <1>8, <1>9, <1>10 DEF Next, Loop

\* Two intervals of look-back are enough for polls that are on time, whatever
\* the order and the lengths of the requests and posts.
THEOREM NoGapHolds == Spec => []NoGap
<1>1. Init => TypeOK /\ InReach /\ (steady => Steady)
    BY TypeInit, TimeAssumption DEF Init, InReach, Steady, WellFormed, TypeOK
<1>2. TypeOK /\ InReach /\ (steady => Steady) /\ [Next]_vars
        => (TypeOK /\ InReach /\ (steady => Steady))'
    BY TypeStep, ReachStep, SteadyStep
<1>3. (steady => Steady) => NoGap
    BY DEF Steady, NoGap, WellFormed
<1> QED
    BY <1>1, <1>2, <1>3, PTL DEF Spec

=============================================================================
