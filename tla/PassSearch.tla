------------------------------ MODULE PassSearch ------------------------------
(***************************************************************************)
(* The search for passes and the calls that answer from it: the pass       *)
(* scheduler, the /passes routes, and the orbital predictor's scan of a    *)
(* time grid.  Time is counted in samples, and the sky says at which of    *)
(* them a satellite is above the minimum elevation.                        *)
(*                                                                         *)
(* A satellite is looked up by a fragment of its name.  Of the satellites  *)
(* of TARGET_SATELLITES, the name of FOSSASAT-2E occurs in the name of     *)
(* FOSSASAT-2E4: Short is looked up as whichever was loaded first.         *)
(***************************************************************************)
EXTENDS Naturals

CONSTANTS
    Satellites, \* those of the TLE file
    Short,      \* the one whose name occurs in the names of the others
    Users,
    Ahead,      \* hours_ahead of a listing
    Far,        \* the 48 hours of next_pass
    Steps       \* bound: samples

PassSearchAssumption ==
    Short \in Satellites /\ {Ahead, Far} \subseteq Nat /\ Steps \in Nat \ {0}

VARIABLES
    sky,      \* per satellite, whether it is up at each sample
    first,    \* the satellite loaded first
    now,
    selected, \* _selected_satellite
    answer    \* the last answer given at this time, or None

vars == <<sky, first, now, selected, answer>>

None == [kind |-> "none"]
NoPass == [rise |-> 0, set |-> 0]
Nobody == [none |-> TRUE]
NoEta == Steps
Moments == 1..Steps

-----------------------------------------------------------------------------
(***************************************************************************)
(* Skyfield's find_events and the passes made of the events: a rise is     *)
(* matched with the last set before the next rise.  The culmination lies   *)
(* between the two.                                                        *)
(***************************************************************************)
Rises(s) == {t \in Moments \ {1} : sky[s][t] /\ ~sky[s][t - 1]}
Sets(s) == {t \in Moments \ {1} : ~sky[s][t] /\ sky[s][t - 1]}

FindSatellite(s) == IF s = Short THEN first ELSE s

Window(t, h) == {e \in Moments : t < e /\ e <= t + h}

PassesOf(s, window) ==
    {p \in [rise : Rises(s) \cap window, set : Sets(s) \cap window] :
        p.rise < p.set /\ \A r \in Rises(s) : r <= p.rise \/ p.set < r}

NextPasses(s, t, h) == PassesOf(FindSatellite(s), Window(t, h))

Earliest(passes) ==
    IF passes = {} THEN NoPass
    ELSE CHOOSE p \in passes : \A q \in passes : p.rise <= q.rise

NextPass(s, t) == Earliest(NextPasses(s, t, Far))

AllUpcomingPasses(h) == [s \in Satellites |-> NextPasses(s, now, h)]

\* predict_passes: a pass that starts at an index ends at the first later one
\* that is below the minimum or the last of the grid, which it leaves out.
Closing(s, a) == {i \in Moments : a < i /\ (~sky[s][i] \/ i = Steps)}

PredictPasses(s) ==
    {[rise |-> w[1], set |-> w[2]] : w \in
        {w \in (now..Steps) \X Moments :
            /\ sky[s][w[1]] /\ (w[1] = now \/ ~sky[s][w[1] - 1])
            /\ w[2] \in Closing(s, w[1]) /\ \A j \in Closing(s, w[1]) : w[2] <= j}}

-----------------------------------------------------------------------------
Init ==
    /\ sky \in [Satellites -> [Moments -> BOOLEAN]] /\ first \in Satellites
    /\ now = 1 /\ answer = None /\ selected = [u \in Users |-> Nobody]

Answer(a) ==
    /\ answer = None
    /\ answer' = a
    /\ UNCHANGED <<sky, first>>

\* GET /passes?satellite= and GET /passes/{satellite}.
List(s) ==
    /\ Answer([kind |-> "list", of |-> s, passes |-> NextPasses(s, now, Ahead)])
    /\ UNCHANGED <<now, selected>>

\* GET /passes.
ListAll ==
    /\ Answer([kind |-> "all", passes |-> AllUpcomingPasses(Ahead)])
    /\ UNCHANGED <<now, selected>>

\* GET /passes/next.  time_to_next_pass searches again, a moment later: it
\* finds the same pass, or the one after it if that has risen meanwhile.
GetNext(s) ==
    \E later \in {now, now + 1} \cap Moments :
        LET p == NextPass(s, now)
            q == NextPass(s, later)
        IN /\ Answer([kind |-> "next", of |-> s, pass |-> p,
                      eta |-> IF p = NoPass \/ q = NoPass THEN NoEta ELSE q.rise - later])
           /\ now' = later
           /\ UNCHANGED selected

ShouldTransmitNow(s) ==
    LET up == sky[FindSatellite(s)][now]
    IN /\ Answer([kind |-> "transmit", of |-> s, yes |-> up,
                  pass |-> IF up THEN NextPass(s, now) ELSE NoPass])
       /\ UNCHANGED <<now, selected>>

Predict(s) ==
    /\ Answer([kind |-> "predict", of |-> s, passes |-> PredictPasses(s)])
    /\ UNCHANGED <<now, selected>>

\* POST /passes/select takes any name.
SelectSatellite(u, s) ==
    /\ Answer([kind |-> "select", of |-> s, pass |-> NextPass(s, now)])
    /\ selected' = [selected EXCEPT ![u] = s]
    /\ UNCHANGED now

\* GET /passes/selected is answered by the route above it, /passes/{satellite},
\* for a satellite of the name "selected".
GetSelected ==
    /\ Answer([kind |-> "selected", passes |-> {}])
    /\ UNCHANGED <<now, selected>>

DeselectSatellite(u) ==
    /\ Answer([kind |-> "deselect", of |-> selected[u]])
    /\ selected' = [selected EXCEPT ![u] = Nobody]
    /\ UNCHANGED now

\* The caller has its answer; the next call may be a sample later.
Tick ==
    /\ answer # None /\ answer' = None
    /\ now' \in {now, now + 1} \cap Moments
    /\ UNCHANGED <<sky, first, selected>>

Next ==
    \/ \E s \in Satellites : List(s) \/ GetNext(s) \/ ShouldTransmitNow(s) \/ Predict(s)
    \/ \E u \in Users : DeselectSatellite(u) \/ \E s \in Satellites : SelectSatellite(u, s)
    \/ ListAll \/ GetSelected
    \/ Tick

Spec == Init /\ [][Next]_vars

-----------------------------------------------------------------------------
Passes == [rise : 0..Steps, set : 0..Steps]

TypeOK ==
    /\ first \in Satellites /\ now \in Moments
    /\ selected \in [Users -> Satellites \cup {Nobody}]
    /\ answer.kind \in {"none", "list", "all", "next", "transmit", "predict", "select",
                        "selected", "deselect"}
    /\ answer.kind \in {"list", "predict"} => answer.passes \subseteq Passes

\* The passes as the sky has them: whole stretches above the minimum.
Stretch(s, p) == \A t \in Moments : (p.rise <= t /\ t < p.set) => sky[s][t]
Whole(s) ==
    {p \in [rise : Moments \ {1}, set : Moments] :
        p.rise < p.set /\ Stretch(s, p) /\ ~sky[s][p.rise - 1] /\ ~sky[s][p.set]}

\* A listing has every whole pass that rises later and sets within the time
\* asked for, and no other: none in progress, none cut short.
ListsWholePasses ==
    answer.kind = "list" =>
        answer.passes =
            {p \in Whole(FindSatellite(answer.of)) : now < p.rise /\ p.set <= now + Ahead}

\* Transmission is advised when, and only when, the satellite is up, and a pass
\* that comes with the advice is a whole pass of that satellite.
AdviceHolds ==
    answer.kind = "transmit" =>
        /\ answer.yes <=> sky[FindSatellite(answer.of)][now]
        /\ answer.pass # NoPass => answer.yes /\ answer.pass \in Whole(FindSatellite(answer.of))

\* The pass that comes with the advice is the one under way.
AdviceIsCurrent ==
    answer.kind = "transmit" /\ answer.pass # NoPass =>
        answer.pass.rise <= now /\ now < answer.pass.set

\* The countdown is to the pass shown unless that one rose while it was made.
CountsDown ==
    answer.kind = "next" =>
        \/ answer.pass = NoPass
        \/ answer.pass.rise <= now
        \/ answer.eta + now = answer.pass.rise

\* The predictor's windows lie within the passes, and each pass that starts
\* before the last sample has one, all of it but that sample.
PredictsWindows ==
    answer.kind = "predict" =>
        /\ \A p \in answer.passes : Stretch(answer.of, p)
        /\ \A t \in now..(Steps - 1) :
               sky[answer.of][t] => \E p \in answer.passes : p.rise <= t /\ t < p.set

PassesFound == ListsWholePasses /\ AdviceHolds /\ CountsDown /\ PredictsWindows

=============================================================================
