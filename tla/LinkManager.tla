----------------------------- MODULE LinkManager -----------------------------
(***************************************************************************)
(* OpenOrbitLinkLinkManager: scores the satellites in view, selects one,   *)
(* and learns from the outcomes.  The caller's SatelliteCandidate objects  *)
(* carry the score and the selected flag; it may make new ones for every   *)
(* message or keep them while the satellites move.                         *)
(*                                                                         *)
(* A score weighs the geometry, the history and the learned value; a       *)
(* half is the unit.  Weights keep the order of what they weigh.           *)
(***************************************************************************)
EXTENDS Integers, FiniteSets

CONSTANTS
    Satellites,
    Geometries, \* bound: weighted geometry of a satellite
    MaxReports  \* bound: outcomes reported

LinkAssumption == Geometries \subseteq Nat /\ MaxReports \in Nat

VARIABLES
    uplink,    \* satellites with supports_uplink
    viable,    \* satellites whose link budget leaves a margin
    geometry,
    score,     \* of the candidate objects
    flagged,   \* candidate objects with selected set
    learned,   \* _q_table, in halves
    attempts, successes,
    choice,    \* history: what select_best returned
    scoredOn   \* history: satellites whose score dates from when they were viable

vars == <<uplink, viable, geometry, score, flagged, learned, attempts, successes, choice, scoredOn>>

NoOne == [none |-> TRUE]

Init ==
    /\ uplink \in SUBSET Satellites /\ viable = Satellites
    /\ geometry \in [Satellites -> Geometries]
    /\ score = [s \in Satellites |-> 0] /\ flagged = {}
    /\ learned = [s \in Satellites |-> 0]
    /\ attempts = [s \in Satellites |-> 0] /\ successes = [s \in Satellites |-> 0]
    /\ choice = NoOne /\ scoredOn = {}

\* The satellites move: compute_link_budget depends on range and elevation.
Move(s) ==
    /\ viable' = IF s \in viable THEN viable \ {s} ELSE viable \cup {s}
    /\ choice' = NoOne
    /\ UNCHANGED <<uplink, geometry, score, flagged, learned, attempts, successes, scoredOn>>

\* The caller makes new candidates.
Renew ==
    /\ score' = [s \in Satellites |-> 0] /\ flagged' = {} /\ scoredOn' = {}
    /\ choice' = NoOne
    /\ UNCHANGED <<uplink, viable, geometry, learned, attempts, successes>>

\* _get_success_rate, in halves; 1 stands for the prior too.
SuccessRate(s) ==
    IF attempts[s] = 0 THEN 1
    ELSE IF successes[s] = 0 THEN 0
    ELSE IF successes[s] = attempts[s] THEN 2 ELSE 1

Weighted(s) == 2 * geometry[s] + SuccessRate(s) + learned[s]

\* score_candidate: without a margin it returns 0 and leaves the old score.
\* Mutant: the margin is not looked at.
ScoreUnchecked(s) == IF s \in uplink THEN Weighted(s) ELSE score[s]
Score(s) ==
    CASE s \notin uplink -> 0
      [] s \in uplink /\ s \notin viable -> score[s]
      [] OTHER -> Weighted(s)

\* select_best: the best, or now and then any whose score is positive.
SelectBest(candidates, explores) ==
    LET scores == [s \in Satellites |-> IF s \in candidates THEN Score(s) ELSE score[s]]
        positive == {s \in candidates : scores[s] > 0}
        best == {s \in positive : \A t \in positive : scores[t] <= scores[s]}
    IN /\ score' = scores
       /\ scoredOn' = (scoredOn \cup (candidates \cap viable)) \cap uplink
       /\ IF positive = {}
          THEN choice' = [of |-> candidates, best |-> ~explores, is |-> NoOne] /\ UNCHANGED flagged
          ELSE \E s \in IF explores THEN positive ELSE best :
                  /\ choice' = [of |-> candidates, best |-> ~explores, is |-> [sat |-> s]]
                  /\ flagged' = flagged \cup {s}
       /\ UNCHANGED <<uplink, viable, geometry, learned, attempts, successes>>

\* report_outcome: the learned value moves towards the reward, which is 1, with
\* a bonus for a fast delivery, or -0.5.
Reward(success, fast) == IF ~success THEN -1 ELSE IF fast THEN 3 ELSE 2
\* Mutant: the learned value is a sum of rewards.
TowardsSum(q, reward) == q + reward
Towards(q, reward) == IF reward > q THEN q + 1 ELSE IF reward < q THEN q - 1 ELSE q

Add(f, s) == [f EXCEPT ![s] = @ + 1]
ReportOutcome(s, success, fast) ==
    /\ attempts[s] < MaxReports
    /\ attempts' = Add(attempts, s)
    /\ successes' = IF success THEN Add(successes, s) ELSE successes
    /\ learned' = [learned EXCEPT ![s] = Towards(@, Reward(success, fast))]
    /\ choice' = NoOne
    /\ UNCHANGED <<uplink, viable, geometry, score, flagged, scoredOn>>

Next ==
    \/ \E s \in Satellites : Move(s)
    \/ Renew
    \/ \E c \in SUBSET Satellites \ {{}}, e \in BOOLEAN : SelectBest(c, e)
    \/ \E s \in Satellites, ok, fast \in BOOLEAN : ReportOutcome(s, ok, fast)

Spec == Init /\ [][Next]_vars

-----------------------------------------------------------------------------
TypeOK ==
    /\ uplink \subseteq Satellites /\ viable \subseteq Satellites
    /\ flagged \subseteq Satellites /\ scoredOn \subseteq uplink
    /\ \A s \in Satellites : /\ successes[s] \in 0..attempts[s]
                             /\ learned[s] \in -1..3

(* The satellite selected can be reached: it is in view and has an uplink, *)
(* and a margin unless its candidate object was scored when it had one; it *)
(* is the best of those that have a margin unless the choice explored; and *)
(* none is selected only if those with a margin have nothing in their      *)
(* favour or a bad history.                                                *)
Reachable(s) == s \in choice.of \cap uplink \cap viable
SelectionSound ==
    choice # NoOne =>
        IF choice.is = NoOne
        THEN \A s \in Satellites : Reachable(s) => geometry[s] = 0 /\ learned[s] < 0
        ELSE /\ choice.is.sat \in uplink \cap choice.of
             /\ choice.is.sat \in viable \cup scoredOn
             /\ choice.best => \A s \in Satellites :
                                  Reachable(s) => Weighted(s) <= score[choice.is.sat]

=============================================================================
