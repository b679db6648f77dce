------------------------------ MODULE LossyFifo ------------------------------
(***************************************************************************)
(* What a relay promises for the packets it takes over: they are handed on *)
(* in the order in which they arrived, each of them once, until at some    *)
(* point all that are waiting are lost together.                           *)
(***************************************************************************)
EXTENDS Naturals, Sequences

CONSTANT MaxPacket \* bound: packets that arrive, a natural number

VARIABLES
    waiting, \* packets taken over and not handed on yet
    arrived, \* the number of the last one taken over
    handed   \* how often each packet was handed on

vars == <<waiting, arrived, handed>>

Init ==
    /\ waiting = <<>>
    /\ arrived = 0
    /\ handed = [p \in 1..MaxPacket |-> 0]

Arrive ==
    /\ arrived < MaxPacket
    /\ arrived' = arrived + 1
    /\ waiting' = Append(waiting, arrived + 1)
    /\ UNCHANGED handed

HandOn ==
    /\ waiting # <<>>
    /\ waiting' = Tail(waiting)
    /\ handed' = [handed EXCEPT ![Head(waiting)] = @ + 1]
    /\ UNCHANGED arrived

Lose ==
    /\ waiting' = <<>>
    /\ UNCHANGED <<arrived, handed>>

Next == Arrive \/ HandOn \/ Lose

Spec == Init /\ [][Next]_vars

=============================================================================
