---------------------------- MODULE RelayDaemon ----------------------------
(***************************************************************************)
(* The ground station's uplink: one task listens to the LoRa mesh and      *)
(* appends what it hears to the relay buffer, another bursts the buffer to *)
(* a satellite during its pass, packet by packet, within the duty cycle.   *)
(* Both share one half-duplex radio and run in one event loop: they take   *)
(* turns at the awaits.                                                    *)
(*                                                                         *)
(* Packets are numbered in the order they are heard.  Buffer, tracker and  *)
(* radio live in memory and are lost when the daemon stops.  An error of   *)
(* the radio that receive or set_frequency lets through stops the daemon;  *)
(* the container restarts it.                                              *)
(***************************************************************************)
EXTENDS Airtime, SequencesExt

CONSTANTS
    MaxId,     \* bound: packets heard
    Airtimes,  \* airtimes, in units, that the radio reports for a packet
    MaxAir,    \* the longest of them
    Budget,    \* DutyCycleTracker.budget_s, in units
    Guess,     \* the airtime that _burst_transmit asks for, whatever the packet
    Window,    \* DutyCycleTracker.window_s, in ticks
    MaxStops   \* bound: errors that stop the daemon

ASSUME RelayAssumption ==
    /\ MaxId \in Nat
    /\ MaxAir \in Nat \ {0}
    /\ Airtimes \subseteq 1..MaxAir
    /\ Budget \in Nat /\ Guess \in 0..Budget
    /\ Window \in Nat
    /\ MaxStops \in Nat

VARIABLES
    buffer,  \* _relay_buffer
    heard,   \* packets heard so far: the number of the last one
    since,   \* packets heard before the daemon started
    air,     \* airtime the radio reports for each packet
    age,     \* DutyCycleTracker._tx_log: age of each packet's record
    burst,   \* where the pass task is
    rx,      \* where the receive task is
    radio,   \* the mode of the transceiver
    tries,   \* history: how often each packet was given to the radio
    stops

vars == <<buffer, heard, since, air, age, burst, rx, radio, tries, stops>>

Ids == 1..MaxId
Gone == Window + 1
Up == burst # "down"

-----------------------------------------------------------------------------
(* DutyCycleTracker of pass_integration *)

Logged == {p \in Ids : age[p] < Gone}
UsedAirtime == AirtimeOf(Logged, air, MaxAir)

\* Mutant: any budget left is enough.
CanTransmitAny(a) == UsedAirtime <= Budget

CanTransmit(a) == UsedAirtime + a <= Budget

-----------------------------------------------------------------------------
Init ==
    /\ buffer = <<>>
    /\ heard = 0 /\ since = 0
    /\ air \in [Ids -> Airtimes]
    /\ age = [p \in Ids |-> Gone]
    /\ burst = "idle" /\ rx = "paused" /\ radio = "standby"
    /\ tries = [p \in Ids |-> 0]
    /\ stops = 0

\* Mutant: the radio is not asked to receive again.
RequestOnce == IF heard = since THEN "rx" ELSE radio

\* SX1276Driver.receive puts the radio in RX mode and polls it.
Request == "rx"

Listen ==
    /\ Up /\ rx = "paused"
    /\ rx' = "polling"
    /\ radio' = Request
    /\ UNCHANGED <<buffer, heard, since, air, age, burst, tries, stops>>

\* A packet came in while the radio was in RX mode.
Hear ==
    /\ rx = "polling" /\ radio = "rx"
    /\ heard < MaxId
    /\ heard' = heard + 1
    /\ buffer' = Append(buffer, heard + 1)
    /\ rx' = "paused"
    /\ UNCHANGED <<since, air, age, burst, radio, tries, stops>>

\* timeout_ms is over: receive returns None.
HearNothing ==
    /\ rx = "polling"
    /\ rx' = "paused"
    /\ UNCHANGED <<buffer, heard, since, air, age, burst, radio, tries, stops>>

-----------------------------------------------------------------------------
(* _satellite_pass_loop and _burst_transmit *)

\* A satellite is overhead and the first packet goes to the radio: between the
\* look at the buffer and the transmission nothing is awaited.
Serve ==
    /\ burst \in {"idle", "loop"}
    /\ buffer # <<>>
    /\ CanTransmit(Guess)
    /\ tries' = [tries EXCEPT ![Head(buffer)] = @ + 1]

\* The packet is on the air; the radio leaves RX mode.
Transmit ==
    /\ Serve
    /\ burst' = "airing"
    /\ radio' = "standby"
    /\ UNCHANGED <<buffer, heard, since, air, age, rx, stops>>

\* Mutant: pop() in place of pop(0).
PopLast(s) == Front(s)

Pop(s) == Tail(s)

\* The radio refuses the packet at once, without an await: it is dropped.
TransmitFails ==
    /\ Serve
    /\ burst' = "loop"
    /\ buffer' = Pop(buffer)
    /\ UNCHANGED <<heard, since, air, age, rx, radio, stops>>

\* SUCCESS: the packet is removed and the airtime the radio reports recorded.
Transmitted ==
    /\ burst = "airing"
    /\ buffer' = Pop(buffer)
    /\ age' = [age EXCEPT ![Head(buffer)] = 0]
    /\ burst' = "loop"
    /\ UNCHANGED <<heard, since, air, rx, radio, tries, stops>>

\* The buffer is empty, the pass is over, or the budget is exhausted.
EndBurst ==
    /\ burst = "loop"
    /\ burst' = "idle"
    /\ UNCHANGED <<buffer, heard, since, air, age, rx, radio, tries, stops>>

-----------------------------------------------------------------------------
(* An error ends the daemon and what it has in memory; the clock. *)

Stop ==
    /\ Up
    /\ stops < MaxStops
    /\ stops' = stops + 1
    /\ burst' = "down" /\ rx' = "paused" /\ radio' = "standby"
    /\ buffer' = <<>>
    /\ age' = [p \in Ids |-> Gone]
    /\ since' = heard
    /\ UNCHANGED <<heard, air, tries>>

Restart ==
    /\ ~Up
    /\ burst' = "idle"
    /\ UNCHANGED <<buffer, heard, since, air, age, rx, radio, tries, stops>>

\* Mutants: ages that leave their type; records that never leave the log.
OlderUnbounded(a) == a + 1
OlderKept(a) == IF a < Window THEN a + 1 ELSE a

\* _prune: a record leaves the log when it is older than the window.
Older(a) == IF a < Gone THEN a + 1 ELSE a

Tick ==
    /\ age' = [p \in Ids |-> Older(age[p])]
    /\ UNCHANGED <<buffer, heard, since, air, burst, rx, radio, tries, stops>>

Receiver == Listen \/ Hear \/ HearNothing
Attempt == Transmit \/ TransmitFails

Next ==
    \/ Listen \/ Hear \/ HearNothing
    \/ Transmit \/ TransmitFails \/ Transmitted \/ EndBurst
    \/ Stop \/ Restart
    \/ Tick

Spec == Init /\ [][Next]_vars

\* Both tasks run on, passes recur, the daemon is restarted, time passes.
FairSpec ==
    /\ Spec
    /\ WF_vars(Receiver)
    /\ WF_vars(Attempt) /\ WF_vars(Transmitted \/ EndBurst)
    /\ WF_vars(Restart) /\ WF_vars(Tick)

-----------------------------------------------------------------------------
(* Types of the buffer, the tracker, the tasks, the radio and the history. *)
TypeOK ==
    /\ buffer \in Seq(Ids)
    /\ heard \in 0..MaxId /\ since \in 0..heard
    /\ air \in [Ids -> Airtimes]
    /\ age \in [Ids -> 0..Gone]
    /\ burst \in {"idle", "loop", "airing", "down"}
    /\ rx \in {"paused", "polling"}
    /\ radio \in {"standby", "rx"}
    /\ tries \in [Ids -> Nat]
    /\ stops \in 0..MaxStops

\* While mesh packets are appended during the radio's await, the packet that
\* leaves the buffer is the one that was sent: since the daemon started every
\* packet heard is in the buffer, in order, or was given to the radio once.
EachOnce ==
    /\ \A i, j \in DOMAIN buffer : i < j => buffer[i] < buffer[j]
    /\ \A p \in since + 1..heard :
          LET waiting == p \in ToSet(buffer)
              onAir == burst = "airing" /\ p = Head(buffer)
          IN  IF waiting /\ ~onAir THEN tries[p] = 0 ELSE tries[p] = 1

\* The duty-cycle check asks for a fixed airtime, not for the packet's own:
\* the tracker may exceed its budget, but by no more than one packet's excess
\* over the guess, for each check comes before its transmission is recorded.
Excess == IF MaxAir > Guess THEN MaxAir - Guess ELSE 0
Overshoot == UsedAirtime <= Budget + Excess

\* The buffer, the burst and the radio implement a lossy queue: the packet on
\* the air has been handed on, though it is still in the buffer.
Waiting == IF burst = "airing" THEN Tail(buffer) ELSE buffer
Fifo == INSTANCE LossyFifo
            WITH MaxPacket <- MaxId, waiting <- Waiting, arrived <- heard, handed <- tries
ImplementsFifo == Fifo!Spec

\* A packet heard leaves the buffer: it is transmitted, dropped by a failing
\* radio, or lost with the daemon.
BufferDrains ==
    \A p \in Ids : p \in ToSet(buffer) ~> p \notin ToSet(buffer)

\* The radio returns to RX mode after every burst: the mesh is heard again.
ListensAgain == []<>(radio = "rx")

=============================================================================
