------------------------------- MODULE Station -------------------------------
(***************************************************************************)
(* The ground station's gRPC server: one station, shared by the streams    *)
(* and the calls of all clients, which take turns at the awaits.  There is *)
(* one receiver; whoever tunes it tunes it for all.                        *)
(***************************************************************************)
EXTENDS Integers, Sequences

CONSTANTS
    Clients,
    Frequencies,
    Steps,      \* the 60 turns of a packet stream, and the frames of a waterfall
    HistoryMax, \* samples in _telemetry_history
    LogMax,     \* packets in _packet_log
    MaxPackets, \* bound: packets the station receives
    Angles      \* bound: pairs of angles asked for

StationAssumption ==
    {Steps, HistoryMax, LogMax, MaxPackets} \subseteq Nat /\ Angles \subseteq Int \X Int

VARIABLES
    frequency, \* receiver.frequency_mhz
    samples,   \* length of _telemetry_history
    received, errors, \* telemetry.packets_received, packets_errors
    total,     \* total_packets
    packetLog, \* _packet_log: the numbers of its packets
    stream,    \* each client's packet stream or waterfall, or None
    yielded,   \* history: packets that a client's stream was given, and their frequency
    frames,    \* history: the last frame of a client's waterfall, or None
    tuner,     \* history: whose waterfall tuned the receiver last; None: a call did
    antenna    \* azimuth and elevation

vars == <<frequency, samples, received, errors, total, packetLog, stream, yielded, frames, tuner, antenna>>

None == [none |-> TRUE]

Init ==
    /\ frequency \in Frequencies /\ samples = 0
    /\ received = 0 /\ errors = 0 /\ total = 0 /\ packetLog = <<>>
    /\ stream = [c \in Clients |-> None] /\ yielded = [c \in Clients |-> {}]
    /\ frames = [c \in Clients |-> None] /\ tuner = None /\ antenna = [azimuth |-> 0, elevation |-> 0]

Smaller(x, y) == IF x <= y THEN x ELSE y
UpdateTelemetry == samples' = Smaller(samples + 1, HistoryMax)

\* GetStatus and GetTelemetry.
GetTelemetry ==
    /\ UpdateTelemetry
    /\ UNCHANGED <<frequency, received, errors, total, packetLog, stream, yielded, frames, tuner, antenna>>

SetFrequency(f) ==
    /\ frequency' = f /\ tuner' = None
    /\ UNCHANGED <<samples, received, errors, total, packetLog, stream, yielded, frames, antenna>>

Clamped(angle, most) == IF angle < 0 THEN 0 ELSE Smaller(angle, most)
SetAntenna(azimuth, elevation) ==
    /\ antenna' = [azimuth |-> Clamped(azimuth, 360), elevation |-> Clamped(elevation, 90)]
    /\ UNCHANGED <<frequency, samples, received, errors, total, packetLog, stream, yielded, frames, tuner>>

-----------------------------------------------------------------------------
StreamPackets(c, filter) ==
    /\ stream[c] = None
    /\ stream' = [stream EXCEPT ![c] = [kind |-> "packets", filter |-> filter, left |-> Steps]]
    /\ UNCHANGED <<frequency, samples, received, errors, total, packetLog, yielded, frames, tuner, antenna>>

Last(s, n) == IF Len(s) <= n THEN s ELSE SubSeq(s, Len(s) - n + 1, Len(s))
Advanced(c) == [stream EXCEPT ![c].left = @ - 1]
Turn(c, kind) == stream[c] # None /\ stream[c].kind = kind /\ stream[c].left > 0

Wanted(c) == stream[c].filter = {} \/ frequency \in stream[c].filter

\* generate_packet, called by every stream for itself: a packet is shown to the
\* stream that drew it, if that wants its frequency, and to no other.
Receive(valid) ==
    /\ total < MaxPackets
    /\ total' = total + 1
    /\ received' = received + (IF valid THEN 1 ELSE 0)
    /\ errors' = errors + (IF valid THEN 0 ELSE 1)
    /\ packetLog' = Last(Append(packetLog, total + 1), LogMax)

Shown(c) == [n |-> total + 1, at |-> frequency]
PacketTurn(c) ==
    /\ Turn(c, "packets")
    /\ UpdateTelemetry
    /\ \/ /\ UNCHANGED <<total, received, errors, packetLog, yielded>>
       \/ \E valid \in BOOLEAN :
             /\ Receive(valid)
             /\ yielded' = IF Wanted(c) THEN [yielded EXCEPT ![c] = @ \cup {Shown(c)}] ELSE yielded
    /\ stream' = Advanced(c)
    /\ UNCHANGED <<frequency, frames, tuner, antenna>>

\* StreamWaterfall tunes the receiver once, then sends what it is tuned to.
StreamWaterfall(c, f) ==
    /\ stream[c] = None
    /\ stream' = [stream EXCEPT ![c] = [kind |-> "waterfall", filter |-> {f}, left |-> Steps]]
    /\ frequency' = f /\ tuner' = [waterfall |-> c]
    /\ UNCHANGED <<samples, received, errors, total, packetLog, yielded, frames, antenna>>

WaterfallTurn(c) ==
    /\ Turn(c, "waterfall")
    /\ frames' = [frames EXCEPT ![c] =
                     [asked |-> stream[c].filter, centre |-> frequency, own |-> tuner = [waterfall |-> c]]]
    /\ stream' = Advanced(c)
    /\ UNCHANGED <<frequency, samples, received, errors, total, packetLog, yielded, tuner, antenna>>

\* The generator returns after its last turn, or is closed at an await
\* because the client went away.
Close(c) ==
    /\ stream[c] # None
    /\ stream' = [stream EXCEPT ![c] = None]
    /\ yielded' = [yielded EXCEPT ![c] = {}] /\ frames' = [frames EXCEPT ![c] = None]
    /\ UNCHANGED <<frequency, samples, received, errors, total, packetLog, tuner, antenna>>

Next ==
    \/ GetTelemetry
    \/ \E f \in Frequencies : SetFrequency(f) \/ \E c \in Clients : StreamWaterfall(c, f)
    \/ \E c \in Clients, filter \in SUBSET Frequencies : StreamPackets(c, filter)
    \/ \E c \in Clients : PacketTurn(c) \/ WaterfallTurn(c) \/ Close(c)
    \/ \E a \in Angles : SetAntenna(a[1], a[2])

Spec == Init /\ [][Next]_vars

-----------------------------------------------------------------------------
TypeOK ==
    /\ frequency \in Frequencies /\ samples \in 0..HistoryMax
    /\ total = received + errors /\ total \in 0..MaxPackets
    /\ antenna \in [azimuth : 0..360, elevation : 0..90]

(* The log holds the last packets, each packet was shown to one stream at  *)
(* most and only one that wants its frequency, whoever tuned the receiver  *)
(* meanwhile; a frame of a waterfall is where its client asked, unless     *)
(* another call tuned the receiver after it.                               *)
SharedSoundly ==
    /\ packetLog = [i \in 1..Smaller(total, LogMax) |-> total - Smaller(total, LogMax) + i]
    /\ \A c, d \in Clients : \A p \in yielded[c], q \in yielded[d] : p.n = q.n => c = d /\ p = q
    /\ \A c \in Clients : yielded[c] # {} /\ stream[c].filter # {} =>
          \A p \in yielded[c] : p.at \in stream[c].filter
    /\ \A c \in Clients : frames[c] # None /\ frames[c].own =>
          frames[c].centre \in frames[c].asked

=============================================================================
