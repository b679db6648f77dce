-------------------------------- MODULE Framing --------------------------------
(***************************************************************************)
(* A payload on its way to the radio: cut into FOSSA frames of at most 80  *)
(* bytes, which are decoded one by one, or spread over the hops of an      *)
(* LR-FHSS packet.  What a frame or a hop carries is the interval of the   *)
(* payload's bytes that is in it.                                          *)
(***************************************************************************)
EXTENDS Integers, FiniteSets, Sequences

CONSTANTS
    FrameRoom, \* FOSSA_MAX_PAYLOAD_BYTES
    SequenceWidth, \* values of the 16-bit sequence number
    Payloads,  \* bound: lengths of payloads
    Starts,    \* bound: values of start_sequence
    Hopping    \* bound: settings of LR-FHSS: hops, headers, grid, bytes per hop

FramingAssumption ==
    /\ FrameRoom \in Nat \ {0} /\ SequenceWidth \in Nat \ {0} /\ Payloads \cup Starts \subseteq Nat
    /\ \A h \in Hopping :
          {h.hops, h.headers, h.grid, h.room} \subseteq Nat /\ h.room > 0

VARIABLES
    size,    \* of the payload; frames and hops are empty until it is cut
    frames,  \* packet_payload_to_fossa_frames
    decoded, \* places of the frames that FossaFrame.decode accepted
    refused, \* places of those that arrived damaged
    setting, hops

vars == <<size, frames, decoded, refused, setting, hops>>

NoSetting == [hops |-> 0, headers |-> 0, grid |-> 0, room |-> 1]
IndexError == <<"IndexError">>

Init ==
    /\ size \in Payloads /\ frames = <<>> /\ decoded = {} /\ refused = {}
    /\ setting = NoSetting /\ hops = <<>>

-----------------------------------------------------------------------------
Smaller(x, y) == IF x <= y THEN x ELSE y
Piece(i, room) == ((i - 1) * room + 1)..Smaller(i * room, size)
Pieces(room) == (size + room - 1) \div room

Frame(i, start, encrypted) ==
    [sequence |-> (start + i - 1) % SequenceWidth, encrypted |-> encrypted,
     fragment |-> size > FrameRoom, payload |-> Piece(i, FrameRoom)]

\* An empty payload has a frame of its own.
Cut(start, encrypted) ==
    /\ frames = <<>> /\ hops = <<>>
    /\ frames' = [i \in 1..(IF size = 0 THEN 1 ELSE Pieces(FrameRoom)) |-> Frame(i, start, encrypted)]
    /\ UNCHANGED <<size, decoded, refused, setting, hops>>

\* Damage anywhere in a frame shows in its length, its magic, or its CRC.
Decode(i, damaged) ==
    /\ i \in DOMAIN frames \ (decoded \cup refused)
    /\ IF damaged THEN refused' = refused \cup {i} /\ UNCHANGED decoded
                  ELSE decoded' = decoded \cup {i} /\ UNCHANGED refused
    /\ UNCHANGED <<size, frames, setting, hops>>

-----------------------------------------------------------------------------
Channels(h) == 0..(h.grid - 1)
\* The middle of the grid is taken to be half the number of hops.
Offset(channel, h) == channel - h.hops \div 2

\* Replicas of the header, which holds the size, then the payload until it or
\* the hops come to an end.  The hopping sequence may visit any channel.
Hop(h, i) ==
    [header |-> i <= h.headers,
     payload |-> IF i <= h.headers THEN {} ELSE Piece(i - h.headers, h.room),
     offsets |-> {Offset(c, h) : c \in Channels(h)}]

Spread(h) ==
    /\ frames = <<>> /\ hops = <<>>
    /\ setting' = h
    /\ hops' = IF h.headers > h.hops THEN IndexError
               ELSE [i \in 1..Smaller(h.hops, h.headers + Pieces(h.room)) |-> Hop(h, i)]
    /\ UNCHANGED <<size, frames, decoded, refused>>

EstimatedHops(h) == h.headers + Pieces(h.room)
Capacity(h) == (h.hops - h.headers) * h.room

Next ==
    \/ \E start \in Starts, e \in BOOLEAN : Cut(start, e)
    \/ \E i \in DOMAIN frames, d \in BOOLEAN : Decode(i, d)
    \/ \E h \in Hopping : Spread(h)

Spec == Init /\ [][Next]_vars

-----------------------------------------------------------------------------
TypeOK ==
    /\ size \in Payloads /\ setting \in Hopping \cup {NoSetting}
    /\ decoded \cap refused = {} /\ decoded \cup refused \subseteq DOMAIN frames

\* The frames decoded, put in the order of their numbers, hold what was sent
\* but for the frames refused; a frame is told to be a part when there are
\* others, and no two have the same number unless the numbers ran out.
FramesHoldPayload ==
    LET bytes(places) == UNION {frames[i].payload : i \in places}
    IN frames # <<>> =>
        /\ \A i \in DOMAIN frames : Cardinality(frames[i].payload) <= FrameRoom
        /\ bytes(decoded) = (1..size) \ bytes(DOMAIN frames \ decoded)
        /\ \A i \in DOMAIN frames : frames[i].fragment <=> Len(frames) > 1
        /\ Len(frames) <= SequenceWidth =>
               \A i, j \in DOMAIN frames : i # j => frames[i].sequence # frames[j].sequence

\* A packet holds the payload up to the room of its hops, and what goes beyond
\* is left out without a word; its airtime was estimated for the hops it has
\* where nothing was left out, and only there.  It stays in its channel if the
\* grid is as wide as the hops are many, as it is by default.
HopsHoldPayload ==
    hops \notin {<<>>, IndexError} =>
        /\ UNION {hops[i].payload : i \in DOMAIN hops} = 1..Smaller(size, Capacity(setting))
        /\ Len(hops) = EstimatedHops(setting) <=> size <= Capacity(setting)
        /\ setting.grid = setting.hops =>
               \A o \in UNION {hops[i].offsets : i \in DOMAIN hops} :
                   2 * o < setting.grid /\ -(2 * o) <= setting.grid

PayloadHeld == FramesHoldPayload /\ HopsHoldPayload

=============================================================================
