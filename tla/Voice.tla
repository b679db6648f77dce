-------------------------------- MODULE Voice --------------------------------
(***************************************************************************)
(* A voice message cut into chunks for LoRa, sent as packets, and put      *)
(* together again by the receiver.  The channel loses, delays, reorders    *)
(* and repeats packets: whatever was sent may arrive any number of times.  *)
(* A damaged packet fails its CRC, which is a loss.                        *)
(*                                                                         *)
(* A payload is the interval of the frames in it.  The receiver reads the  *)
(* wire with OpenOrbitLinkPacket.deserialize, as the tests do, or with     *)
(* OpenOrbitLinkProtocol.parse_packet, which also looks at the parity.     *)
(***************************************************************************)
EXTENDS Naturals, FiniteSets, Sequences

CONSTANTS
    Codecs,       \* modes of CODEC_PROPERTIES
    FrameBytes,   \* frame_bytes of each
    MaxPayload,   \* VOICE_MAX_PAYLOAD
    ChunkHeader,  \* VOICE_HEADER_SIZE
    MetaBytes,    \* length of the packed metadata
    Parity,       \* ReedSolomonFEC.nsym
    Correctable,  \* errors that parse_packet lets pass
    SeqWidth,     \* values of the 16-bit sequence_num on the wire
    TotalWidth,   \* values of the 8-bit total_chunks on the wire
    Budget,       \* duty_cycle_budget_s, in the airtime of a chunk with its gap
    Lengths       \* bound: numbers of frames a message may have

\* A chunk has room for a frame of each codec.
VoiceAssumption ==
    /\ FrameBytes \in [Codecs -> Nat \ {0}] /\ Lengths \subseteq Nat \ {0}
    /\ \A c \in Codecs : FrameBytes[c] <= MaxPayload
    /\ {MaxPayload, ChunkHeader, MetaBytes, Parity, Correctable, Budget} \subseteq Nat
    /\ {SeqWidth, TotalWidth} \subseteq Nat \ {0}

VARIABLES
    length,    \* frames of the message; 0: nothing was said yet
    codec,
    sent,      \* packets sent: the metadata, then the chunks in order
    strict,    \* whether the receiver uses parse_packet
    chunks,    \* VoiceReassemblyBuffer.chunks
    expected,  \* expected_total; 0: not known
    announced, \* total_chunks of the metadata the receiver has; 0: none
    finished,  \* history: add_chunk has returned True
    rejected   \* history: packets that arrived undamaged and were not parsed

vars == <<length, codec, sent, strict, chunks, expected, announced, finished, rejected>>

CeilDiv(x, y) == (x + y - 1) \div y
Smaller(x, y) == IF x <= y THEN x ELSE y

-----------------------------------------------------------------------------
(***************************************************************************)
(* chunk_voice_message and voice_chunks_to_bundles.                        *)
(***************************************************************************)
FramesPerChunk(c) == MaxPayload \div FrameBytes[c]
Count(n, c) == CeilDiv(n, FramesPerChunk(c))

LastFrame(n, c, i) == Smaller((i + 1) * FramesPerChunk(c), n)
Frames(n, c, i) == (i * FramesPerChunk(c) + 1)..LastFrame(n, c, i)

Chunk(n, c, i) ==
    [seq |-> i % SeqWidth, last |-> LastFrame(n, c, i) = n, payload |-> Frames(n, c, i)]

Total == Count(length, codec)
Packets == 0..Total
Bytes(p) == IF p = 0 THEN MetaBytes
            ELSE ChunkHeader + FrameBytes[codec] * Cardinality(Frames(length, codec, p - 1))

\* The packets are built without fec_data, which goes on the wire as zeros: a
\* column of the payload's own parity counts as an error unless it is zero.
Errors(p) == 0..Smaller(Bytes(p), Parity)

-----------------------------------------------------------------------------
Init ==
    /\ length = 0 /\ codec \in Codecs /\ strict \in BOOLEAN
    /\ sent = 0 /\ chunks = <<>> /\ expected = 0 /\ announced = 0
    /\ finished = FALSE /\ rejected = {}

\* queue_voice turns a message away that does not fit the duty cycle's budget.
Say(n) ==
    /\ length = 0
    /\ Count(n, codec) <= Budget
    /\ length' = n
    /\ UNCHANGED <<codec, sent, strict, chunks, expected, announced, finished, rejected>>

Send ==
    /\ length # 0 /\ sent <= Total
    /\ sent' = sent + 1
    /\ UNCHANGED <<length, codec, strict, chunks, expected, announced, finished, rejected>>

-----------------------------------------------------------------------------
(***************************************************************************)
(* VoiceReassemblyBuffer.                                                  *)
(***************************************************************************)
Received == DOMAIN chunks
Missing == {i \in 0..(expected - 1) : i \notin Received}

\* Mutant: the last chunk's number is taken for the number of chunks.
TotalAfterFew(c, total) == IF c.last THEN c.seq ELSE total
TotalAfter(c, total) == IF c.last THEN c.seq + 1 ELSE total

With(c) == [i \in Received \cup {c.seq} |-> IF i = c.seq THEN c.payload ELSE chunks[i]]
IsComplete(held, total) == total # 0 /\ Cardinality(DOMAIN held) >= total

AddChunk(c) ==
    /\ chunks' = With(c)
    /\ expected' = TotalAfter(c, expected)
    /\ finished' = (finished \/ IsComplete(With(c), TotalAfter(c, expected)))
    /\ UNCHANGED announced

ReadMeta ==
    /\ announced' = Total % TotalWidth
    /\ UNCHANGED <<chunks, expected, finished>>

Parsed(e) == strict => e <= Correctable

Hear(p, e) ==
    /\ p < sent
    /\ e \in Errors(p)
    /\ IF Parsed(e)
       THEN /\ IF p = 0 THEN ReadMeta ELSE AddChunk(Chunk(length, codec, p - 1))
            /\ UNCHANGED rejected
       ELSE /\ rejected' = rejected \cup {p}
            /\ UNCHANGED <<chunks, expected, announced, finished>>
    /\ UNCHANGED <<length, codec, sent, strict>>

\* get_ordered_payloads; None: a chunk is missing.
Lost == {}
Highest == CHOOSE i \in Received : \A j \in Received : j <= i
Known == IF expected # 0 THEN expected ELSE IF Received = {} THEN 0 ELSE Highest + 1
Ordered == [i \in 1..Known |-> IF i - 1 \in Received THEN chunks[i - 1] ELSE Lost]

Next ==
    \/ \E n \in Lengths : Say(n)
    \/ Send
    \/ \E p \in Packets : \E e \in {0, Smaller(Bytes(p), Parity)} : Hear(p, e)

Spec == Init /\ [][Next]_vars

-----------------------------------------------------------------------------
TypeOK ==
    /\ length \in Lengths \cup {0} /\ codec \in Codecs /\ sent \in 0..(Total + 1)
    /\ strict \in BOOLEAN /\ finished \in BOOLEAN
    /\ Received \subseteq 0..(SeqWidth - 1)
    /\ expected \in 0..SeqWidth /\ announced \in 0..(TotalWidth - 1)
    /\ rejected \subseteq Packets

(* What is played is what was said: frames in order, with a hole where a   *)
(* chunk is missing; a message is complete when nothing is missing, stays  *)
(* so, and never before; and the metadata agrees with the last chunk.      *)
(* Sequence numbers are told apart up to SeqWidth chunks, the metadata's   *)
(* total up to TotalWidth - 1.                                             *)
PlaysWhatWasSaid ==
    Total <= SeqWidth =>
        /\ \A i \in 1..Known : Ordered[i] \in {Lost, Frames(length, codec, i - 1)}
        /\ finished <=> (expected # 0 /\ Missing = {})
        /\ finished => UNION {Ordered[i] : i \in 1..Known} = 1..length
        /\ expected # 0 => Cardinality(Missing) = expected - Cardinality(Received)
        /\ expected # 0 /\ announced # 0 /\ Total < TotalWidth => announced = expected

(* A packet of a voice message that arrives undamaged is parsed.           *)
EveryPacketParses == rejected = {}

=============================================================================
