---------------------------- MODULE Stack_proofs ----------------------------
(***************************************************************************)
(* Proofs about the units of MCStack: for each an inductive invariant that *)
(* has the unit's type invariant and what the unit promises as parts, or   *)
(* implies it.  A unit that is not exercised keeps its state, so the       *)
(* invariants hold in the composition.  The composition fixes the values   *)
(* of the constants; the proofs use of them no more than the assumption of *)
(* the unit, UnitsAssumption.                                              *)
(***************************************************************************)
EXTENDS MCStack, Airtime_proofs, SequenceTheorems

vars == <<unit, voice, talk, packets, mesh, security, bundle, bridge, aprs, framing, links,
          station, pass>>

-----------------------------------------------------------------------------
(* Arithmetic of what is cut into pieces.                                  *)

\* How many pieces of at most k there are in n, rounded up.
LEMMA Ceiling ==
    ASSUME NEW n \in Nat, NEW k \in Nat \ {0}
    PROVE  /\ (n + k - 1) \div k \in Nat
           /\ n <= ((n + k - 1) \div k) * k
           /\ ((n + k - 1) \div k) * k < n + k
BY SMTT(30)

\* How many whole pieces of k there are in n.
LEMMA Quotient ==
    ASSUME NEW n \in Nat, NEW k \in Nat \ {0}
    PROVE  /\ n \div k \in Nat
           /\ (n \div k) * k <= n
           /\ n < (n \div k + 1) * k
BY SMTT(30)

\* What products with a positive factor are, one solver step each.
LEMMA Products ==
    ASSUME NEW i \in Int, NEW j \in Int, NEW k \in Nat \ {0}
    PROVE  /\ i <= j => i * k <= j * k
           /\ i < j => i * k < j * k
           /\ (i + 1) * k = i * k + k
           /\ i * k \in Int
BY SMTT(30)

\* Cut into t pieces of k, the last one shorter: every piece has something, the
\* last one reaches the end, and each of the n is in one.
Pieces(n, k) == (n + k - 1) \div k
\* The number of pieces, what each begins with, and that they leave nothing out.
LEMMA Cutting ==
    ASSUME NEW n \in Nat, NEW k \in Nat \ {0}
    PROVE  /\ Pieces(n, k) \in Nat /\ (Pieces(n, k) = 0 <=> n = 0)
           /\ \A i \in 0..(Pieces(n, k) - 1) :
                 i * k \in Nat /\ i * k < n /\ ((i + 1) * k >= n <=> i = Pieces(n, k) - 1)
           /\ \A x \in 1..n : \E i \in 0..(Pieces(n, k) - 1) : i * k + 1 <= x /\ x <= (i + 1) * k
<1> DEFINE t == Pieces(n, k)
<1>1. t \in Nat /\ n <= t * k /\ t * k < n + k
    BY Ceiling DEF Pieces
<1> HIDE DEF t
<1>2. t * k \in Int /\ (t - 1) * k = t * k - k /\ 0 * k = 0
    BY <1>1, Products
<1>3. t = 0 <=> n = 0
    <2>1. CASE t = 0
        BY <1>1, <1>2, <2>1
    <2>2. CASE t # 0
        <3>1. 1 * k <= t * k /\ 1 * k = k
            BY <1>1, <2>2, Products
        <3> QED
            BY <1>1, <1>2, <2>2, <3>1
    <2> QED
        BY <2>1, <2>2
<1>4. ASSUME NEW i \in 0..(t - 1)
      PROVE  i * k \in Nat /\ i * k < n /\ ((i + 1) * k >= n <=> i = t - 1)
    <2>1. i \in Int /\ 0 <= i /\ i <= t - 1 /\ t - 1 \in Int
        BY <1>1
    <2>2. i * k \in Int /\ 0 * k <= i * k /\ i * k <= (t - 1) * k /\ (i + 1) * k = i * k + k
        BY <2>1, Products
    <2>3. i < t - 1 => (i + 1) * k <= (t - 1) * k
        BY <2>1, Products
    <2> QED
        BY <1>1, <1>2, <2>1, <2>2, <2>3
<1>5. ASSUME NEW x \in 1..n
      PROVE  \E i \in 0..(t - 1) : i * k + 1 <= x /\ x <= (i + 1) * k
    <2> DEFINE i == (x - 1) \div k
    <2>1. i \in Nat /\ i * k <= x - 1 /\ x - 1 < (i + 1) * k
        BY Quotient
    <2> HIDE DEF i
    <2>2. i < t
        <3>1. SUFFICES ASSUME t <= i PROVE FALSE
            BY <1>1, <2>1
        <3>2. t * k <= i * k
            BY <1>1, <2>1, <3>1, Products
        <3> QED
            BY <1>1, <1>2, <2>1, <3>2, Products
    <2>3. i * k \in Int /\ (i + 1) * k \in Int
        BY <2>1, Products
    <2>4. i \in 0..(t - 1) /\ i * k + 1 <= x /\ x <= (i + 1) * k
        BY <1>1, <2>1, <2>2, <2>3
    <2> QED
        BY <2>4
<1> QED
    BY <1>1, <1>3, <1>4, <1>5 DEF t

-----------------------------------------------------------------------------
(* Voice: a message cut into chunks that the channel loses, repeats and reorders. *)

\* The unit's assumption holds, and the composition starts it and steps it as its
\* module says.
LEMMA VoiceUnit ==
    /\ V!VoiceAssumption
    /\ Init => V!Init
    /\ [Next]_vars => [V!Next]_voice
BY UnitsAssumption DEF Init, Next, vars

\* The instance counts as the library does.
LEMMA VoiceCounts == \A X : V!Cardinality(X) = Cardinality(X)
BY DEF Cardinality, V!Cardinality

\* What a message that the sequence numbers tell apart is cut into.
Numbered == V!Total <= SeqWidth

\* A chunk has room for a frame of every codec.
LEMMA ChunkRoom ==
    ASSUME V!VoiceAssumption, NEW c \in Codecs
    PROVE  V!FramesPerChunk(c) \in Nat \ {0}
<1>1. FrameBytes[c] \in Nat \ {0} /\ MaxPayload \in Nat /\ FrameBytes[c] <= MaxPayload
    BY DEF V!VoiceAssumption
<1>2. V!FramesPerChunk(c) \in Nat /\ MaxPayload < (V!FramesPerChunk(c) + 1) * FrameBytes[c]
    BY <1>1, Quotient DEF V!FramesPerChunk
<1>3. V!FramesPerChunk(c) = 0 => (V!FramesPerChunk(c) + 1) * FrameBytes[c] = FrameBytes[c]
    BY <1>1
<1> QED
    BY <1>1, <1>2, <1>3

\* A message has a chunk when there is a frame in it.
LEMMA VoiceCount ==
    ASSUME V!VoiceAssumption, NEW n \in Nat, NEW c \in Codecs
    PROVE  V!Count(n, c) \in Nat /\ (V!Count(n, c) = 0 <=> n = 0)
<1>1. V!Count(n, c) = Pieces(n, V!FramesPerChunk(c))
    BY DEF V!Count, V!CeilDiv, Pieces
<1> QED
    BY <1>1, ChunkRoom, Cutting

\* What the chunks of a message hold: each has frames of the message, the last one
\* ends it, and together they hold all of it.
LEMMA VoiceCut ==
    ASSUME V!VoiceAssumption, length \in Nat, codec \in Codecs
    PROVE  /\ V!Total \in Nat /\ (V!Total = 0 <=> length = 0)
           /\ \A i \in 0..(V!Total - 1) :
                 /\ V!Frames(length, codec, i) \subseteq 1..length
                 /\ V!Frames(length, codec, i) # {}
                 /\ V!LastFrame(length, codec, i) = length <=> i = V!Total - 1
           /\ UNION {V!Frames(length, codec, i) : i \in 0..(V!Total - 1)} = 1..length
<1> DEFINE k == V!FramesPerChunk(codec)
           t == V!Total
<1>1. k \in Nat \ {0}
    BY ChunkRoom
<1>2. t = Pieces(length, k)
    BY DEF V!Total, V!Count, V!CeilDiv, Pieces
<1> HIDE DEF k, t
<1>3. /\ t \in Nat /\ (t = 0 <=> length = 0)
      /\ \A i \in 0..(t - 1) : i * k \in Nat /\ i * k < length /\ ((i + 1) * k >= length <=> i = t - 1)
      /\ \A x \in 1..length : \E i \in 0..(t - 1) : i * k + 1 <= x /\ x <= (i + 1) * k
    BY <1>1, <1>2, Cutting
<1>4. ASSUME NEW i \in 0..(t - 1)
      PROVE  /\ V!LastFrame(length, codec, i) = IF (i + 1) * k <= length THEN (i + 1) * k ELSE length
             /\ V!Frames(length, codec, i) = (i * k + 1)..V!LastFrame(length, codec, i)
             /\ (i + 1) * k = i * k + k /\ (i + 1) * k \in Int
    <2>1. i \in Int
        BY <1>3
    <2>2. (i + 1) * k = i * k + k /\ (i + 1) * k \in Int
        BY <1>1, <2>1, Products
    <2>3. V!LastFrame(length, codec, i) = IF (i + 1) * k <= length THEN (i + 1) * k ELSE length
        BY DEF V!LastFrame, V!Smaller, k
    <2>4. V!Frames(length, codec, i) = (i * k + 1)..V!LastFrame(length, codec, i)
        BY DEF V!Frames, k
    <2> QED
        BY <2>2, <2>3, <2>4
<1>5. ASSUME NEW i \in 0..(t - 1)
      PROVE  /\ V!Frames(length, codec, i) \subseteq 1..length
             /\ V!Frames(length, codec, i) # {}
             /\ V!LastFrame(length, codec, i) = length <=> i = t - 1
    <2>1. /\ i * k \in Nat /\ i * k < length /\ (i + 1) * k \in Int
          /\ (i + 1) * k = i * k + k /\ ((i + 1) * k >= length <=> i = t - 1)
        BY <1>3, <1>4
    <2>2. V!LastFrame(length, codec, i) \in (i * k + 1)..length
        BY <1>1, <1>4, <2>1
    <2>3. i * k + 1 \in V!Frames(length, codec, i)
        BY <1>4, <2>1, <2>2
    <2> QED
        BY <1>4, <2>1, <2>2, <2>3
<1>6. ASSUME NEW x \in 1..length
      PROVE  \E i \in 0..(t - 1) : x \in V!Frames(length, codec, i)
    <2>1. PICK i \in 0..(t - 1) : i * k + 1 <= x /\ x <= (i + 1) * k
        BY <1>3
    <2>2. /\ V!LastFrame(length, codec, i) = IF (i + 1) * k <= length THEN (i + 1) * k ELSE length
          /\ V!Frames(length, codec, i) = (i * k + 1)..V!LastFrame(length, codec, i)
          /\ (i + 1) * k \in Int /\ i * k \in Nat
        BY <1>3, <1>4
    <2>3. x <= V!LastFrame(length, codec, i) /\ V!LastFrame(length, codec, i) \in Int
        BY <2>1, <2>2
    <2> QED
        BY <2>1, <2>2, <2>3
<1> QED
    BY <1>3, <1>5, <1>6 DEF t

\* Nothing is sent before something was said.  What is held are chunks of the
\* message, each under its number; the number of chunks is known from the last
\* one; and the message is complete when they are all there.
Held == DOMAIN chunks
Pristine == sent = 0 /\ chunks = <<>> /\ expected = 0 /\ announced = 0 /\ finished = FALSE
Collected ==
    /\ length = 0 => Pristine
    /\ V!Total <= SeqWidth =>
          /\ Held \subseteq 0..(V!Total - 1)
          /\ \A i \in Held : chunks[i] = V!Frames(length, codec, i)
          /\ expected \in {0, V!Total}
          /\ announced \in {0, V!Total % TotalWidth}
          /\ finished <=> expected # 0 /\ Held = 0..(V!Total - 1)

\* The inductive invariant of the voice unit.
VoiceInv == V!TypeOK /\ Collected

\* What is complete is the message, frame for frame.
LEMMA VoicePlays == V!VoiceAssumption /\ VoiceInv => V!PlaysWhatWasSaid
<1> SUFFICES ASSUME V!VoiceAssumption, VoiceInv, V!Total <= SeqWidth PROVE V!PlaysWhatWasSaid
    BY DEF V!PlaysWhatWasSaid
<1> DEFINE t == V!Total
<1>0. codec \in Codecs /\ length \in Nat /\ TotalWidth \in Nat \ {0}
    <2>1. Lengths \subseteq Nat \ {0} /\ length \in Lengths \cup {0}
        BY DEF VoiceInv, V!TypeOK, V!VoiceAssumption
    <2>2. codec \in Codecs
        BY DEF VoiceInv, V!TypeOK
    <2>3. TotalWidth \in Nat \ {0}
        BY DEF V!VoiceAssumption
    <2> QED
        BY <2>1, <2>2, <2>3
<1>1. /\ t \in Nat
      /\ UNION {V!Frames(length, codec, i) : i \in 0..(t - 1)} = 1..length
    BY <1>0, VoiceCut
<1>2. /\ V!Received = Held /\ Held \subseteq 0..(t - 1)
      /\ \A i \in Held : chunks[i] = V!Frames(length, codec, i)
      /\ expected \in {0, t} /\ announced \in {0, t % TotalWidth}
      /\ finished <=> expected # 0 /\ Held = 0..(t - 1)
    BY DEF VoiceInv, Collected, V!Received, Held
<1> HIDE DEF t
<1>3. \A i \in 1..V!Known : V!Ordered[i] \in {V!Lost, V!Frames(length, codec, i - 1)}
    BY <1>2 DEF V!Ordered
<1>4. expected # 0 => V!Missing = 0..(t - 1) \ Held
    BY <1>2 DEF V!Missing
<1>5. finished <=> (expected # 0 /\ V!Missing = {})
    BY <1>2, <1>4
<1>6. finished => UNION {V!Ordered[i] : i \in 1..V!Known} = 1..length
    <2> SUFFICES ASSUME finished PROVE UNION {V!Ordered[i] : i \in 1..V!Known} = 1..length
        OBVIOUS
    <2>1. V!Known = t /\ Held = 0..(t - 1)
        BY <1>2 DEF V!Known
    <2>2. \A i \in 1..t : i - 1 \in 0..(t - 1) /\ V!Ordered[i] = V!Frames(length, codec, i - 1)
        BY <1>1, <1>2, <2>1 DEF V!Ordered
    <2>3. \A i \in 0..(t - 1) : i + 1 \in 1..t /\ (i + 1) - 1 = i
        BY <1>1
    <2>4. {V!Ordered[i] : i \in 1..t} = {V!Frames(length, codec, i) : i \in 0..(t - 1)}
        BY <2>2, <2>3
    <2> QED
        BY <1>1, <2>1, <2>4
<1>7. expected # 0 => V!Cardinality(V!Missing) = expected - V!Cardinality(V!Received)
    <2> SUFFICES ASSUME expected # 0 PROVE V!Cardinality(V!Missing) = expected - V!Cardinality(V!Received)
        OBVIOUS
    <2>1. IsFiniteSet(0..(t - 1)) /\ Cardinality(0..(t - 1)) = t
        <3>1. t - 1 \in Int /\ 0 \in Int
            BY <1>1
        <3>2. IsFiniteSet(0..(t - 1)) /\ Cardinality(0..(t - 1)) = IF 0 > t - 1 THEN 0 ELSE t - 1 - 0 + 1
            BY <3>1, FS_Interval
        <3> QED
            BY <1>1, <3>2
    <2>2. (0..(t - 1)) \cap Held = Held
        BY <1>2
    <2>3. Cardinality(0..(t - 1) \ Held) = t - Cardinality(Held)
        <3> DEFINE all == 0..(t - 1)
        <3>1. IsFiniteSet(all) /\ Cardinality(all) = t /\ all \cap Held = Held
            BY <2>1, <2>2
        <3> HIDE DEF all
        <3>2. Cardinality(all \ Held) = Cardinality(all) - Cardinality(all \cap Held)
            BY <3>1, FS_Difference
        <3> QED
            BY <3>1, <3>2 DEF all
    <2> QED
        BY <1>2, <1>4, <2>3, VoiceCounts
<1>8. expected # 0 /\ announced # 0 /\ t < TotalWidth => announced = expected
    BY <1>0, <1>1, <1>2
<1> QED
    BY <1>3, <1>5, <1>6, <1>7, <1>8 DEF V!PlaysWhatWasSaid, t

\* The initial states satisfy the unit's invariant.
LEMMA VoiceStarts == V!VoiceAssumption /\ V!Init => VoiceInv
<1> SUFFICES ASSUME V!VoiceAssumption, V!Init PROVE VoiceInv
    OBVIOUS
<1>1. /\ length = 0 /\ codec \in Codecs /\ strict \in BOOLEAN /\ Pristine /\ rejected = {}
      /\ DOMAIN chunks = {}
    BY DEF V!Init, Pristine
<1>2. V!Total = 0 /\ 0..(0 - 1) = {}
    BY <1>1, VoiceCut
<1>3. SeqWidth \in Nat \ {0} /\ TotalWidth \in Nat \ {0}
    BY DEF V!VoiceAssumption
<1>4. V!TypeOK
    <2>1. sent \in 0..(V!Total + 1) /\ expected \in 0..SeqWidth /\ announced \in 0..(TotalWidth - 1)
        BY <1>1, <1>2, <1>3 DEF Pristine
    <2>2. V!Received \subseteq 0..(SeqWidth - 1)
        BY <1>1 DEF V!Received
    <2> QED
        BY <1>1, <2>1, <2>2 DEF V!TypeOK, Pristine
<1>5. Collected
    BY <1>1, <1>2 DEF Collected, Held, Pristine
<1> QED
    BY <1>4, <1>5 DEF VoiceInv

\* Every step of the unit, and every one that leaves it alone, keeps its invariant.
LEMMA VoiceStep == V!VoiceAssumption /\ VoiceInv /\ [V!Next]_voice => VoiceInv'
<1> SUFFICES ASSUME V!VoiceAssumption, VoiceInv, [V!Next]_voice PROVE VoiceInv'
    OBVIOUS
<1>0. /\ SeqWidth \in Nat \ {0} /\ TotalWidth \in Nat \ {0} /\ Lengths \subseteq Nat \ {0}
      /\ codec \in Codecs /\ length \in Lengths \cup {0} /\ length \in Nat
      /\ sent \in 0..(V!Total + 1) /\ strict \in BOOLEAN /\ finished \in BOOLEAN
      /\ Held \subseteq 0..(SeqWidth - 1) /\ expected \in 0..SeqWidth
      /\ announced \in 0..(TotalWidth - 1) /\ rejected \subseteq V!Packets
    BY DEF V!VoiceAssumption, VoiceInv, V!TypeOK, V!Received, Held
<1>t. V!Total \in Nat /\ (V!Total = 0 <=> length = 0)
    BY <1>0, VoiceCut
<1>1. ASSUME NEW n \in Lengths, V!Say(n) PROVE VoiceInv'
    <2>1. /\ length = 0 /\ length' = n /\ Pristine
          /\ UNCHANGED <<codec, sent, strict, chunks, expected, announced, finished, rejected>>
        BY <1>1 DEF V!Say, VoiceInv, Collected
    <2>2. V!Total' \in Nat /\ V!Total' # 0
        <3>1. length' \in Nat \ {0} /\ codec' \in Codecs
            BY <1>0, <2>1
        <3> QED
            BY <3>1, VoiceCount DEF V!Total
    <2>3. rejected' \subseteq V!Packets'
        BY <1>0, <1>t, <2>1, <2>2 DEF V!Packets
    <2>4. V!TypeOK'
        <3>1. sent' \in 0..(V!Total' + 1)
            <4>1. sent' = 0
                BY <2>1 DEF Pristine
            <4>2. \A t \in Nat : 0 \in 0..(t + 1)
                OBVIOUS
            <4> QED
                BY <2>2, <4>1, <4>2
        <3>2. length' \in Lengths \cup {0}
            BY <2>1
        <3> QED
            BY <1>0, <2>1, <2>3, <3>1, <3>2 DEF V!TypeOK, V!Received, Held
    <2>5. Collected'
        BY <1>0, <2>1, <2>2 DEF Collected, Held, Pristine
    <2> QED
        BY <2>4, <2>5 DEF VoiceInv
<1>2. CASE V!Send
    <2>1. /\ length # 0 /\ sent <= V!Total /\ sent' = sent + 1
          /\ UNCHANGED <<length, codec, strict, chunks, expected, announced, finished, rejected>>
        BY <1>2 DEF V!Send
    <2>2. V!Total' = V!Total /\ V!Packets' = V!Packets
        BY <2>1 DEF V!Total, V!Packets
    <2>3. V!TypeOK'
        BY <1>0, <1>t, <2>1, <2>2 DEF V!TypeOK, V!Received, Held
    <2>4. Collected'
        BY <2>1, <2>2 DEF VoiceInv, Collected, Held, Pristine
    <2> QED
        BY <2>3, <2>4 DEF VoiceInv
<1>3. ASSUME NEW p \in V!Packets, NEW e, V!Hear(p, e) PROVE VoiceInv'
    <2>1. p < sent /\ UNCHANGED <<length, codec, sent, strict>>
        BY <1>3 DEF V!Hear
    <2>2. V!Total' = V!Total /\ V!Packets' = V!Packets /\ length # 0
        <3>1. length = 0 => sent = 0
            BY DEF VoiceInv, Collected, Pristine
        <3> QED
            BY <1>0, <1>t, <2>1, <3>1 DEF V!Total, V!Packets
    <2>3. CASE rejected' = rejected \cup {p} /\ UNCHANGED <<chunks, expected, announced, finished>>
        <3>1. V!TypeOK'
            BY <1>0, <2>1, <2>2, <2>3 DEF V!TypeOK, V!Received, Held
        <3>2. Collected'
            BY <2>1, <2>2, <2>3 DEF VoiceInv, Collected, Held
        <3> QED
            BY <3>1, <3>2 DEF VoiceInv
    <2>4. CASE V!ReadMeta /\ UNCHANGED rejected
        <3>1. announced' = V!Total % TotalWidth /\ UNCHANGED <<chunks, expected, finished>>
            BY <2>4 DEF V!ReadMeta
        <3>2. announced' \in 0..(TotalWidth - 1)
            BY <1>0, <1>t, <3>1
        <3>3. V!TypeOK'
            BY <1>0, <2>1, <2>2, <2>4, <3>1, <3>2 DEF V!TypeOK, V!Received, Held
        <3>4. Collected'
            BY <2>1, <2>2, <3>1 DEF VoiceInv, Collected, Held
        <3> QED
            BY <3>3, <3>4 DEF VoiceInv
    <2>5. CASE p # 0 /\ V!AddChunk(V!Chunk(length, codec, p - 1)) /\ UNCHANGED rejected
        <3> DEFINE i == p - 1
                   c == V!Chunk(length, codec, i)
        <3>1. i \in 0..(V!Total - 1)
            BY <1>t, <2>5 DEF V!Packets
        <3>2. /\ c.seq = i % SeqWidth /\ c.payload = V!Frames(length, codec, i)
              /\ c.last <=> i = V!Total - 1
            BY <1>0, <3>1, VoiceCut DEF V!Chunk
        <3>3. c.seq \in 0..(SeqWidth - 1) /\ (V!Total <= SeqWidth => c.seq = i)
            BY <1>0, <1>t, <3>1, <3>2
        <3>4. /\ chunks' = [j \in Held \cup {c.seq} |-> IF j = c.seq THEN c.payload ELSE chunks[j]]
              /\ expected' = IF c.last THEN c.seq + 1 ELSE expected
              /\ finished' = (finished \/ (expected' # 0 /\ V!Cardinality(Held') >= expected'))
              /\ UNCHANGED announced
            BY <2>5 DEF V!AddChunk, V!With, V!TotalAfter, V!IsComplete, V!Received, Held
        <3> HIDE DEF c, i
        <3>5. /\ Held' = Held \cup {c.seq} /\ chunks'[c.seq] = c.payload
              /\ \A j \in Held \ {c.seq} : chunks'[j] = chunks[j]
            BY <3>4 DEF Held
        <3>6. expected' \in 0..SeqWidth /\ finished' \in BOOLEAN
            BY <1>0, <3>3, <3>4
        <3>7. V!TypeOK'
            BY <1>0, <2>1, <2>2, <2>5, <3>3, <3>4, <3>5, <3>6 DEF V!TypeOK, V!Received, Held
        <3>8. ASSUME V!Total <= SeqWidth
              PROVE  /\ Held' \subseteq 0..(V!Total - 1)
                     /\ \A j \in Held' : chunks'[j] = V!Frames(length, codec, j)
                     /\ expected' \in {0, V!Total}
                     /\ announced' \in {0, V!Total % TotalWidth}
                     /\ finished' <=> expected' # 0 /\ Held' = 0..(V!Total - 1)
            <4>1. /\ Held \subseteq 0..(V!Total - 1) /\ expected \in {0, V!Total}
                  /\ \A j \in Held : chunks[j] = V!Frames(length, codec, j)
                  /\ announced \in {0, V!Total % TotalWidth}
                  /\ finished <=> expected # 0 /\ Held = 0..(V!Total - 1)
                BY <3>8 DEF VoiceInv, Collected
            <4>2. c.seq = i
                BY <3>3, <3>8
            <4>3. Held' \subseteq 0..(V!Total - 1)
                BY <3>1, <3>5, <4>1, <4>2
            <4>4. \A j \in Held' : chunks'[j] = V!Frames(length, codec, j)
                BY <3>2, <3>5, <4>1, <4>2
            <4>5. expected' \in {0, V!Total} /\ (expected # 0 => expected' = V!Total)
                BY <1>t, <3>1, <3>2, <3>4, <4>1, <4>2
            <4>6. IsFiniteSet(0..(V!Total - 1)) /\ Cardinality(0..(V!Total - 1)) = V!Total
                <5>1. IsFiniteSet(0..(V!Total - 1))
                      /\ Cardinality(0..(V!Total - 1)) = IF 0 > V!Total - 1 THEN 0 ELSE V!Total - 1 - 0 + 1
                    BY <1>t, FS_Interval
                <5> QED
                    BY <1>t, <5>1
            <4>7. IsFiniteSet(Held') /\ Cardinality(Held') <= V!Total /\ Cardinality(Held') \in Nat
                  /\ (Cardinality(Held') = V!Total => Held' = 0..(V!Total - 1))
                BY <4>3, <4>6, FS_Subset, FS_CardinalityType
            <4>8. Cardinality(Held') >= V!Total <=> Held' = 0..(V!Total - 1)
                BY <1>t, <4>6, <4>7
            <4>9. finished => Held' = 0..(V!Total - 1) /\ expected' # 0
                BY <1>t, <3>5, <4>1, <4>3, <4>5
            <4>10. finished' <=> expected' # 0 /\ Held' = 0..(V!Total - 1)
                BY <1>0, <3>4, <4>5, <4>8, <4>9, VoiceCounts
            <4> QED
                BY <3>4, <4>1, <4>3, <4>4, <4>5, <4>10
        <3>9. Collected'
            BY <2>1, <2>2, <3>8 DEF Collected
        <3> QED
            BY <3>7, <3>9 DEF VoiceInv
    <2> QED
        BY <1>3, <2>3, <2>4, <2>5 DEF V!Hear
<1>4. CASE UNCHANGED voice
    BY <1>0, <1>4 DEF voice, VoiceInv, V!TypeOK, Collected, Held, Pristine, V!Total, V!Packets, V!Received
<1>5. CASE V!Next
    BY <1>1, <1>2, <1>3, <1>5 DEF V!Next
<1> QED
    BY <1>4, <1>5

\* The unit's invariant holds in the composition.
LEMMA VoiceHolds == Spec => []VoiceInv
<1>1. Init => VoiceInv
    BY VoiceUnit, VoiceStarts
<1>2. VoiceInv /\ [Next]_vars => VoiceInv'
    BY VoiceUnit, VoiceStep
<1> QED
    BY <1>1, <1>2, PTL DEF Spec, vars

-----------------------------------------------------------------------------
(* Push to talk: a recording, and what the loops of earlier ones still do. *)

\* The unit's assumption holds, and the composition starts it and steps it as its
\* module says.
LEMMA TalkUnit ==
    /\ K!TalkAssumption
    /\ Init => K!Init
    /\ [Next]_vars => [K!Next]_talk
BY UnitsAssumption DEF Init, Next, vars

\* The instance counts as the library does.
LEMMA TalkCounts == \A X : K!Cardinality(X) = Cardinality(X)
BY DEF Cardinality, K!Cardinality

\* Only the last recording is not cancelled, while it goes on, and only it is
\* without a message.
Quiet == {"off", "done"}
OneAtATime ==
    /\ mic = IF recording THEN take ELSE 0
    /\ recording => take > 0
    /\ cancelled \subseteq 1..take
    /\ \A t \in 1..take : (t = take /\ recording) \/ t \in cancelled
    /\ \A t \in K!Takes : t > take => capturing[t] = "off"
    /\ \A m \in messages : m.take \in 1..take /\ (m.take = take => ~recording)

\* An earlier loop adds one frame at most, the one it was about to encode.
Leftover ==
    \A t \in K!Takes \ {take} :
        /\ \A i, j \in DOMAIN said : said[i].by = t /\ said[j].by = t => i = j
        /\ capturing[t] = "encoding" => \A i \in DOMAIN said : said[i].by # t

\* Nothing played, nothing switched.
Undisturbed ==
    /\ DOMAIN player = Players
    /\ talkCodec \in {K!None, mode}
    /\ ~disturbed => /\ \A p \in Players : player[p] = K!Idle
                     /\ \A i \in DOMAIN said : said[i].by = take => said[i].mode = mode

\* Where only one loop runs, its counter is the number of frames.
Counted ==
    LET at == capturing[take]
    IN alone =>
        /\ \A t \in K!Takes \ {take} : capturing[t] \in Quiet
        /\ take > 0 =>
              /\ at \in {"added", "counting"} => Len(said) = count + 1
              /\ at \notin {"added", "counting"} => Len(said) = count
              /\ at = "counting" => local[take] = count
              /\ at \in {"reading", "metering", "encoding", "added", "counting"} => count < MaxFrames
              /\ at = "full" => count = MaxFrames
              /\ count <= MaxFrames

\* A recording is handed over once, and what is handed over was recorded as said.
Handed ==
    /\ \A m, n \in messages : m.take = n.take => m = n
    /\ \A m \in messages :
          /\ m.frames \in Seq([by : K!Takes, mode : Modes])
          /\ m.by \in {0, m.take}
          /\ \A t \in K!Takes \ {m.take} : \A i, j \in DOMAIN m.frames :
                m.frames[i].by = t /\ m.frames[j].by = t => i = j
          /\ ~m.disturbed => \A i \in DOMAIN m.frames :
                m.frames[i].by = m.take => m.frames[i].mode = m.mode
          /\ m.alone => Len(m.frames) <= MaxFrames
          /\ m.alone /\ m.by # 0 => Len(m.frames) = MaxFrames

\* The inductive invariant of push to talk.
TalkInv == K!TypeOK /\ OneAtATime /\ Leftover /\ Undisturbed /\ Counted /\ Handed

\* What the invariant says of a recording.
LEMMA TalkRecords == TalkInv => K!RecordsWhatWasSaid
<1> SUFFICES ASSUME TalkInv PROVE K!RecordsWhatWasSaid
    OBVIOUS
<1>1. ASSUME NEW m \in messages, NEW t \in K!Takes \ {m.take}
      PROVE  K!Cardinality({i \in DOMAIN m.frames : m.frames[i].by = t}) <= 1
    <2> DEFINE places == {i \in DOMAIN m.frames : m.frames[i].by = t}
    <2>1. \A i, j \in places : i = j
        BY <1>1 DEF TalkInv, Handed
    <2>2. places = {} \/ \E i : places = {i}
        BY <2>1
    <2>3. Cardinality(places) <= 1
        <3> HIDE DEF places
        <3>1. CASE places = {}
            BY <3>1, FS_EmptySet
        <3>2. ASSUME NEW i, places = {i} PROVE Cardinality(places) <= 1
            <4>1. Cardinality({i}) = 1
                BY FS_Singleton, Zenon
            <4> QED
                BY <3>2, <4>1
        <3> QED
            BY <2>2, <3>1, <3>2
    <2> QED
        BY <2>3, TalkCounts
<1>2. mic # 0 => recording /\ mic = take
    BY DEF TalkInv, OneAtATime
<1>3. \A m, n \in messages : m.take = n.take => m = n
    BY DEF TalkInv, Handed
<1>4. ASSUME NEW m \in messages
      PROVE  /\ m.by \in {0, m.take}
             /\ ~m.disturbed => \A i \in {j \in DOMAIN m.frames : m.frames[j].by = m.take} :
                                   m.frames[i].mode = m.mode
             /\ m.alone => Len(m.frames) <= MaxFrames
             /\ m.alone /\ m.by # 0 => Len(m.frames) = MaxFrames
    BY <1>4 DEF TalkInv, Handed
<1> QED
    BY <1>1, <1>2, <1>3, <1>4 DEF K!RecordsWhatWasSaid

\* The initial states satisfy the unit's invariant.
LEMMA TalkStarts == K!TalkAssumption /\ K!Init => TalkInv
<1> SUFFICES ASSUME K!TalkAssumption, K!Init PROVE TalkInv
    OBVIOUS
<1>0. MaxTakes \in Nat /\ Home \in Native /\ Native \subseteq Modes
    BY DEF K!TalkAssumption
<1>1. /\ take = 0 /\ recording = FALSE /\ mic = 0 /\ said = <<>> /\ count = 0
      /\ capturing = [t \in K!Takes |-> "off"]
      /\ asked = [t \in K!Takes |-> 0] /\ local = [t \in K!Takes |-> 0]
      /\ cancelled = {} /\ ended = FALSE
      /\ mode = Home /\ talkCodec = Home
      /\ player = [p \in Players |-> K!Idle] /\ plays = 0
      /\ disturbed = FALSE /\ alone = TRUE /\ messages = {}
    BY DEF K!Init
<1>2. K!TypeOK
    <2>1. take \in 0..MaxTakes /\ mic \in 0..take /\ count \in Nat
        BY <1>0, <1>1
    <2>2. said \in Seq([by : K!Takes, mode : Modes])
        BY <1>1
    <2> QED
        BY <1>0, <1>1, <2>1, <2>2 DEF K!TypeOK
<1>3. OneAtATime /\ Leftover /\ Undisturbed /\ Counted /\ Handed
    BY <1>1 DEF OneAtATime, Leftover, Undisturbed, Counted, Handed, Quiet
<1> QED
    BY <1>2, <1>3 DEF TalkInv

\* Every step but a loop's that adds a frame, or moves, or starts a recording.
\* A loop that moves on, the frames as they are: its part of the invariant is
\* what its own counter says.
LEMMA TalkMoves ==
    ASSUME K!TalkAssumption, TalkInv, NEW t \in K!Takes, NEW from, NEW to,
           K!Goes(t, from, to), from \notin Quiet,
           to \in {"check", "reading", "metering", "encoding", "counting", "full", "done"},
           to = "encoding" => t \notin cancelled,
           count' \in Nat, asked' \in [K!Takes -> Nat], local' \in [K!Takes -> Nat],
           UNCHANGED <<take, recording, mic, said, cancelled, ended, mode, talkCodec, player, plays,
                       disturbed, alone, messages>>,
           t = take => Counted'
    PROVE  TalkInv'
<1> USE DEF TalkInv
<1>1. capturing[t] = from /\ capturing' = [capturing EXCEPT ![t] = to]
    BY DEF K!Goes
<1>2. take \in 0..MaxTakes /\ MaxTakes \in Nat /\ K!Takes = 1..MaxTakes
    BY DEF K!TalkAssumption, K!TypeOK, K!Takes
<1>3. t \in 1..take
    BY <1>1, <1>2 DEF OneAtATime, Quiet
<1>4. K!TypeOK'
    BY <1>1 DEF K!TypeOK
<1>5. OneAtATime'
    BY <1>1, <1>2, <1>3 DEF OneAtATime
<1>6. to = "encoding" => t = take
    BY <1>3 DEF OneAtATime
<1>7. Leftover'
    BY <1>1, <1>6 DEF Leftover, K!TypeOK
<1>8. Undisturbed' /\ Handed'
    BY DEF Undisturbed, Handed
<1>9. t # take => Counted'
    BY <1>1, <1>3 DEF Counted
<1> QED
    BY <1>4, <1>5, <1>7, <1>8, <1>9

\* Every step of the unit, and every one that leaves it alone, keeps its invariant.
LEMMA TalkStep == K!TalkAssumption /\ TalkInv /\ [K!Next]_talk => TalkInv'
<1> SUFFICES ASSUME K!TalkAssumption, TalkInv, [K!Next]_talk PROVE TalkInv'
    OBVIOUS
<1>0. /\ MaxTakes \in Nat /\ MaxFrames \in Nat \ {0} /\ Home \in Native /\ Native \subseteq Modes
      /\ Samples \in [Modes -> Nat] /\ NoCodec \in Nat /\ K!Takes = 1..MaxTakes
    BY DEF K!TalkAssumption, K!Takes
<1>a. /\ take \in 0..MaxTakes /\ mic \in 0..take /\ count \in Nat
      /\ {recording, ended, disturbed, alone} \subseteq BOOLEAN
      /\ said \in Seq([by : K!Takes, mode : Modes])
      /\ capturing \in [K!Takes -> {"off", "begin", "check", "reading", "metering", "encoding",
                                   "added", "counting", "full", "done"}]
      /\ asked \in [K!Takes -> Nat] /\ local \in [K!Takes -> Nat] /\ cancelled \subseteq K!Takes
      /\ mode \in Native /\ talkCodec \in Native \cup {K!None}
      /\ \A p \in Players : player[p] \in {K!Idle} \cup (Modes \X Modes)
    BY DEF TalkInv, K!TypeOK
<1>b. OneAtATime /\ Leftover /\ Undisturbed /\ Counted /\ Handed
    BY DEF TalkInv
<1>1. CASE K!StartRecording
    <2>1. /\ ~recording /\ take < MaxTakes /\ take' = take + 1 /\ mic' = take + 1
          /\ said' = <<>> /\ count' = 0 /\ recording' = TRUE
          /\ capturing' = [capturing EXCEPT ![take + 1] = IF ended THEN "done" ELSE "begin"]
          /\ disturbed' = K!Playing /\ alone' = (K!Running = {})
          /\ UNCHANGED <<asked, local, cancelled, ended, mode, talkCodec, player, plays, messages>>
        BY <1>1 DEF K!StartRecording, K!codecs
    <2>2. K!TypeOK'
        <3>1. take' \in 0..MaxTakes /\ mic' \in 0..take' /\ count' \in Nat /\ said' = <<>>
            BY <1>0, <1>a, <2>1
        <3>2. {recording', ended', disturbed', alone'} \subseteq BOOLEAN
            <4>1. recording' = TRUE /\ ended' = ended /\ disturbed' \in BOOLEAN /\ alone' \in BOOLEAN
                BY <2>1 DEF K!Playing
            <4> QED
                BY <1>a, <4>1, Zenon
        <3>3. capturing' \in [K!Takes -> {"off", "begin", "check", "reading", "metering", "encoding",
                                        "added", "counting", "full", "done"}]
            BY <1>a, <2>1
        <3>4. said' \in Seq([by : K!Takes, mode : Modes])
            BY <3>1
        <3> QED
            BY <1>a, <2>1, <3>1, <3>2, <3>3, <3>4 DEF K!TypeOK
    <2>3. OneAtATime'
        <3>1. take \in Nat /\ \A t \in 1..take : t \in cancelled
            BY <1>a, <1>b, <2>1 DEF OneAtATime
        <3>2. 1..take' = 1..take \cup {take'} /\ take' \in Nat \ {0} /\ take' \notin 1..take
            BY <2>1, <3>1
        <3>3. mic' = take' /\ recording' = TRUE /\ take' > 0
            BY <1>a, <2>1, <3>1
        <3>4. cancelled' = cancelled /\ cancelled \subseteq 1..take'
            BY <1>b, <2>1, <3>2 DEF OneAtATime
        <3>5. \A t \in 1..take' : (t = take' /\ recording') \/ t \in cancelled'
            BY <3>1, <3>2, <3>3, <3>4
        <3>6. \A t \in K!Takes : t > take' => capturing'[t] = "off"
            BY <1>0, <1>a, <1>b, <2>1, <3>1 DEF OneAtATime
        <3>7. \A m \in messages' : m.take \in 1..take' /\ (m.take = take' => ~recording')
            BY <1>b, <2>1, <3>2 DEF OneAtATime
        <3> QED
            BY <3>3, <3>4, <3>5, <3>6, <3>7 DEF OneAtATime
    <2>4. Leftover'
        BY <2>1 DEF Leftover
    <2>5. Undisturbed'
        BY <1>b, <2>1 DEF Undisturbed, K!Playing
    <2>6. Counted'
        <3>1. alone' => \A t \in K!Takes : capturing[t] \in Quiet
            BY <2>1 DEF K!Running, Quiet
        <3>2. take' \in K!Takes /\ capturing'[take'] \in {"done", "begin"}
            BY <1>0, <1>a, <2>1
        <3>3. \A t \in K!Takes \ {take'} : capturing'[t] = capturing[t]
            BY <1>a, <2>1
        <3> QED
            BY <1>0, <2>1, <3>1, <3>2, <3>3 DEF Counted, Quiet
    <2>7. Handed'
        BY <1>b, <2>1 DEF Handed
    <2> QED
        BY <2>2, <2>3, <2>4, <2>5, <2>6, <2>7 DEF TalkInv
\* A recording ended by the user, by its loop, or by destroy.
<1>2. ASSUME NEW by, K!Stopped(by), by = 0 \/ (by = take /\ alone /\ recording => Len(said) = MaxFrames),
             cancelled' \subseteq 1..take, \A t \in 1..take : t = take \/ t \in cancelled => t \in cancelled',
             recording => by \in {0, take},
             ended' \in BOOLEAN,
             UNCHANGED <<take, said, count, asked, local, mode, talkCodec, player, plays, disturbed, alone>>,
             \/ UNCHANGED capturing
             \/ by = take /\ capturing' = [capturing EXCEPT ![take] = "done"] /\ capturing[take] = "full"
      PROVE  TalkInv'
    <2>1. recording' = FALSE /\ mic' = 0
        BY <1>2 DEF K!Stopped
    <2>2. capturing' \in [K!Takes -> {"off", "begin", "check", "reading", "metering", "encoding",
                                   "added", "counting", "full", "done"}]
        BY <1>2, <1>a
    <2>3. K!TypeOK'
        <3>1. {recording', ended', disturbed', alone'} \subseteq BOOLEAN
            BY <1>2, <1>a, <2>1, Zenon
        <3>2. mic' \in 0..take'
            BY <1>2, <1>a, <2>1
        <3>3. cancelled' \subseteq K!Takes
            BY <1>0, <1>2, <1>a
        <3> QED
            BY <1>2, <1>a, <2>2, <3>1, <3>2, <3>3 DEF K!TypeOK
    <2>4. \A t \in K!Takes \ {take} : capturing'[t] = capturing[t]
        BY <1>2, <1>a
    <2>5. Leftover' /\ Undisturbed' /\ Counted'
        <3>1. Leftover' /\ Undisturbed'
            BY <1>2, <1>b, <2>4 DEF Leftover, Undisturbed
        <3>2. Counted'
            <4>1. CASE UNCHANGED capturing
                BY <1>2, <1>b, <4>1 DEF Counted
            <4>2. CASE capturing' = [capturing EXCEPT ![take] = "done"] /\ capturing[take] = "full"
                BY <1>0, <1>2, <1>a, <1>b, <2>4, <4>2 DEF Counted
            <4> QED
                BY <1>2, <4>1, <4>2
        <3> QED
            BY <3>1, <3>2
    <2>6. CASE messages' = messages
        <3>1. OneAtATime'
            BY <1>0, <1>2, <1>a, <1>b, <2>1, <2>2, <2>4, <2>6 DEF OneAtATime
        <3> QED
            BY <1>b, <2>3, <2>5, <2>6, <3>1 DEF TalkInv, Handed
    <2>7. ASSUME recording,
                 messages' = messages \cup {[take |-> take, by |-> by, frames |-> said, mode |-> mode,
                                             disturbed |-> disturbed, alone |-> alone]}
          PROVE  TalkInv'
        <3> DEFINE new == [take |-> take, by |-> by, frames |-> said, mode |-> mode,
                           disturbed |-> disturbed, alone |-> alone]
        <3>1. /\ new.take = take /\ new.by = by /\ new.frames = said /\ new.mode = mode
              /\ new.disturbed = disturbed /\ new.alone = alone
            OBVIOUS
        <3>2. messages' = messages \cup {new}
            BY <2>7
        <3> HIDE DEF new
        <3>3. take \in 1..take /\ \A m \in messages : m.take # take
            BY <1>a, <1>b, <2>7 DEF OneAtATime
        <3>4. OneAtATime'
            BY <1>0, <1>2, <1>a, <1>b, <2>1, <2>2, <2>4, <3>1, <3>2, <3>3 DEF OneAtATime
        <3>5. /\ new.frames \in Seq([by : K!Takes, mode : Modes]) /\ new.by \in {0, new.take}
              /\ \A t \in K!Takes \ {new.take} : \A i, j \in DOMAIN new.frames :
                    new.frames[i].by = t /\ new.frames[j].by = t => i = j
              /\ ~new.disturbed => \A i \in DOMAIN new.frames :
                    new.frames[i].by = new.take => new.frames[i].mode = new.mode
            BY <1>2, <1>a, <1>b, <2>7, <3>1 DEF Leftover, Undisturbed
        <3>6. new.alone => Len(new.frames) <= MaxFrames
            <4>1. alone /\ take > 0 => Len(said) <= MaxFrames
                <5> SUFFICES ASSUME alone, take > 0 PROVE Len(said) <= MaxFrames
                    OBVIOUS
                <5>1. Len(said) \in Nat
                    BY <1>a
                <5>2. CASE capturing[take] \in {"added", "counting"}
                    BY <1>0, <1>a, <1>b, <5>1, <5>2 DEF Counted
                <5>3. CASE capturing[take] \notin {"added", "counting"}
                    BY <1>0, <1>a, <1>b, <5>1, <5>3 DEF Counted
                <5> QED
                    BY <5>2, <5>3
            <4> QED
                BY <1>a, <3>1, <3>3, <4>1
        <3>7. new.alone /\ new.by # 0 => Len(new.frames) = MaxFrames
            BY <1>2, <2>7, <3>1
        <3>8. Handed'
            <4>1. \A m, n \in messages' : m.take = n.take => m = n
                BY <1>b, <3>1, <3>2, <3>3 DEF Handed
            <4>2. \A m \in messages' : m \in messages \/ m = new
                BY <3>2
            <4>3. ASSUME NEW m \in messages'
                  PROVE  /\ m.frames \in Seq([by : K!Takes, mode : Modes])
                         /\ m.by \in {0, m.take}
                         /\ \A t \in K!Takes \ {m.take} : \A i, j \in DOMAIN m.frames :
                               m.frames[i].by = t /\ m.frames[j].by = t => i = j
                         /\ ~m.disturbed => \A i \in DOMAIN m.frames :
                               m.frames[i].by = m.take => m.frames[i].mode = m.mode
                         /\ m.alone => Len(m.frames) <= MaxFrames
                         /\ m.alone /\ m.by # 0 => Len(m.frames) = MaxFrames
                <5>1. CASE m \in messages
                    BY <1>b, <5>1 DEF Handed
                <5>2. CASE m = new
                    BY <3>5, <3>6, <3>7, <5>2
                <5> QED
                    BY <4>2, <5>1, <5>2
            <4> QED
                BY <4>1, <4>3 DEF Handed
        <3> QED
            BY <2>3, <2>5, <3>4, <3>8 DEF TalkInv
    <2> QED
        BY <1>2, <2>6, <2>7 DEF K!Stopped
<1>3. CASE K!StopRecording
    <2>1. /\ recording /\ K!Stopped(0) /\ cancelled' = cancelled \cup {take} /\ take \in 1..take
          /\ UNCHANGED <<take, said, count, capturing, asked, local, ended, mode, talkCodec, player, plays,
                         disturbed, alone>>
        BY <1>3, <1>a, <1>b DEF K!StopRecording, K!Cancel, K!codecs, OneAtATime
    <2>2. cancelled' \subseteq 1..take
        BY <1>b, <2>1 DEF OneAtATime
    <2> QED
        BY <1>2, <1>a, <2>1, <2>2
<1>4. ASSUME NEW t \in K!Takes, K!AutoStop(t) PROVE TalkInv'
    <2>1. /\ capturing[t] = "full" /\ t \notin cancelled /\ K!Stopped(t) /\ cancelled' = cancelled \cup {take}
          /\ capturing' = [capturing EXCEPT ![t] = "done"]
          /\ UNCHANGED <<take, said, count, asked, local, ended, mode, talkCodec, player, plays,
                         disturbed, alone>>
        BY <1>4 DEF K!AutoStop, K!Cancel, K!codecs
    <2>2. t = take /\ recording /\ take \in 1..take
        <3>1. t \in 1..MaxTakes /\ take \in Nat /\ ~(t > take)
            BY <1>0, <1>a, <1>b, <2>1 DEF OneAtATime
        <3>2. t \in 1..take
            BY <3>1
        <3> QED
            BY <1>b, <2>1, <3>2 DEF OneAtATime
    <2>3. alone => Len(said) = MaxFrames
        BY <1>0, <1>a, <1>b, <2>1, <2>2 DEF Counted
    <2>4. cancelled' \subseteq 1..take
        BY <1>b, <2>1, <2>2 DEF OneAtATime
    <2> QED
        BY <1>2, <1>a, <2>1, <2>2, <2>3, <2>4
<1>5. CASE K!Destroy
    <2>1. /\ K!Stopped(0) /\ cancelled' = 1..take /\ ended' = TRUE
          /\ UNCHANGED <<take, said, count, capturing, asked, local, mode, talkCodec, player, plays,
                         disturbed, alone>>
        BY <1>5 DEF K!Destroy, K!codecs
    <2> QED
        BY <1>2, <1>a, <1>b, <2>1 DEF OneAtATime
\* The capture loop.
<1> DEFINE On(t) == t = take => take \in K!Takes /\ take > 0
<1>c. \A t \in K!Takes : On(t)
    BY <1>0, <1>a
<1>6. ASSUME NEW t \in K!Takes, K!Begin(t) PROVE TalkInv'
    <2>1. /\ K!Goes(t, "begin", "check")
          /\ asked' = [asked EXCEPT ![t] = IF talkCodec = K!None THEN NoCodec ELSE Samples[talkCodec]]
          /\ UNCHANGED <<take, recording, mic, said, count, local, cancelled, ended, mode, talkCodec, player,
                         plays, disturbed, alone, messages>>
        BY <1>6 DEF K!Begin, K!codecs, K!capture
    <2>2. (IF talkCodec = K!None THEN NoCodec ELSE Samples[talkCodec]) \in Nat
        BY <1>0, <1>a
    <2>3. asked' \in [K!Takes -> Nat]
        BY <1>a, <2>1, <2>2
    <2>4. t = take => Counted'
        BY <1>a, <1>b, <2>1 DEF Counted, K!Goes, Quiet
    <2> QED
        BY <1>a, <2>1, <2>3, <2>4, TalkMoves DEF Quiet
<1>7. ASSUME NEW t \in K!Takes, K!Check(t) PROVE TalkInv'
    <2> DEFINE to == IF count >= MaxFrames THEN "full" ELSE IF recording THEN "reading" ELSE "done"
    <2>1. /\ K!Goes(t, "check", to) /\ to \in {"full", "reading", "done"}
          /\ UNCHANGED <<take, recording, mic, said, count, asked, local, cancelled, ended, mode, talkCodec,
                         player, plays, disturbed, alone, messages>>
        BY <1>7 DEF K!Check, K!codecs, K!capture
    <2>2. t = take => Counted'
        BY <1>0, <1>a, <1>b, <1>c, <2>1 DEF Counted, K!Goes, Quiet
    <2> HIDE DEF to
    <2> QED
        BY <1>a, <2>1, <2>2, TalkMoves DEF Quiet
<1>8. ASSUME NEW t \in K!Takes, K!Read(t) PROVE TalkInv'
    <2>1. PICK to \in {"metering", "check"} : K!Goes(t, "reading", to)
        BY <1>8 DEF K!Read
    <2>2. UNCHANGED <<take, recording, mic, said, count, asked, local, cancelled, ended, mode, talkCodec,
                         player, plays, disturbed, alone, messages>>
        BY <1>8 DEF K!Read, K!codecs, K!capture
    <2>3. t = take => Counted'
        BY <1>0, <1>a, <1>b, <1>c, <2>1, <2>2 DEF Counted, K!Goes, Quiet
    <2> QED
        BY <1>a, <2>1, <2>2, <2>3, TalkMoves DEF Quiet
<1>9. ASSUME NEW t \in K!Takes, K!ReadError(t) PROVE TalkInv'
    <2> DEFINE to == IF count >= MaxFrames THEN "full" ELSE "done"
    <2>1. /\ K!Goes(t, "reading", to) /\ to \in {"full", "done"}
          /\ UNCHANGED <<take, recording, mic, said, count, asked, local, cancelled, ended, mode, talkCodec,
                         player, plays, disturbed, alone, messages>>
        BY <1>9 DEF K!ReadError, K!codecs, K!capture
    <2>2. t = take => Counted'
        BY <1>0, <1>a, <1>b, <1>c, <2>1 DEF Counted, K!Goes, Quiet
    <2> HIDE DEF to
    <2> QED
        BY <1>a, <2>1, <2>2, TalkMoves DEF Quiet
<1>10. ASSUME NEW t \in K!Takes, K!Meter(t) PROVE TalkInv'
    <2>1. PICK to \in {"encoding", "check"} : K!Goes(t, "metering", to)
        BY <1>10 DEF K!Meter
    <2>2. /\ t \notin cancelled
          /\ UNCHANGED <<take, recording, mic, said, count, asked, local, cancelled, ended, mode, talkCodec,
                         player, plays, disturbed, alone, messages>>
        BY <1>10 DEF K!Meter, K!codecs, K!capture
    <2>3. t = take => Counted'
        BY <1>0, <1>a, <1>b, <1>c, <2>1, <2>2 DEF Counted, K!Goes, Quiet
    <2> QED
        BY <1>a, <2>1, <2>2, <2>3, TalkMoves DEF Quiet
<1>11. ASSUME NEW t \in K!Takes, K!Cancelled(t) PROVE TalkInv'
    <2>1. PICK from \in {"begin", "metering", "full"} : K!Goes(t, from, "done")
        BY <1>11 DEF K!Cancelled
    <2>2. UNCHANGED <<take, recording, mic, said, count, asked, local, cancelled, ended, mode, talkCodec,
                     player, plays, disturbed, alone, messages>>
        BY <1>11 DEF K!Cancelled, K!codecs, K!capture
    <2>3. t = take => Counted'
        BY <1>0, <1>a, <1>b, <1>c, <2>1, <2>2 DEF Counted, K!Goes, Quiet
    <2> QED
        BY <1>a, <2>1, <2>2, <2>3, TalkMoves DEF Quiet
<1>12. ASSUME NEW t \in K!Takes, K!Load(t) PROVE TalkInv'
    <2>1. /\ K!Goes(t, "added", "counting") /\ local' = [local EXCEPT ![t] = count]
          /\ UNCHANGED <<take, recording, mic, said, count, asked, cancelled, ended, mode, talkCodec,
                         player, plays, disturbed, alone, messages>>
        BY <1>12 DEF K!Load, K!codecs, K!capture
    <2>2. t = take => Counted'
        BY <1>0, <1>a, <1>b, <1>c, <2>1 DEF Counted, K!Goes, Quiet
    <2> QED
        BY <1>a, <2>1, <2>2, TalkMoves DEF Quiet
<1>13. ASSUME NEW t \in K!Takes, K!Store(t) PROVE TalkInv'
    <2>1. /\ K!Goes(t, "counting", "check") /\ local' = [local EXCEPT ![t] = 0] /\ count' = local[t] + 1
          /\ UNCHANGED <<take, recording, mic, said, asked, cancelled, ended, mode, talkCodec,
                         player, plays, disturbed, alone, messages>>
        BY <1>13 DEF K!Store, K!codecs, K!capture
    <2>2. t = take => Counted'
        <3> SUFFICES ASSUME t = take, alone PROVE Counted'
            BY <2>1 DEF Counted
        <3>1. /\ capturing[take] = "counting" /\ capturing' = [capturing EXCEPT ![take] = "check"]
              /\ take \in K!Takes /\ take > 0
            BY <1>0, <1>a, <2>1 DEF K!Goes
        <3>2. /\ Len(said) = count + 1 /\ local[take] = count /\ count < MaxFrames
              /\ \A u \in K!Takes \ {take} : capturing[u] \in Quiet
            BY <1>b, <3>1 DEF Counted
        <3>3. capturing'[take] = "check" /\ \A u \in K!Takes \ {take} : capturing'[u] = capturing[u]
            BY <1>a, <3>1
        <3>4. count' = count + 1 /\ Len(said') = count' /\ count' <= MaxFrames
            BY <1>0, <1>a, <2>1, <3>2
        <3>5. "check" \notin {"added", "counting", "reading", "metering", "encoding", "full"}
            OBVIOUS
        <3> QED
            BY <2>1, <3>2, <3>3, <3>4, <3>5 DEF Counted
    <2>3. count' \in Nat /\ local' \in [K!Takes -> Nat]
        BY <1>a, <2>1
    <2> QED
        BY <1>a, <2>1, <2>2, <2>3, TalkMoves DEF Quiet
<1>14. ASSUME NEW t \in K!Takes, K!Encode(t) PROVE TalkInv'
    <2>1. UNCHANGED <<take, recording, mic, count, asked, local, cancelled, ended, mode, talkCodec,
                     player, plays, disturbed, alone, messages>>
        BY <1>14 DEF K!Encode, K!codecs, K!capture
    <2>2. CASE K!Goes(t, "encoding", "check") /\ UNCHANGED said
        <3>1. t = take => Counted'
            BY <1>0, <1>a, <1>b, <1>c, <2>1, <2>2 DEF Counted, K!Goes, Quiet
        <3> QED
            BY <1>a, <2>1, <2>2, <3>1, TalkMoves DEF Quiet
    <2>3. CASE /\ K!Goes(t, "encoding", "added") /\ talkCodec # K!None
               /\ said' = Append(said, [by |-> t, mode |-> talkCodec])
        <3> DEFINE f == [by |-> t, mode |-> talkCodec]
                   n == Len(said) + 1
        <3>1. /\ f \in [by : K!Takes, mode : Modes] /\ f.by = t /\ f.mode = mode
            BY <1>0, <1>a, <1>b, <2>3 DEF Undisturbed
        <3> HIDE DEF f
        <3>2. /\ said' \in Seq([by : K!Takes, mode : Modes]) /\ n \in Nat
              /\ DOMAIN said = 1..(n - 1) /\ DOMAIN said' = 1..n /\ said'[n] = f
              /\ Len(said') = Len(said) + 1 /\ Len(said) \in Nat
              /\ \A i \in DOMAIN said : said'[i] = said[i]
            BY <1>a, <2>3, <3>1 DEF f
        <3> HIDE DEF n
        <3>3. /\ capturing[t] = "encoding" /\ capturing'[t] = "added"
              /\ capturing' = [capturing EXCEPT ![t] = "added"]
              /\ \A k \in K!Takes \ {t} : capturing'[k] = capturing[k]
            BY <1>a, <2>3 DEF K!Goes
        <3>4. K!TypeOK'
            <4>1. capturing' \in [K!Takes -> {"off", "begin", "check", "reading", "metering", "encoding",
                                            "added", "counting", "full", "done"}]
                BY <1>a, <3>3
            <4> QED
                BY <2>1, <3>2, <4>1 DEF TalkInv, K!TypeOK
        <3>5. OneAtATime'
            BY <1>b, <2>1, <3>3 DEF OneAtATime
        <3>6. Leftover'
            BY <1>b, <2>1, <3>1, <3>2, <3>3 DEF Leftover
        <3>7. Undisturbed'
            BY <1>b, <2>1, <3>1, <3>2 DEF Undisturbed
        <3>8. Counted'
            <4>1. alone => t = take
                BY <1>b, <3>3 DEF Counted, Quiet
            <4>2. alone => count < MaxFrames /\ Len(said) = count
                BY <1>a, <1>b, <1>c, <3>3, <4>1 DEF Counted
            <4> QED
                BY <1>0, <1>a, <1>b, <2>1, <3>2, <3>3, <4>1, <4>2 DEF Counted
        <3>9. Handed'
            BY <1>b, <2>1 DEF Handed
        <3> QED
            BY <3>4, <3>5, <3>6, <3>7, <3>8, <3>9 DEF TalkInv
    <2> QED
        BY <1>14, <2>2, <2>3 DEF K!Encode, K!Fits
\* Playback.
<1>15. ASSUME K!TypeOK',
              UNCHANGED <<take, recording, mic, said, count, capturing, asked, local, cancelled, ended,
                          alone, messages>>,
              DOMAIN player' = Players, talkCodec' \in {K!None, mode'},
              disturbed'
       PROVE  TalkInv'
    BY <1>15, <1>b DEF TalkInv, OneAtATime, Leftover, Undisturbed, Counted, Handed
<1>16. ASSUME NEW m \in Modes, K!SetMode(m) \/ UNCHANGED <<mode, talkCodec>>
       PROVE  mode' \in Native /\ talkCodec' \in Native \cup {K!None} /\ talkCodec' \in {K!None, mode'}
    BY <1>16, <1>a, <1>b DEF K!SetMode, Undisturbed
<1>17. ASSUME NEW p \in Players, NEW m \in Modes, K!Play(p, m) PROVE TalkInv'
    <2>1. /\ player' = [player EXCEPT ![p] = <<mode, m>>] /\ disturbed'
          /\ K!SetMode(m) \/ UNCHANGED <<mode, talkCodec>>
          /\ UNCHANGED <<take, recording, mic, said, count, capturing, asked, local, cancelled, ended,
                         alone, messages>>
        BY <1>17 DEF K!Play
    <2>2. DOMAIN player' = Players
          /\ \A q \in Players : player'[q] \in {K!Idle} \cup (Modes \X Modes)
        BY <1>0, <1>a, <1>b, <2>1 DEF Undisturbed
    <2>3. K!TypeOK'
        BY <1>16, <2>1, <2>2 DEF TalkInv, K!TypeOK
    <2> QED
        BY <1>15, <1>16, <2>1, <2>2, <2>3
<1>18. ASSUME NEW p \in Players, K!Played(p) \/ K!PlaybackFails(p) PROVE TalkInv'
    <2>1. /\ player[p] # K!Idle /\ player' = [player EXCEPT ![p] = K!Idle]
          /\ K!SetMode(player[p][1]) \/ UNCHANGED <<mode, talkCodec>>
          /\ UNCHANGED <<take, recording, mic, said, count, capturing, asked, local, cancelled, ended,
                         disturbed, alone, messages>>
        BY <1>18 DEF K!Played, K!PlaybackFails, K!capture
    <2>2. player[p][1] \in Modes /\ disturbed
        BY <1>a, <1>b, <2>1 DEF Undisturbed
    <2>3. DOMAIN player' = Players
          /\ \A q \in Players : player'[q] \in {K!Idle} \cup (Modes \X Modes)
        BY <1>a, <1>b, <2>1 DEF Undisturbed
    <2>4. K!TypeOK'
        BY <1>16, <2>1, <2>2, <2>3 DEF TalkInv, K!TypeOK
    <2> QED
        BY <1>15, <1>16, <2>1, <2>2, <2>3, <2>4
<1>19. CASE UNCHANGED talk
    BY <1>19, <1>a, <1>b DEF talk, TalkInv, K!TypeOK, OneAtATime, Leftover, Undisturbed, Counted, Handed
<1>20. CASE K!Next
    BY <1>1, <1>3, <1>4, <1>5, <1>6, <1>7, <1>8, <1>9, <1>10, <1>11, <1>12, <1>13, <1>14, <1>17, <1>18,
       <1>20 DEF K!Next
<1> QED
    BY <1>19, <1>20

\* The unit's invariant holds in the composition.
LEMMA TalkHolds == Spec => []TalkInv
<1>1. Init => TalkInv
    BY TalkUnit, TalkStarts
<1>2. TalkInv /\ [Next]_vars => TalkInv'
    BY TalkUnit, TalkStep
<1> QED
    BY <1>1, <1>2, PTL DEF Spec, vars

-----------------------------------------------------------------------------
(* Packets: a flood over nodes that forget.                                *)

\* The unit's assumption holds, and the composition starts it and steps it as its
\* module says.
LEMMA PacketsUnit ==
    /\ P!PacketsAssumption
    /\ Init => P!Init
    /\ [Next]_vars => [P!Next]_packets
BY UnitsAssumption DEF Init, Next, vars

\* What is not built is not on the air; a node that does not know a packet
\* relayed it at most as often as it forgot; and the band the sender holds is
\* the one asked for, or the carrier's.
Flooding ==
    /\ \A c \in air : c.of \in P!Built
    /\ \A n \in Nodes, m \in Messages :
          /\ relays[n][m] <= 1 + forgets[n]
          /\ m \notin seen[n] => relays[n][m] <= forgets[n]
    /\ \A m \in P!Built : band[m] = built[m].band \/ (m \in gateway /\ band[m] = "CARRIER_NTN")

\* The inductive invariant of the packets.
PacketsInv == P!TypeOK /\ Flooding /\ P!FloodEnds /\ P!BandKept

\* What is built.
PacketRecords == [band : UsedBands, encrypted : BOOLEAN, ttl : 1..MaxTtl]
\* A packet is not the value that stands for none.
LEMMA PacketsRecord == \A r \in PacketRecords : r # P!None
<1> SUFFICES ASSUME NEW r \in PacketRecords, r = P!None PROVE FALSE
    OBVIOUS
<1>1. DOMAIN r = {"band", "encrypted", "ttl"} /\ DOMAIN r = {"none"}
    BY DEF PacketRecords, P!None
<1> QED
    BY <1>1

\* The initial states satisfy the unit's invariant.
LEMMA PacketsStarts == P!PacketsAssumption /\ P!Init => PacketsInv
<1> SUFFICES ASSUME P!PacketsAssumption, P!Init PROVE PacketsInv
    OBVIOUS
<1>0. MaxForgets \in Nat /\ MaxTtl \in Nat /\ P!Built = {}
    BY DEF P!PacketsAssumption, P!Init, P!Built
<1>1. P!TypeOK
    BY <1>0 DEF P!Init, P!TypeOK, P!Bands
<1> QED
    BY <1>0, <1>1 DEF P!Init, PacketsInv, Flooding, P!FloodEnds, P!BandKept

\* Every step of the unit, and every one that leaves it alone, keeps its invariant.
LEMMA PacketsStep == P!PacketsAssumption /\ PacketsInv /\ [P!Next]_packets => PacketsInv'
<1> SUFFICES ASSUME P!PacketsAssumption, PacketsInv, [P!Next]_packets PROVE PacketsInv'
    OBVIOUS
<1>0. MaxForgets \in Nat /\ MaxTtl \in Nat /\ UsedBands \subseteq P!Bands
    BY DEF P!PacketsAssumption
<1> USE <1>0 DEF PacketsInv, Flooding, P!TypeOK, P!FloodEnds, P!BandKept
<1>1. ASSUME NEW m \in Messages, NEW b \in UsedBands, NEW e \in BOOLEAN, NEW t \in 1..MaxTtl,
             P!Build(m, b, e, t)
      PROVE  PacketsInv'
    <2>1. m \notin P!Built /\ P!Built' = P!Built \cup {m}
        <3>1. [band |-> b, encrypted |-> e, ttl |-> t] \in PacketRecords
            BY DEF PacketRecords
        <3> QED
            BY <1>1, <3>1, PacketsRecord DEF P!Build, P!Built
    <2>2. \A k \in P!Built : built'[k] = built[k] /\ band'[k] = band[k]
        BY <1>1, <2>1 DEF P!Build, P!Built
    <2>3. built'[m].band = b /\ band'[m] = b
        BY <1>1 DEF P!Build
    <2>4. P!TypeOK'
        BY <1>1 DEF P!Build
    <2> QED
        BY <1>1, <2>1, <2>2, <2>3, <2>4 DEF P!Build
<1>2. ASSUME NEW m \in Messages, P!Transmit(m) PROVE PacketsInv'
    <2> DEFINE c == P!Copy(m, band[m], 0)
    <2>1. c \in [of : Messages, band : P!Bands, encrypted : BOOLEAN, ttl : 1..MaxTtl, hops : 0..MaxTtl]
        BY <1>2, PacketsRecord DEF P!Transmit, P!Copy, P!Built, PacketRecords
    <2>2. c.of = m /\ c.band = band[m] /\ c.encrypted = built[m].encrypted /\ c.hops = 0
        BY DEF P!Copy
    <2>3. c.encrypted => c.band # "AMATEUR"
        BY <1>2, <2>2 DEF P!Transmit, P!PolicyAllows, P!EncryptionAllowed
    <2>4. air' = air \cup {c} /\ m \in P!Built /\ UNCHANGED <<built, band, gateway, seen, relays, forgets>>
        BY <1>2 DEF P!Transmit
    <2> HIDE DEF c
    <2> QED
        BY <2>1, <2>2, <2>3, <2>4 DEF P!Built
<1>3. ASSUME NEW m \in Messages, P!Handoff(m) PROVE PacketsInv'
    BY <1>3 DEF P!Handoff, P!Rebanded, P!Built, P!Bands
<1>4. ASSUME NEW n \in Nodes, NEW c \in air, P!Relay(n, c) PROVE PacketsInv'
    <2> DEFINE m == c.of
               d == [c EXCEPT !.hops = @ + 1]
    <2>1. m \in Messages /\ m \in P!Built /\ m \notin seen[n] /\ relays[n][m] <= forgets[n]
        BY <1>4 DEF P!Relay
    <2>2. UNCHANGED <<built, band, gateway>> /\ P!Built' = P!Built
        BY <1>4 DEF P!Relay, P!Built
    <2>3. \/ /\ forgets' = [forgets EXCEPT ![n] = @ + 1] /\ forgets[n] < MaxForgets
             /\ \E some \in SUBSET Messages : seen' = [seen EXCEPT ![n] = some]
          \/ /\ forgets' = forgets
             /\ seen' = [seen EXCEPT ![n] = @ \cup {m}]
        <3>1. CASE P!Full(n, m)
            <4>1. seen[n] \cup {m} \subseteq Messages
                BY <2>1
            <4> QED
                BY <1>4, <3>1, <4>1 DEF P!Relay, P!Remember
        <3>2. CASE ~P!Full(n, m)
            BY <1>4, <3>2 DEF P!Relay, P!Remember
        <3> QED
            BY <3>1, <3>2
    <2>4. \/ UNCHANGED <<air, relays>>
          \/ /\ air' = air \cup {d} /\ c.hops < c.ttl
             /\ relays' = [relays EXCEPT ![n][m] = @ + 1]
        BY <1>4 DEF P!Relay, P!HopLimitExceeded
    <2>5. c.hops < c.ttl =>
            /\ d \in [of : Messages, band : P!Bands, encrypted : BOOLEAN, ttl : 1..MaxTtl, hops : 0..MaxTtl]
            /\ d.of = m /\ d.band = c.band /\ d.encrypted = c.encrypted /\ d.hops <= d.ttl
        BY <2>1
    <2> HIDE DEF d, m
    <2>6. /\ seen' \in [Nodes -> SUBSET Messages] /\ forgets' \in [Nodes -> 0..MaxForgets]
        <3>1. CASE /\ forgets' = [forgets EXCEPT ![n] = @ + 1] /\ forgets[n] < MaxForgets
                   /\ \E some \in SUBSET Messages : seen' = [seen EXCEPT ![n] = some]
            <4>1. PICK some \in SUBSET Messages : seen' = [seen EXCEPT ![n] = some]
                BY <3>1
            <4>2. forgets' \in [Nodes -> 0..MaxForgets]
                BY <3>1
            <4> QED
                BY <4>1, <4>2
        <3>2. CASE forgets' = forgets /\ seen' = [seen EXCEPT ![n] = @ \cup {m}]
            BY <2>1, <3>2
        <3> QED
            BY <2>3, <3>1, <3>2
    <2>7. ASSUME NEW q \in Nodes, NEW k \in Messages
          PROVE  /\ relays'[q][k] <= 1 + forgets'[q]
                 /\ k \notin seen'[q] => relays'[q][k] <= forgets'[q]
        <3>1. relays[q][k] \in Nat /\ forgets[q] \in Nat /\ forgets'[q] \in Nat
            BY <2>6
        <3>2. relays'[q][k] \in {relays[q][k], relays[q][k] + 1} /\
              (relays'[q][k] # relays[q][k] => q = n /\ k = m)
            BY <2>1, <2>4
        <3>3. CASE q = n
            BY <2>1, <2>3, <3>1, <3>2, <3>3
        <3>4. CASE q # n
            BY <2>3, <3>1, <3>2, <3>4
        <3> QED
            BY <3>3, <3>4
    <2>8. relays' \in [Nodes -> [Messages -> 0..(MaxForgets + 1)]]
        <3>1. relays' \in [Nodes -> [Messages -> Nat]]
            BY <2>1, <2>4
        <3>2. \A q \in Nodes, k \in Messages : relays'[q][k] \in 0..(MaxForgets + 1)
            BY <2>6, <2>7, <3>1
        <3> QED
            BY <3>1, <3>2
    <2>9. air' \subseteq [of : Messages, band : P!Bands, encrypted : BOOLEAN, ttl : 1..MaxTtl, hops : 0..MaxTtl]
        BY <2>4, <2>5
    <2>10. P!TypeOK'
        BY <2>2, <2>6, <2>8, <2>9
    <2>11. \A x \in air' : x.of \in P!Built /\ x.hops <= x.ttl /\ (x.encrypted => x.band # "AMATEUR")
              /\ (x.band = built[x.of].band \/ (x.of \in gateway /\ x.band = "CARRIER_NTN"))
        <3>1. c \in air
            OBVIOUS
        <3> QED
            BY <2>1, <2>4, <2>5, <3>1 DEF m
    <2> QED
        BY <2>2, <2>7, <2>10, <2>11
<1>5. ASSUME NEW n \in Nodes, P!Restart(n) PROVE PacketsInv'
    <2>1. /\ forgets' = [forgets EXCEPT ![n] = @ + 1] /\ forgets[n] < MaxForgets
          /\ seen' = [seen EXCEPT ![n] = {}]
          /\ UNCHANGED <<built, band, gateway, air, relays>> /\ P!Built' = P!Built
        BY <1>5 DEF P!Restart, P!Built
    <2>2. P!TypeOK'
        BY <2>1
    <2>3. ASSUME NEW q \in Nodes, NEW k \in Messages
          PROVE  /\ relays'[q][k] <= 1 + forgets'[q]
                 /\ k \notin seen'[q] => relays'[q][k] <= forgets'[q]
        <3>1. relays[q][k] \in Nat /\ forgets[q] \in Nat
            OBVIOUS
        <3> QED
            BY <2>1, <3>1
    <2> QED
        BY <2>1, <2>2, <2>3
<1>6. CASE UNCHANGED packets
    BY <1>6 DEF packets, P!Built
<1> QED
    BY <1>1, <1>2, <1>3, <1>4, <1>5, <1>6 DEF P!Next

\* The unit's invariant holds in the composition.
LEMMA PacketsHolds == Spec => []PacketsInv
<1>1. Init => PacketsInv
    BY PacketsUnit, PacketsStarts
<1>2. PacketsInv /\ [Next]_vars => PacketsInv'
    BY PacketsUnit, PacketsStep
<1> QED
    BY <1>1, <1>2, PTL DEF Spec, vars

-----------------------------------------------------------------------------
(* Mesh: neighbors that come and go, and the route taken.                  *)

\* The unit's assumption holds, and the composition starts it and steps it as its
\* module says.
LEMMA MeshUnit ==
    /\ M!MeshAssumption
    /\ Init => M!Init
    /\ [Next]_vars => [M!Next]_mesh
BY UnitsAssumption DEF Init, Next, vars

\* A peer heard within its patience is a neighbor still, and nothing was
\* heard, and no route found, at a time to come.
Heard(p) == heard[p] # M!None
Remembered ==
    /\ heard \in [Peers -> {M!None} \cup [advert : Adverts, at : 0..meshNow]]
    /\ \A p \in DOMAIN neighbors : Heard(p)
    /\ \A p \in Peers : Heard(p) /\ meshNow - heard[p].at < Patience => p \in DOMAIN neighbors
    /\ route # M!None => route.at \in 0..meshNow

\* The inductive invariant of the mesh.
MeshInv == M!TypeOK /\ Remembered /\ M!RouteSound

\* What is heard is not the value that stands for nothing heard.
LEMMA MeshRecord == \A a, t : [advert |-> a, at |-> t] # M!None
<1> SUFFICES ASSUME NEW a, NEW t, [advert |-> a, at |-> t] = M!None PROVE FALSE
    OBVIOUS
<1>1. DOMAIN [advert |-> a, at |-> t] = {"advert", "at"} /\ DOMAIN M!None = {"none"}
    BY DEF M!None
<1> QED
    BY <1>1

\* The initial states satisfy the unit's invariant.
LEMMA MeshStarts == M!MeshAssumption /\ M!Init => MeshInv
<1> SUFFICES ASSUME M!MeshAssumption, M!Init PROVE MeshInv
    OBVIOUS
<1>1. DOMAIN neighbors = {} /\ MeshTime \in Nat
    BY DEF M!Init, M!MeshAssumption
<1> QED
    BY <1>1 DEF M!Init, MeshInv, M!TypeOK, Remembered, Heard, M!RouteSound

\* A route is found among those that are kept: what it leads to, and when
\* there is none.
LEMMA MeshRoute ==
    ASSUME M!MeshAssumption, MeshInv, NEW v \in BOOLEAN, NEW b, NEW e \in BOOLEAN,
           NEW to \in M!Choices(M!Kept, v, b, e)
    PROVE  /\ to \in Peers \cup {"blocked", "satellite_direct", "store"}
           /\ to \in Peers => /\ Heard(to) /\ meshNow - heard[to].at < Patience
                              /\ \E k \in 1..3 : M!Useful(heard[to], k)
                              /\ M!CanTransmitOn(heard[to], b, e)
           /\ to = "store" => \A p \in Peers :
                 ~(/\ Heard(p) /\ meshNow - heard[p].at < Patience
                   /\ \E k \in 1..3 : M!Useful(heard[p], k)
                   /\ M!CanTransmitOn(heard[p], b, e))
           /\ to # "blocked" => M!Authorize(gate, b, e, "data")
<1> DEFINE able(k) == M!Able(M!Kept, k, b, e)
           kinds == {k \in 1..3 : able(k) # {}}
           first == CHOOSE k \in kinds : \A j \in kinds : k <= j
<1>1. \A p \in DOMAIN neighbors : neighbors[p] = heard[p] /\ p \in Peers /\ Heard(p)
    BY DEF MeshInv, M!TypeOK, Remembered
<1>2. \A p \in DOMAIN M!Kept : M!Kept[p] = heard[p] /\ p \in Peers /\ Heard(p)
    BY <1>1 DEF M!Kept
<1>3. \A p \in Peers : Heard(p) /\ meshNow - heard[p].at < Patience => p \in DOMAIN M!Kept
    BY <1>1 DEF M!Kept, M!Gone, M!Stale, M!IsAlive, M!Age, MeshInv, Remembered
<1>4. \A k \in 1..3 : able(k) = {p \in DOMAIN M!Kept : /\ meshNow - heard[p].at < Patience
                                   /\ M!Useful(heard[p], k) /\ M!CanTransmitOn(heard[p], b, e)}
    BY <1>2 DEF M!Able, M!IsAlive, M!Age
<1>5. kinds # {} => first \in kinds
    <2> SUFFICES ASSUME kinds # {} PROVE \E k \in kinds : \A j \in kinds : k <= j
        OBVIOUS
    <2>1. kinds \subseteq 1..3
        OBVIOUS
    <2> HIDE DEF kinds
    <2>2. CASE 1 \in kinds
        BY <2>1, <2>2
    <2>3. CASE 1 \notin kinds /\ 2 \in kinds
        BY <2>1, <2>3
    <2>4. CASE 1 \notin kinds /\ 2 \notin kinds
        <3>1. PICK k : k \in kinds
            OBVIOUS
        <3>2. \A j \in kinds : j = 3
            BY <2>1, <2>4
        <3> QED
            BY <3>1, <3>2
    <2> QED
        BY <2>2, <2>3, <2>4
<1>6. CASE ~M!Authorize(gate, b, e, "data")
    BY <1>6 DEF M!Choices, M!MeshAssumption
<1>7. CASE M!Authorize(gate, b, e, "data") /\ v /\ caps \cap {"SDR_TRANSMIT", "SATELLITE_DIRECT"} # {}
    BY <1>7 DEF M!Choices, M!MeshAssumption
<1>8. CASE M!Authorize(gate, b, e, "data") /\ ~(v /\ caps \cap {"SDR_TRANSMIT", "SATELLITE_DIRECT"} # {})
    <2>1. to \in IF kinds = {} THEN {"store"} ELSE M!Best(M!Kept, able(first))
        BY <1>8 DEF M!Choices
    <2>2. CASE kinds = {}
        <3>1. \A k \in 1..3 : able(k) = {}
            BY <2>2
        <3> HIDE DEF able, kinds
        <3>2. to = "store" /\ to \notin Peers
            BY <2>1, <2>2 DEF M!MeshAssumption
        <3> QED
            BY <1>3, <1>4, <1>8, <3>1, <3>2
    <2>3. CASE kinds # {}
        <3>1. to \in able(first) /\ first \in 1..3
            BY <1>5, <2>1, <2>3 DEF M!Best
        <3> HIDE DEF able, first
        <3>2. to \in Peers /\ to \notin {"blocked", "satellite_direct", "store"}
            BY <1>2, <1>4, <3>1 DEF M!MeshAssumption
        <3> QED
            BY <1>2, <1>4, <1>8, <3>1, <3>2
    <2> QED
        BY <2>2, <2>3
<1> QED
    BY <1>6, <1>7, <1>8

\* Every step of the unit, and every one that leaves it alone, keeps its invariant.
LEMMA MeshStep == M!MeshAssumption /\ MeshInv /\ [M!Next]_mesh => MeshInv'
<1> SUFFICES ASSUME M!MeshAssumption, MeshInv, [M!Next]_mesh PROVE MeshInv'
    OBVIOUS
<1>0. Patience \in Nat /\ Patience > 0 /\ MeshTime \in Nat
    BY DEF M!MeshAssumption
<1> USE <1>0 DEF MeshInv, M!TypeOK, Remembered, Heard
<1>1. ASSUME NEW p \in Peers, NEW a \in Adverts, M!AddNeighbor(p, a) PROVE MeshInv'
    <2> DEFINE node == [advert |-> a, at |-> meshNow]
    <2>1. /\ neighbors' = [q \in DOMAIN neighbors \cup {p} |-> IF q = p THEN node ELSE neighbors[q]]
          /\ routingTable' = routingTable \cup {p}
          /\ heard' = [heard EXCEPT ![p] = node]
          /\ UNCHANGED <<meshNow, gate, caps, route>>
        BY <1>1 DEF M!AddNeighbor
    <2>2. node # M!None /\ node.at = meshNow /\ node \in [advert : Adverts, at : 0..meshNow]
        BY MeshRecord
    <2> HIDE DEF node
    <2>3. M!TypeOK'
        BY <2>1
    <2>4. Remembered'
        BY <2>1, <2>2
    <2>5. M!RouteSound'
        BY <2>1, <2>2 DEF M!RouteSound
    <2> QED
        BY <2>3, <2>4, <2>5
<1>2. ASSUME NEW v \in BOOLEAN, NEW e \in BOOLEAN, NEW b \in {"AMATEUR", "ISM"},
             M!FindBestRoute(v, b, e)
      PROVE  MeshInv'
    <2>1. PICK to \in M!Choices(M!Kept, v, b, e) :
             route' = [to |-> to, band |-> b, encrypted |-> e, visible |-> v, at |-> meshNow]
        BY <1>2 DEF M!FindBestRoute
    <2>2. UNCHANGED <<meshNow, gate, caps, heard>>
        BY <1>2 DEF M!FindBestRoute
    <2>3. /\ route'.to = to /\ route'.band = b /\ route'.encrypted = e /\ route'.at = meshNow
        BY <2>1
    <2>4. neighbors' = M!Kept /\ DOMAIN neighbors' \subseteq DOMAIN neighbors
          /\ routingTable' = DOMAIN neighbors'
        BY <1>2 DEF M!FindBestRoute, M!Kept
    <2>5. \A p \in DOMAIN neighbors' : neighbors'[p] = neighbors[p]
        BY <2>4 DEF M!Kept
    <2>6. \A p \in DOMAIN neighbors : meshNow - heard[p].at < Patience => p \in DOMAIN neighbors'
        BY <2>4 DEF M!Kept, M!Gone, M!Stale, M!IsAlive, M!Age
    <2>7. to \in Peers \cup {"blocked", "satellite_direct", "store"}
        BY <2>1, MeshRoute
    <2>8. M!TypeOK' /\ Remembered'
        BY <2>2, <2>3, <2>4, <2>5, <2>6, <2>7
    <2>9. M!RouteSound'
        <3>1. to \in Peers => /\ Heard(to) /\ meshNow - heard[to].at < Patience
                              /\ \E k \in 1..3 : M!Useful(heard[to], k)
                              /\ M!CanTransmitOn(heard[to], b, e)
            BY <2>1, MeshRoute
        <3>2. to = "store" => \A p \in Peers :
                 ~(/\ Heard(p) /\ meshNow - heard[p].at < Patience
                   /\ \E k \in 1..3 : M!Useful(heard[p], k)
                   /\ M!CanTransmitOn(heard[p], b, e))
            BY <2>1, MeshRoute
        <3>3. to # "blocked" => M!Authorize(gate, b, e, "data")
            BY <2>1, MeshRoute
        <3>4. \A p \in Peers : Heard(p) => heard[p].at \in 0..meshNow
            OBVIOUS
        <3>5. \A p : M!Fresh(p)' <=> Heard(p) /\ heard[p].at <= meshNow /\ meshNow - heard[p].at < Patience
            BY <2>2, <2>3 DEF M!Fresh
        <3>6. \A p : M!Relays(p)' <=> /\ \E k \in 1..3 : M!Useful(heard[p], k)
                                      /\ M!CanTransmitOn(heard[p], b, e)
            BY <2>2, <2>3 DEF M!Relays
        <3> QED
            BY <2>2, <2>3, <3>1, <3>2, <3>3, <3>4, <3>5, <3>6 DEF M!RouteSound
    <2> QED
        BY <2>8, <2>9
<1>3. CASE M!Tick
    BY <1>3 DEF M!Tick, M!RouteSound, M!Fresh, M!Relays
<1>4. CASE UNCHANGED mesh
    BY <1>4 DEF mesh, M!RouteSound, M!Fresh, M!Relays
<1> QED
    BY <1>1, <1>2, <1>3, <1>4 DEF M!Next

\* The unit's invariant holds in the composition.
LEMMA MeshHolds == Spec => []MeshInv
<1>1. Init => MeshInv
    BY MeshUnit, MeshStarts
<1>2. MeshInv /\ [Next]_vars => MeshInv'
    BY MeshUnit, MeshStep
<1> QED
    BY <1>1, <1>2, PTL DEF Spec, vars

-----------------------------------------------------------------------------
(* Security blocks: what the validation of a bundle accepts.               *)

\* The unit's assumption holds, and the composition starts it and steps it as its
\* module says.
LEMMA SecurityUnit ==
    /\ S!SecurityAssumption
    /\ Init => S!Init
    /\ [Next]_vars => [S!Next]_security
BY UnitsAssumption DEF Init, Next, vars

\* A block of the bundle under validation.
SecurityBlock ==
    [type : S!Kinds, number : Numbers, targets : Targets, sound : BOOLEAN, flags : S!Flags, parsed : BOOLEAN]

\* The inductive invariant: a band is given out for blocks that are valid on it.
SecurityInv ==
    /\ S!TypeOK
    /\ blocks \in Seq(SecurityBlock)
    /\ verdict \in UsedBands => S!SecurityValid(verdict)

\* A bundle that was found valid can be processed.
LEMMA SecurityRules == S!SecurityAssumption /\ SecurityInv => S!RulesKept
<1> SUFFICES ASSUME S!SecurityAssumption, SecurityInv, verdict \in S!Bands, S!Distinct PROVE S!RulesKept
    BY DEF S!RulesKept
<1>1. verdict \in UsedBands /\ S!SecurityValid(verdict)
    <2>1. verdict \notin {"none", "refused"} /\ verdict \in UsedBands \cup {"none", "refused"}
        BY DEF SecurityInv, S!TypeOK, S!Bands
    <2> QED
        BY <2>1 DEF SecurityInv
<1>2. CASE blocks = <<>>
    BY <1>2 DEF S!RulesKept
<1>3. CASE blocks # <<>>
    <2> DEFINE D == DOMAIN blocks
               num(i) == blocks[i].number
               typ(i) == blocks[i].type
               tg(i) == blocks[i].targets
    <2>1. \A i \in D : num(i) \in Nat /\ num(i) > 1 /\ typ(i) \in S!Kinds /\ tg(i) \subseteq Nat
        BY DEF SecurityInv, S!TypeOK, S!SecurityAssumption, S!Distinct
    <2>2. \A i, j \in D : num(i) = num(j) => i = j
        BY DEF S!Distinct
    <2>3. ASSUME NEW i \in D, NEW kinds, typ(i) \in kinds
          PROVE  S!LastNumbered(num(i), kinds) = i
        <3> DEFINE at == {j \in DOMAIN blocks : blocks[j].number = num(i) /\ blocks[j].type \in kinds}
        <3>1. at = {i}
            BY <2>2, <2>3
        <3>2. i <= i
            BY DEF SecurityInv
        <3>3. \A k : k \in at /\ (\A j \in at : j <= k) <=> k = i
            BY <3>1, <3>2
        <3>4. (CHOOSE k : k \in at /\ \A j \in at : j <= k) = i
            <4> HIDE DEF at
            <4> QED
                BY <3>3
        <3> QED
            BY <3>4 DEF S!LastNumbered
    <2>4. \A i \in D : S!TargetsBy(typ(i), num(i)) = tg(i)
        BY <2>3 DEF S!TargetsBy
    <2>5. \A i \in D : num(i) \in S!NumbersOf(S!Kinds) /\ num(i) \in S!NumbersOf({typ(i)})
        BY <2>1 DEF S!NumbersOf
    <2>6. \A i \in D : S!TypeAt(num(i)) = typ(i)
        BY <2>1, <2>3, <2>5 DEF S!TypeAt
    <2>7. /\ verdict \in S!EncryptionAllowed \/ S!NumbersOf({"BCB"}) = {}
          /\ ~fragment
          /\ \A i \in D : \A j \in D \ {i} : typ(j) = typ(i) => tg(i) \cap tg(j) = {}
          /\ \A n \in S!NumbersOf({"BIB"}) : \A t \in S!TargetsBy("BIB", n) : S!TypeAt(t) \notin S!Kinds
          /\ \A i \in D : typ(i) = "BCB" =>
                \A t \in S!TargetsBy("BCB", num(i)) : t # 0 /\ S!TypeAt(t) # "BCB"
          /\ \A c \in S!NumbersOf({"BCB"}), b \in S!NumbersOf({"BIB"}) : S!Shares(c, b)
        BY <1>1, <1>3 DEF S!SecurityValid
    <2> HIDE DEF D, num, typ, tg
    <2>8. \A i \in D : S!Encrypts(i, 0) = FALSE
        <3>1. \A i \in D : typ(i) = "BCB" => 0 \notin tg(i)
            BY <2>4, <2>7
        <3> QED
            BY <3>1 DEF S!Encrypts, typ, tg, D
    <2>9. ASSUME NEW i \in D, NEW j \in D
          PROVE  /\ S!Encrypts(i, num(j)) => typ(j) = "BIB"
                 /\ typ(i) = "BIB" => num(j) \notin tg(i)
                 /\ typ(j) = "BIB" /\ (\E t \in tg(j) : S!Encrypts(i, t)) =>
                       (\A t \in tg(j) \cup {num(j)} : S!Encrypts(i, t))
                 /\ i # j /\ typ(i) = typ(j) => tg(i) \cap tg(j) = {}
        <3>0. \A t : S!Encrypts(i, t) <=> typ(i) = "BCB" /\ t \in tg(i)
            BY DEF S!Encrypts, typ, tg
        <3>1. S!Encrypts(i, num(j)) => typ(j) = "BIB"
            BY <2>1, <2>4, <2>6, <2>7, <3>0 DEF S!Kinds
        <3>2. typ(i) = "BIB" => num(j) \notin tg(i)
            BY <2>1, <2>4, <2>5, <2>6, <2>7
        <3>3. ASSUME typ(j) = "BIB", NEW t \in tg(j), S!Encrypts(i, t)
              PROVE  \A u \in tg(j) \cup {num(j)} : S!Encrypts(i, u)
            <4>1. typ(i) = "BCB" /\ t \in tg(i)
                BY <3>0, <3>3
            <4>2. S!Shares(num(i), num(j))
                BY <2>5, <2>7, <3>3, <4>1
            <4>3. S!Overlap(num(i), num(j)) = tg(i) \cap tg(j)
                BY <2>4, <3>3, <4>1 DEF S!Overlap
            <4>4. tg(i) \cap tg(j) = tg(j) /\ num(j) \in tg(i)
                BY <2>4, <3>3, <4>1, <4>2, <4>3 DEF S!Shares
            <4> QED
                BY <3>0, <4>1, <4>4
        <3>4. i # j /\ typ(i) = typ(j) => tg(i) \cap tg(j) = {}
            BY <2>7
        <3> QED
            BY <3>1, <3>2, <3>3, <3>4
    <2>10. ASSUME NEW i \in D, typ(i) = "BCB" PROVE verdict # "AMATEUR" /\ ~fragment
        BY <2>5, <2>7, <2>10 DEF S!EncryptionAllowed
    <2>11. \A i \in D : blocks[i].sound /\ blocks[i].targets # {}
        BY <1>1, <1>3 DEF S!SecurityValid, S!AsbValid, D
    <2> QED
        BY <2>8, <2>9, <2>10, <2>11 DEF S!RulesKept, D, num, typ, tg
<1> QED
    BY <1>2, <1>3

\* The initial states satisfy the unit's invariant.
LEMMA SecurityStarts == S!Init /\ S!SecurityAssumption => SecurityInv
<1> SUFFICES ASSUME S!SecurityAssumption, S!Init PROVE SecurityInv
    OBVIOUS
<1>1. blocks = <<>> /\ fragment \in BOOLEAN /\ verdict = "none"
    BY DEF S!Init
<1>2. S!TypeOK
    <2>1. Len(blocks) <= MaxBlocks /\ DOMAIN blocks = {}
        BY <1>1 DEF S!SecurityAssumption
    <2> QED
        BY <1>1, <2>1 DEF S!TypeOK
<1>3. verdict \notin UsedBands
    BY <1>1 DEF S!SecurityAssumption, S!Bands
<1> QED
    BY <1>1, <1>2, <1>3 DEF SecurityInv

\* Every step of the unit, and every one that leaves it alone, keeps its invariant.
LEMMA SecurityStep == S!SecurityAssumption /\ SecurityInv /\ [S!Next]_security => SecurityInv'
<1> SUFFICES ASSUME S!SecurityAssumption, SecurityInv, [S!Next]_security PROVE SecurityInv'
    OBVIOUS
<1>0. /\ Len(blocks) <= MaxBlocks /\ fragment \in BOOLEAN /\ blocks \in Seq(SecurityBlock)
      /\ verdict \in UsedBands \cup {"none", "refused"} /\ MaxBlocks \in Nat
      /\ "none" \notin UsedBands /\ "refused" \notin UsedBands
    BY DEF SecurityInv, S!TypeOK, S!SecurityAssumption, S!Bands
<1>1. ASSUME blocks' \in Seq(SecurityBlock), Len(blocks') <= MaxBlocks, UNCHANGED <<fragment, verdict>>,
             verdict = "none"
      PROVE  SecurityInv'
    <2>1. \A i \in DOMAIN blocks' : blocks'[i] \in SecurityBlock
        BY <1>1
    <2>2. S!TypeOK'
        BY <1>0, <1>1, <2>1 DEF S!TypeOK, SecurityBlock
    <2> QED
        BY <1>0, <1>1, <2>2 DEF SecurityInv
<1>2. ASSUME NEW n \in Numbers, NEW t \in Targets, NEW s \in BOOLEAN, NEW type \in S!Kinds,
             NEW f \in S!Flags, S!Add(type, n, t, s, f)
      PROVE  SecurityInv'
    <2>1. /\ Len(blocks) < MaxBlocks /\ verdict = "none" /\ UNCHANGED <<fragment, verdict>>
          /\ blocks' = Append(blocks, S!Block(type, n, t, s, f))
        BY <1>2 DEF S!Add
    <2>2. S!Block(type, n, t, s, f) \in SecurityBlock
        BY DEF S!Block, SecurityBlock
    <2>3. blocks' \in Seq(SecurityBlock) /\ Len(blocks') = Len(blocks) + 1
        BY <1>0, <2>1, <2>2
    <2> QED
        BY <1>0, <1>1, <2>1, <2>3
<1>3. CASE S!Transfer
    <2>1. /\ verdict = "none" /\ UNCHANGED <<fragment, verdict>>
          /\ blocks' = [i \in DOMAIN blocks |-> [blocks[i] EXCEPT !.parsed = FALSE]]
        BY <1>3 DEF S!Transfer
    <2>2. \A i \in 1..Len(blocks) : [blocks[i] EXCEPT !.parsed = FALSE] \in SecurityBlock
        <3>1. ASSUME NEW b \in SecurityBlock PROVE [b EXCEPT !.parsed = FALSE] \in SecurityBlock
            BY DEF SecurityBlock
        <3> QED
            BY <1>0, <3>1
    <2>3. blocks' \in Seq(SecurityBlock) /\ Len(blocks') = Len(blocks)
        <3>1. Len(blocks) \in Nat /\ DOMAIN blocks = 1..Len(blocks)
            BY <1>0
        <3>2. blocks' = [i \in 1..Len(blocks) |-> [blocks[i] EXCEPT !.parsed = FALSE]]
            BY <2>1, <3>1
        <3> QED
            BY <2>2, <3>1, <3>2
    <2> QED
        BY <1>0, <1>1, <2>1, <2>3
<1>4. ASSUME NEW b \in UsedBands, S!Validate(b) PROVE SecurityInv'
    <2>1. /\ verdict = "none" /\ verdict' = IF S!SecurityValid(b) THEN b ELSE "refused"
          /\ UNCHANGED <<blocks, fragment>>
        BY <1>4 DEF S!Validate
    <2>2. S!SecurityValid(b)' <=> S!SecurityValid(b)
        BY <2>1 DEF S!SecurityValid, S!NumbersOf, S!TypeAt, S!TargetsBy, S!LastNumbered, S!FlagsSound, S!Shares,
                    S!Overlap
    <2>3. S!TypeOK'
        BY <1>0, <2>1 DEF S!TypeOK, SecurityInv
    <2>4. ASSUME verdict' \in UsedBands PROVE S!SecurityValid(verdict)'
        <3>1. verdict' = b /\ S!SecurityValid(b)
            BY <1>0, <2>1, <2>4
        <3>2. S!SecurityValid(verdict)' <=> S!SecurityValid(b)'
            BY <3>1 DEF S!SecurityValid
        <3> QED
            BY <2>2, <3>1, <3>2
    <2> QED
        BY <1>0, <2>1, <2>3, <2>4 DEF SecurityInv
<1>5. CASE UNCHANGED security
    <2>1. S!SecurityValid(verdict)' <=> S!SecurityValid(verdict)
        BY <1>5 DEF security, S!SecurityValid, S!NumbersOf, S!TypeAt, S!TargetsBy, S!LastNumbered, S!FlagsSound,
                    S!Shares, S!Overlap
    <2> QED
        BY <1>0, <1>5, <2>1 DEF security, SecurityInv, S!TypeOK
<1>6. CASE S!Next
    BY <1>2, <1>3, <1>4, <1>6 DEF S!Next, S!Kinds, S!Flags
<1> QED
    BY <1>5, <1>6

\* The unit's invariant holds in the composition.
LEMMA SecurityHolds == Spec => []SecurityInv
<1>1. Init => SecurityInv
    BY SecurityUnit, SecurityStarts
<1>2. SecurityInv /\ [Next]_vars => SecurityInv'
    BY SecurityUnit, SecurityStep
<1> QED
    BY <1>1, <1>2, PTL DEF Spec, vars

-----------------------------------------------------------------------------
(* Bundle: blocks that sign and seal a payload, and what a receiver makes of it. *)

\* The unit's assumption holds, and the composition starts it and steps it as its
\* module says.
LEMMA BundleUnit ==
    /\ B!BundleAssumption
    /\ Init => B!Init
    /\ [Next]_vars => [B!Next]_bundle
BY UnitsAssumption DEF Init, Next, vars

\* A payload, and a block of a bundle.
Content == [layers : Seq(Nat), changed : BOOLEAN]
BundleBlock == [type : B!BlockTypes, number : Nat, signs : Content, nonce : Nat]

\* A block of a sender's bundle, whose payload is p: a BCB holds one of the
\* nonces; a BIB holds the payload as it was, bare where no BCB comes before and
\* as it is where none comes after.
Sound(p, bs, i) ==
    /\ bs[i].number = i
    /\ i > 1 => bs[i].type \in {"BIB", "BCB"}
    /\ bs[i].type = "BCB" => bs[i].nonce = i /\ \E j \in DOMAIN p.layers : p.layers[j] = i
    /\ bs[i].type # "BIB" => bs[i].signs = B!Lost
    /\ bs[i].type = "BIB" =>
          /\ bs[i].signs.changed = FALSE
          /\ (\A j \in DOMAIN bs : j < i => bs[j].type # "BCB") => bs[i].signs.layers = <<>>
          /\ (\A j \in DOMAIN bs : j > i => bs[j].type # "BCB") => bs[i].signs = p

\* The blocks of a bundle and its payload: where there are nonces there is a BCB.
Bundled(p, bs) ==
    /\ p \in Content /\ p.changed = FALSE /\ Len(p.layers) < Len(bs)
    /\ bs \in Seq(BundleBlock) /\ bs[1] = B!PayloadBlock
    /\ \A i \in DOMAIN bs : Sound(p, bs, i)
    /\ p.layers # <<>> => \E i \in DOMAIN bs : bs[i].type = "BCB"

\* What a codec writes: without CBOR the security blocks are left out.
Carried(p, bs) ==
    /\ p \in Content /\ p.changed = FALSE
    /\ ends.cbor => Bundled(p, bs)
    /\ ~ends.cbor => bs = <<B!PayloadBlock>>

\* What is left of the nonces when the outer ones were taken off.
Within(p, s) ==
    /\ p \in Content /\ Len(p.layers) <= Len(s.layers)
    /\ \A j \in 1..Len(p.layers) : p.layers[j] = s.layers[j]

\* What a receiver has of a bundle: blocks that are the sender's, or were hit.
Received(g) ==
    /\ g = [id |-> g.id, hurt |-> g.hurt, blocks |-> g.blocks, payload |-> g.payload, sent |-> g.sent]
    /\ Carried(g.sent.payload, g.sent.blocks) /\ Within(g.payload, g.sent.payload)
    /\ g.blocks \in Seq(BundleBlock) /\ Len(g.blocks) = Len(g.sent.blocks)
    /\ \A i \in DOMAIN g.blocks : g.blocks[i].signs \in {B!Lost, g.sent.blocks[i].signs}

\* The block of the payload and the payload of nobody.
LEMMA PayloadBlocks ==
    /\ B!Lost \in Content /\ B!Lost.changed = TRUE /\ B!Lost.layers = <<>>
    /\ B!PayloadBlock \in BundleBlock /\ B!PayloadBlock.type = "PAYLOAD" /\ B!PayloadBlock.number = 1
    /\ B!PayloadBlock.signs = B!Lost
<1>1. <<>> \in Seq(Nat)
    OBVIOUS
<1>2. B!Lost \in Content /\ B!Lost.changed = TRUE /\ B!Lost.layers = <<>>
    BY <1>1 DEF B!Lost, Content
<1> QED
    BY <1>2 DEF B!PayloadBlock, B!Block, B!BlockTypes, BundleBlock

\* The blocks carried, by either codec: only a BIB signs anything.
LEMMA CarriedBlocks ==
    ASSUME NEW p, NEW bs, Carried(p, bs), ends.cbor \in BOOLEAN
    PROVE  /\ bs \in Seq(BundleBlock) /\ p.layers \in Seq(Nat) /\ p \in Content
           /\ \A i \in DOMAIN bs : bs[i].type # "BIB" => bs[i].signs = B!Lost
           /\ \A i \in DOMAIN bs : bs[i].type \in {"BIB", "BCB"} => Bundled(p, bs)
<1>1. p.layers \in Seq(Nat) /\ p \in Content
    BY DEF Carried, Content
<1>2. CASE ends.cbor
    BY <1>1, <1>2 DEF Carried, Bundled, Sound
<1>3. CASE ~ends.cbor
    <2>1. bs = <<B!PayloadBlock>>
        BY <1>3 DEF Carried
    <2>2. DOMAIN bs = {1} /\ bs[1] = B!PayloadBlock /\ bs \in Seq(BundleBlock)
        BY <2>1, PayloadBlocks
    <2> QED
        BY <1>1, <2>2, PayloadBlocks
<1> QED
    BY <1>2, <1>3

\* The block found for a type is the first one of it.
LEMMA FirstOf ==
    ASSUME NEW bs \in Seq(BundleBlock), NEW type, B!Of(bs, type) # {}
    PROVE  \E i \in DOMAIN bs : /\ B!First(bs, type) = bs[i] /\ bs[i].type = type
                                /\ \A j \in DOMAIN bs : j < i => bs[j].type # type
<1> DEFINE N == B!Of(bs, type)
           m == CHOOSE i \in N : \A j \in N : i <= j
<1>1. DOMAIN bs \in SUBSET Nat /\ N \subseteq DOMAIN bs /\ N \in SUBSET Nat
    BY DEF B!Of
<1>2. \E i \in N : \A j \in N : i <= j
    BY <1>1, LeastNatural
<1>3. m \in N /\ \A j \in N : m <= j
    BY <1>2
<1>4. B!First(bs, type) = bs[m]
    BY DEF B!First
<1> HIDE DEF m
<1>5. m \in DOMAIN bs /\ bs[m].type = type
    BY <1>3 DEF B!Of
<1>6. \A j \in DOMAIN bs : j < m => bs[j].type # type
    BY <1>1, <1>3 DEF B!Of
<1> QED
    BY <1>4, <1>5, <1>6

\* A payload with one nonce, sealed by one block and signed by another.
LEMMA TwoBlocks ==
    ASSUME NEW s, NEW bs, Bundled(s, bs), Len(bs) = 3, Len(s.layers) = 1,
           NEW p, Within(p, s), p.changed = FALSE,
           B!Of(bs, "BIB") # {}, B!First(bs, "BIB").signs # p
    PROVE  bs[2].type = "BIB" <=> p.layers # <<>>
<1>1. /\ bs \in Seq(BundleBlock) /\ DOMAIN bs = {1, 2, 3} /\ s \in Content /\ s.layers \in Seq(Nat)
      /\ DOMAIN s.layers = {1} /\ p \in Content /\ p.layers \in Seq(Nat) /\ s.changed = FALSE
      /\ \A i \in {1, 2, 3} : Sound(s, bs, i)
      /\ bs[1].type = "PAYLOAD"
    BY PayloadBlocks DEF Bundled, Within, Content
<1>2. bs[2].type \in {"BIB", "BCB"} /\ bs[3].type \in {"BIB", "BCB"}
    BY <1>1 DEF Sound
<1>3. ~(bs[2].type = "BCB" /\ bs[3].type = "BCB")
    <2> SUFFICES ASSUME bs[2].type = "BCB", bs[3].type = "BCB" PROVE FALSE
        OBVIOUS
    <2>1. s.layers[1] = 2 /\ s.layers[1] = 3
        BY <1>1 DEF Sound
    <2> QED
        BY <2>1
<1>4. bs[2].type = "BCB" \/ bs[3].type = "BCB"
    <2>1. s.layers # <<>>
        <3>1. DOMAIN s.layers # DOMAIN <<>>
            BY <1>1
        <3> QED
            BY <3>1, Zenon
    <2> QED
        BY <1>1, <2>1 DEF Bundled
<1>5. PICK i \in {1, 2, 3} : B!First(bs, "BIB") = bs[i] /\ bs[i].type = "BIB"
    BY <1>1, FirstOf
<1>6. /\ bs[i].signs \in Content /\ bs[i].signs.changed = FALSE /\ bs[i].signs # p /\ i \in {2, 3}
    <2>1. bs[i] \in BundleBlock
        <3>1. bs \in Seq(BundleBlock) /\ i \in 1..Len(bs)
            BY <1>1, <1>5
        <3> QED
            BY <3>1, ElementOfSeq
    <2> QED
        BY <1>1, <1>5, <2>1 DEF BundleBlock, Sound
<1>7. CASE i = 2
    <2>1. bs[2].signs.layers = <<>>
        <3>1. \A j \in DOMAIN bs : j < 2 => bs[j].type # "BCB"
            BY <1>1
        <3> QED
            BY <1>1, <1>5, <1>7, <3>1 DEF Sound
    <2>2. bs[2].signs.layers # p.layers
        BY <1>1, <1>6, <1>7 DEF Content
    <2> QED
        BY <1>5, <1>7, <2>1, <2>2
<1>8. CASE i = 3
    <2>1. bs[3].signs = s
        <3>1. \A j \in DOMAIN bs : j > 3 => bs[j].type # "BCB"
            BY <1>1
        <3> QED
            BY <1>1, <1>5, <1>8, <3>1 DEF Sound
    <2>2. s.layers # p.layers
        BY <1>1, <1>6, <1>8, <2>1 DEF Content
    <2>3. Len(p.layers) = 1 => p.layers = s.layers
        BY <1>1 DEF Within
    <2>4. Len(p.layers) = 0
        BY <1>1, <2>2, <2>3 DEF Within
    <2>5. p.layers = <<>>
        BY <1>1, <2>4, EmptySeq
    <2> QED
        BY <1>3, <1>5, <1>8, <2>5, <1>4
<1> QED
    BY <1>5, <1>6, <1>7, <1>8

\* A block integrity block added to a bundle signs the payload as it is.
LEMMA Signed ==
    ASSUME NEW p, NEW bs, Bundled(p, bs)
    PROVE  Bundled(p, Append(bs, B!Block("BIB", Len(bs) + 1, p, 0)))
<1> DEFINE n == Len(bs)
           b == B!Block("BIB", n + 1, p, 0)
           more == Append(bs, b)
<1>1. /\ p \in Content /\ p.changed = FALSE /\ Len(p.layers) < n /\ bs \in Seq(BundleBlock)
      /\ n \in Nat \ {0} /\ DOMAIN bs = 1..n /\ Len(p.layers) \in Nat /\ bs[1] = B!PayloadBlock
    BY DEF Bundled, Content
<1>2. b \in BundleBlock /\ b.type = "BIB" /\ b.number = n + 1 /\ b.signs = p
    BY <1>1 DEF B!Block, B!BlockTypes, BundleBlock
<1> HIDE DEF b
<1>3. /\ more \in Seq(BundleBlock) /\ Len(more) = n + 1 /\ DOMAIN more = 1..(n + 1)
      /\ \A i \in 1..n : more[i] = bs[i]
      /\ more[n + 1] = b
    BY <1>1, <1>2, AppendProperties, LenProperties
<1> HIDE DEF more
<1>4. \A j \in DOMAIN bs : j \in DOMAIN more /\ j < n + 1 /\ more[j] = bs[j]
    BY <1>1, <1>3
<1>5. ASSUME NEW i \in 1..n PROVE Sound(p, more, i)
    <2>1. more[i] = bs[i] /\ i \in DOMAIN bs /\ Sound(p, bs, i)
        BY <1>1, <1>3 DEF Bundled
    <2> QED
        BY <1>4, <2>1 DEF Sound
<1>6. (\A j \in DOMAIN more : j < n + 1 => more[j].type # "BCB") => p.layers = <<>>
    BY <1>4 DEF Bundled
<1>7. p.layers # <<>> => \E i \in DOMAIN more : more[i].type = "BCB"
    BY <1>4 DEF Bundled
<1>8. Sound(p, more, n + 1)
    BY <1>1, <1>2, <1>3, <1>6 DEF Sound
<1>9. \A i \in DOMAIN more : Sound(p, more, i)
    <2>1. \A i \in 1..(n + 1) : i \in 1..n \/ i = n + 1
        BY <1>1
    <2> QED
        BY <1>3, <1>5, <1>8, <2>1
<1>10. Len(p.layers) < Len(more) /\ more[1] = B!PayloadBlock
    BY <1>1, <1>3
<1> QED
    BY <1>1, <1>3, <1>7, <1>9, <1>10 DEF Bundled, more, b

\* A block confidentiality block added to a bundle seals the payload once more.
LEMMA Sealed ==
    ASSUME NEW p, NEW bs, Bundled(p, bs)
    PROVE  Bundled([p EXCEPT !.layers = Append(@, Len(bs) + 1)],
                   Append(bs, B!Block("BCB", Len(bs) + 1, B!Lost, Len(bs) + 1)))
<1> DEFINE n == Len(bs)
           b == B!Block("BCB", n + 1, B!Lost, n + 1)
           more == Append(bs, b)
           q == [p EXCEPT !.layers = Append(@, n + 1)]
<1>1. /\ p \in Content /\ p.changed = FALSE /\ Len(p.layers) < n /\ bs \in Seq(BundleBlock)
      /\ n \in Nat \ {0} /\ DOMAIN bs = 1..n /\ p.layers \in Seq(Nat) /\ Len(p.layers) \in Nat
      /\ DOMAIN p.layers = 1..Len(p.layers) /\ bs[1] = B!PayloadBlock
    BY DEF Bundled, Content
<1>2. b \in BundleBlock /\ b.type = "BCB" /\ b.number = n + 1 /\ b.nonce = n + 1 /\ b.signs = B!Lost
    BY <1>1, PayloadBlocks DEF B!Block, B!BlockTypes, BundleBlock
<1> HIDE DEF b
<1>3. /\ more \in Seq(BundleBlock) /\ Len(more) = n + 1 /\ DOMAIN more = 1..(n + 1)
      /\ \A i \in 1..n : more[i] = bs[i]
      /\ more[n + 1] = b
    BY <1>1, <1>2, AppendProperties, LenProperties
<1>4. q.layers = Append(p.layers, n + 1) /\ q.changed = FALSE
    BY <1>1 DEF Content
<1>5. /\ q.layers \in Seq(Nat) /\ Len(q.layers) = Len(p.layers) + 1
      /\ DOMAIN q.layers = 1..(Len(p.layers) + 1)
      /\ \A j \in DOMAIN p.layers : j \in DOMAIN q.layers /\ q.layers[j] = p.layers[j]
      /\ q.layers[Len(p.layers) + 1] = n + 1
    BY <1>1, <1>4, AppendProperties, LenProperties
<1>6. q \in Content
    BY <1>1, <1>5 DEF Content
<1> HIDE DEF more, q
<1>7. ASSUME NEW i \in 1..n PROVE Sound(q, more, i)
    <2>1. /\ more[i] = bs[i] /\ i \in DOMAIN bs /\ \A j \in DOMAIN bs : j \in DOMAIN more /\ more[j] = bs[j]
          /\ Sound(p, bs, i)
        BY <1>1, <1>3 DEF Bundled
    <2>2. n + 1 \in DOMAIN more /\ n + 1 > i /\ more[n + 1].type = "BCB"
        BY <1>1, <1>2, <1>3
    <2>3. more[i].type = "BCB" => \E j \in DOMAIN q.layers : q.layers[j] = i
        BY <1>5, <2>1 DEF Sound
    <2> QED
        BY <2>1, <2>2, <2>3 DEF Sound
<1>8. Sound(q, more, n + 1)
    <2>1. Len(p.layers) + 1 \in DOMAIN q.layers
        BY <1>1, <1>5
    <2> QED
        BY <1>1, <1>2, <1>3, <1>5, <2>1 DEF Sound
<1>9. \A i \in DOMAIN more : Sound(q, more, i)
    <2>1. \A i \in 1..(n + 1) : i \in 1..n \/ i = n + 1
        BY <1>1
    <2> QED
        BY <1>3, <1>7, <1>8, <2>1
<1>10. n + 1 \in DOMAIN more /\ more[n + 1].type = "BCB"
    BY <1>1, <1>2, <1>3
<1>11. Len(q.layers) < Len(more) /\ more[1] = B!PayloadBlock
    BY <1>1, <1>3, <1>5
<1> QED
    BY <1>3, <1>4, <1>6, <1>9, <1>10, <1>11 DEF Bundled, more, b, q

\* The inductive invariant of the bundle: what is on the wire is as it was sealed
\* and signed, and what was received is of it.
BundleInv ==
    /\ B!TypeOK
    /\ Bundled(payload, ownBlocks)
    /\ wire # B!None =>
          /\ Carried(wire.payload, wire.blocks)
          /\ ends.cbor /\ stamped => wire.time = B!GivenTime
    /\ got # B!None => Received(got)
    /\ B!AnswersProve /\ B!ReadAsSent /\ B!SameId

\* The initial states satisfy the unit's invariant.
LEMMA BundleStarts == B!BundleAssumption /\ B!Init => BundleInv
<1> SUFFICES ASSUME B!BundleAssumption, B!Init PROVE BundleInv
    OBVIOUS
<1>1. /\ bundleNow = 1 /\ stamped \in BOOLEAN /\ payload = B!Plain /\ ownBlocks = <<B!PayloadBlock>>
      /\ ends \in [cbor : BOOLEAN, seals : BOOLEAN, opens : BOOLEAN, keyed : BOOLEAN]
      /\ wire = B!None /\ got = B!None /\ answer = "none"
    BY DEF B!Init
<1>2. /\ payload.layers = <<>> /\ payload.changed = FALSE /\ payload \in Content /\ Len(payload.layers) = 0
    BY <1>1 DEF B!Plain, Content
<1>3. /\ ownBlocks \in Seq(BundleBlock) /\ DOMAIN ownBlocks = {1} /\ Len(ownBlocks) = 1
      /\ ownBlocks[1] = B!PayloadBlock
    BY <1>1, PayloadBlocks
<1>4. Sound(payload, ownBlocks, 1)
    BY <1>3, PayloadBlocks DEF Sound
<1>5. Bundled(payload, ownBlocks)
    BY <1>2, <1>3, <1>4 DEF Bundled
<1>6. B!TypeOK
    <2>1. ownBlocks[1].number = 1
        BY <1>3, PayloadBlocks
    <2>2. 1 <= MaxBlocks + 1 /\ 0 <= MaxBlocks /\ 1 \in 1..BundleTime
        BY DEF B!BundleAssumption
    <2> QED
        BY <1>1, <1>2, <1>3, <2>1, <2>2 DEF B!TypeOK
<1>7. B!AnswersProve /\ B!ReadAsSent /\ B!SameId
    BY <1>1 DEF B!AnswersProve, B!ReadAsSent, B!SameId, B!Has, B!Whole
<1> QED
    BY <1>1, <1>5, <1>6, <1>7 DEF BundleInv

\* What the receiver's calls conclude: a payload verified, sealed or opened.
LEMMA Verifies ==
    ASSUME ends.cbor \in BOOLEAN, got # B!None, Received(got),
           B!Of(got.blocks, "BIB") # {}, B!MacMatches(B!First(got.blocks, "BIB"), got.payload)
    PROVE  \E i \in DOMAIN got.sent.blocks :
              got.sent.blocks[i].type = "BIB" /\ got.sent.blocks[i].signs = got.payload
<1>1. /\ got.blocks \in Seq(BundleBlock) /\ Len(got.blocks) = Len(got.sent.blocks)
      /\ Carried(got.sent.payload, got.sent.blocks)
      /\ \A i \in DOMAIN got.blocks : got.blocks[i].signs \in {B!Lost, got.sent.blocks[i].signs}
    BY DEF Received
<1>2. got.sent.blocks \in Seq(BundleBlock) /\ DOMAIN got.blocks = DOMAIN got.sent.blocks
    BY <1>1, CarriedBlocks
<1>3. PICK i \in DOMAIN got.blocks : B!First(got.blocks, "BIB") = got.blocks[i]
    BY <1>1, FirstOf
<1>4. got.blocks[i].signs = got.payload /\ ~got.payload.changed
    BY <1>3 DEF B!MacMatches
<1>5. got.blocks[i].signs # B!Lost
    BY <1>4, PayloadBlocks
<1>6. got.sent.blocks[i].signs = got.payload /\ got.sent.blocks[i].signs # B!Lost
    BY <1>1, <1>4, <1>5
<1>7. got.sent.blocks[i].type = "BIB"
    BY <1>1, <1>2, <1>6, CarriedBlocks
<1> QED
    BY <1>2, <1>6, <1>7

\* A BIB that does not match what arrived whole.
LEMMA Forged ==
    ASSUME ends.cbor \in BOOLEAN, ends.keyed, got # B!None, Received(got), B!Whole,
           ~B!Verified, Len(got.blocks) = 3, Len(got.sent.payload.layers) = 1
    PROVE  got.blocks[2].type = "BIB" <=> got.payload.layers # <<>>
<1>1. /\ got.blocks = got.sent.blocks /\ Carried(got.sent.payload, got.sent.blocks)
      /\ Within(got.payload, got.sent.payload) /\ ~got.payload.changed
    BY DEF Received, B!Whole
<1>2. got.payload.changed = FALSE
    BY <1>1 DEF Within, Content
<1>3. B!Of(got.blocks, "BIB") # {} /\ B!First(got.blocks, "BIB").signs # got.payload
    BY <1>1 DEF B!Verified, B!MacMatches
<1>4. Bundled(got.sent.payload, got.blocks)
    <2>1. PICK i \in DOMAIN got.sent.blocks : got.sent.blocks[i].type = "BIB"
        BY <1>1, <1>3 DEF B!Of
    <2> QED
        BY <1>1, <2>1, CarriedBlocks
<1> QED
    BY <1>1, <1>2, <1>3, <1>4, TwoBlocks

\* A BCB that does not open what arrived whole.
LEMMA StaysSealed ==
    ASSUME ends.cbor \in BOOLEAN, ends.keyed, got # B!None, Received(got), B!Whole,
           B!Of(got.blocks, "BCB") # {}, ~B!Opens(B!First(got.blocks, "BCB"), got.payload),
           Len(got.sent.payload.layers) = 1
    PROVE  got.payload.layers = <<>>
<1>1. /\ got.blocks = got.sent.blocks /\ Carried(got.sent.payload, got.sent.blocks)
      /\ Within(got.payload, got.sent.payload) /\ ~got.payload.changed
    BY DEF Received, B!Whole
<1>2. /\ got.payload.layers \in Seq(Nat) /\ got.blocks \in Seq(BundleBlock) /\ got.sent.payload.layers \in Seq(Nat)
      /\ Len(got.payload.layers) \in Nat /\ DOMAIN got.sent.payload.layers = {1}
      /\ got.sent.blocks \in Seq(BundleBlock)
    BY <1>1, CarriedBlocks DEF Within, Content
<1>3. SUFFICES ASSUME got.payload.layers # <<>> PROVE FALSE
    OBVIOUS
<1>4. Len(got.payload.layers) = 1
    <2>1. Len(got.payload.layers) # 0 /\ Len(got.payload.layers) <= 1
        BY <1>1, <1>2, <1>3, EmptySeq DEF Within
    <2> DEFINE n == Len(got.payload.layers)
    <2>2. n \in Nat /\ n # 0 /\ n <= 1
        BY <1>2, <2>1
    <2> HIDE DEF n
    <2>3. n = 1
        BY <2>2
    <2> QED
        BY <2>3 DEF n
<1>5. got.payload.layers[1] = got.sent.payload.layers[1]
    BY <1>1, <1>4 DEF Within
<1>6. PICK i \in DOMAIN got.blocks : B!First(got.blocks, "BCB") = got.blocks[i] /\ got.blocks[i].type = "BCB"
    <2>1. got.blocks \in Seq(BundleBlock)
        BY <1>2
    <2> QED
        BY <2>1, FirstOf
<1>7. Bundled(got.sent.payload, got.sent.blocks)
    BY <1>1, <1>6, CarriedBlocks
<1>8. got.blocks[i].nonce = i /\ \E j \in DOMAIN got.sent.payload.layers : got.sent.payload.layers[j] = i
    BY <1>1, <1>6, <1>7 DEF Bundled, Sound
<1>9. got.sent.payload.layers[1] = got.blocks[i].nonce
    BY <1>2, <1>8
<1> QED
    BY <1>1, <1>3, <1>4, <1>5, <1>6, <1>9 DEF B!Opens, B!Outermost

\* A payload is opened by taking off its outermost layer.
LEMMA TakenOff ==
    ASSUME NEW p, NEW s, Within(p, s), s.layers \in Seq(Nat), p.layers # <<>>
    PROVE  /\ Within(B!Opened(p), s) /\ B!Opened(p).changed = p.changed
           /\ Len(B!Opened(p).layers) < Len(s.layers)
           /\ Len(s.layers) < 2 => B!Opened(p).layers = <<>>
<1> DEFINE l == p.layers
           m == Len(l) - 1
           q == B!Opened(p)
<1>1. p \in Content /\ l \in Seq(Nat) /\ Len(l) \in Nat \ {0} /\ Len(l) <= Len(s.layers) /\ Len(s.layers) \in Nat
    <2>1. p \in Content /\ p.layers \in Seq(Nat) /\ Len(p.layers) <= Len(s.layers)
        BY DEF Within, Content
    <2>2. Len(p.layers) # 0
        BY <2>1, EmptySeq
    <2> QED
        BY <2>1, <2>2
<1>2. /\ q.layers = SubSeq(l, 1, m) /\ q.changed = p.changed
      /\ q = [layers |-> SubSeq(l, 1, m), changed |-> p.changed]
    <2>1. p = [layers |-> l, changed |-> p.changed]
        BY <1>1 DEF Content
    <2>2. q = [p EXCEPT !.layers = SubSeq(l, 1, m)]
        BY DEF B!Opened
    <2>3. q = [layers |-> SubSeq(l, 1, m), changed |-> p.changed]
        BY <2>1, <2>2
    <2> QED
        BY <2>3
<1>3. \A j \in 1..Len(l) : l[j] = s.layers[j]
    BY DEF Within
<1> HIDE DEF l, q
<1>4. m \in Nat /\ (\A j \in 1..m : l[j] \in Nat /\ j \in 1..Len(l)) /\ m < Len(s.layers)
    BY <1>1, LenProperties
<1> HIDE DEF m
<1>5. /\ SubSeq(l, 1, m) \in Seq(Nat)
      /\ Len(SubSeq(l, 1, m)) = IF 1 <= m THEN m - 1 + 1 ELSE 0
      /\ \A j \in 1..(m - 1 + 1) : SubSeq(l, 1, m)[j] = l[1 + j - 1]
    BY <1>4, SubSeqProperties
<1>6. Len(q.layers) = m /\ q.layers \in Seq(Nat) /\ \A j \in 1..m : q.layers[j] = l[j]
    BY <1>2, <1>4, <1>5
<1>7. q \in Content
    <2>1. p.changed \in BOOLEAN
        BY <1>1 DEF Content
    <2> QED
        BY <1>2, <1>5, <2>1 DEF Content
<1>8. Within(q, s)
    <2>1. Len(q.layers) <= Len(s.layers)
        BY <1>1, <1>4, <1>6
    <2>2. \A j \in 1..m : q.layers[j] = s.layers[j]
        BY <1>3, <1>4, <1>6
    <2> QED
        BY <1>6, <1>7, <2>1, <2>2 DEF Within
<1>9. Len(s.layers) < 2 => q.layers = <<>>
    <2>1. Len(s.layers) < 2 => m = 0
        BY <1>1, <1>4
    <2> QED
        BY <1>6, <2>1, EmptySeq
<1> QED
    BY <1>2, <1>4, <1>6, <1>8, <1>9 DEF q

\* Every step of the unit, and every one that leaves it alone, keeps its invariant.
LEMMA BundleStep == B!BundleAssumption /\ BundleInv /\ [B!Next]_bundle => BundleInv'
<1> SUFFICES ASSUME B!BundleAssumption, BundleInv, [B!Next]_bundle PROVE BundleInv'
    OBVIOUS
<1> DEFINE Answers == {"none", "genuine", "forged", "opened", "sealed"}
<1>0. /\ bundleNow \in 1..BundleTime /\ stamped \in BOOLEAN /\ BundleTime \in Nat
      /\ ends \in [cbor : BOOLEAN, seals : BOOLEAN, opens : BOOLEAN, keyed : BOOLEAN]
      /\ Len(ownBlocks) <= MaxBlocks + 1 /\ MaxBlocks \in Nat /\ answer \in Answers
      /\ Bundled(payload, ownBlocks)
      /\ wire # B!None =>
            Carried(wire.payload, wire.blocks) /\ (ends.cbor /\ stamped => wire.time = B!GivenTime)
      /\ got # B!None => Received(got)
      /\ B!AnswersProve /\ B!ReadAsSent /\ B!SameId
    BY DEF BundleInv, B!TypeOK, B!BundleAssumption
<1>b. ends.cbor \in BOOLEAN /\ ends.opens \in BOOLEAN /\ ends.keyed \in BOOLEAN
    BY <1>0
<1>c. ends' = ends => \A p, bs : Carried(p, bs)' <=> Carried(p, bs)
    BY DEF Carried
<1>g. ASSUME ends' = ends, Received(got') PROVE Received(got)'
    BY <1>c, <1>g DEF Received
<1>t. ASSUME Bundled(payload, ownBlocks)', Len(ownBlocks)' <= MaxBlocks + 1, UNCHANGED <<ends, stamped>>,
             bundleNow' \in 1..BundleTime, answer' \in Answers
      PROVE  B!TypeOK'
    <2>1. Len(payload'.layers) < Len(ownBlocks') /\ \A i \in DOMAIN ownBlocks' : ownBlocks'[i].number = i
        BY <1>t DEF Bundled, Sound
    <2>2. Len(payload'.layers) \in Nat /\ Len(ownBlocks') \in Nat
        BY <1>t DEF Bundled, Content
    <2>3. Len(payload'.layers) <= MaxBlocks
        BY <1>0, <1>t, <2>1, <2>2
    <2> QED
        BY <1>0, <1>t, <2>1, <2>3 DEF B!TypeOK
<1>r. UNCHANGED <<ends, stamped, got, answer>> => B!AnswersProve' /\ B!ReadAsSent' /\ B!SameId'
    BY <1>0 DEF B!AnswersProve, B!ReadAsSent, B!SameId, B!Has, B!Whole, B!Of, B!SenderId
\* What the sender does to its own bundle.
<1>1. ASSUME Bundled(payload, ownBlocks)', Len(ownBlocks)' <= MaxBlocks + 1, bundleNow' \in 1..BundleTime,
             UNCHANGED <<ends, stamped, wire, got, answer>>
      PROVE  BundleInv'
    <2>1. B!TypeOK'
        BY <1>0, <1>1, <1>t
    <2>2. got' # B!None => Received(got)'
        BY <1>0, <1>1, <1>g
    <2> QED
        BY <1>0, <1>1, <1>c, <1>r, <2>1, <2>2 DEF BundleInv
<1>2. ASSUME NEW type, NEW signs, NEW nonce, B!Add(type, signs, nonce)
      PROVE  /\ ownBlocks' = Append(ownBlocks, B!Block(type, Len(ownBlocks) + 1, signs, nonce))
             /\ Len(ownBlocks') <= MaxBlocks + 1
    <2>1. /\ Len(ownBlocks) <= MaxBlocks
          /\ ownBlocks' = Append(ownBlocks, B!Block(type, Len(ownBlocks) + 1, signs, nonce))
        BY <1>2 DEF B!Add
    <2>2. Len(ownBlocks') = Len(ownBlocks) + 1 /\ Len(ownBlocks) \in Nat
        <3>1. ownBlocks \in Seq(BundleBlock)
            BY <1>0 DEF Bundled
        <3> QED
            BY <2>1, <3>1
    <2> QED
        BY <1>0, <2>1, <2>2
<1>3. CASE B!AddIntegrity
    <2>1. /\ UNCHANGED <<bundleNow, ends, stamped, payload, wire, got, answer>>
          /\ ownBlocks' = Append(ownBlocks, B!Block("BIB", Len(ownBlocks) + 1, payload, 0))
          /\ Len(ownBlocks') <= MaxBlocks + 1
        BY <1>2, <1>3 DEF B!AddIntegrity
    <2>2. Bundled(payload, ownBlocks')
        BY <1>0, <2>1, Signed
    <2>3. Bundled(payload, ownBlocks)'
        BY <2>1, <2>2
    <2> QED
        BY <1>0, <1>1, <2>1, <2>3
<1>4. CASE B!AddConfidentiality
    <2>1. /\ UNCHANGED <<bundleNow, ends, stamped, wire, got, answer>>
          /\ payload' = [payload EXCEPT !.layers = Append(@, Len(ownBlocks) + 1)]
          /\ ownBlocks' = Append(ownBlocks, B!Block("BCB", Len(ownBlocks) + 1, B!Lost, Len(ownBlocks) + 1))
          /\ Len(ownBlocks') <= MaxBlocks + 1
        BY <1>2, <1>4 DEF B!AddConfidentiality
    <2>2. Bundled(payload, ownBlocks)'
        BY <1>0, <2>1, Sealed
    <2> QED
        BY <1>0, <1>1, <2>1, <2>2
<1>5. CASE B!Tick
    <2>1. /\ bundleNow < BundleTime /\ bundleNow' = bundleNow + 1
          /\ UNCHANGED <<ends, stamped, payload, ownBlocks, wire, got, answer>>
        BY <1>5 DEF B!Tick
    <2>2. Bundled(payload, ownBlocks)'
        BY <1>0, <2>1
    <2> QED
        BY <1>0, <1>1, <2>1, <2>2
<1>6. CASE B!Serialize
    <2>1. /\ wire' = [time |-> B!WireTime, payload |-> payload, blocks |-> B!WireBlocks]
          /\ UNCHANGED <<bundleNow, ends, stamped, payload, ownBlocks, got, answer>>
        BY <1>6 DEF B!Serialize
    <2>2. wire'.time = B!WireTime /\ wire'.payload = payload /\ wire'.blocks = B!WireBlocks
        BY <2>1
    <2>3. Carried(payload, B!WireBlocks)
        BY <1>0 DEF Carried, Bundled, B!WireBlocks
    <2>4. ends.cbor /\ stamped => B!WireTime = B!GivenTime
        BY DEF B!WireTime
    <2>5. Carried(wire.payload, wire.blocks)'
        BY <1>c, <2>1, <2>2, <2>3
    <2>6. B!TypeOK'
        BY <1>0, <1>t, <2>1
    <2>7. Bundled(payload, ownBlocks)'
        BY <1>0, <2>1
    <2>8. got' # B!None => Received(got)'
        BY <1>0, <1>g, <2>1
    <2> QED
        BY <1>r, <2>1, <2>2, <2>4, <2>5, <2>6, <2>7, <2>8 DEF BundleInv
\* What the receiver does to the bundle it got.
<1>7. ASSUME UNCHANGED <<bundleNow, ends, stamped, payload, ownBlocks, wire>>, answer' \in Answers,
             got' # B!None => Received(got'), B!AnswersProve', B!ReadAsSent', B!SameId'
      PROVE  BundleInv'
    <2>1. B!TypeOK'
        BY <1>0, <1>7, <1>t
    <2>2. Bundled(payload, ownBlocks)'
        BY <1>0, <1>7
    <2>3. got' # B!None => Received(got)'
        BY <1>7, <1>g
    <2> QED
        BY <1>0, <1>c, <1>7, <2>1, <2>2, <2>3 DEF BundleInv
<1>8. CASE B!Receive
    <2>1. wire # B!None /\ Carried(wire.payload, wire.blocks)
          /\ (ends.cbor /\ stamped => wire.time = B!GivenTime)
        BY <1>0, <1>8 DEF B!Receive
    <2>2. wire.blocks \in Seq(BundleBlock) /\ wire.payload \in Content
        BY <1>b, <2>1, CarriedBlocks
    <2>3. ASSUME NEW types \in [DOMAIN wire.blocks -> B!BlockTypes], NEW hit \in B!Hits,
                 B!Deserialize(types, hit)
          PROVE  BundleInv'
        <3> DEFINE bs == [i \in DOMAIN wire.blocks |-> B!Arrived(i, types, hit)]
                   p == IF B!PayloadArrived(types, hit) THEN wire.payload ELSE B!Lost
                   id == IF ends.cbor /\ 0 \in hit THEN B!Id("damaged", 0) ELSE B!ReadId
        <3>1. /\ got' = [id |-> id, hurt |-> 0 \in hit, blocks |-> bs, payload |-> p, sent |-> wire]
              /\ answer' = "none" /\ UNCHANGED <<bundleNow, ends, stamped, payload, ownBlocks, wire>>
            BY <2>3 DEF B!Deserialize
        <3>2. ASSUME NEW i \in DOMAIN wire.blocks
              PROVE  B!Arrived(i, types, hit) \in BundleBlock
                     /\ B!Arrived(i, types, hit).signs \in {B!Lost, wire.blocks[i].signs}
            <4>1. wire.blocks[i] \in BundleBlock /\ types[i] \in B!BlockTypes
                BY <2>2
            <4> QED
                BY <4>1, PayloadBlocks DEF B!Arrived, B!Block, BundleBlock
        <3>3. /\ bs \in Seq(BundleBlock) /\ Len(bs) = Len(wire.blocks)
              /\ DOMAIN bs = DOMAIN wire.blocks
            <4>1. Len(wire.blocks) \in Nat /\ DOMAIN wire.blocks = 1..Len(wire.blocks)
                BY <2>2
            <4> QED
                BY <3>2, <4>1
        <3>4. \A i \in DOMAIN bs : bs[i].signs \in {B!Lost, wire.blocks[i].signs}
            BY <3>2
        <3>5. Within(p, wire.payload)
            <4>1. Within(wire.payload, wire.payload)
                BY <2>2 DEF Within, Content
            <4>2. Within(B!Lost, wire.payload)
                <5>1. Len(B!Lost.layers) = 0 /\ Len(wire.payload.layers) \in Nat
                    BY <2>2, PayloadBlocks DEF Content
                <5> QED
                    BY <5>1, PayloadBlocks DEF Within
            <4> QED
                BY <4>1, <4>2
        <3>6. ends.cbor /\ stamped /\ 0 \notin hit => id = B!SenderId
            BY <2>1 DEF B!ReadId, B!SenderId
        <3> HIDE DEF bs, p, id
        <3>7. /\ got'.id = id /\ got'.hurt = (0 \in hit) /\ got'.blocks = bs /\ got'.payload = p
              /\ got'.sent = wire
            BY <3>1
        <3>8. Received(got')
            BY <2>1, <3>1, <3>3, <3>4, <3>5, <3>7 DEF Received
        <3>9. B!AnswersProve' /\ B!ReadAsSent'
            BY <3>1 DEF B!AnswersProve, B!ReadAsSent
        <3>10. B!SameId'
            <4>1. B!SenderId' = B!SenderId
                BY <3>1 DEF B!SenderId
            <4> QED
                BY <3>1, <3>6, <3>7, <4>1 DEF B!SameId
        <3> QED
            BY <1>7, <3>1, <3>8, <3>9, <3>10
    <2>4. ASSUME B!Unreadable PROVE BundleInv'
        <3>1. /\ got' = B!None /\ answer' = "none"
              /\ UNCHANGED <<bundleNow, ends, stamped, payload, ownBlocks, wire>>
            BY <2>4 DEF B!Unreadable
        <3>2. B!AnswersProve' /\ B!ReadAsSent' /\ B!SameId'
            BY <3>1 DEF B!AnswersProve, B!ReadAsSent, B!SameId
        <3> QED
            BY <1>7, <3>1, <3>2
    <2> QED
        BY <1>8, <2>3, <2>4 DEF B!Receive
<1>9. CASE B!VerifyIntegrity
    <2>1. /\ got # B!None /\ answer' = IF B!Verified THEN "genuine" ELSE "forged"
          /\ UNCHANGED <<bundleNow, ends, stamped, payload, ownBlocks, wire, got>>
        BY <1>9 DEF B!VerifyIntegrity
    <2>2. Received(got)
        BY <1>0, <2>1
    <2>3. B!AnswersProve'
        <3>1. answer' = "genuine" /\ B!Of(got.blocks, "BIB") # {} =>
                 \E i \in DOMAIN got.sent.blocks :
                    got.sent.blocks[i].type = "BIB" /\ got.sent.blocks[i].signs = got.payload
            BY <1>b, <2>1, <2>2, Verifies DEF B!Verified
        <3> QED
            BY <2>1, <3>1 DEF B!AnswersProve, B!Has, B!Of
    <2>4. B!ReadAsSent'
        <3>1. B!Whole /\ answer' = "forged" /\ ends.keyed /\ Len(got.blocks) = 3
              /\ Len(got.sent.payload.layers) = 1 =>
                 (got.blocks[2].type = "BIB" <=> got.payload.layers # <<>>)
            BY <1>b, <2>1, <2>2, Forged
        <3>2. B!Whole' <=> B!Whole
            BY <2>1 DEF B!Whole
        <3> QED
            BY <2>1, <3>1, <3>2 DEF B!ReadAsSent
    <2>5. B!SameId'
        BY <1>0, <2>1 DEF B!SameId, B!SenderId
    <2> QED
        BY <1>7, <2>1, <2>2, <2>3, <2>4, <2>5
<1>10. CASE B!DecryptConfidentiality
    <2>1. /\ got # B!None /\ UNCHANGED <<bundleNow, ends, stamped, payload, ownBlocks, wire>>
        BY <1>10 DEF B!DecryptConfidentiality
    <2>2. Received(got)
        BY <1>0, <2>1
    <2>3. /\ Carried(got.sent.payload, got.sent.blocks) /\ Within(got.payload, got.sent.payload)
          /\ got.sent.payload.layers \in Seq(Nat) /\ got.sent.blocks \in Seq(BundleBlock)
        BY <1>b, <2>2, CarriedBlocks DEF Received
    <2>4. ASSUME answer' \in {"opened", "sealed"}, got' = got,
                 answer' = "opened" => B!Of(got.blocks, "BCB") = {},
                 answer' = "sealed" =>
                    \/ ~ends.opens
                    \/ /\ B!Of(got.blocks, "BCB") # {}
                       /\ ~B!Opens(B!First(got.blocks, "BCB"), got.payload)
          PROVE  BundleInv'
        <3>1. B!AnswersProve'
            BY <2>4 DEF B!AnswersProve, B!Has, B!Of
        <3>2. ASSUME B!Whole, answer' = "opened", ends.cbor PROVE got.payload.layers = <<>>
            <4>1. \A i \in DOMAIN got.sent.blocks : got.sent.blocks[i].type # "BCB"
                BY <2>4, <3>2 DEF B!Whole, B!Of
            <4>2. got.sent.payload.layers = <<>>
                BY <2>3, <3>2, <4>1 DEF Carried, Bundled
            <4>3. Len(got.payload.layers) <= 0 /\ got.payload.layers \in Seq(Nat)
                BY <2>3, <4>2 DEF Within, Content
            <4> QED
                BY <4>3, EmptySeq
        <3>3. B!Whole /\ answer' = "sealed" /\ ends.opens /\ ends.keyed
              /\ Len(got.sent.payload.layers) = 1 => got.payload.layers = <<>>
            BY <1>b, <2>1, <2>2, <2>4, StaysSealed
        <3>4. B!Whole' <=> B!Whole
            BY <2>4 DEF B!Whole
        <3>5. B!ReadAsSent'
            BY <2>1, <2>4, <3>2, <3>3, <3>4 DEF B!ReadAsSent
        <3>6. B!SameId'
            BY <1>0, <2>1, <2>4 DEF B!SameId, B!SenderId
        <3> QED
            BY <1>7, <2>1, <2>2, <2>4, <3>1, <3>5, <3>6
    <2>5. ASSUME B!Opens(B!First(got.blocks, "BCB"), got.payload),
                 got' = [got EXCEPT !.payload = B!Opened(@)], answer' = "opened"
          PROVE  BundleInv'
        <3> DEFINE p == B!Opened(got.payload)
        <3>1. /\ got'.id = got.id /\ got'.hurt = got.hurt /\ got'.blocks = got.blocks
              /\ got'.sent = got.sent /\ got'.payload = p
              /\ got' = [id |-> got'.id, hurt |-> got'.hurt, blocks |-> got'.blocks, payload |-> got'.payload,
                         sent |-> got'.sent]
            <4>1. got = [id |-> got.id, hurt |-> got.hurt, blocks |-> got.blocks, payload |-> got.payload,
                         sent |-> got.sent]
                BY <2>2 DEF Received
            <4> HIDE DEF p
            <4>2. got' = [got EXCEPT !.payload = p]
                BY <2>5 DEF p
            <4> QED
                BY <4>1, <4>2
        <3>2. got.payload.layers # <<>> /\ ~got.payload.changed
            BY <2>5 DEF B!Opens
        <3>3. /\ Within(p, got.sent.payload) /\ p.changed = got.payload.changed
              /\ Len(p.layers) < Len(got.sent.payload.layers)
              /\ Len(got.sent.payload.layers) < 2 => p.layers = <<>>
            BY <2>3, <3>2, TakenOff
        <3> HIDE DEF p
        <3>4. Received(got')
            BY <2>2, <3>1, <3>3 DEF Received
        <3>5. B!AnswersProve'
            BY <2>5, <3>1, <3>2, <3>3 DEF B!AnswersProve
        <3>6. B!ReadAsSent'
            BY <2>5, <3>1, <3>3 DEF B!ReadAsSent
        <3>7. B!SameId'
            BY <1>0, <2>1, <3>1 DEF B!SameId, B!SenderId
        <3> QED
            BY <1>7, <2>1, <2>5, <3>4, <3>5, <3>6, <3>7
    <2> QED
        BY <1>10, <2>4, <2>5 DEF B!DecryptConfidentiality
<1>11. CASE UNCHANGED bundle
    <2>1. /\ Bundled(payload, ownBlocks)' /\ UNCHANGED <<bundleNow, ends, stamped, wire, got, answer>>
          /\ Len(ownBlocks)' <= MaxBlocks + 1
        BY <1>0, <1>11 DEF bundle
    <2> QED
        BY <1>0, <1>1, <2>1
<1>12. CASE B!Next
    BY <1>3, <1>4, <1>5, <1>6, <1>8, <1>9, <1>10, <1>12 DEF B!Next
<1> QED
    BY <1>11, <1>12

\* The unit's invariant holds in the composition.
LEMMA BundleHolds == Spec => []BundleInv
<1>1. Init => BundleInv
    BY BundleUnit, BundleStarts
<1>2. BundleInv /\ [Next]_vars => BundleInv'
    BY BundleUnit, BundleStep
<1> QED
    BY <1>1, <1>2, PTL DEF Spec, vars

-----------------------------------------------------------------------------
(* APRS bridge: what is acknowledged.                                      *)

\* The unit's assumption holds, and the composition starts it and steps it as its
\* module says.
LEMMA BridgeUnit ==
    /\ I!BridgeAssumption
    /\ Init => I!Init
    /\ [Next]_vars => [I!Next]_bridge
BY UnitsAssumption DEF Init, Next, vars

\* What is acknowledged had an id, and one with that id reached its station;
\* what is pending is the last message with its id, and not acknowledged.
Answerable ==
    /\ sentMessages \in Seq([to : Stations, id : 0..(IdWidth - 1) \cup {NoId}, out : BOOLEAN])
    /\ \A k \in acked : /\ sentMessages[k].id # NoId
                        /\ \E j \in reached : sentMessages[j].id = sentMessages[k].id
    /\ \A i \in DOMAIN pending :
          /\ pending[i] \in DOMAIN sentMessages /\ pending[i] \notin acked
          /\ sentMessages[pending[i]].id = i
          /\ \A j \in DOMAIN sentMessages : sentMessages[j].id = i => j <= pending[i]

\* The inductive invariant of the bridge.
BridgeInv == I!TypeOK /\ Answerable

\* What is acknowledged was sent to a station that got a message with that id.
LEMMA BridgeAnswers == BridgeInv => I!AckTruthful
<1> SUFFICES ASSUME BridgeInv PROVE I!AckTruthful
    OBVIOUS
<1> USE DEF BridgeInv, I!TypeOK, Answerable
<1>1. \A k \in acked : sentMessages[k].id # NoId /\ I!Twins(k) \cap reached # {}
    BY DEF I!Twins
<1>2. \A k \in acked : I!Twins(k) = {k} => k \in reached
    BY <1>1
<1>3. \A i \in DOMAIN pending : \A j \in I!Twins(pending[i]) : j <= pending[i]
    BY DEF I!Twins
<1> QED
    BY <1>1, <1>2, <1>3 DEF I!AckTruthful

\* The initial states satisfy the unit's invariant.
LEMMA BridgeStarts == I!BridgeAssumption /\ I!Init => BridgeInv
<1> SUFFICES ASSUME I!BridgeAssumption, I!Init PROVE BridgeInv
    OBVIOUS
<1>1. 0 \in 0..BridgeTime
    BY DEF I!BridgeAssumption
<1>2. I!TypeOK
    <2>1. /\ bridgeNow = 0 /\ link = "none" /\ connected = FALSE /\ loop = "off"
          /\ DOMAIN sentMessages = {} /\ DOMAIN pending = {} /\ acked = {} /\ reached = {}
          /\ inbox = {} /\ owed = {} /\ answered = {}
        BY DEF I!Init
    <2> QED
        BY <1>1, <2>1 DEF I!TypeOK
<1>3. Answerable
    BY DEF I!Init, Answerable
<1> QED
    BY <1>2, <1>3 DEF BridgeInv

\* Every step of the unit, and every one that leaves it alone, keeps its invariant.
LEMMA BridgeStep == I!BridgeAssumption /\ BridgeInv /\ [I!Next]_bridge => BridgeInv'
<1> SUFFICES ASSUME I!BridgeAssumption, BridgeInv, [I!Next]_bridge PROVE BridgeInv'
    OBVIOUS
<1>0. /\ IdWidth \in Nat \ {0} /\ MaxSent \in Nat /\ BridgeTime \in Nat
      /\ NoId \notin Nat /\ NoId \notin TheirIds
    BY DEF I!BridgeAssumption
<1>a. I!MessageId \in 0..(IdWidth - 1) /\ I!MessageId # NoId
    BY <1>0 DEF I!MessageId, BridgeInv, I!TypeOK
<1> USE <1>0 DEF BridgeInv, I!TypeOK, Answerable
<1>1. ASSUME NEW o \in {"ok", "refused", "failed"}, I!Connect(o) PROVE BridgeInv'
    BY <1>1 DEF I!Connect
<1>2. CASE I!Disconnect
    BY <1>2 DEF I!Disconnect
<1>3. CASE I!ServerCloses
    BY <1>3 DEF I!ServerCloses
<1>4. CASE I!StartReceiving
    BY <1>4 DEF I!StartReceiving
<1>5. CASE I!Pause
    BY <1>5 DEF I!Pause
<1>6. CASE I!Resume
    BY <1>6 DEF I!Resume
<1>7. CASE I!StopReceiving
    BY <1>7 DEF I!StopReceiving
<1>8. CASE I!Tick
    BY <1>8 DEF I!Tick
<1>9. ASSUME NEW s \in Stations, NEW a \in BOOLEAN, NEW ok \in BOOLEAN, I!SendMessage(s, a, ok)
      PROVE  BridgeInv'
    <2> DEFINE m == [to |-> s, id |-> IF a THEN I!MessageId ELSE NoId, out |-> ok /\ link = "open"]
               n == Len(sentMessages) + 1
    <2>1. /\ sentMessages' = Append(sentMessages, m)
          /\ pending' = IF a THEN [i \in DOMAIN pending \cup {I!MessageId} |->
                                      IF i = I!MessageId THEN n ELSE pending[i]]
                             ELSE pending
          /\ connected' \in BOOLEAN
          /\ UNCHANGED <<bridgeNow, link, loop, acked, reached, inbox, owed, answered>>
        BY <1>9 DEF I!SendMessage, I!SendRaw
    <2>2. /\ m.to = s /\ m.id = IF a THEN I!MessageId ELSE NoId
          /\ m \in [to : Stations, id : 0..(IdWidth - 1) \cup {NoId}, out : BOOLEAN]
        BY <1>a
    <2> HIDE DEF m
    <2>3. /\ sentMessages' \in Seq([to : Stations, id : 0..(IdWidth - 1) \cup {NoId}, out : BOOLEAN])
          /\ n \in Nat /\ DOMAIN sentMessages = 1..(n - 1) /\ DOMAIN sentMessages' = 1..n
          /\ sentMessages'[n] = m
          /\ \A k \in DOMAIN sentMessages : sentMessages'[k] = sentMessages[k]
        BY <2>1, <2>2
    <2> HIDE DEF n
    <2>4. I!TypeOK'
        BY <2>1, <2>2, <2>3, <1>a
    <2>5. \A k \in acked' : /\ sentMessages'[k].id # NoId
                            /\ \E j \in reached' : sentMessages'[j].id = sentMessages'[k].id
        BY <2>1, <2>3
    <2>6. ASSUME NEW i \in DOMAIN pending'
          PROVE  /\ pending'[i] \in DOMAIN sentMessages' /\ pending'[i] \notin acked'
                 /\ sentMessages'[pending'[i]].id = i
                 /\ \A j \in DOMAIN sentMessages' : sentMessages'[j].id = i => j <= pending'[i]
        <3>1. CASE a /\ i = I!MessageId
            BY <2>1, <2>2, <2>3, <3>1
        <3>2. CASE ~(a /\ i = I!MessageId)
            <4>1. i \in DOMAIN pending /\ pending'[i] = pending[i]
                BY <2>1, <3>2
            <4>2. m.id # i
                BY <2>2, <3>2, <4>1
            <4> QED
                BY <2>1, <2>3, <4>1, <4>2
        <3> QED
            BY <3>1, <3>2
    <2> QED
        BY <2>3, <2>4, <2>5, <2>6
<1>10. ASSUME NEW k \in DOMAIN sentMessages, I!Reach(k) PROVE BridgeInv'
    BY <1>10 DEF I!Reach
<1>11. ASSUME NEW k \in DOMAIN sentMessages, I!HearAck(k) PROVE BridgeInv'
    <2>1. /\ k \in reached /\ sentMessages[k].id # NoId
          /\ UNCHANGED <<bridgeNow, link, connected, loop, sentMessages, reached, inbox, owed, answered>>
        BY <1>11 DEF I!HearAck
    <2>2. CASE I!AckIsKnown(sentMessages[k].id)
        <3> DEFINE i == sentMessages[k].id
        <3>1. i \in DOMAIN pending /\ acked' = acked \cup {pending[i]}
              /\ pending' = [j \in DOMAIN pending \ {i} |-> pending[j]]
            BY <1>11, <2>2 DEF I!HearAck, I!AckIsKnown, I!Without
        <3> QED
            BY <2>1, <3>1
    <2>3. CASE ~I!AckIsKnown(sentMessages[k].id)
        BY <1>11, <2>1, <2>3 DEF I!HearAck
    <2> QED
        BY <2>2, <2>3
<1>12. ASSUME NEW i \in TheirIds \cup {NoId}, I!HearMessage(i) PROVE BridgeInv'
    BY <1>12 DEF I!HearMessage
<1>13. ASSUME NEW i \in owed, NEW ok \in BOOLEAN, I!SendAck(i, ok) PROVE BridgeInv'
    BY <1>13 DEF I!SendAck, I!SendRaw
<1>14. CASE UNCHANGED bridge
    BY <1>14 DEF bridge
<1> HIDE <1>0 DEF BridgeInv, I!TypeOK, Answerable
<1>15. CASE I!Next
    BY <1>1, <1>2, <1>3, <1>4, <1>5, <1>6, <1>7, <1>8, <1>9, <1>10, <1>11, <1>12, <1>13, <1>15
       DEF I!Next
<1> QED
    BY <1>14, <1>15

\* The unit's invariant holds in the composition.
LEMMA BridgeHolds == Spec => []BridgeInv
<1>1. Init => BridgeInv
    BY BridgeUnit, BridgeStarts
<1>2. BridgeInv /\ [Next]_vars => BridgeInv'
    BY BridgeUnit, BridgeStep
<1> QED
    BY <1>1, <1>2, PTL DEF Spec, vars

-----------------------------------------------------------------------------
(* APRS frames: what was built is what is read.                            *)

\* The unit's assumption holds, and the composition starts it and steps it as its
\* module says.
LEMMA AprsUnit ==
    /\ A!AprsAssumption
    /\ Init => A!Init
    /\ [Next]_vars => [A!Next]_aprs
BY UnitsAssumption DEF Init, Next, vars

\* A frame as built, and the fields as decoded.
Onair == [digis : Digipeaters, info : Nat, fcs : BOOLEAN, damaged : BOOLEAN]
Fields == [length : Nat, damaged : BOOLEAN, trusted : BOOLEAN]

\* Reports, frames and fields are not the values that stand for none.
LEMMA AprsRecords ==
    /\ \A r \in A!Reports : r # A!None
    /\ \A f \in Onair : f # A!None
    /\ \A d \in Fields : d # A!None /\ d # A!Malformed
    /\ A!None # A!Malformed
<1>1. DOMAIN A!None = {"none"} /\ DOMAIN A!Malformed = {"malformed"}
    BY DEF A!None, A!Malformed
<1>2. \A r \in A!Reports : "type" \in DOMAIN r
    BY DEF A!Reports
<1>3. \A f \in Onair : "digis" \in DOMAIN f
    BY DEF Onair
<1>4. \A d \in Fields : "trusted" \in DOMAIN d
    BY DEF Fields
<1> QED
    BY <1>1, <1>2, <1>3, <1>4

\* What is decoded is of the frame, which is of the report; of an undamaged
\* frame the field is the report, and what was parsed is what it says.
Chained ==
    /\ frame \in {A!None} \cup Onair
    /\ decoded \in {A!None, A!Malformed} \cup Fields
    /\ frame # A!None => report \in A!Reports
    /\ decoded # A!None => frame # A!None
    /\ decoded \in Fields => decoded.damaged = frame.damaged
    /\ outcome # "none" => decoded \in Fields
    /\ outcome \notin {"none", "any"} => outcome = A!ParseInfo(report)

\* The inductive invariant of the frames.
AprsInv == A!TypeOK /\ Chained /\ A!FramesRead

\* The initial states satisfy the unit's invariant.
LEMMA AprsStarts == A!Init => AprsInv
BY AprsRecords DEF A!Init, AprsInv, A!TypeOK, Chained, A!FramesRead

\* What a report may be.
AprsKinds ==
    {"position", "message", "message_ack", "message_reject", "bulletin", "object", "item", "status",
     "telemetry", "other"}

\* A complete report is parsed as what it is, and what the parser may raise.
LEMMA AprsParsed ==
    ASSUME A!AprsAssumption, NEW r \in A!Reports
    PROVE  /\ A!Complete(r) => A!ParseInfo(r) = A!KindOf(r)
           /\ A!ParseInfo(r) \in {"IndexError", "ValueError"} =>
                 r.type \in A!Positions /\ ~r.compressed /\ ~A!Complete(r)
           /\ A!ParseInfo(r) \in AprsKinds \cup {A!Error, "IndexError", "ValueError"}
<1>1. r.length \in Nat /\ {r.marked, r.compressed, r.wellFormed, r.badRange} \subseteq BOOLEAN
    BY DEF A!Reports, A!AprsAssumption
<1>2. A!StartOf(r.type) \in Nat /\ A!Shortest(r.type) \in Nat
    BY DEF A!StartOf, A!Shortest
<1>3. A!KindOf(r) \in AprsKinds
    <2>1. A!MessageKind(r.text) \in AprsKinds
        BY DEF A!MessageKind, AprsKinds
    <2> QED
        BY <2>1 DEF A!KindOf, AprsKinds
<1>4. /\ A!ParsePosition(r) \in {"ok", A!Error, "IndexError", "ValueError"}
      /\ A!ParsePosition(r) = "IndexError" =>
            ~r.compressed /\ r.length - A!StartOf(r.type) < 19
      /\ A!ParsePosition(r) = "ValueError" => ~r.compressed /\ r.badRange
      /\ r.length - A!StartOf(r.type) >= (IF r.compressed THEN 13 ELSE 19)
         /\ r.wellFormed /\ ~r.badRange => A!ParsePosition(r) = "ok"
    <2> DEFINE there == r.length - A!StartOf(r.type)
    <2>1. there \in Int
        BY <1>1, <1>2
    <2>2. A!ParsePosition(r) =
             IF there < 13 THEN A!Error
             ELSE IF r.compressed THEN (IF r.wellFormed THEN "ok" ELSE A!Error)
             ELSE IF there <= 18 THEN "IndexError"
             ELSE IF ~r.wellFormed THEN A!Error
             ELSE IF there >= 26 /\ r.badRange THEN "ValueError" ELSE "ok"
        BY DEF A!ParsePosition, A!SymbolAt
    <2> HIDE DEF there
    <2>3. there < 13 => A!ParsePosition(r) = A!Error
        BY <2>2
    <2>4. there >= 13 /\ r.compressed =>
             A!ParsePosition(r) = IF r.wellFormed THEN "ok" ELSE A!Error
        BY <2>1, <2>2
    <2>5. there >= 13 /\ there <= 18 /\ ~r.compressed => A!ParsePosition(r) = "IndexError"
        BY <2>1, <2>2
    <2>6. there > 18 /\ ~r.compressed =>
             A!ParsePosition(r) = IF ~r.wellFormed THEN A!Error
                                  ELSE IF there >= 26 /\ r.badRange THEN "ValueError" ELSE "ok"
        BY <2>1, <2>2
    <2>7. A!Error \notin {"ok", "IndexError", "ValueError"}
        BY DEF A!Error
    <2>8. /\ A!ParsePosition(r) \in {"ok", A!Error, "IndexError", "ValueError"}
          /\ A!ParsePosition(r) = "IndexError" => ~r.compressed /\ there < 19
          /\ A!ParsePosition(r) = "ValueError" => ~r.compressed /\ r.badRange
          /\ there >= (IF r.compressed THEN 13 ELSE 19) /\ r.wellFormed /\ ~r.badRange =>
                A!ParsePosition(r) = "ok"
        BY <2>1, <2>3, <2>4, <2>5, <2>6, <2>7
    <2> QED
        BY <2>8 DEF there
<1>5. A!Complete(r) => A!ParseInfo(r) = A!KindOf(r)
    BY <1>1, <1>2, <1>4 DEF A!Complete, A!ParseInfo, A!Unreadable
<1>6. ASSUME A!ParseInfo(r) \in {"IndexError", "ValueError"}
      PROVE  r.type \in A!Positions /\ A!ParsePosition(r) = A!ParseInfo(r)
    BY <1>3, <1>6 DEF A!ParseInfo, A!Error, AprsKinds
<1>7. A!ParseInfo(r) \in {A!Error, A!ParsePosition(r), A!KindOf(r)}
    BY DEF A!ParseInfo
<1>8. A!ParseInfo(r) \in {"IndexError", "ValueError"} =>
         r.type \in A!Positions /\ ~r.compressed /\ ~A!Complete(r)
    BY <1>1, <1>4, <1>6 DEF A!Complete
<1>9. A!ParseInfo(r) # "ok"
    BY <1>3, <1>4 DEF A!ParseInfo, A!Error, AprsKinds
<1> QED
    BY <1>3, <1>4, <1>5, <1>7, <1>8, <1>9

\* Every step of the unit, and every one that leaves it alone, keeps its invariant.
LEMMA AprsStep == A!AprsAssumption /\ AprsInv /\ [A!Next]_aprs => AprsInv'
<1> SUFFICES ASSUME A!AprsAssumption, AprsInv, [A!Next]_aprs PROVE AprsInv'
    OBVIOUS
<1>0. Digipeaters \subseteq Nat
    BY DEF A!AprsAssumption
<1>a. InfoLengths \subseteq Nat /\ \A r \in A!Reports : r.length \in Nat
    BY DEF A!AprsAssumption, A!Reports
<1> USE DEF AprsInv, A!TypeOK, Chained, A!FramesRead
<1>1. CASE A!Write
    BY <1>1, AprsRecords DEF A!Write
<1>2. ASSUME NEW d \in Digipeaters, NEW s \in Ssids, NEW f \in BOOLEAN, A!Build(d, s, f)
      PROVE  AprsInv'
    <2> DEFINE built1 == [digis |-> d, info |-> report.length, fcs |-> f, damaged |-> FALSE]
    <2>1. report \in A!Reports /\ frame = A!None /\ frame' = built1 /\ UNCHANGED <<report, decoded, outcome>>
        BY <1>2 DEF A!Build
    <2>2. built1 \in Onair /\ built1 # A!None /\ built1.digis = d /\ built1.info = report.length
        BY <1>a, <2>1, AprsRecords DEF Onair
    <2>3. decoded = A!None /\ decoded \notin Fields /\ outcome = "none"
        BY <2>1, AprsRecords
    <2> HIDE DEF built1
    <2> QED
        BY <2>1, <2>2, <2>3, AprsRecords
<1>3. CASE A!Damage
    <2> DEFINE hurt == [frame EXCEPT !.damaged = TRUE]
    <2>1. frame # A!None /\ frame' = hurt /\ decoded = A!None /\ UNCHANGED <<report, decoded, outcome>>
        BY <1>3 DEF A!Damage
    <2>2. hurt \in Onair /\ hurt.digis = frame.digis /\ hurt.info = frame.info
        BY <2>1 DEF Onair
    <2> HIDE DEF hurt
    <2> QED
        BY <2>1, <2>2, AprsRecords
<1>4. ASSUME NEW v \in BOOLEAN, A!Decode(v) PROVE AprsInv'
    <2>1. /\ frame \in Onair /\ report \in A!Reports /\ decoded = A!None /\ outcome = "none"
          /\ UNCHANGED <<report, frame, outcome>>
        BY <1>4, AprsRecords DEF A!Decode
    <2>2. /\ frame.digis \in Nat /\ frame.info \in Nat /\ frame.info = report.length
          /\ frame.fcs \in BOOLEAN /\ frame.damaged \in BOOLEAN
        BY <1>0, <2>1, AprsRecords DEF Onair
    <2>3. A!Bytes(frame) \in Nat /\ (frame.fcs => A!Checked(frame) /\ A!Bytes(frame) >= 16)
        BY <2>2 DEF A!Bytes, A!Checked
    <2>4. CASE decoded' = A!Malformed /\ (A!Refuses(frame, v) \/ frame.damaged)
        <3>1. ~frame.damaged /\ frame.fcs => ~A!Refuses(frame, v)
            BY <2>3 DEF A!Refuses, A!FcsValid
        <3>2. decoded' # A!None /\ decoded' \notin Fields
            BY <2>4, AprsRecords
        <3> QED
            BY <2>1, <2>2, <2>4, <3>1, <3>2, AprsRecords
    <2>5. CASE ~A!Refuses(frame, v) /\ decoded' = A!Field(frame, v)
        <3>1. /\ decoded' \in Fields /\ decoded'.damaged = frame.damaged
              /\ decoded'.length = A!FieldLength(frame) /\ decoded'.trusted = (A!Checked(frame) /\ v)
            BY <2>2, <2>5 DEF A!Field, A!FieldLength, Fields, A!Checked
        <3>2. ~frame.damaged => A!FieldLength(frame) = report.length
            BY <2>2, <2>3 DEF A!FieldLength, A!FcsValid
        <3>3. frame.damaged => ~(A!Checked(frame) /\ v)
            BY <2>5 DEF A!Refuses, A!FcsValid
        <3> QED
            BY <2>1, <3>1, <3>2, <3>3, AprsRecords
    <2> QED
        BY <1>4, <2>4, <2>5 DEF A!Decode
<1>5. CASE A!Parse
    <2>1. /\ decoded \in Fields /\ report \in A!Reports /\ UNCHANGED <<report, frame, decoded>>
          /\ outcome' = IF decoded.damaged THEN "any"
                        ELSE A!ParseInfo([report EXCEPT !.length = decoded.length])
        BY <1>5 DEF A!Parse
    <2>2. ~decoded.damaged => [report EXCEPT !.length = decoded.length] = report
        BY <2>1, AprsRecords DEF A!Reports
    <2>3. outcome' = "any" \/ outcome' = A!ParseInfo(report)
        BY <2>1, <2>2
    <2> QED
        BY <2>1, <2>3, AprsParsed, AprsRecords DEF AprsKinds
<1>6. CASE UNCHANGED aprs
    BY <1>6 DEF aprs
<1> QED
    BY <1>1, <1>2, <1>3, <1>4, <1>5, <1>6 DEF A!Next

\* The unit's invariant holds in the composition.
LEMMA AprsHolds == Spec => []AprsInv
<1>1. Init => AprsInv
    BY AprsUnit, AprsStarts
<1>2. AprsInv /\ [Next]_vars => AprsInv'
    BY AprsUnit, AprsStep
<1> QED
    BY <1>1, <1>2, PTL DEF Spec, vars

-----------------------------------------------------------------------------
(* Framing: a payload cut up for the radio.                                *)

\* The unit's assumption holds, and the composition starts it and steps it as its
\* module says.
LEMMA FramingUnit ==
    /\ F!FramingAssumption
    /\ Init => F!Init
    /\ [Next]_vars => [F!Next]_framing
BY UnitsAssumption DEF Init, Next, vars

\* The instance counts as the library does.
LEMMA FramingCounts == \A X : F!Cardinality(X) = Cardinality(X)
BY DEF Cardinality, F!Cardinality

\* An interval cut off at n has no more than k members.
LEMMA Spans ==
    ASSUME NEW a \in Nat, NEW n \in Nat, NEW k \in Nat
    PROVE  LET b == F!Smaller(a + k, n)
           IN IsFiniteSet((a + 1)..b) /\ Cardinality((a + 1)..b) \in Nat /\ Cardinality((a + 1)..b) <= k
<1> DEFINE b == F!Smaller(a + k, n)
<1>1. b \in Int /\ b <= a + k
    BY DEF F!Smaller
<1> HIDE DEF b
<1>2. /\ IsFiniteSet((a + 1)..b)
      /\ Cardinality((a + 1)..b) = IF a + 1 > b THEN 0 ELSE b - (a + 1) + 1
    BY <1>1, FS_Interval
<1> QED
    BY <1>1, <1>2 DEF b

\* The pieces of a payload.
LEMMA PayloadPieces ==
    ASSUME size \in Nat, NEW k \in Nat \ {0}
    PROVE  /\ F!Pieces(k) \in Nat /\ (F!Pieces(k) = 0 <=> size = 0) /\ (F!Pieces(k) > 1 <=> size > k)
           /\ \A i \in 1..F!Pieces(k) :
                 /\ F!Piece(i, k) \subseteq 1..size
                 /\ Cardinality(F!Piece(i, k)) <= k
           /\ \A x \in 1..size : \E i \in 1..F!Pieces(k) : x \in F!Piece(i, k)
           /\ \A i, j \in 1..F!Pieces(k) : i # j => F!Piece(i, k) \cap F!Piece(j, k) = {}
<1> DEFINE t == F!Pieces(k)
<1>1. t = Pieces(size, k)
    BY DEF F!Pieces, Pieces
<1> HIDE DEF t
<1>2. /\ t \in Nat /\ (t = 0 <=> size = 0)
      /\ \A i \in 0..(t - 1) : i * k \in Nat /\ i * k < size /\ ((i + 1) * k >= size <=> i = t - 1)
      /\ \A x \in 1..size : \E i \in 0..(t - 1) : i * k + 1 <= x /\ x <= (i + 1) * k
    BY <1>1, Cutting
<1>3. t > 1 <=> size > k
    <2>1. CASE t = 0
        BY <1>2, <2>1
    <2>2. CASE t # 0
        <3>1. 0 \in 0..(t - 1) /\ (0 + 1) * k = k
            BY <1>2, <2>2
        <3>2. k >= size <=> 0 = t - 1
            BY <1>2, <3>1
        <3> QED
            BY <1>2, <2>2, <3>2
    <2> QED
        BY <2>1, <2>2
<1>4. ASSUME NEW i \in 1..t
      PROVE  /\ (i - 1) * k \in Nat /\ i * k = (i - 1) * k + k
             /\ F!Piece(i, k) = ((i - 1) * k + 1)..F!Smaller((i - 1) * k + k, size)
    <2>1. i - 1 \in 0..(t - 1) /\ i - 1 \in Int /\ (i - 1) + 1 = i
        BY <1>2
    <2>2. (i - 1) * k \in Nat
        BY <1>2, <2>1
    <2>3. ((i - 1) + 1) * k = (i - 1) * k + k
        BY <2>1, Products
    <2> QED
        BY <2>1, <2>2, <2>3 DEF F!Piece
<1>5. ASSUME NEW i \in 1..t
      PROVE  F!Piece(i, k) \subseteq 1..size /\ Cardinality(F!Piece(i, k)) <= k
    <2>1. F!Smaller((i - 1) * k + k, size) <= size /\ F!Smaller((i - 1) * k + k, size) \in Int
        BY <1>4 DEF F!Smaller
    <2>2. F!Piece(i, k) \subseteq 1..size
        BY <1>4, <2>1
    <2>3. Cardinality(F!Piece(i, k)) <= k
        BY <1>4, Spans
    <2> QED
        BY <2>2, <2>3
<1>6. ASSUME NEW x \in 1..size
      PROVE  \E i \in 1..t : x \in F!Piece(i, k)
    <2>1. PICK j \in 0..(t - 1) : j * k + 1 <= x /\ x <= (j + 1) * k
        BY <1>2
    <2>2. j + 1 \in 1..t /\ (j + 1) - 1 = j
        BY <1>2
    <2>3. j * k \in Nat /\ (j + 1) * k = j * k + k /\ F!Piece(j + 1, k) = (j * k + 1)..F!Smaller(j * k + k, size)
        BY <1>4, <2>2
    <2>4. x <= F!Smaller(j * k + k, size) /\ F!Smaller(j * k + k, size) \in Int
        BY <2>1, <2>3 DEF F!Smaller
    <2>5. x \in F!Piece(j + 1, k)
        BY <2>1, <2>3, <2>4
    <2> QED
        BY <2>2, <2>5
<1>7. ASSUME NEW i \in 1..t, NEW j \in 1..t, i < j
      PROVE  F!Piece(i, k) \cap F!Piece(j, k) = {}
    <2>1. i <= j - 1 /\ i \in Int /\ j - 1 \in Int
        BY <1>2, <1>7
    <2>2. i * k <= (j - 1) * k
        BY <2>1, Products
    <2>3. F!Smaller((i - 1) * k + k, size) <= i * k /\ F!Smaller((i - 1) * k + k, size) \in Int
          /\ i * k \in Int
        BY <1>4 DEF F!Smaller
    <2>4. \A x \in F!Piece(i, k) : x \in Int /\ x <= i * k
        BY <1>4, <2>3
    <2>5. \A x \in F!Piece(j, k) : x \in Int /\ x >= (j - 1) * k + 1
        <3>1. F!Smaller((j - 1) * k + k, size) \in Int /\ (j - 1) * k \in Nat
            BY <1>4 DEF F!Smaller
        <3> QED
            BY <1>4, <3>1
    <2>6. (j - 1) * k \in Nat
        BY <1>4
    <2>7. ASSUME NEW x \in F!Piece(i, k), x \in F!Piece(j, k) PROVE FALSE
        BY <2>2, <2>3, <2>4, <2>5, <2>6, <2>7
    <2> QED
        BY <2>7
<1>8. \A i, j \in 1..t : i # j => F!Piece(i, k) \cap F!Piece(j, k) = {}
    <2> TAKE i, j \in 1..t
    <2>1. i \in Int /\ j \in Int
        BY <1>2
    <2> QED
        BY <1>7, <2>1
<1> QED
    BY <1>2, <1>3, <1>5, <1>6, <1>8 DEF t

\* Numbers in a row differ modulo w when there are no more than w of them.
LEMMA InARow ==
    ASSUME NEW w \in Nat \ {0}, NEW s \in Nat, NEW i \in Nat \ {0}, NEW j \in Nat \ {0}, i < j, j - i < w
    PROVE  (s + i - 1) % w # (s + j - 1) % w
<1> DEFINE a == s + i - 1
           b == s + j - 1
<1>1. a \in Nat /\ b \in Nat /\ a < b /\ b - a < w
    OBVIOUS
<1> HIDE DEF a, b
<1>2. /\ a = (a \div w) * w + (a % w) /\ a \div w \in Int /\ a % w \in Int
      /\ b = (b \div w) * w + (b % w) /\ b \div w \in Int
    BY <1>1, SMTT(30)
<1>3. SUFFICES ASSUME a % w = b % w PROVE FALSE
    BY DEF a, b
<1> DEFINE p == a \div w
           q == b \div w
<1>4. /\ p \in Int /\ q \in Int /\ p * w \in Int /\ q * w \in Int
      /\ q * w - p * w = b - a
    BY <1>1, <1>2, <1>3, Products
<1> HIDE DEF p, q
<1>5. CASE q <= p
    <2>1. q * w <= p * w
        BY <1>4, <1>5, Products
    <2> QED
        BY <1>1, <1>4, <2>1
<1>6. CASE p + 1 <= q
    <2>1. (p + 1) * w <= q * w /\ (p + 1) * w = p * w + w
        BY <1>4, <1>6, Products
    <2> QED
        BY <1>1, <1>4, <2>1
<1> QED
    BY <1>4, <1>5, <1>6

\* The frames and the hops that a payload is cut into.
FramesOf(start, encrypted) ==
    [i \in 1..(IF size = 0 THEN 1 ELSE F!Pieces(FrameRoom)) |-> F!Frame(i, start, encrypted)]
HopsOf(h) == [i \in 1..F!Smaller(h.hops, h.headers + F!Pieces(h.room)) |-> F!Hop(h, i)]

\* The inductive invariant: what was cut is what the payload is cut into.
FramingInv ==
    /\ F!TypeOK
    /\ cut = <<>> \/ \E start \in Starts, e \in BOOLEAN : cut = FramesOf(start, e)
    /\ \/ hops \in {<<>>, F!IndexError}
       \/ setting \in Hopping /\ setting.headers <= setting.hops /\ hops = HopsOf(setting)

\* The frames cut hold the payload, one piece each, in order.
LEMMA FramesHeld == F!FramingAssumption /\ FramingInv => F!FramesHoldPayload
<1> SUFFICES ASSUME F!FramingAssumption, FramingInv, cut # <<>> PROVE F!FramesHoldPayload
    BY DEF F!FramesHoldPayload
<1>1. /\ FrameRoom \in Nat \ {0} /\ SequenceWidth \in Nat \ {0} /\ Starts \subseteq Nat /\ size \in Nat
      /\ taken \subseteq DOMAIN cut
    BY DEF F!FramingAssumption, FramingInv, F!TypeOK
<1>2. PICK start \in Starts, e \in BOOLEAN : cut = FramesOf(start, e)
    BY DEF FramingInv
<1> DEFINE k == FrameRoom
           t == F!Pieces(k)
           n == IF size = 0 THEN 1 ELSE t
<1>3. /\ t \in Nat /\ (t = 0 <=> size = 0) /\ (t > 1 <=> size > k)
      /\ \A i \in 1..t : F!Piece(i, k) \subseteq 1..size /\ Cardinality(F!Piece(i, k)) <= k
      /\ \A x \in 1..size : \E i \in 1..t : x \in F!Piece(i, k)
      /\ \A i, j \in 1..t : i # j => F!Piece(i, k) \cap F!Piece(j, k) = {}
    BY <1>1, PayloadPieces
<1>4. /\ DOMAIN cut = 1..n
      /\ \A i \in 1..n : /\ cut[i].payload = F!Piece(i, k) /\ (cut[i].fragment <=> size > k)
                         /\ cut[i].sequence = (start + i - 1) % SequenceWidth
    BY <1>2 DEF FramesOf, F!Frame
<1> HIDE DEF t
<1>5. n \in Nat \ {0}
    BY <1>3
<1>6. /\ \A i \in 1..n : F!Piece(i, k) \subseteq 1..size /\ Cardinality(F!Piece(i, k)) <= k
      /\ \A i, j \in 1..n : i # j => F!Piece(i, k) \cap F!Piece(j, k) = {}
      /\ \A x \in 1..size : \E i \in 1..n : x \in F!Piece(i, k)
    <2>1. CASE size = 0
        <3>1. F!Piece(1, k) = {}
            BY <1>1, <2>1 DEF F!Piece, F!Smaller
        <3>2. Cardinality({}) = 0
            BY FS_EmptySet
        <3>3. 1..n = {1} /\ 1..size = {}
            BY <2>1
        <3>4. F!Piece(1, k) \subseteq 1..size /\ Cardinality(F!Piece(1, k)) <= k
            <4>1. Cardinality(F!Piece(1, k)) = 0
                BY <3>1, <3>2, Zenon
            <4> QED
                BY <1>1, <3>1, <4>1
        <3> HIDE DEF n
        <3> QED
            BY <3>3, <3>4
    <2>2. CASE size # 0
        BY <1>3, <2>2
    <2> QED
        BY <2>1, <2>2
<1>7. Len(cut) = n
    BY <1>2, <1>4, <1>5
<1> HIDE DEF n, k
<1>8. \A i \in DOMAIN cut : F!Cardinality(cut[i].payload) <= FrameRoom
    BY <1>4, <1>6, FramingCounts DEF k
<1>9. UNION {cut[i].payload : i \in taken}
         = (1..size) \ UNION {cut[i].payload : i \in DOMAIN cut \ taken}
    <2> DEFINE held == UNION {cut[i].payload : i \in taken}
               rest == UNION {cut[i].payload : i \in DOMAIN cut \ taken}
    <2>1. ASSUME NEW x \in held PROVE x \in (1..size) \ rest
        <3>1. PICK i \in taken : x \in cut[i].payload
            OBVIOUS
        <3>2. i \in 1..n /\ x \in F!Piece(i, k) /\ x \in 1..size
            BY <1>1, <1>4, <1>6, <3>1
        <3>3. \A j \in DOMAIN cut \ taken : x \notin cut[j].payload
            BY <1>4, <1>6, <3>1, <3>2
        <3> QED
            BY <3>2, <3>3
    <2>2. ASSUME NEW x \in (1..size) \ rest PROVE x \in held
        <3>1. PICK i \in 1..n : x \in F!Piece(i, k)
            BY <1>6
        <3>2. i \in DOMAIN cut /\ x \in cut[i].payload
            BY <1>4, <3>1
        <3> QED
            BY <3>2
    <2> HIDE DEF held, rest
    <2>3. held = (1..size) \ rest
        BY <2>1, <2>2
    <2> QED
        BY <2>3 DEF held, rest
<1>10. \A i \in DOMAIN cut : cut[i].fragment <=> Len(cut) > 1
    BY <1>1, <1>3, <1>4, <1>7 DEF n, k
<1>11. Len(cut) <= SequenceWidth =>
          \A i, j \in DOMAIN cut : i # j => cut[i].sequence # cut[j].sequence
    <2> SUFFICES ASSUME n <= SequenceWidth, NEW i \in 1..n, NEW j \in 1..n, i # j
                 PROVE  cut[i].sequence # cut[j].sequence
        BY <1>4, <1>7
    <2>1. start \in Nat /\ i \in Nat \ {0} /\ j \in Nat \ {0} /\ i - j < SequenceWidth /\ j - i < SequenceWidth
        BY <1>1, <1>5
    <2>2. (start + i - 1) % SequenceWidth # (start + j - 1) % SequenceWidth
        <3>1. CASE i < j
            BY <1>1, <2>1, <3>1, InARow
        <3>2. CASE j < i
            BY <1>1, <2>1, <3>2, InARow
        <3> QED
            BY <2>1, <3>1, <3>2
    <2> QED
        BY <1>4, <2>2
<1> QED
    BY <1>8, <1>9, <1>10, <1>11 DEF F!FramesHoldPayload

\* The first m pieces of a payload are its first m * k bytes.
LEMMA FirstPieces ==
    ASSUME size \in Nat, NEW k \in Nat \ {0}, NEW m \in Nat
    PROVE  /\ F!Pieces(k) \in Nat /\ m * k \in Nat
           /\ size <= m * k <=> F!Pieces(k) <= m
           /\ \A i \in 1..F!Smaller(m, F!Pieces(k)) : F!Piece(i, k) \subseteq 1..F!Smaller(size, m * k)
           /\ \A x \in 1..F!Smaller(size, m * k) :
                 \E i \in 1..F!Smaller(m, F!Pieces(k)) : x \in F!Piece(i, k)
<1> DEFINE t == F!Pieces(k)
           c == m * k
<1>1. t = Pieces(size, k)
    BY DEF F!Pieces, Pieces
<1>2. /\ t \in Nat /\ (t = 0 <=> size = 0)
      /\ \A i \in 1..t : F!Piece(i, k) \subseteq 1..size
      /\ \A x \in 1..size : \E i \in 1..t : x \in F!Piece(i, k)
    BY PayloadPieces
<1> HIDE DEF t
<1>3. /\ \A i \in 0..(t - 1) : i * k \in Nat /\ i * k < size /\ ((i + 1) * k >= size <=> i = t - 1)
    BY <1>1, Cutting
<1>4. /\ c \in Nat
      /\ \A i \in Int : i * k \in Int /\ (i <= m => i * k <= c) /\ (m <= i => c <= i * k)
    BY Products
<1> HIDE DEF c
<1>5. size <= c <=> t <= m
    <2>1. CASE t = 0
        BY <1>2, <1>4, <2>1
    <2>2. CASE t # 0 /\ t <= m
        <3>1. t - 1 \in 0..(t - 1) /\ (t - 1) + 1 = t /\ t \in Int
            BY <1>2, <2>2
        <3>2. t * k >= size
            BY <1>3, <3>1
        <3>3. t * k \in Int /\ t * k <= c
            BY <1>4, <2>2, <3>1
        <3> QED
            BY <1>4, <2>2, <3>2, <3>3
    <2>3. CASE t > m
        <3>1. m \in 0..(t - 1)
            BY <1>2, <2>3
        <3>2. c < size
            BY <1>3, <3>1 DEF c
        <3> QED
            BY <1>2, <1>4, <2>3, <3>2
    <2> QED
        BY <1>2, <2>1, <2>2, <2>3
<1>6. ASSUME NEW i \in 1..t, NEW x \in F!Piece(i, k)
      PROVE  x \in 1..size /\ (i - 1) * k + 1 <= x /\ x <= i * k
    <2>1. x \in 1..size
        BY <1>2, <1>6
    <2>2. (i - 1) * k \in Int /\ i * k \in Int
        BY <1>2, <1>4
    <2> QED
        BY <1>6, <2>1, <2>2 DEF F!Piece, F!Smaller
<1>7. \A i \in Int : i \in 1..F!Smaller(m, t) <=> i \in 1..t /\ i <= m
    BY <1>2 DEF F!Smaller
<1>8. \A x \in Int : x \in 1..F!Smaller(size, c) <=> x \in 1..size /\ x <= c
    BY <1>4 DEF F!Smaller
<1>9. ASSUME NEW i \in 1..F!Smaller(m, t), NEW x \in F!Piece(i, k) PROVE x \in 1..F!Smaller(size, c)
    <2>1. i \in Int
        BY <1>2 DEF F!Smaller
    <2>2. i \in 1..t /\ i <= m
        BY <1>7, <2>1
    <2>3. x \in 1..size /\ x <= i * k /\ i * k \in Int /\ i * k <= c
        BY <1>4, <1>6, <2>1, <2>2
    <2> QED
        BY <1>4, <1>8, <2>3
<1>10. ASSUME NEW x \in 1..F!Smaller(size, c) PROVE \E i \in 1..F!Smaller(m, t) : x \in F!Piece(i, k)
    <2>1. x \in Int
        BY <1>4 DEF F!Smaller
    <2>2. x \in 1..size /\ x <= c
        BY <1>8, <2>1
    <2>3. PICK i \in 1..t : x \in F!Piece(i, k)
        BY <1>2, <2>2
    <2>4. (i - 1) * k + 1 <= x /\ i - 1 \in Int /\ (i - 1) * k \in Int
        BY <1>2, <1>4, <1>6, <2>3
    <2>5. ~(m <= i - 1)
        <3> SUFFICES ASSUME m <= i - 1 PROVE FALSE
            OBVIOUS
        <3>1. c <= (i - 1) * k
            BY <1>4, <2>4
        <3> QED
            BY <1>4, <2>1, <2>2, <2>4, <3>1
    <2>6. i \in Int /\ i <= m
        BY <1>2, <2>4, <2>5
    <2> QED
        BY <1>7, <2>3, <2>6
<1> QED
    BY <1>2, <1>4, <1>5, <1>9, <1>10 DEF t, c

\* The hops cut hold the payload as far as it has room, those of a header apart.
LEMMA HopsHeld == F!FramingAssumption /\ FramingInv => F!HopsHoldPayload
<1> SUFFICES ASSUME F!FramingAssumption, FramingInv, hops \notin {<<>>, F!IndexError}
             PROVE  F!HopsHoldPayload
    BY DEF F!HopsHoldPayload
<1> DEFINE h == setting
           k == h.room
           m == h.hops - h.headers
           t == F!Smaller(m, F!Pieces(k))
           end == F!Smaller(size, F!Capacity(h))
<1>1. /\ size \in Nat /\ h \in Hopping /\ h.headers <= h.hops /\ hops = HopsOf(h)
      /\ h.hops \in Nat /\ h.headers \in Nat /\ h.grid \in Nat /\ k \in Nat \ {0}
    BY DEF F!FramingAssumption, FramingInv, F!TypeOK
<1>2. m \in Nat
    BY <1>1
<1>3. F!Capacity(h) = m * k
    BY DEF F!Capacity
<1> HIDE DEF k, m
<1>4. /\ F!Pieces(k) \in Nat /\ (size <= m * k <=> F!Pieces(k) <= m)
      /\ \A i \in 1..t : F!Piece(i, k) \subseteq 1..end
      /\ \A x \in 1..end : \E i \in 1..t : x \in F!Piece(i, k)
    BY <1>1, <1>2, <1>3, FirstPieces
<1> HIDE DEF end
<1>5. /\ t \in Nat /\ (t = F!Pieces(k) <=> F!Pieces(k) <= m)
      /\ F!Smaller(h.hops, h.headers + F!Pieces(k)) = h.headers + t
    <2>1. h.hops = h.headers + m
        BY <1>1, <1>2 DEF m
    <2> QED
        BY <1>1, <1>2, <1>4, <2>1 DEF F!Smaller
<1> HIDE DEF t
<1>6. /\ hops = [i \in 1..(h.headers + t) |-> F!Hop(h, i)]
      /\ h.headers + t \in Nat /\ DOMAIN hops = 1..(h.headers + t)
      /\ Len(hops) = F!EstimatedHops(setting) <=> size <= F!Capacity(setting)
    <2>1. hops = [i \in 1..(h.headers + t) |-> F!Hop(h, i)] /\ h.headers + t \in Nat
        BY <1>1, <1>5 DEF HopsOf, k
    <2>2. F!EstimatedHops(setting) = h.headers + F!Pieces(k)
        BY DEF F!EstimatedHops, k
    <2>3. Len(hops) = h.headers + t /\ DOMAIN hops = 1..(h.headers + t)
        BY <2>1
    <2>4. h.headers + t = h.headers + F!Pieces(k) <=> F!Pieces(k) <= m
        BY <1>1, <1>4, <1>5
    <2> QED
        BY <1>3, <1>4, <2>1, <2>2, <2>3, <2>4
<1>7. ASSUME NEW i \in DOMAIN hops
      PROVE  /\ hops[i].payload = IF i <= h.headers THEN {} ELSE F!Piece(i - h.headers, k)
             /\ hops[i].offsets = {F!Offset(c, h) : c \in F!Channels(h)}
    BY <1>6, <1>7 DEF F!Hop, k
<1>8. UNION {hops[i].payload : i \in DOMAIN hops} = 1..end
    <2>1. ASSUME NEW i \in DOMAIN hops PROVE hops[i].payload \subseteq 1..end
        <3>1. i \in 1..(h.headers + t)
            BY <1>6
        <3>2. i > h.headers => i - h.headers \in 1..t
            <4>1. h.headers \in Nat /\ t \in Nat
                BY <1>1, <1>5
            <4> QED
                BY <3>1, <4>1
        <3>3. CASE i <= h.headers
            BY <1>7, <3>3
        <3>4. CASE i > h.headers
            <4>1. hops[i].payload = F!Piece(i - h.headers, k)
                BY <1>1, <1>5, <1>7, <3>1, <3>4
            <4> QED
                BY <1>4, <3>2, <3>4, <4>1
        <3> QED
            BY <1>1, <1>5, <3>1, <3>3, <3>4
    <2>2. ASSUME NEW x \in 1..end PROVE \E i \in DOMAIN hops : x \in hops[i].payload
        <3>1. PICK j \in 1..t : x \in F!Piece(j, k)
            BY <1>4
        <3>2. j + h.headers \in 1..(h.headers + t) /\ j + h.headers > h.headers
              /\ (j + h.headers) - h.headers = j
            <4>1. h.headers \in Nat /\ t \in Nat
                BY <1>1, <1>5
            <4> QED
                BY <3>1, <4>1
        <3>3. j + h.headers \in DOMAIN hops
            BY <1>6, <3>2
        <3>4. hops[j + h.headers].payload = F!Piece(j, k)
            BY <1>1, <1>7, <3>2, <3>3
        <3> QED
            BY <3>1, <3>3, <3>4
    <2> QED
        BY <2>1, <2>2
<1>9. setting.grid = setting.hops =>
         \A o \in UNION {hops[i].offsets : i \in DOMAIN hops} : 2 * o < setting.grid /\ -(2 * o) <= setting.grid
    <2> SUFFICES ASSUME h.grid = h.hops, NEW i \in DOMAIN hops, NEW o \in hops[i].offsets
                 PROVE  2 * o < h.grid /\ -(2 * o) <= h.grid
        OBVIOUS
    <2>1. PICK c \in 0..(h.grid - 1) : o = c - h.hops \div 2
        BY <1>7 DEF F!Offset, F!Channels
    <2> DEFINE half == h.hops \div 2
    <2>2. half \in Nat /\ 2 * half <= h.hops /\ h.hops < 2 * half + 2
        BY <1>1
    <2>3. c \in Nat /\ c <= h.grid - 1 /\ o = c - half
        BY <1>1, <2>1
    <2> HIDE DEF half
    <2> DEFINE g == h.grid
    <2>4. g \in Nat /\ 2 * half <= g /\ g < 2 * half + 2 /\ c <= g - 1
        BY <1>1, <2>2, <2>3
    <2> HIDE DEF g
    <2>5. 2 * o < g /\ -(2 * o) <= g
        BY <2>2, <2>3, <2>4
    <2> QED
        BY <2>5 DEF g
<1> QED
    BY <1>6, <1>8, <1>9 DEF F!HopsHoldPayload, end

\* The initial states satisfy the unit's invariant.
LEMMA FramingStarts == F!Init => FramingInv
<1> SUFFICES ASSUME F!Init PROVE FramingInv
    OBVIOUS
<1>1. /\ size \in Payloads /\ cut = <<>> /\ taken = {} /\ refused = {}
      /\ setting = F!NoSetting /\ hops = <<>>
    BY DEF F!Init
<1>2. F!TypeOK
    BY <1>1 DEF F!TypeOK
<1> QED
    BY <1>1, <1>2 DEF FramingInv

\* Every step of the unit, and every one that leaves it alone, keeps its invariant.
LEMMA FramingStep == F!FramingAssumption /\ FramingInv /\ [F!Next]_framing => FramingInv'
<1> SUFFICES ASSUME F!FramingAssumption, FramingInv, [F!Next]_framing PROVE FramingInv'
    OBVIOUS
<1>0. /\ size \in Payloads /\ setting \in Hopping \cup {F!NoSetting}
      /\ taken \cap refused = {} /\ taken \cup refused \subseteq DOMAIN cut
      /\ cut = <<>> \/ \E start \in Starts, e \in BOOLEAN : cut = FramesOf(start, e)
      /\ \/ hops \in {<<>>, F!IndexError}
         \/ setting \in Hopping /\ setting.headers <= setting.hops /\ hops = HopsOf(setting)
    BY DEF FramingInv, F!TypeOK
<1>p. size' = size => \A start, e : FramesOf(start, e)' = FramesOf(start, e)
    BY DEF FramesOf, F!Frame, F!Pieces, F!Piece
<1>h. size' = size /\ setting' = setting => HopsOf(setting)' = HopsOf(setting)
    BY DEF HopsOf, F!Hop, F!Pieces, F!Piece
<1>1. ASSUME NEW start \in Starts, NEW e \in BOOLEAN, F!Cut(start, e) PROVE FramingInv'
    <2>1. cut = <<>> /\ cut' = FramesOf(start, e) /\ UNCHANGED <<size, taken, refused, setting, hops>>
        BY <1>1 DEF F!Cut, FramesOf
    <2>2. taken = {} /\ refused = {}
        BY <1>0, <2>1
    <2>3. F!TypeOK'
        BY <1>0, <2>1, <2>2 DEF F!TypeOK
    <2>4. FramesOf(start, e)' = FramesOf(start, e)
        BY <1>p, <2>1
    <2>5. cut' = FramesOf(start, e)'
        BY <2>1, <2>4
    <2> QED
        BY <1>0, <1>h, <2>1, <2>3, <2>5 DEF FramingInv
<1>2. ASSUME NEW i \in DOMAIN cut, NEW d \in BOOLEAN, F!Decode(i, d) PROVE FramingInv'
    <2>1. /\ i \in DOMAIN cut \ (taken \cup refused) /\ UNCHANGED <<size, cut, setting, hops>>
          /\ \/ refused' = refused \cup {i} /\ taken' = taken
             \/ taken' = taken \cup {i} /\ refused' = refused
        BY <1>2 DEF F!Decode
    <2>2. F!TypeOK'
        BY <1>0, <2>1 DEF F!TypeOK
    <2> QED
        BY <1>0, <1>p, <1>h, <2>1, <2>2 DEF FramingInv
<1>3. ASSUME NEW h \in Hopping, F!Spread(h) PROVE FramingInv'
    <2>1. /\ setting' = h /\ UNCHANGED <<size, cut, taken, refused>>
          /\ hops' = IF h.headers > h.hops THEN F!IndexError ELSE HopsOf(h)
        BY <1>3 DEF F!Spread, HopsOf
    <2>2. F!TypeOK'
        BY <1>0, <2>1 DEF F!TypeOK
    <2>3. HopsOf(h)' = HopsOf(h)
        BY <2>1 DEF HopsOf, F!Hop, F!Pieces, F!Piece
    <2>4. h.headers \in Nat /\ h.hops \in Nat
        BY DEF F!FramingAssumption
    <2>5. \/ hops' = F!IndexError
          \/ setting' \in Hopping /\ setting'.headers <= setting'.hops /\ hops' = HopsOf(h)'
        <3>1. CASE h.headers > h.hops
            BY <2>1, <3>1
        <3>2. CASE h.headers <= h.hops
            BY <2>1, <2>3, <2>4, <3>2
        <3> QED
            BY <2>4, <3>1, <3>2
    <2>6. HopsOf(h)' = HopsOf(setting)'
        BY <2>1
    <2>7. cut' = <<>> \/ \E start \in Starts, e \in BOOLEAN : cut' = FramesOf(start, e)'
        BY <1>0, <1>p, <2>1
    <2> QED
        BY <2>2, <2>5, <2>6, <2>7 DEF FramingInv
<1>4. CASE UNCHANGED framing
    BY <1>0, <1>4, <1>p, <1>h DEF framing, FramingInv, F!TypeOK
<1>5. CASE F!Next
    BY <1>1, <1>2, <1>3, <1>5 DEF F!Next
<1> QED
    BY <1>4, <1>5

\* The unit's invariant holds in the composition.
LEMMA FramingHolds == Spec => []FramingInv
<1>1. Init => FramingInv
    BY FramingUnit, FramingStarts
<1>2. FramingInv /\ [Next]_vars => FramingInv'
    BY FramingUnit, FramingStep
<1> QED
    BY <1>1, <1>2, PTL DEF Spec, vars

-----------------------------------------------------------------------------
(* Links: which satellite is selected.                                     *)

\* The unit's assumption holds, and the composition starts it and steps it as its
\* module says.
LEMMA LinksUnit ==
    /\ L!LinkAssumption
    /\ Init => L!Init
    /\ [Next]_vars => [L!Next]_links
BY UnitsAssumption DEF Init, Next, vars

\* A score other than 0 dates from when there was a margin; a satellite that
\* was not tried has learned nothing, one that only failed has learned it.
Learned ==
    /\ geometry \in [Satellites -> Nat] /\ score \in [Satellites -> Int]
    /\ learned \in [Satellites -> -1..3]
    /\ attempts \in [Satellites -> Nat] /\ successes \in [Satellites -> Nat]
    /\ \A s \in Satellites :
          /\ score[s] # 0 => s \in scoredOn
          /\ attempts[s] = 0 => learned[s] = 0
          /\ attempts[s] > 0 /\ successes[s] = 0 => learned[s] = -1

\* The inductive invariant of the links.
LinksInv == L!TypeOK /\ Learned /\ L!SelectionSound

\* The initial states satisfy the unit's invariant.
LEMMA LinksStarts == L!LinkAssumption /\ L!Init => LinksInv
<1> SUFFICES ASSUME L!LinkAssumption, L!Init PROVE LinksInv
    OBVIOUS
<1>1. L!TypeOK
    <2>1. uplink \subseteq Satellites /\ viable = Satellites /\ flagged = {} /\ scoredOn = {}
        BY DEF L!Init
    <2>2. \A s \in Satellites : successes[s] = 0 /\ attempts[s] = 0 /\ learned[s] = 0
        BY DEF L!Init
    <2>3. 0 \in 0..0 /\ 0 \in -1..3
        OBVIOUS
    <2>4. \A s \in Satellites : successes[s] \in 0..attempts[s] /\ learned[s] \in -1..3
        BY <2>2, <2>3
    <2>5. /\ uplink \subseteq Satellites /\ viable \subseteq Satellites
          /\ flagged \subseteq Satellites /\ scoredOn \subseteq uplink
        BY <2>1
    <2> QED
        BY <2>4, <2>5 DEF L!TypeOK
<1>2. Learned
    <2>1. geometry \in [Satellites -> Nat] /\ score \in [Satellites -> Int]
        <3>1. Geometries \subseteq Nat /\ geometry \in [Satellites -> Geometries]
              /\ score = [s \in Satellites |-> 0]
            BY DEF L!Init, L!LinkAssumption
        <3>2. \A s \in Satellites : geometry[s] \in Nat
            BY <3>1
        <3> QED
            BY <3>1, <3>2
    <2>2. learned \in [Satellites -> -1..3]
        BY DEF L!Init
    <2>3. attempts \in [Satellites -> Nat] /\ successes \in [Satellites -> Nat]
        BY DEF L!Init
    <2>4. \A s \in Satellites : score[s] = 0 /\ attempts[s] = 0 /\ learned[s] = 0
        BY DEF L!Init
    <2> QED
        BY <2>1, <2>2, <2>3, <2>4 DEF Learned
<1>3. L!SelectionSound
    BY DEF L!Init, L!SelectionSound
<1> QED
    BY <1>1, <1>2, <1>3 DEF LinksInv

\* A satellite selected is not the value that stands for none.
LEMMA LinksSelected == \A s : [sat |-> s] # L!NoOne
<1> SUFFICES ASSUME NEW s, [sat |-> s] = L!NoOne PROVE FALSE
    OBVIOUS
<1>1. DOMAIN [sat |-> s] = {"sat"} /\ DOMAIN L!NoOne = {"none"}
    BY DEF L!NoOne
<1> QED
    BY <1>1

\* Every step of the unit, and every one that leaves it alone, keeps its invariant.
LEMMA LinksStep == L!LinkAssumption /\ LinksInv /\ [L!Next]_links => LinksInv'
<1> SUFFICES ASSUME L!LinkAssumption, LinksInv, [L!Next]_links PROVE LinksInv'
    OBVIOUS
<1> USE DEF LinksInv, L!TypeOK, Learned
<1>1. ASSUME NEW s \in Satellites, L!Move(s) PROVE LinksInv'
    BY <1>1 DEF L!Move, L!SelectionSound
<1>2. CASE L!Renew
    BY <1>2 DEF L!Renew, L!SelectionSound
<1>3. ASSUME NEW candidates \in SUBSET Satellites \ {{}}, NEW explores \in BOOLEAN,
             L!SelectBest(candidates, explores)
      PROVE  LinksInv'
    <2> DEFINE scores == [s \in Satellites |-> IF s \in candidates THEN L!Score(s) ELSE score[s]]
               positive == {s \in candidates : scores[s] > 0}
               best == {s \in positive : \A t \in positive : scores[t] <= scores[s]}
    <2>1. /\ score' = scores
          /\ scoredOn' = (scoredOn \cup (candidates \cap viable)) \cap uplink
          /\ UNCHANGED <<uplink, viable, geometry, learned, attempts, successes>>
        BY <1>3 DEF L!SelectBest
    <2>2. \/ /\ positive = {}
             /\ choice' = [of |-> candidates, best |-> ~explores, is |-> L!NoOne] /\ flagged' = flagged
          \/ \E s \in positive : /\ choice' = [of |-> candidates, best |-> ~explores, is |-> [sat |-> s]]
                                 /\ flagged' = flagged \cup {s}
                                 /\ ~explores => s \in best
        BY <1>3 DEF L!SelectBest
    <2>3. \A s \in Satellites : /\ L!SuccessRate(s) \in {0, 1, 2}
                                /\ L!Weighted(s) \in Int /\ L!Score(s) \in Int
        BY DEF L!SuccessRate, L!Weighted, L!Score
    <2>4. scores \in [Satellites -> Int]
        BY <2>3
    <2>5. \A s \in candidates : scores[s] = L!Score(s) /\ s \in Satellites
        OBVIOUS
    <2>6. \A s \in Satellites : scores[s] # 0 => s \in scoredOn'
        BY <2>1 DEF L!Score
    <2>7. \A s \in candidates \cap uplink \cap viable : scores[s] = L!Weighted(s)
        BY <2>5 DEF L!Score
    <2>8. \A s \in candidates : scores[s] > 0 => s \in uplink
        BY <2>5 DEF L!Score
    <2> HIDE DEF scores
    <2>9. L!TypeOK' /\ Learned'
        BY <2>1, <2>2, <2>4, <2>6
    <2>10. \A s : L!Weighted(s)' = L!Weighted(s)
        BY <2>1 DEF L!Weighted, L!SuccessRate
    <2>11. CASE positive = {} /\ choice' = [of |-> candidates, best |-> ~explores, is |-> L!NoOne]
        <3>1. choice'.is = L!NoOne /\ choice'.of = candidates
            BY <2>11
        <3>2. ASSUME NEW s \in candidates \cap uplink \cap viable
              PROVE  geometry[s] = 0 /\ learned[s] < 0
            <4>1. s \in Satellites /\ ~(scores[s] > 0) /\ scores[s] = L!Weighted(s)
                BY <2>11, <2>7
            <4>2. geometry[s] \in Nat /\ learned[s] \in -1..3 /\ L!SuccessRate(s) \in {0, 1, 2}
                BY <2>3, <4>1
            <4>3. 2 * geometry[s] + L!SuccessRate(s) + learned[s] <= 0
                BY <2>3, <4>1, <4>2 DEF L!Weighted
            <4>4. L!SuccessRate(s) = 0 => learned[s] = -1
                BY <4>1, <4>2 DEF L!SuccessRate
            <4> QED
                BY <4>2, <4>3, <4>4
        <3> QED
            BY <2>1, <2>9, <3>1, <3>2 DEF L!SelectionSound, L!Reachable
    <2>12. ASSUME NEW s \in positive, ~explores => s \in best,
                  choice' = [of |-> candidates, best |-> ~explores, is |-> [sat |-> s]]
           PROVE  LinksInv'
        <3>1. choice'.is # L!NoOne /\ choice'.is.sat = s /\ choice'.of = candidates
              /\ choice'.best = ~explores
            BY <2>12, LinksSelected
        <3>2. s \in candidates /\ s \in uplink /\ scores[s] > 0 /\ s \in Satellites
            BY <2>8
        <3>3. s \in scoredOn'
            BY <2>6, <3>2
        <3>4. ~explores => \A t \in candidates \cap uplink \cap viable : L!Weighted(t) <= scores[s]
            BY <2>4, <2>7, <2>12, <3>2
        <3>5. L!SelectionSound'
            BY <2>1, <2>10, <3>1, <3>2, <3>3, <3>4 DEF L!SelectionSound, L!Reachable
        <3> QED
            BY <2>9, <3>5
    <2> QED
        BY <2>2, <2>11, <2>12
<1>4. ASSUME NEW s \in Satellites, NEW ok \in BOOLEAN, NEW fast \in BOOLEAN, L!ReportOutcome(s, ok, fast)
      PROVE  LinksInv'
    <2>1. /\ attempts' = [attempts EXCEPT ![s] = @ + 1]
          /\ successes' = IF ok THEN [successes EXCEPT ![s] = @ + 1] ELSE successes
          /\ learned' = [learned EXCEPT ![s] = L!Towards(@, L!Reward(ok, fast))]
          /\ choice' = L!NoOne
          /\ UNCHANGED <<uplink, viable, geometry, score, flagged, scoredOn>>
        BY <1>4 DEF L!ReportOutcome, L!Add
    <2>2. L!Towards(learned[s], L!Reward(ok, fast)) \in -1..3
        BY DEF L!Towards, L!Reward
    <2>3. ~ok /\ learned[s] \in {-1, 0} => L!Towards(learned[s], L!Reward(ok, fast)) = -1
        BY DEF L!Towards, L!Reward
    <2>4. learned' \in [Satellites -> -1..3] /\ attempts' \in [Satellites -> Nat]
          /\ successes' \in [Satellites -> Nat]
        BY <2>1, <2>2
    <2>5. ASSUME NEW t \in Satellites
          PROVE  /\ attempts'[t] = 0 => learned'[t] = 0
                 /\ attempts'[t] > 0 /\ successes'[t] = 0 => learned'[t] = -1
                 /\ successes'[t] \in 0..attempts'[t]
        <3>1. CASE t = s
            <4>1. attempts'[s] = attempts[s] + 1 /\ learned'[s] = L!Towards(learned[s], L!Reward(ok, fast))
                  /\ successes'[s] = IF ok THEN successes[s] + 1 ELSE successes[s]
                BY <2>1
            <4> QED
                BY <2>2, <2>3, <3>1, <4>1
        <3>2. CASE t # s
            BY <2>1, <3>2
        <3> QED
            BY <3>1, <3>2
    <2> QED
        BY <2>1, <2>4, <2>5 DEF L!SelectionSound
<1>5. CASE UNCHANGED links
    BY <1>5 DEF links, L!SelectionSound, L!Reachable, L!Weighted, L!SuccessRate
<1> QED
    BY <1>1, <1>2, <1>3, <1>4, <1>5 DEF L!Next

\* The unit's invariant holds in the composition.
LEMMA LinksHolds == Spec => []LinksInv
<1>1. Init => LinksInv
    BY LinksUnit, LinksStarts
<1>2. LinksInv /\ [Next]_vars => LinksInv'
    BY LinksUnit, LinksStep
<1> QED
    BY <1>1, <1>2, PTL DEF Spec, vars

-----------------------------------------------------------------------------
(* Ground station: one receiver, and the streams of its clients.           *)

\* The unit's assumption holds, and the composition starts it and steps it as its
\* module says.
LEMMA StationUnit ==
    /\ G!StationAssumption
    /\ Init => G!Init
    /\ [Next]_vars => [G!Next]_station
BY UnitsAssumption DEF Init, Next, vars

\* A client without a stream was given nothing; packets have numbers of their
\* own; and the waterfall that tuned the receiver last is where it asked.
Streams == [kind : {"packets", "waterfall"}, filter : SUBSET Frequencies, left : Int]
Given ==
    /\ stream \in [Clients -> {G!None} \cup Streams]
    /\ DOMAIN yielded = Clients /\ DOMAIN frames = Clients
    /\ received \in Nat /\ errors \in Nat
    /\ \A c \in Clients :
          /\ stream[c] = G!None => yielded[c] = {} /\ frames[c] = G!None
          /\ \A p \in yielded[c] : p.n \in 1..total
          /\ stream[c] # G!None /\ stream[c].kind = "waterfall" /\ tuner = [waterfall |-> c] =>
                frequency \in stream[c].filter

\* The numbers of the last n packets that the log has room for.
LogOf(n, m) == [i \in 1..m |-> n - m + i]
Newest(n) == LogOf(n, G!Smaller(n, LogMax))
\* What the clients are promised, in the parts that a step disturbs.
Shared ==
    /\ \A c, d \in Clients : \A p \in yielded[c], q \in yielded[d] : p.n = q.n => c = d /\ p = q
    /\ \A c \in Clients : yielded[c] # {} /\ stream[c].filter # {} =>
          \A p \in yielded[c] : p.at \in stream[c].filter
    /\ \A c \in Clients : frames[c] # G!None /\ frames[c].own =>
          frames[c].centre \in frames[c].asked

\* The inductive invariant of the ground station.
StationInv == G!TypeOK /\ Given /\ packetLog = Newest(total) /\ Shared

\* The invariant is what the clients are promised.
LEMMA StationShares == StationInv => G!SharedSoundly
BY DEF StationInv, Newest, LogOf, Shared, G!SharedSoundly

\* An angle clamped is one the rotator has.
LEMMA StationClamped == \A x \in Int : G!Clamped(x, 360) \in 0..360 /\ G!Clamped(x, 90) \in 0..90
BY DEF G!Clamped, G!Smaller

\* A stream, and who tuned the receiver, are not the value that stands for none.
LEMMA StationRecords ==
    /\ \A c : [waterfall |-> c] # G!None
    /\ \A c, d : [waterfall |-> c] = [waterfall |-> d] => c = d
    /\ \A s \in Streams : s # G!None
<1>1. DOMAIN G!None = {"none"}
    BY DEF G!None
<1>2. \A c : DOMAIN [waterfall |-> c] = {"waterfall"} /\ [waterfall |-> c].waterfall = c
    OBVIOUS
<1>3. \A s \in Streams : DOMAIN s = {"kind", "filter", "left"}
    BY DEF Streams
<1> QED
    BY <1>1, <1>2, <1>3

\* The initial states satisfy the unit's invariant.
LEMMA StationStarts == G!StationAssumption /\ G!Init => StationInv
<1> SUFFICES ASSUME G!StationAssumption, G!Init PROVE StationInv
    OBVIOUS
<1>0. {Steps, HistoryMax, LogMax, MaxPackets} \subseteq Nat
    BY DEF G!StationAssumption
<1>1. G!TypeOK
    BY <1>0 DEF G!Init, G!TypeOK
<1>2. Given
    BY DEF G!Init, Given
<1>3. packetLog = Newest(total) /\ Shared
    BY <1>0 DEF G!Init, Newest, LogOf, Shared, G!Smaller
<1> QED
    BY <1>1, <1>2, <1>3 DEF StationInv

\* The log of one packet more.
LEMMA StationLog ==
    ASSUME G!StationAssumption, NEW n \in Nat
    PROVE  G!Last(Append(Newest(n), n + 1), LogMax) = Newest(n + 1)
<1> DEFINE k == G!Smaller(n, LogMax)
           longer == Append(Newest(n), n + 1)
<1>1. LogMax \in Nat /\ k \in Nat /\ k <= LogMax /\ k <= n
    BY DEF G!StationAssumption, G!Smaller
<1>2. Newest(n) \in Seq(Nat) /\ Len(Newest(n)) = k
      /\ \A i \in 1..k : Newest(n)[i] = n - k + i
    BY <1>1 DEF Newest, LogOf
<1>3. /\ longer \in Seq(Nat) /\ Len(longer) = k + 1
      /\ \A i \in 1..(k + 1) : longer[i] = n - k + i
    BY <1>1, <1>2
<1> HIDE DEF longer
<1>4. CASE k < LogMax
    <2>1. k = n /\ G!Smaller(n + 1, LogMax) = k + 1
        BY <1>1, <1>4 DEF G!Smaller
    <2>2. G!Last(longer, LogMax) = longer
        <3>1. Len(longer) <= LogMax
            BY <1>1, <1>3, <1>4
        <3> QED
            BY <3>1 DEF G!Last
    <2> QED
        BY <1>1, <1>3, <2>1, <2>2 DEF longer, Newest, LogOf
<1>5. CASE k = LogMax
    <2>1. G!Smaller(n + 1, LogMax) = k /\ Len(longer) = LogMax + 1
        BY <1>1, <1>3, <1>5 DEF G!Smaller
    <2>2. G!Last(longer, LogMax) = SubSeq(longer, 2, k + 1)
        BY <1>1, <1>5, <2>1 DEF G!Last
    <2>3. SubSeq(longer, 2, k + 1) = [i \in 1..k |-> longer[i + 1]]
        BY <1>1, <1>3
    <2>4. \A i \in 1..k : longer[i + 1] = (n + 1) - k + i
        BY <1>1, <1>3
    <2>5. Newest(n + 1) = [i \in 1..k |-> (n + 1) - k + i]
        <3>1. Newest(n + 1) = LogOf(n + 1, k)
            BY <2>1 DEF Newest
        <3> QED
            BY <3>1 DEF LogOf
    <2>6. SubSeq(longer, 2, k + 1) = [i \in 1..k |-> (n + 1) - k + i]
        BY <2>3, <2>4
    <2> QED
        BY <2>2, <2>5, <2>6 DEF longer
<1> QED
    BY <1>1, <1>4, <1>5

\* Every step of the unit, and every one that leaves it alone, keeps its invariant.
LEMMA StationStep == G!StationAssumption /\ StationInv /\ [G!Next]_station => StationInv'
<1> SUFFICES ASSUME G!StationAssumption, StationInv, [G!Next]_station PROVE StationInv'
    OBVIOUS
<1>0. {Steps, HistoryMax, LogMax, MaxPackets} \subseteq Nat /\ Angles \subseteq Int \X Int
    BY DEF G!StationAssumption
<1> USE <1>0 DEF StationInv, G!TypeOK, Given, Shared
<1>1. CASE G!GetTelemetry
    BY <1>1 DEF G!GetTelemetry, G!UpdateTelemetry, G!Smaller
<1>2. ASSUME NEW f \in Frequencies, G!SetFrequency(f) PROVE StationInv'
    BY <1>2, StationRecords DEF G!SetFrequency
<1>3. ASSUME NEW f \in Frequencies, NEW c \in Clients, G!StreamWaterfall(c, f) PROVE StationInv'
    <2> DEFINE s == [kind |-> "waterfall", filter |-> {f}, left |-> Steps]
    <2>1. /\ stream[c] = G!None /\ stream' = [stream EXCEPT ![c] = s]
          /\ frequency' = f /\ tuner' = [waterfall |-> c]
          /\ UNCHANGED <<samples, received, errors, total, packetLog, yielded, frames, antenna>>
        BY <1>3 DEF G!StreamWaterfall
    <2>2. s \in Streams /\ s.filter = {f} /\ s # G!None
        BY StationRecords DEF Streams
    <2> HIDE DEF s
    <2>3. Given'
        BY <2>1, <2>2, StationRecords
    <2>4. Shared' /\ packetLog' = Newest(total')
        BY <2>1, <2>2
    <2> QED
        BY <2>1, <2>3, <2>4
<1>4. ASSUME NEW c \in Clients, NEW filter \in SUBSET Frequencies, G!StreamPackets(c, filter)
      PROVE  StationInv'
    <2> DEFINE s == [kind |-> "packets", filter |-> filter, left |-> Steps]
    <2>1. /\ stream[c] = G!None /\ stream' = [stream EXCEPT ![c] = s]
          /\ UNCHANGED <<frequency, samples, received, errors, total, packetLog, yielded, frames, tuner, antenna>>
        BY <1>4 DEF G!StreamPackets
    <2>2. s \in Streams /\ s.kind = "packets" /\ s # G!None
        BY StationRecords DEF Streams
    <2> HIDE DEF s
    <2> QED
        BY <2>1, <2>2
<1>5. ASSUME NEW c \in Clients, G!PacketTurn(c) PROVE StationInv'
    <2> DEFINE s == [stream[c] EXCEPT !.left = @ - 1]
    <2>1. /\ stream[c] # G!None /\ stream' = [stream EXCEPT ![c] = s]
          /\ samples' \in 0..HistoryMax
          /\ UNCHANGED <<frequency, frames, tuner, antenna>>
        BY <1>5 DEF G!PacketTurn, G!Turn, G!Advanced, G!UpdateTelemetry, G!Smaller
    <2>2. s \in Streams /\ s # G!None /\ s.filter = stream[c].filter /\ s.kind = stream[c].kind
        <3>1. stream[c] \in Streams
            BY <2>1
        <3>2. s \in Streams /\ s.filter = stream[c].filter /\ s.kind = stream[c].kind
            BY <3>1 DEF Streams
        <3> QED
            BY <3>2, StationRecords
    <2> HIDE DEF s
    <2>3. CASE UNCHANGED <<total, received, errors, packetLog, yielded>>
        BY <2>1, <2>2, <2>3
    <2>4. ASSUME NEW valid \in BOOLEAN, G!Receive(valid),
                 yielded' = IF G!Wanted(c) THEN [yielded EXCEPT ![c] = @ \cup {G!Shown(c)}] ELSE yielded
          PROVE  StationInv'
        <3>1. /\ total' = total + 1 /\ total < MaxPackets /\ received' \in Nat /\ errors' \in Nat
              /\ total' = received' + errors'
              /\ packetLog' = G!Last(Append(packetLog, total + 1), LogMax)
            BY <2>4 DEF G!Receive
        <3>2. packetLog' = Newest(total')
            BY <3>1, StationLog
        <3>3. G!Shown(c).n = total + 1 /\ G!Shown(c).at = frequency
            BY DEF G!Shown
        <3>4. DOMAIN yielded' = Clients /\ \A d \in Clients \ {c} : yielded'[d] = yielded[d]
            BY <2>4
        <3>5. \A p \in yielded'[c] : p \in yielded[c] \/ (p = G!Shown(c) /\ G!Wanted(c))
            BY <2>4
        <3>6. \A d \in Clients : \A p \in yielded'[d] : p.n \in 1..total'
            BY <3>1, <3>3, <3>4, <3>5
        <3>7. G!TypeOK' /\ Given'
            <4>1. G!TypeOK'
                <5>1. total' \in 0..MaxPackets
                    BY <1>0, <3>1
                <5> QED
                    BY <2>1, <3>1, <5>1
            <4>2. stream' \in [Clients -> {G!None} \cup Streams]
                BY <2>1, <2>2
            <4>3. \A d \in Clients : stream'[d] = G!None => yielded'[d] = {} /\ frames'[d] = G!None
                BY <2>1, <2>2, <3>4
            <4>4. \A d \in Clients :
                     stream'[d] # G!None /\ stream'[d].kind = "waterfall" /\ tuner' = [waterfall |-> d] =>
                        frequency' \in stream'[d].filter
                BY <2>1, <2>2
            <4> QED
                BY <2>1, <3>1, <3>4, <3>6, <4>1, <4>2, <4>3, <4>4
        <3>8. \A d, e \in Clients : \A p \in yielded'[d], q \in yielded'[e] : p.n = q.n => d = e /\ p = q
            <4>1. \A d \in Clients : \A p \in yielded[d] : p.n # total + 1
                OBVIOUS
            <4> QED
                BY <3>3, <3>4, <3>5, <4>1
        <3>9. \A d \in Clients : yielded'[d] # {} /\ stream'[d].filter # {} =>
                  \A p \in yielded'[d] : p.at \in stream'[d].filter
            <4>1. \A p \in yielded'[c] : stream'[c].filter # {} => p.at \in stream'[c].filter
                BY <2>1, <2>2, <3>3, <3>5 DEF G!Wanted
            <4>2. \A d \in Clients \ {c} : stream'[d] = stream[d]
                BY <2>1
            <4> QED
                BY <3>4, <4>1, <4>2
        <3> QED
            BY <2>1, <3>2, <3>7, <3>8, <3>9
    <2> QED
        BY <1>5, <2>3, <2>4 DEF G!PacketTurn
<1>6. ASSUME NEW c \in Clients, G!WaterfallTurn(c) PROVE StationInv'
    <2> DEFINE s == [stream[c] EXCEPT !.left = @ - 1]
               f == [asked |-> stream[c].filter, centre |-> frequency, own |-> tuner = [waterfall |-> c]]
    <2>1. /\ stream[c] # G!None /\ stream[c].kind = "waterfall" /\ stream' = [stream EXCEPT ![c] = s]
          /\ frames' = [frames EXCEPT ![c] = f]
          /\ UNCHANGED <<frequency, samples, received, errors, total, packetLog, yielded, tuner, antenna>>
        BY <1>6 DEF G!WaterfallTurn, G!Turn, G!Advanced
    <2>2. s \in Streams /\ s # G!None /\ s.filter = stream[c].filter /\ s.kind = stream[c].kind
        <3>1. stream[c] \in Streams
            BY <2>1
        <3>2. s \in Streams /\ s.filter = stream[c].filter /\ s.kind = stream[c].kind
            BY <3>1 DEF Streams
        <3> QED
            BY <3>2, StationRecords
    <2>3. f.own => f.centre \in f.asked
        BY <2>1
    <2> HIDE DEF s, f
    <2> QED
        BY <2>1, <2>2, <2>3
<1>7. ASSUME NEW c \in Clients, G!Close(c) PROVE StationInv'
    <2>1. /\ stream' = [stream EXCEPT ![c] = G!None]
          /\ yielded' = [yielded EXCEPT ![c] = {}] /\ frames' = [frames EXCEPT ![c] = G!None]
          /\ UNCHANGED <<frequency, samples, received, errors, total, packetLog, tuner, antenna>>
        BY <1>7 DEF G!Close
    <2>2. G!TypeOK'
        BY <2>1
    <2>3. \A d \in Clients : yielded'[d] \subseteq yielded[d]
        BY <2>1
    <2>4. Given'
        BY <2>1, <2>3
    <2>5. /\ packetLog' = Newest(total')
          /\ \A d, e \in Clients : \A p \in yielded'[d], q \in yielded'[e] : p.n = q.n => d = e /\ p = q
        BY <2>1, <2>3
    <2>6. \A d \in Clients : yielded'[d] # {} => d # c
        BY <2>1
    <2>7. \A d \in Clients : yielded'[d] # {} /\ stream'[d].filter # {} =>
             \A p \in yielded'[d] : p.at \in stream'[d].filter
        BY <2>1, <2>3, <2>6
    <2>8. \A d \in Clients : frames'[d] # G!None => d # c
        BY <2>1
    <2>9. \A d \in Clients : frames'[d] # G!None /\ frames'[d].own =>
             frames'[d].centre \in frames'[d].asked
        BY <2>1, <2>8
    <2> QED
        BY <2>2, <2>4, <2>5, <2>7, <2>9
<1>8. ASSUME NEW a \in Angles, G!SetAntenna(a[1], a[2]) PROVE StationInv'
    <2>1. a[1] \in Int /\ a[2] \in Int
        BY <1>0
    <2>2. antenna' = [azimuth |-> G!Clamped(a[1], 360), elevation |-> G!Clamped(a[2], 90)]
        BY <1>8 DEF G!SetAntenna
    <2>3. antenna' \in [azimuth : 0..360, elevation : 0..90]
        <3> HIDE <1>0 DEF StationInv, G!TypeOK, Given, Shared
        <3>1. G!Clamped(a[1], 360) \in 0..360 /\ G!Clamped(a[2], 90) \in 0..90
            BY <2>1, StationClamped
        <3> QED
            BY <2>2, <3>1
    <2>4. UNCHANGED <<frequency, samples, received, errors, total, packetLog, stream, yielded, frames, tuner>>
        BY <1>8 DEF G!SetAntenna
    <2>5. G!TypeOK'
        BY <2>3, <2>4
    <2>6. Given' /\ Shared' /\ packetLog' = Newest(total')
        BY <2>4
    <2> QED
        BY <2>5, <2>6
<1>9. CASE UNCHANGED station
    BY <1>9 DEF station
<1> QED
    BY <1>1, <1>2, <1>3, <1>4, <1>5, <1>6, <1>7, <1>8, <1>9 DEF G!Next

\* The unit's invariant holds in the composition.
LEMMA StationHolds == Spec => []StationInv
<1>1. Init => StationInv
    BY StationUnit, StationStarts
<1>2. StationInv /\ [Next]_vars => StationInv'
    BY StationUnit, StationStep
<1> QED
    BY <1>1, <1>2, PTL DEF Spec, vars

-----------------------------------------------------------------------------
(* Pass: bundles transmitted within the duty cycle.                        *)

\* The unit's assumption holds, and the composition starts it and steps it as its
\* module says.
LEMMA PassUnit ==
    /\ T!PassAssumption
    /\ Init => T!Init
    /\ [Next]_vars => [T!Next]_pass
BY UnitsAssumption DEF Init, Next, vars

\* The instance counts as the library does.
LEMMA PassCounts == \A X : T!Cardinality(X) = Cardinality(X)
BY DEF Cardinality, T!Cardinality

\* The airtime counted by the instance is the airtime of the module Airtime.
LEMMA PassAirtime ==
    ASSUME NEW log, NEW each, NEW most
    PROVE  T!AirtimeOf(log, each, most) = AirtimeOf(log, each, most)
<1>1. T!Units(log, each, most) = Units(log, each, most)
    BY DEF T!Units, Units
<1> QED
    BY <1>1, PassCounts DEF T!AirtimeOf, AirtimeOf

\* The airtime of a log, by what was recorded.
Recorded(log) == AirtimeOf(log, [e \in log |-> e.recorded], MaxAir)

\* Nothing recorded is no airtime.
LEMMA RecordedEmpty == MaxAir \in Nat => Recorded({}) = 0
BY AirtimeEmpty DEF Recorded

\* What fewer entries come to, and one more.
LEMMA RecordedMore ==
    ASSUME MaxAir \in Nat, NEW log, IsFiniteSet(log), NEW few \in SUBSET log, NEW e, e.recorded \in Nat
    PROVE  /\ Recorded(few) \in Nat /\ Recorded(log) \in Nat /\ Recorded(few \cup {e}) \in Nat
           /\ Recorded(few) <= Recorded(log)
           /\ Recorded(few \cup {e}) <= Recorded(log) + e.recorded
<1> DEFINE more == few \cup {e}
           each == [x \in log \cup {e} |-> x.recorded]
<1>1. IsFiniteSet(few) /\ IsFiniteSet(more)
    BY FS_Subset, FS_AddElement
<1>2. ASSUME NEW part \in SUBSET (log \cup {e})
      PROVE  Recorded(part) = AirtimeOf(part, each, MaxAir)
    <2>1. \A u \in part \X (1..MaxAir) : [x \in part |-> x.recorded][u[1]] = each[u[1]]
        OBVIOUS
    <2>2. Units(part, [x \in part |-> x.recorded], MaxAir) = Units(part, each, MaxAir)
        BY <2>1 DEF Units
    <2> QED
        BY <2>2 DEF Recorded, AirtimeOf
<1>3. /\ Recorded(few) = AirtimeOf(few, each, MaxAir) /\ Recorded(log) = AirtimeOf(log, each, MaxAir)
      /\ Recorded(more) = AirtimeOf(more, each, MaxAir)
    BY <1>2
<1>4. each[e] = e.recorded /\ each[e] \in Nat
    OBVIOUS
<1> HIDE DEF each
<1>5. /\ AirtimeOf(few, each, MaxAir) \in Nat /\ AirtimeOf(log, each, MaxAir) \in Nat
      /\ AirtimeOf(more, each, MaxAir) \in Nat
    BY <1>1, AirtimeFinite
<1>6. AirtimeOf(few, each, MaxAir) <= AirtimeOf(log, each, MaxAir)
    BY AirtimeMonotone
<1>7. AirtimeOf(more, each, MaxAir) <= AirtimeOf(few, each, MaxAir) + each[e]
    BY <1>1, <1>4, AirtimeAdd
<1> QED
    BY <1>3, <1>4, <1>5, <1>6, <1>7

\* The bundle that is up next is one of the pass.
LEMMA NextUp ==
    ASSUME T!PassAssumption, bundles \subseteq Bundles, bundles # {}
    PROVE  T!Upcoming \in bundles
<1>1. bundles \in SUBSET Nat
    BY DEF T!PassAssumption
<1>2. \E b \in bundles : \A c \in bundles : b <= c
    BY <1>1, LeastNatural
<1> QED
    BY <1>2 DEF T!Upcoming

\* Why a pass stops, and what is reported of it.
StopReasons == {"", "no_pending_bundles", "all_bundles_sent", "pass_ended", "duty_cycle_exceeded"}
PassReports == [attempted : Nat, sent : Nat, failed : Nat, stop : StopReasons]

\* What a step counts leaves a report a report.
LEMMA CountedUp ==
    ASSUME NEW p \in PassReports
    PROVE  /\ p.attempted \in Nat /\ p.sent \in Nat /\ p.failed \in Nat
           /\ [p EXCEPT !.attempted = @ + 1] \in PassReports /\ [p EXCEPT !.sent = @ + 1] \in PassReports
           /\ [p EXCEPT !.failed = @ + 1] \in PassReports
           /\ [p EXCEPT !.attempted = @ + 1, !.failed = @ + 1] \in PassReports
           /\ [p EXCEPT !.sent = @ + 1, !.failed = @ + 1] \in PassReports
<1>1. p.attempted \in Nat /\ p.sent \in Nat /\ p.failed \in Nat
    BY DEF PassReports
<1>2. p.attempted + 1 \in Nat /\ p.sent + 1 \in Nat /\ p.failed + 1 \in Nat
    BY <1>1
<1>3. \A n \in Nat, m \in Nat :
         /\ [p EXCEPT !.attempted = n] \in PassReports /\ [p EXCEPT !.sent = n] \in PassReports
         /\ [p EXCEPT !.failed = n] \in PassReports
         /\ [p EXCEPT !.attempted = n, !.failed = m] \in PassReports
         /\ [p EXCEPT !.sent = n, !.failed = m] \in PassReports
    BY DEF PassReports
<1> QED
    BY <1>1, <1>2, <1>3

\* The log has room for the transmission under way, for as long as it is; a
\* simulated radio records what was on the air.
DutyKept ==
    /\ IsFiniteSet(txLog) /\ \A e \in txLog : e.recorded \in Nat /\ (~hardware => e.real = e.recorded)
    /\ Recorded(txLog) <= Budget
    /\ stage = "airing" =>
          /\ Recorded(txLog) + T!Estimate(T!Upcoming) <= Budget
          /\ airing.air \in 1..T!Estimate(T!Upcoming)

\* A bundle is tried once in a pass, and what became of it is counted, the one
\* under way excepted.
Settled == IF stage = "airing" THEN tried \ {T!Upcoming} ELSE tried
Tallied ==
    /\ passReport \in PassReports /\ slips \in Nat /\ IsFiniteSet(tried)
    /\ bundles \subseteq Bundles /\ bundles \cap Settled = {}
    /\ stage = "airing" => bundles # {} /\ T!Upcoming \in tried
    /\ passReport.sent + passReport.failed >= Cardinality(Settled)
    /\ passReport.sent + passReport.failed <= Cardinality(Settled) + slips
    /\ Settled \cap stored = {} \/ passReport.failed > 0
    /\ passReport.stop = "all_bundles_sent" => stage = "idle"
    /\ stage = "airing" => tuned = airing.offset \/ airing.offset = 0

\* The inductive invariant of the pass.
PassInv == T!TypeOK /\ DutyKept /\ Tallied /\ T!ReportTrue

\* A log within the budget keeps the duty cycle.
LEMMA PassDuty == T!PassAssumption /\ PassInv => T!WithinDuty
<1> SUFFICES ASSUME T!PassAssumption, PassInv PROVE T!WithinDuty
    OBVIOUS
<1>1. T!Used = Recorded(txLog)
    BY PassAirtime DEF T!Used, Recorded
<1>2. ~hardware => T!OnAirNow = Recorded(txLog)
    <2> SUFFICES ASSUME ~hardware PROVE T!OnAirNow = Recorded(txLog)
        OBVIOUS
    <2>1. [e \in txLog |-> e.real] = [e \in txLog |-> e.recorded]
        BY DEF PassInv, DutyKept
    <2> QED
        BY <2>1, PassAirtime DEF T!OnAirNow, Recorded
<1> QED
    BY <1>1, <1>2 DEF T!WithinDuty, PassInv, DutyKept

\* The initial states satisfy the unit's invariant.
LEMMA PassStarts == T!PassAssumption /\ T!Init => PassInv
<1> SUFFICES ASSUME T!PassAssumption, T!Init PROVE PassInv
    OBVIOUS
<1>1. /\ hardware \in BOOLEAN /\ ready = TRUE /\ adaptive = FALSE /\ sf = 12 /\ tuned = 0
      /\ bundles = {} /\ stored = Bundles /\ stage = "idle" /\ txLog = {} /\ passReport = T!NoReport
      /\ tried = {} /\ onAir = {} /\ slips = 0
    BY DEF T!Init
<1>2. Cardinality({}) = 0 /\ IsFiniteSet({})
    BY FS_EmptySet
<1>3. /\ passReport.attempted = 0 /\ passReport.sent = 0 /\ passReport.failed = 0 /\ passReport.stop = ""
      /\ passReport \in PassReports
    BY <1>1 DEF T!NoReport, PassReports, StopReasons
<1>4. T!TypeOK
    <2>1. {hardware, ready, adaptive} \subseteq BOOLEAN
        BY <1>1, Zenon
    <2>2. sf \in DOMAIN AirtimeAt
        BY <1>1 DEF T!PassAssumption
    <2>3. T!Cardinality(tried) = 0
        BY <1>1, <1>2, PassCounts, Zenon
    <2> QED
        BY <1>1, <1>3, <2>1, <2>2, <2>3 DEF T!TypeOK
<1>5. DutyKept
    BY <1>1, <1>2, RecordedEmpty DEF DutyKept, T!PassAssumption
<1>6. Tallied
    <2>1. Settled = {} /\ Cardinality(Settled) = 0
        BY <1>1, <1>2 DEF Settled
    <2>2. /\ slips = 0 /\ passReport.attempted = 0 /\ passReport.sent = 0 /\ passReport.failed = 0
          /\ passReport.stop # "all_bundles_sent" /\ stage # "airing"
        BY <1>1, <1>3
    <2>3. bundles \subseteq Bundles /\ bundles \cap Settled = {} /\ Settled \cap stored = {}
        BY <1>1, <2>1
    <2>4. /\ passReport.sent + passReport.failed >= Cardinality(Settled)
          /\ passReport.sent + passReport.failed <= Cardinality(Settled) + slips
        BY <2>1, <2>2
    <2>5. passReport \in PassReports /\ slips \in Nat /\ IsFiniteSet(tried)
        BY <1>1, <1>2, <1>3
    <2> QED
        BY <2>2, <2>3, <2>4, <2>5 DEF Tallied
<1>7. T!ReportTrue
    <2>1. Bundles \ stored = {} /\ {x.of : x \in onAir} = {} /\ passReport.stop # "all_bundles_sent"
        BY <1>1, <1>3
    <2>2. \A x \in onAir : x.asked = x.at \/ x.asked = 0
        BY <1>1
    <2>3. slips = 0 /\ passReport.attempted = 0 /\ passReport.sent = 0 /\ passReport.failed = 0
        BY <1>1, <1>3
    <2>4. /\ passReport.attempted + slips >= passReport.sent + passReport.failed
          /\ slips = 0 => passReport.attempted = passReport.sent + passReport.failed
        BY <2>3
    <2> QED
        BY <2>1, <2>2, <2>4 DEF T!ReportTrue
<1> QED
    BY <1>4, <1>5, <1>6, <1>7 DEF PassInv

\* What is pruned leaves no more airtime.
LEMMA RecordedLess ==
    ASSUME MaxAir \in Nat, NEW log, IsFiniteSet(log), NEW few \in SUBSET log
    PROVE  Recorded(few) \in Nat /\ Recorded(log) \in Nat /\ Recorded(few) <= Recorded(log)
<1>1. [recorded |-> 0].recorded \in Nat
    OBVIOUS
<1> QED
    BY <1>1, RecordedMore

\* Every step of the unit, and every one that leaves it alone, keeps its invariant.
LEMMA PassStep == T!PassAssumption /\ PassInv /\ [T!Next]_pass => PassInv'
<1> SUFFICES ASSUME T!PassAssumption, PassInv, [T!Next]_pass PROVE PassInv'
    OBVIOUS
<1> DEFINE U == T!Upcoming
           R == passReport
<1>0. /\ sf \in 7..12 /\ tuned \in {0, 1} /\ hardware \in BOOLEAN /\ ready \in BOOLEAN /\ adaptive \in BOOLEAN
      /\ stored \subseteq Bundles /\ tried \subseteq Bundles
      /\ stage \in {"idle", "loop", "airing", "gap"} /\ R.attempted = Cardinality(tried)
      /\ DutyKept /\ Tallied /\ T!ReportTrue
    <2>1. {hardware, ready, adaptive} \subseteq BOOLEAN
        BY DEF PassInv, T!TypeOK
    <2>2. hardware \in BOOLEAN /\ ready \in BOOLEAN /\ adaptive \in BOOLEAN
        BY <2>1, Zenon
    <2> QED
        BY <2>2, PassCounts DEF PassInv, T!TypeOK, T!PassAssumption
<1>a. /\ MaxAir \in Nat /\ Budget \in Nat
      /\ \A b \in Bundles : /\ T!Estimate(b) \in Nat /\ Glimpse \in 1..T!Estimate(b)
                            /\ \A s \in 7..12 : AirtimeAt[s][Size[b]] \in 1..T!Estimate(b)
    <2>2. \A b \in Bundles : /\ AirtimeAt[12][Size[b]] \in 1..MaxAir
                             /\ Glimpse \in 1..AirtimeAt[12][Size[b]]
                             /\ \A s \in 7..12 : AirtimeAt[s][Size[b]] \in 1..AirtimeAt[12][Size[b]]
        BY DEF T!PassAssumption
    <2>3. \A b \in Bundles : T!Estimate(b) = AirtimeAt[12][Size[b]]
        BY DEF T!Estimate
    <2>4. MaxAir \in Nat /\ Budget \in Nat
        BY DEF T!PassAssumption
    <2> QED
        BY <2>2, <2>3, <2>4
<1>b. /\ IsFiniteSet(txLog) /\ Recorded(txLog) \in Nat /\ Recorded(txLog) <= Budget
      /\ \A e \in txLog : e.recorded \in Nat /\ (~hardware => e.real = e.recorded)
      /\ T!Used = Recorded(txLog)
    BY <1>0, <1>a, RecordedLess, PassAirtime DEF DutyKept, T!Used, Recorded
<1>c. /\ R \in PassReports /\ slips \in Nat /\ IsFiniteSet(tried) /\ Cardinality(tried) \in Nat
      /\ R.attempted \in Nat /\ R.sent \in Nat /\ R.failed \in Nat /\ bundles \subseteq Bundles
      /\ bundles # {} => U \in bundles /\ U \in Bundles
      /\ bundles' = bundles => T!Upcoming' = U
    <2>1. R \in PassReports /\ slips \in Nat /\ IsFiniteSet(tried) /\ bundles \subseteq Bundles
        BY <1>0 DEF Tallied
    <2>2. bundles # {} => U \in bundles /\ U \in Bundles
        BY <2>1, NextUp
    <2>3. bundles' = bundles => T!Upcoming' = U
        BY DEF T!Upcoming
    <2> QED
        BY <2>1, <2>2, <2>3, FS_CardinalityType DEF PassReports
<1>d. \A b : b \notin tried =>
          Cardinality(tried \cup {b}) = Cardinality(tried) + 1 /\ IsFiniteSet(tried \cup {b})
    BY <1>c, FS_AddElement
<1>e. ASSUME stage # "airing"
      PROVE  /\ Settled = tried /\ bundles \cap tried = {}
             /\ R.sent + R.failed >= Cardinality(tried) /\ R.sent + R.failed <= Cardinality(tried) + slips
             /\ tried \cap stored = {} \/ R.failed > 0
    BY <1>0, <1>e DEF Settled, Tallied
<1>f. ASSUME stage = "airing"
      PROVE  /\ Settled = tried \ {U} /\ bundles # {} /\ U \in tried /\ bundles \cap Settled = {}
             /\ Cardinality(Settled) = Cardinality(tried) - 1
             /\ R.sent + R.failed >= Cardinality(tried) - 1
             /\ R.sent + R.failed <= Cardinality(tried) - 1 + slips
             /\ (tried \ {U}) \cap stored = {} \/ R.failed > 0
             /\ tuned = airing.offset \/ airing.offset = 0
             /\ Recorded(txLog) + T!Estimate(U) <= Budget /\ airing.air \in 1..T!Estimate(U)
    <2>1. Settled = tried \ {U} /\ bundles # {} /\ U \in tried
        BY <1>0, <1>f DEF Settled, Tallied
    <2>2. Cardinality(tried \ {U}) = Cardinality(tried) - 1
        BY <1>c, <2>1, FS_RemoveElement
    <2> QED
        BY <1>0, <1>f, <2>1, <2>2 DEF Tallied, DutyKept
<1> HIDE DEF U, R
\* The parts of the invariant, for a step that does not end up in "airing".
<1>t. ASSUME stage' \in {"idle", "loop", "gap"}, sf' \in 7..12, tuned' \in {0, 1}, UNCHANGED hardware,
             ready' \in BOOLEAN, adaptive' \in BOOLEAN, stored' \subseteq stored, tried' \subseteq Bundles,
             IsFiniteSet(tried'), passReport' \in PassReports, passReport'.attempted = Cardinality(tried'),
             slips' \in Nat, bundles' \subseteq Bundles, bundles' \cap tried' = {},
             passReport'.sent + passReport'.failed >= Cardinality(tried'),
             passReport'.sent + passReport'.failed <= Cardinality(tried') + slips',
             tried' \cap stored' = {} \/ passReport'.failed > 0,
             passReport'.stop = "all_bundles_sent" => stage' = "idle"
      PROVE  T!TypeOK' /\ Tallied'
    <2>1. {hardware', ready', adaptive'} \subseteq BOOLEAN
        BY <1>0, <1>t, Zenon
    <2>2. T!Cardinality(tried') = Cardinality(tried')
        BY PassCounts
    <2>3. sf' \in DOMAIN AirtimeAt
        BY <1>t DEF T!PassAssumption
    <2>4. T!TypeOK'
        BY <1>0, <1>t, <2>1, <2>2, <2>3 DEF T!TypeOK
    <2>5. Settled' = tried' /\ stage' # "airing"
        BY <1>t DEF Settled
    <2>6. Tallied'
        BY <1>t, <2>5 DEF Tallied
    <2> QED
        BY <2>4, <2>6
\* What was on the air, for a step that changes neither it nor what is stored.
<1>r. ASSUME T!TypeOK', Tallied', UNCHANGED <<stored, onAir, slips>> PROVE T!ReportTrue'
    <2>1. passReport'.attempted = Cardinality(tried')
        BY <1>r, PassCounts DEF T!TypeOK
    <2>2. stage' # "airing" => Settled' = tried'
        BY DEF Settled
    <2>3. /\ passReport' \in PassReports /\ slips' \in Nat /\ IsFiniteSet(tried')
          /\ passReport'.sent + passReport'.failed >= Cardinality(Settled')
          /\ passReport'.sent + passReport'.failed <= Cardinality(Settled') + slips'
          /\ Settled' \cap stored' = {} \/ passReport'.failed > 0
          /\ passReport'.stop = "all_bundles_sent" => stage' = "idle"
        BY <1>r DEF Tallied
    <2>4. Cardinality(tried') \in Nat /\ passReport'.sent \in Nat /\ passReport'.failed \in Nat
        BY <2>3, FS_CardinalityType DEF PassReports
    <2>5. stage' # "airing" =>
             /\ passReport'.attempted + slips' >= passReport'.sent + passReport'.failed
             /\ slips' = 0 => passReport'.attempted = passReport'.sent + passReport'.failed
        BY <2>1, <2>2, <2>3, <2>4
    <2>6. passReport'.stop = "all_bundles_sent" => stored' \cap tried' = {} \/ passReport'.failed > 0
        BY <2>2, <2>3
    <2> QED
        BY <1>0, <1>r, <2>5, <2>6 DEF T!ReportTrue
<1>1. ASSUME NEW d \in Durations, T!StartPass(d) PROVE PassInv'
    <2>1. /\ stage = "idle" /\ tried' = {} /\ bundles' = stored /\ stage' \in {"idle", "loop"}
          /\ passReport' \in {T!NoReport, [T!NoReport EXCEPT !.stop = "no_pending_bundles"]}
          /\ UNCHANGED <<hardware, ready, adaptive, sf, tuned, stored, txLog, onAir, slips>>
        BY <1>0, <1>1 DEF T!StartPass, T!radio
    <2>2. /\ passReport' \in PassReports /\ passReport'.attempted = 0 /\ passReport'.sent = 0
          /\ passReport'.failed = 0 /\ passReport'.stop # "all_bundles_sent"
        <3>1. \/ passReport' = [attempted |-> 0, sent |-> 0, failed |-> 0, stop |-> ""]
              \/ passReport' = [attempted |-> 0, sent |-> 0, failed |-> 0, stop |-> "no_pending_bundles"]
            BY <2>1 DEF T!NoReport
        <3>2. /\ "" \in StopReasons /\ "no_pending_bundles" \in StopReasons
              /\ "" # "all_bundles_sent" /\ "no_pending_bundles" # "all_bundles_sent"
            BY DEF StopReasons
        <3>3. \A s \in StopReasons : [attempted |-> 0, sent |-> 0, failed |-> 0, stop |-> s] \in PassReports
            BY DEF PassReports
        <3>4. PICK s \in StopReasons : /\ s # "all_bundles_sent"
                                       /\ passReport' = [attempted |-> 0, sent |-> 0, failed |-> 0, stop |-> s]
            BY <3>1, <3>2, Zenon
        <3>5. /\ passReport'.attempted = 0 /\ passReport'.sent = 0 /\ passReport'.failed = 0
              /\ passReport'.stop = s /\ passReport' \in PassReports
            BY <3>3, <3>4
        <3> QED
            BY <3>4, <3>5
    <2>3. Cardinality(tried') = 0 /\ IsFiniteSet(tried')
        BY <2>1, FS_EmptySet
    <2>4. T!TypeOK' /\ Tallied'
        BY <1>0, <1>c, <1>t, <2>1, <2>2, <2>3
    <2>5. DutyKept'
        BY <1>b, <2>1 DEF DutyKept, Recorded
    <2> QED
        BY <1>r, <2>1, <2>4, <2>5 DEF PassInv
<1>2. ASSUME NEW reason \in StopReasons, stage = "loop", T!Stops(reason) PROVE PassInv'
    <2>1. /\ passReport' = [R EXCEPT !.stop = reason] /\ stage' = "idle" /\ bundles' = {}
          /\ UNCHANGED <<hardware, ready, adaptive, sf, tuned, stored, txLog, tried, onAir, slips>>
        BY <1>2 DEF T!Stops, T!radio, R
    <2>2. /\ passReport' \in PassReports /\ passReport'.attempted = R.attempted /\ passReport'.sent = R.sent
          /\ passReport'.failed = R.failed
        BY <1>c, <2>1 DEF PassReports
    <2>3. T!TypeOK' /\ Tallied'
        BY <1>0, <1>c, <1>e, <1>t, <1>2, <2>1, <2>2
    <2>4. DutyKept'
        BY <1>b, <2>1 DEF DutyKept, Recorded
    <2> QED
        BY <1>r, <2>1, <2>3, <2>4 DEF PassInv
<1>3. CASE T!Refused
    <2>1. /\ stage = "loop" /\ bundles # {} /\ tried' = tried \cup {U}
          /\ passReport' = [R EXCEPT !.attempted = @ + 1, !.failed = @ + 1]
          /\ bundles' = bundles \ {U} /\ stage' = "gap"
          /\ UNCHANGED <<hardware, ready, adaptive, sf, tuned, stored, txLog, onAir, slips>>
        BY <1>3 DEF T!Refused, T!Attempts, T!radio, U, R
    <2>2. /\ passReport' \in PassReports /\ passReport'.attempted = R.attempted + 1
          /\ passReport'.sent = R.sent /\ passReport'.failed = R.failed + 1 /\ passReport'.stop = R.stop
        BY <1>c, <2>1, CountedUp DEF PassReports, R
    <2>3. U \in bundles /\ U \in Bundles /\ U \notin tried /\ R.stop # "all_bundles_sent"
        BY <1>0, <1>c, <1>e, <2>1 DEF Tallied, R
    <2>4. Cardinality(tried') = Cardinality(tried) + 1 /\ IsFiniteSet(tried')
        BY <1>d, <2>1, <2>3
    <2>5. /\ passReport'.sent + passReport'.failed >= Cardinality(tried')
          /\ passReport'.sent + passReport'.failed <= Cardinality(tried') + slips'
          /\ passReport'.failed > 0
        BY <1>c, <1>e, <2>1, <2>2, <2>4
    <2>6. T!TypeOK' /\ Tallied'
        BY <1>0, <1>c, <1>e, <1>t, <2>1, <2>2, <2>3, <2>4, <2>5
    <2>7. DutyKept'
        BY <1>b, <2>1 DEF DutyKept, Recorded
    <2> QED
        BY <1>r, <2>1, <2>6, <2>7 DEF PassInv
<1>4. ASSUME NEW o \in {0, 1}, T!Transmit(o) PROVE PassInv'
    <2>1. /\ stage = "loop" /\ bundles # {} /\ tried' = tried \cup {U} /\ T!CanTransmit(T!Estimate(U))
          /\ tuned' = T!Tuned(o) /\ airing' = [air |-> AirtimeAt[sf][Size[U]], offset |-> o]
          /\ passReport' = [R EXCEPT !.attempted = @ + 1] /\ stage' = "airing"
          /\ UNCHANGED <<hardware, ready, adaptive, sf, bundles, stored, txLog, onAir, slips>>
        BY <1>4 DEF T!Transmit, T!Attempts, U, R
    <2>2. /\ passReport' \in PassReports /\ passReport'.attempted = R.attempted + 1
          /\ passReport'.sent = R.sent /\ passReport'.failed = R.failed /\ passReport'.stop = R.stop
        BY <1>c, <2>1, CountedUp DEF PassReports, R
    <2>3. U \in bundles /\ U \in Bundles /\ U \notin tried /\ R.stop # "all_bundles_sent"
        BY <1>0, <1>c, <1>e, <2>1 DEF Tallied, R
    <2>4. Cardinality(tried') = Cardinality(tried) + 1 /\ IsFiniteSet(tried')
        BY <1>d, <2>1, <2>3
    <2>5. tuned' \in {0, 1} /\ (tuned' = o \/ o = 0)
        BY <1>0, <2>1 DEF T!Tuned
    <2>6. T!Upcoming' = U /\ Settled' = tried
        BY <1>c, <2>1, <2>3 DEF Settled
    <2>7. T!TypeOK'
        <3>1. {hardware', ready', adaptive'} \subseteq BOOLEAN
            BY <1>0, <2>1, Zenon
        <3>2. T!Cardinality(tried') = passReport'.attempted
            BY <1>0, <2>2, <2>4, PassCounts DEF R
        <3>3. sf' \in DOMAIN AirtimeAt
            BY <1>0, <2>1 DEF T!PassAssumption
        <3> QED
            BY <1>0, <2>1, <2>3, <2>5, <3>1, <3>2, <3>3 DEF T!TypeOK
    <2>8. Tallied'
        BY <1>c, <1>e, <2>1, <2>2, <2>3, <2>4, <2>5, <2>6 DEF Tallied
    <2>9. DutyKept'
        <3>1. T!Estimate(U) \in Nat /\ airing'.air \in 1..T!Estimate(U)
            BY <1>0, <1>a, <2>1, <2>3
        <3>2. Recorded(txLog) + T!Estimate(U) <= Budget
            BY <1>a, <1>b, <2>1, <3>1 DEF T!CanTransmit
        <3>3. T!Estimate(T!Upcoming)' = T!Estimate(U) /\ Recorded(txLog)' = Recorded(txLog)
            BY <2>1, <2>6 DEF T!Estimate, Recorded
        <3> QED
            BY <1>b, <2>1, <3>1, <3>2, <3>3 DEF DutyKept
    <2> QED
        BY <1>r, <2>1, <2>7, <2>8, <2>9 DEF PassInv
<1>5. ASSUME NEW marked \in BOOLEAN, T!Sent(marked) PROVE PassInv'
    <2> DEFINE e == [at |-> clock', recorded |-> T!Reported, real |-> airing.air]
               a == [of |-> U, asked |-> airing.offset, at |-> tuned]
               few == T!Pruned(txLog, clock')
    <2>1. /\ stage = "airing" /\ txLog' = few \cup {e} /\ onAir' = onAir \cup {a}
          /\ bundles' = bundles \ {U} /\ stage' = "gap"
          /\ UNCHANGED <<hardware, ready, adaptive, sf, tuned, tried>>
        BY <1>5 DEF T!Sent, T!radio, U
    <2>2. \/ /\ passReport' = [R EXCEPT !.sent = @ + 1] /\ stored' = stored \ {U} /\ slips' = slips
          \/ /\ passReport' = [R EXCEPT !.sent = @ + 1, !.failed = @ + 1] /\ stored' = stored
             /\ slips' = slips + 1
        BY <1>5 DEF T!Sent, U, R
    <2>3. /\ passReport' \in PassReports /\ passReport'.attempted = R.attempted
          /\ passReport'.sent = R.sent + 1 /\ passReport'.stop = R.stop
          /\ \/ passReport'.failed = R.failed /\ stored' = stored \ {U} /\ slips' = slips
             \/ passReport'.failed = R.failed + 1 /\ stored' = stored /\ slips' = slips + 1
        <3>1. /\ [R EXCEPT !.sent = @ + 1] \in PassReports
              /\ [R EXCEPT !.sent = @ + 1, !.failed = @ + 1] \in PassReports
            BY <1>c, CountedUp
        <3> QED
            BY <1>c, <2>2, <3>1 DEF PassReports
    <2>4. U \in bundles /\ U \in Bundles /\ U \in tried /\ R.stop # "all_bundles_sent"
        BY <1>0, <1>c, <1>f, <2>1 DEF Tallied, R
    <2>5. /\ passReport'.sent + passReport'.failed >= Cardinality(tried)
          /\ passReport'.sent + passReport'.failed <= Cardinality(tried) + slips'
          /\ slips' \in Nat /\ passReport'.failed \in Nat
        BY <1>c, <1>f, <2>1, <2>3
    <2>6. tried \cap stored' = {} \/ passReport'.failed > 0
        BY <1>c, <1>f, <2>1, <2>3
    <2>7. bundles' \cap tried = {}
        BY <1>f, <2>1
    <2>8. T!TypeOK' /\ Tallied'
        BY <1>0, <1>c, <1>t, <2>1, <2>3, <2>4, <2>5, <2>6, <2>7 DEF R
    <2>9. DutyKept'
        <3>1. T!Reported \in 1..T!Estimate(U) /\ airing.air \in Nat
            BY <1>a, <1>f, <2>1, <2>4 DEF T!Reported
        <3>2. T!Estimate(U) \in Nat /\ few \subseteq txLog /\ IsFiniteSet(few)
            BY <1>a, <1>b, <2>4, FS_Subset DEF T!Pruned
        <3>3. e.recorded = T!Reported /\ e.real = airing.air /\ (~hardware => e.real = e.recorded)
            BY DEF T!Reported
        <3> HIDE DEF few, e
        <3>4. Recorded(few \cup {e}) \in Nat /\ Recorded(few \cup {e}) <= Recorded(txLog) + e.recorded
            BY <1>a, <1>b, <3>1, <3>2, <3>3, RecordedMore
        <3>5. Recorded(few \cup {e}) <= Budget
            BY <1>a, <1>b, <1>f, <2>1, <3>1, <3>2, <3>3, <3>4
        <3>6. Recorded(txLog)' = Recorded(few \cup {e})
            BY <2>1 DEF Recorded
        <3>7. IsFiniteSet(few \cup {e})
            BY <3>2, FS_AddElement
        <3> QED
            BY <1>b, <2>1, <3>1, <3>2, <3>3, <3>5, <3>6, <3>7 DEF DutyKept
    <2>10. T!ReportTrue'
        <3>1. a.of = U /\ a.asked = airing.offset /\ a.at = tuned
            OBVIOUS
        <3> HIDE DEF a, e, few
        <3>2. {x.of : x \in onAir'} = {x.of : x \in onAir} \cup {U}
            BY <2>1, <3>1
        <3>3. Bundles \ stored' \subseteq {x.of : x \in onAir'}
            BY <1>0, <2>3, <3>2 DEF T!ReportTrue
        <3>4. slips' = 0 => {x.of : x \in onAir'} \cap stored' = {}
            BY <1>0, <1>c, <2>3, <3>2 DEF T!ReportTrue
        <3>5. \A x \in onAir' : x.asked = x.at \/ x.asked = 0
            BY <1>0, <1>f, <2>1, <3>1 DEF T!ReportTrue
        <3>6. passReport'.attempted = Cardinality(tried)
            BY <1>0, <2>3 DEF R
        <3>7. /\ passReport'.attempted + slips' >= passReport'.sent + passReport'.failed
              /\ slips' = 0 => passReport'.attempted = passReport'.sent + passReport'.failed
            BY <1>c, <2>3, <2>5, <3>6
        <3>8. passReport'.stop # "all_bundles_sent"
            BY <2>3, <2>4
        <3> QED
            BY <3>3, <3>4, <3>5, <3>7, <3>8 DEF T!ReportTrue
    <2> QED
        BY <2>8, <2>9, <2>10 DEF PassInv
<1>6. CASE T!Fails
    <2>1. /\ stage = "airing" /\ passReport' = [R EXCEPT !.failed = @ + 1]
          /\ bundles' = bundles \ {U} /\ stage' = "gap"
          /\ UNCHANGED <<hardware, ready, adaptive, sf, tuned, stored, txLog, tried, onAir, slips>>
        BY <1>6 DEF T!Fails, T!radio, U, R
    <2>2. /\ passReport' \in PassReports /\ passReport'.attempted = R.attempted
          /\ passReport'.sent = R.sent /\ passReport'.failed = R.failed + 1 /\ passReport'.stop = R.stop
        BY <1>c, <2>1 DEF PassReports
    <2>3. R.stop # "all_bundles_sent" /\ bundles' \cap tried = {}
        BY <1>0, <1>f, <2>1 DEF Tallied, R
    <2>4. /\ passReport'.sent + passReport'.failed >= Cardinality(tried)
          /\ passReport'.sent + passReport'.failed <= Cardinality(tried) + slips
          /\ passReport'.failed > 0
        BY <1>c, <1>f, <2>1, <2>2
    <2>5. T!TypeOK' /\ Tallied'
        BY <1>0, <1>c, <1>t, <2>1, <2>2, <2>3, <2>4 DEF R
    <2>6. DutyKept'
        BY <1>b, <2>1 DEF DutyKept, Recorded
    <2> QED
        BY <1>r, <2>1, <2>5, <2>6 DEF PassInv
\* A step that leaves the pass as it is, but for the radio's settings.
<1>7. ASSUME UNCHANGED <<hardware, tuned, bundles, stored, stage, airing, txLog, passReport, tried, onAir, slips>>,
             sf' \in 7..12, ready' \in BOOLEAN, adaptive' \in BOOLEAN
      PROVE  PassInv'
    <2>1. T!Upcoming' = U /\ Settled' = Settled
        BY <1>7, <1>c DEF Settled, U
    <2>2. {hardware', ready', adaptive'} \subseteq BOOLEAN
        BY <1>0, <1>7, Zenon
    <2>3. sf' \in DOMAIN AirtimeAt
        BY <1>7 DEF T!PassAssumption
    <2>4. T!TypeOK'
        BY <1>7, <2>2, <2>3 DEF PassInv, T!TypeOK
    <2>5. Tallied'
        BY <1>0, <1>7, <2>1 DEF Tallied, U
    <2>6. DutyKept'
        BY <1>0, <1>7, <2>1 DEF DutyKept, Recorded, T!Estimate, U
    <2> QED
        BY <1>r, <1>7, <2>4, <2>5, <2>6 DEF PassInv
<1>8. ASSUME stage' \in {"loop", "gap", "idle"}, stage # "airing", stage # "idle" \/ stage' = "idle",
             UNCHANGED <<hardware, ready, adaptive, sf, tuned, bundles, stored, passReport, tried, onAir, slips>>,
             txLog' \subseteq txLog, stage = "idle" \/ stage' # "idle"
      PROVE  PassInv'
    <2>1. R.stop = "all_bundles_sent" => stage' = "idle"
        BY <1>0, <1>8 DEF Tallied, R
    <2>2. T!TypeOK' /\ Tallied'
        BY <1>0, <1>c, <1>e, <1>t, <1>8, <2>1 DEF R
    <2>3. IsFiniteSet(txLog') /\ Recorded(txLog') \in Nat /\ Recorded(txLog') <= Recorded(txLog)
        BY <1>a, <1>b, <1>8, FS_Subset, RecordedLess
    <2>4. Recorded(txLog)' = Recorded(txLog')
        BY DEF Recorded
    <2>5. DutyKept'
        BY <1>a, <1>b, <1>8, <2>3, <2>4 DEF DutyKept
    <2> QED
        BY <1>r, <1>8, <2>2, <2>5 DEF PassInv
<1>9. CASE T!Gap
    BY <1>8, <1>9 DEF T!Gap, T!radio
<1>10. CASE T!Tick
    BY <1>8, <1>10 DEF T!Tick, T!radio, T!Pruned
<1>11. CASE T!SetAdaptive \/ T!Shutdown
    BY <1>0, <1>7, <1>11 DEF T!SetAdaptive, T!Shutdown, T!Elsewhere
<1>12. ASSUME NEW rx \in Signals, NEW d \in Dopplers, T!ApplyAdaptiveConfig(rx, d) PROVE PassInv'
    <2>1. T!SelectOptimalSf(rx, d) \in 7..12
        <3> DEFINE fitting == {s \in 7..12 : T!Fits(s, rx, d)}
        <3>1. fitting # {} => \E s \in fitting : \A t \in fitting : s <= t
            <4> SUFFICES ASSUME fitting # {} PROVE \E s \in fitting : \A t \in fitting : s <= t
                OBVIOUS
            <4> QED
                BY LeastNatural
        <3> QED
            BY <3>1 DEF T!SelectOptimalSf
    <2> QED
        BY <1>0, <1>7, <1>12, <2>1 DEF T!ApplyAdaptiveConfig, T!Elsewhere
<1>13. CASE UNCHANGED pass
    BY <1>0, <1>7, <1>13 DEF pass
<1>14. CASE T!Finish \/ T!PassEnds \/ T!Exhausted
    <2>1. PICK reason \in StopReasons : stage = "loop" /\ T!Stops(reason)
        BY <1>14 DEF T!Finish, T!PassEnds, T!Exhausted, StopReasons
    <2> QED
        BY <1>2, <2>1
<1>15. CASE T!Next
    BY <1>1, <1>3, <1>4, <1>5, <1>6, <1>9, <1>10, <1>11, <1>12, <1>14, <1>15 DEF T!Next
<1> QED
    BY <1>13, <1>15

\* The unit's invariant holds in the composition.
LEMMA PassHolds == Spec => []PassInv
<1>1. Init => PassInv
    BY PassUnit, PassStarts
<1>2. PassInv /\ [Next]_vars => PassInv'
    BY PassUnit, PassStep
<1> QED
    BY <1>1, <1>2, PTL DEF Spec, vars

-----------------------------------------------------------------------------
(* What the composition promises.                                          *)

\* Voice: what is recorded is what was said, and so is what is played, whatever the
\* earlier loops did, and whatever the channel lost, repeated and reordered.
THEOREM VoiceSoundHolds == Spec => []VoiceSound
<1>1. V!VoiceAssumption
    BY VoiceUnit
<1>2. TalkInv /\ VoiceInv => VoiceSound
    BY <1>1, TalkRecords, VoicePlays DEF VoiceSound
<1> QED
    BY <1>2, TalkHolds, VoiceHolds, PTL

\* Mesh: a flood ends and a packet keeps its band; a route leads to a peer that was
\* heard of late and may transmit.
THEOREM MeshSoundHolds == Spec => []MeshSound
<1>1. PacketsInv /\ MeshInv => MeshSound
    BY DEF PacketsInv, MeshInv, MeshSound
<1> QED
    BY <1>1, PacketsHolds, MeshHolds, PTL

\* Bundles: an answer of the security calls means what it says, what validation
\* accepts can be processed, and a payload cut up for the radio is all there.
THEOREM BundleSoundHolds == Spec => []BundleSound
<1>1. S!SecurityAssumption /\ F!FramingAssumption
    BY SecurityUnit, FramingUnit
<1>2. FramingInv => F!PayloadHeld
    BY <1>1, FramesHeld, HopsHeld DEF F!PayloadHeld
<1>3. BundleInv /\ SecurityInv /\ FramingInv => BundleSound
    BY <1>1, <1>2, SecurityRules DEF BundleInv, BundleSound
<1> QED
    BY <1>3, BundleHolds, SecurityHolds, FramingHolds, PTL

\* APRS: what is acknowledged reached its station, and a frame is read as built.
THEOREM AprsSoundHolds == Spec => []AprsSound
<1>1. BridgeInv /\ AprsInv => AprsSound
    BY BridgeAnswers DEF AprsInv, AprsSound
<1> QED
    BY <1>1, BridgeHolds, AprsHolds, PTL

\* Ground station: the satellite selected can be reached, and each client of the one
\* receiver gets what is its own.
THEOREM StationSoundHolds == Spec => []StationSound
<1>1. LinksInv /\ StationInv => StationSound
    BY StationShares DEF LinksInv, StationSound
<1> QED
    BY <1>1, LinksHolds, StationHolds, PTL

\* Pass: the duty cycle holds whatever becomes of the spreading factor between the
\* estimate and the transmission, and the report adds up.
THEOREM PassSoundHolds == Spec => []PassSound
<1>1. T!PassAssumption
    BY PassUnit
<1>2. PassInv => PassSound
    BY <1>1, PassDuty DEF PassInv, PassSound
<1> QED
    BY <1>2, PassHolds, PTL

\* The variables of every unit keep their types.
THEOREM StackTypes == Spec => []TypeOK
<1>1. /\ VoiceInv /\ TalkInv /\ PacketsInv /\ MeshInv /\ SecurityInv /\ BundleInv
      /\ BridgeInv /\ AprsInv /\ FramingInv /\ LinksInv /\ StationInv /\ PassInv
      => TypeOK
    BY DEF VoiceInv, TalkInv, PacketsInv, MeshInv, SecurityInv, BundleInv, BridgeInv, AprsInv,
           FramingInv, LinksInv, StationInv, PassInv, TypeOK
<1> QED
    BY <1>1, VoiceHolds, TalkHolds, PacketsHolds, MeshHolds, SecurityHolds, BundleHolds,
       BridgeHolds, AprsHolds, FramingHolds, LinksHolds, StationHolds, PassHolds, PTL

=============================================================================
