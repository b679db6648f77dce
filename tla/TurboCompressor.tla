--------------------------- MODULE TurboCompressor ---------------------------
(***************************************************************************)
(* TurboCompressor: a message is compressed by whichever method gives the  *)
(* fewest bytes, sent with the method and its length, and decompressed.    *)
(* A message is a sequence of symbols: a word, a phrase of the dictionary, *)
(* a word that ends in a point (stop), a number, a line break, an accented *)
(* letter, a letter outside Latin-1, a control character, a byte that is   *)
(* not UTF-8.  Numbers are whole, or have a point, or a minus as well, or  *)
(* are too large for a coordinate (far).                                   *)
(*                                                                         *)
(* The dictionary's tokens are the characters 1 to 31, line breaks and     *)
(* tabs among them.  The hint "sos" has the effect of "text", and "sensor" *)
(* that of none.                                                           *)
(***************************************************************************)
EXTENDS Naturals, Sequences

CONSTANTS
    Symbols,   \* bound: the symbols used
    MaxLength, \* bound: symbols of a message
    MaxCalls   \* bound: messages compressed

\* The symbols there are, and how many bytes each takes.
Bytes == [word |-> 5, phrase |-> 9, stop |-> 6, point |-> 10, minus |-> 11, number |-> 4,
          far |-> 9, break |-> 1, accent |-> 2, script |-> 3, control |-> 1, raw |-> 1]

TurboAssumption == Symbols \subseteq DOMAIN Bytes /\ MaxLength \in Nat /\ MaxCalls \in Nat

VARIABLES
    text,     \* the message given
    hint,
    packet,   \* what compress returned, None, or Failed
    back,     \* what decompress made of it; empty: nothing yet
    counts    \* _stats: packets, and bytes before and after

vars == <<text, hint, packet, back, counts>>

None == [none |-> TRUE]
Failed == [failed |-> TRUE]

Numbers == {"point", "minus", "number", "far"}
Tokens == {"break", "control"}

Has(m, kinds) == \E i \in 1..Len(m) : m[i] \in kinds
SizeOf(m, size) ==
    LET total[i \in 0..Len(m)] == IF i = 0 THEN 0 ELSE total[i - 1] + size[m[i]]
    IN total[Len(m)]
Size(m) == SizeOf(m, Bytes)

-----------------------------------------------------------------------------
(***************************************************************************)
(* The dictionary.  Text outside Latin-1, which includes the character     *)
(* that stands for a byte not decoded, makes the encoder raise.            *)
(***************************************************************************)
Encodable(m) == ~Has(m, {"script", "raw"})
DictionaryBytes == [Bytes EXCEPT !.phrase = 1, !.accent = 1]
DictionaryCompress(m) == [i \in 1..Len(m) |-> IF m[i] = "phrase" THEN "control" ELSE m[i]]
\* Every token becomes its phrase, those that were in the message too.
DictionaryDecompress(m) == [i \in 1..Len(m) |-> IF m[i] \in Tokens THEN "phrase" ELSE m[i]]

LooksLikeText(m) == ~Has(m, {"control", "raw"})

(***************************************************************************)
(* Coordinates: the first two numbers, and a third one as an altitude.     *)
(* Struct refuses a coordinate beyond 32 bits and an altitude below zero,  *)
(* and the text is then not packed.  Unpacked, a coordinate is cut to      *)
(* millionths of a degree and the altitude is in whole metres, at most     *)
(* 65535.                                                                  *)
(***************************************************************************)
FirstOf(kinds, n, m) ==
    LET upto[i \in 0..Len(m)] ==
            IF i = 0 THEN <<>>
            ELSE IF m[i] \in kinds /\ Len(upto[i - 1]) < n THEN Append(upto[i - 1], m[i])
            ELSE upto[i - 1]
    IN upto[Len(m)]

PackGps(m) == FirstOf(Numbers, 3, m)
Packable(m) ==
    /\ ~Has(m, {"raw"}) /\ Len(PackGps(m)) >= 2
    /\ "far" \notin {PackGps(m)[1], PackGps(m)[2]}
    /\ Len(PackGps(m)) = 3 => PackGps(m)[3] # "minus"

Degrees == [point |-> "point in millionths", minus |-> "minus in millionths",
            number |-> "number in millionths"]
Metres == [point |-> "point in metres", number |-> "number in metres", far |-> "65535 metres"]
Reading(place, kind) == IF place = 3 THEN Metres[kind] ELSE Degrees[kind]
UnpackGps(data) == [i \in 1..Len(data) |-> Reading(i, data[i])]

\* Of what has a point, all must be numbers, and the first two in range.
LooksLikeGps(m) ==
    LET floats == FirstOf({"point", "minus", "far"}, 2, m)
    IN ~Has(m, {"raw", "stop"}) /\ Len(floats) = 2 /\ ~Has(floats, {"far"})

Packet(method, size, data) == [method |-> method, size |-> size, data |-> data]

\* zlib shortens a message or adds its own bytes to it.
Zlib(size) == {size + 8, size \div 2 + 1}

TriesDictionary(m, h) == h = "text" \/ LooksLikeText(m)
TriesGps(m, h) == Packable(m) /\ (h = "gps" \/ LooksLikeGps(m))

\* The candidates in the order in which they are made, z and c being the sizes
\* zlib gives; a method that is not tried has no candidate.
Candidates(m, h, z, c) ==
    <<{Packet("NONE", Size(m), m)},
      {Packet("ZLIB", z, m)},
      IF TriesDictionary(m, h)
      THEN {Packet("DICTIONARY", SizeOf(m, DictionaryBytes), DictionaryCompress(m))} ELSE {},
      IF TriesGps(m, h)
      THEN {Packet("GPS_PACKED", IF Len(PackGps(m)) = 3 THEN 10 ELSE 8, PackGps(m))} ELSE {},
      IF h = "text" THEN {Packet("COMBINED", c, DictionaryCompress(m))} ELSE {}>>

\* The smallest, and of several the first.
Best(candidates) ==
    LET all == UNION {candidates[i] \X {i} : i \in DOMAIN candidates}
    IN (CHOOSE x \in all : \A y \in all :
            x[1].size < y[1].size \/ (x[1].size = y[1].size /\ x[2] <= y[2]))[1]

Decompress(p) ==
    CASE p.method \in {"DICTIONARY", "COMBINED"} -> DictionaryDecompress(p.data)
      [] p.method = "GPS_PACKED" -> UnpackGps(p.data)
      [] OTHER -> p.data

-----------------------------------------------------------------------------
Messages == UNION {[1..n -> Symbols] : n \in 1..MaxLength}

Init ==
    /\ text \in Messages /\ hint \in {"none", "text", "gps"}
    /\ packet = None /\ back = <<>>
    /\ counts = [packets |-> 0, original |-> 0, compressed |-> 0]

Compress ==
    /\ packet = None /\ counts.packets < MaxCalls
    /\ IF TriesDictionary(text, hint) /\ ~Encodable(text)
       THEN packet' = Failed /\ UNCHANGED counts
       ELSE \E z \in Zlib(Size(text)), c \in Zlib(SizeOf(text, DictionaryBytes)) :
                LET best == Best(Candidates(text, hint, z, c))
                IN /\ packet' = best
                   /\ counts' = [packets |-> counts.packets + 1,
                                 original |-> counts.original + Size(text),
                                 compressed |-> counts.compressed + best.size]
    /\ UNCHANGED <<text, hint, back>>

\* from_bytes and decompress at the other end.
Receive ==
    /\ packet \notin {None, Failed} /\ back = <<>>
    /\ back' = Decompress(packet)
    /\ UNCHANGED <<text, hint, packet, counts>>

Again ==
    /\ packet = Failed \/ back # <<>>
    /\ counts.packets < MaxCalls
    /\ packet' = None /\ back' = <<>>
    /\ UNCHANGED <<text, hint, counts>>

Next == Compress \/ Receive \/ Again

Spec == Init /\ [][Next]_vars

-----------------------------------------------------------------------------
Readings == {Degrees[k] : k \in DOMAIN Degrees} \cup {Metres[k] : k \in DOMAIN Metres}

TypeOK ==
    /\ text \in Messages /\ hint \in {"none", "text", "gps"}
    /\ packet \notin {None, Failed} =>
           packet.method \in {"NONE", "ZLIB", "DICTIONARY", "GPS_PACKED", "COMBINED"}
    /\ back # <<>> => \A i \in 1..Len(back) : back[i] \in DOMAIN Bytes \cup Readings
    /\ counts.packets \in 0..MaxCalls

\* What is left of a text with coordinates: its first numbers, in order, up to
\* three of them, cut as they are packed.
CoordinatesOf(r, m) ==
    \E place \in [1..Len(r) -> 1..Len(m)] :
        /\ \A i, j \in 1..Len(r) : i < j => place[i] < place[j]
        /\ \A q \in 1..Len(m) : m[q] \in Numbers =>
               (\E i \in 1..Len(r) : place[i] = q) \/ (Len(r) = 3 /\ place[3] < q)
        /\ \A i \in 1..Len(r) : m[place[i]] \in Numbers /\ r[i] = Reading(i, m[place[i]])

\* The receiver has the message, but for line breaks and control characters,
\* which the dictionary turns into phrases, and for a message with
\* coordinates, of which the numbers alone arrive.
Restored ==
    back # <<>> =>
        \/ back = text
        \/ packet.method \in {"DICTIONARY", "COMBINED"} /\ Has(text, Tokens)
        \/ packet.method = "GPS_PACKED" /\ Len(back) \in 2..3 /\ CoordinatesOf(back, text)

\* Compression fails only on text it cannot spell, and never adds a byte.
NeverLarger ==
    /\ packet = Failed => Has(text, {"script", "raw"})
    /\ counts.compressed <= counts.original

MessagesRestored == Restored /\ NeverLarger

=============================================================================
