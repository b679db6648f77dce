------------------------------- MODULE Bundle --------------------------------
(***************************************************************************)
(* A BPv7 bundle: the sender signs and encrypts its payload in any order,  *)
(* serializes it as CBOR or, where cbor2 is not installed, in the compact  *)
(* form; the receiver reads it, decrypts and verifies it in any order.     *)
(*                                                                         *)
(* Nothing read is checked against a CRC: the channel may damage the       *)
(* primary block, the payload, and the type or the data of any block, and  *)
(* the parser takes the result for the bundle.                             *)
(*                                                                         *)
(* A payload is the sequence of nonces it was encrypted with, the last one *)
(* outermost, or other bytes than the sender had.  The first block of a    *)
(* bundle is the payload's, with number 1.                                 *)
(***************************************************************************)
EXTENDS Naturals, Sequences, FiniteSets

CONSTANTS
    MaxBlocks, \* bound: security blocks added
    MaxTime,   \* bound: length of a behaviour
    MaxDamage  \* bound: parts of a bundle damaged on the way

BundleAssumption == {MaxBlocks, MaxDamage} \subseteq Nat /\ MaxTime \in Nat \ {0}

VARIABLES
    now,
    ends,     \* what is installed: HAS_CBOR at both, HAS_CRYPTO at each; whether the keys agree
    stamped,  \* whether creation_timestamp was given
    payload, blocks, \* the sender's bundle
    wire,     \* the bundle serialized last, or None
    got,      \* the receiver's bundle, or None, with what was sent and whether its id was hurt
    answer    \* history: what the receiver's last call returned

vars == <<now, ends, stamped, payload, blocks, wire, got, answer>>

None == [none |-> TRUE]
Plain == [layers |-> <<>>, changed |-> FALSE]
Lost == [layers |-> <<>>, changed |-> TRUE]

BlockTypes == {"PAYLOAD", "BIB", "BCB", "OTHER"}
Block(type, number, signs, nonce) ==
    [type |-> type, number |-> number, signs |-> signs, nonce |-> nonce]
PayloadBlock == Block("PAYLOAD", 1, Lost, 0)

Init ==
    /\ now = 1 /\ stamped \in BOOLEAN
    /\ ends \in [cbor : BOOLEAN, seals : BOOLEAN, opens : BOOLEAN, keyed : BOOLEAN]
    /\ payload = Plain /\ blocks = <<PayloadBlock>> /\ wire = None /\ got = None /\ answer = "none"

\* bundle_id, fixed when the object is made: the time 0 is the default.
Id(source, time) == <<source, time>>
GivenTime == 100
SenderId == Id("sender", IF stamped THEN GivenTime ELSE 0)

-----------------------------------------------------------------------------
Add(type, signs, nonce) ==
    /\ Len(blocks) <= MaxBlocks
    /\ blocks' = Append(blocks, Block(type, Len(blocks) + 1, signs, nonce))

AddIntegrity ==
    /\ Add("BIB", payload, 0)
    /\ UNCHANGED <<now, ends, stamped, payload, wire, got, answer>>

\* add_confidentiality raises on the amateur band and where AES is missing; a
\* nonce is the number of the block that carries it.
AddConfidentiality ==
    /\ ends.seals
    /\ payload' = [payload EXCEPT !.layers = Append(@, Len(blocks) + 1)]
    /\ Add("BCB", Lost, Len(blocks) + 1)
    /\ UNCHANGED <<now, ends, stamped, wire, got, answer>>

\* PrimaryBlock.to_cbor puts the time of the call where none was given; the
\* compact form always does, and has no room for extension blocks.
WireTime == IF ends.cbor /\ stamped THEN GivenTime ELSE now
WireBlocks == IF ends.cbor THEN blocks ELSE <<PayloadBlock>>

Serialize ==
    /\ wire' = [time |-> WireTime, payload |-> payload, blocks |-> WireBlocks]
    /\ UNCHANGED <<now, ends, stamped, payload, blocks, got, answer>>

-----------------------------------------------------------------------------
\* What the channel makes of a bundle: the blocks' types as they arrive, and
\* the blocks whose data it hit; block 0 is the primary block.
Parts == 0..Len(wire.blocks)
Hits == {hit \in SUBSET Parts : Cardinality(hit) <= MaxDamage}
Damage(types, hit) ==
    Cardinality({i \in DOMAIN types : types[i] # wire.blocks[i].type}) + Cardinality(hit)

Arrived(i, types, hit) ==
    IF i \in hit THEN Block(types[i], wire.blocks[i].number, Lost, 0)
    ELSE [wire.blocks[i] EXCEPT !.type = types[i]]

\* The payload is the data of the last block of its type, or nothing.
PayloadArrived(types, hit) ==
    1 \notin hit /\ \A i \in DOMAIN types : types[i] = "PAYLOAD" <=> i = 1

\* deserialize; _deserialize_compact fills a bundle that was made empty.
ReadId == IF ends.cbor THEN Id("sender", wire.time) ELSE Id("none", 0)
Deserialize(types, hit) ==
    /\ Damage(types, hit) <= MaxDamage
    /\ got' = [id |-> IF ends.cbor /\ 0 \in hit THEN Id("damaged", 0) ELSE ReadId, hurt |-> 0 \in hit,
               blocks |-> [i \in DOMAIN wire.blocks |-> Arrived(i, types, hit)],
               payload |-> IF PayloadArrived(types, hit) THEN wire.payload ELSE Lost,
               sent |-> wire]
    /\ answer' = "none"
    /\ UNCHANGED <<now, ends, stamped, payload, blocks, wire>>

\* Where the damage leaves no CBOR, or no block of a type known, there is no bundle.
Unreadable ==
    /\ got' = None /\ answer' = "none"
    /\ UNCHANGED <<now, ends, stamped, payload, blocks, wire>>

Receive ==
    /\ wire # None
    /\ \/ \E types \in [DOMAIN wire.blocks -> BlockTypes], hit \in Hits :
              /\ ends.cbor \/ types[1] = "PAYLOAD"
              /\ Deserialize(types, hit)
       \/ Unreadable

-----------------------------------------------------------------------------
\* The blocks of a type; of several, the first one counts.
Of(bs, type) == {i \in DOMAIN bs : bs[i].type = type}
First(bs, type) == bs[CHOOSE i \in Of(bs, type) : \A j \in Of(bs, type) : i <= j]

\* verify_integrity: no BIB is no objection.  The code of other bytes, or made
\* with another key, is another one.
MacMatches(bib, p) == ends.keyed /\ ~p.changed /\ bib.signs = p
Verified == Of(got.blocks, "BIB") = {} \/ MacMatches(First(got.blocks, "BIB"), got.payload)

VerifyIntegrity ==
    /\ got # None
    /\ answer' = IF Verified THEN "genuine" ELSE "forged"
    /\ UNCHANGED <<now, ends, stamped, payload, blocks, wire, got>>

\* decrypt_confidentiality: without AES nothing is opened; that BCB's nonce and
\* the key open the payload or nothing does, and the block stays; no BCB counts
\* as success.
Outermost(p) == p.layers[Len(p.layers)]
Opens(bcb, p) == ends.keyed /\ p.layers # <<>> /\ ~p.changed /\ bcb.nonce = Outermost(p)
Opened(p) == [p EXCEPT !.layers = SubSeq(@, 1, Len(@) - 1)]

DecryptConfidentiality ==
    /\ got # None
    /\ \/ /\ ~ends.opens
          /\ answer' = "sealed" /\ UNCHANGED got
       \/ /\ ends.opens /\ Of(got.blocks, "BCB") = {}
          /\ answer' = "opened" /\ UNCHANGED got
       \/ /\ ends.opens /\ Of(got.blocks, "BCB") # {}
          /\ IF Opens(First(got.blocks, "BCB"), got.payload)
             THEN got' = [got EXCEPT !.payload = Opened(@)] /\ answer' = "opened"
             ELSE answer' = "sealed" /\ UNCHANGED got
    /\ UNCHANGED <<now, ends, stamped, payload, blocks, wire>>

Tick ==
    /\ now < MaxTime
    /\ now' = now + 1
    /\ UNCHANGED <<ends, stamped, payload, blocks, wire, got, answer>>

Next ==
    \/ AddIntegrity \/ AddConfidentiality \/ Serialize \/ Tick
    \/ Receive
    \/ VerifyIntegrity \/ DecryptConfidentiality

Spec == Init /\ [][Next]_vars

-----------------------------------------------------------------------------
TypeOK ==
    /\ now \in 1..MaxTime /\ stamped \in BOOLEAN
    /\ ends \in [cbor : BOOLEAN, seals : BOOLEAN, opens : BOOLEAN, keyed : BOOLEAN]
    /\ Len(blocks) <= MaxBlocks + 1 /\ Len(payload.layers) <= MaxBlocks
    /\ \A i \in DOMAIN blocks : blocks[i].number = i
    /\ answer \in {"none", "genuine", "forged", "opened", "sealed"}

(* What the receiver may conclude from an answer, whatever was damaged.  A *)
(* payload called genuine by a BIB is one that the sender signed, and one  *)
(* that a BCB opened is the sender's with one layer fewer.                 *)
Has(type) == got # None /\ Of(got.blocks, type) # {}
AnswersProve ==
    /\ answer = "genuine" /\ Has("BIB") =>
          \E i \in DOMAIN got.sent.blocks :
              got.sent.blocks[i].type = "BIB" /\ got.sent.blocks[i].signs = got.payload
    /\ answer = "opened" /\ Has("BCB") =>
          ~got.payload.changed /\ Len(got.payload.layers) < Len(got.sent.payload.layers)

(* And what it may conclude when blocks and payload arrived whole: a       *)
(* second BCB hides the payload for good, and a BIB speaks of the payload  *)
(* as it was when the BIB was added.                                       *)
Whole == got # None /\ got.blocks = got.sent.blocks /\ ~got.payload.changed
ReadAsSent ==
    Whole =>
        /\ answer = "opened" /\ ends.cbor /\ Len(got.sent.payload.layers) < 2 =>
              got.payload.layers = <<>>
        /\ answer = "sealed" /\ ends.opens /\ ends.keyed /\ Len(got.sent.payload.layers) = 1 =>
              got.payload.layers = <<>>
        /\ answer = "forged" /\ ends.keyed /\ Len(got.blocks) = 3 /\ Len(got.sent.payload.layers) = 1 =>
              (got.blocks[2].type = "BIB" <=> got.payload.layers # <<>>)

(* The receiver calls a bundle as the sender does if it came as CBOR, its  *)
(* primary block unhurt, and the sender gave it a timestamp.               *)
SameId == got # None /\ ends.cbor /\ stamped /\ ~got.hurt => got.id = SenderId

=============================================================================
