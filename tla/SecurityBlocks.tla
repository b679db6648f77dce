--------------------------- MODULE SecurityBlocks ----------------------------
(***************************************************************************)
(* The security blocks of a bundle and validate_security_blocks, which     *)
(* walks them with dictionaries keyed by block number.  The primary block  *)
(* is number 0 and the payload number 1.                                   *)
(***************************************************************************)
EXTENDS Naturals, Sequences, FiniteSets, Bands

CONSTANTS
    Numbers,   \* bound: numbers given to security blocks
    Targets,   \* bound: sets of block numbers that a security block targets
    Unsound,   \* bound: those of a block that is wrong otherwise
    MaxBlocks, \* bound: security blocks of a bundle
    UsedBands  \* bound: bands a bundle is checked for

SecurityAssumption ==
    Numbers \subseteq Nat \ {0} /\ MaxBlocks \in Nat /\ UsedBands \subseteq Bands
    /\ \A t \in Targets : t \subseteq Nat /\ IsFiniteSet(t)

VARIABLES blocks, fragment, verdict

vars == <<blocks, fragment, verdict>>

\* The flags matter on a BCB only: whether it is replicated in every
\* fragment, and whether it may be discarded.
Flags == [replicate : BOOLEAN, discard : BOOLEAN]
Block(type, number, targets, sound, flags) ==
    [type |-> type, number |-> number, targets |-> targets, sound |-> sound, flags |-> flags, parsed |-> TRUE]

Init == blocks = <<>> /\ fragment \in BOOLEAN /\ verdict = "none"

\* AbstractSecurityBlock.validate: it has targets, and they are listed once, its
\* context, source and flags are of RFC 9172, its results align (sound).
AsbValid(targets, sound) == targets # {} /\ sound

\* bib_block and bcb_block validate what they are given; a block made without
\* them is not looked at before the walk.
Add(type, number, targets, sound, flags) ==
    /\ Len(blocks) < MaxBlocks /\ verdict = "none"
    /\ blocks' = Append(blocks, Block(type, number, targets, sound, flags))
    /\ UNCHANGED <<fragment, verdict>>

\* from_cbor leaves parsed_data empty.
Transfer ==
    /\ verdict = "none"
    /\ blocks # <<>> /\ blocks[1].parsed
    /\ blocks' = [i \in DOMAIN blocks |-> [blocks[i] EXCEPT !.parsed = FALSE]]
    /\ UNCHANGED <<fragment, verdict>>

-----------------------------------------------------------------------------
\* The dictionaries: of blocks with the same number the last one counts.
LastNumbered(n, kinds) ==
    LET at == {i \in DOMAIN blocks : blocks[i].number = n /\ blocks[i].type \in kinds}
    IN CHOOSE i \in at : \A j \in at : j <= i

Kinds == {"BIB", "BCB"}
NumbersOf(kinds) == {blocks[i].number : i \in {j \in DOMAIN blocks : blocks[j].type \in kinds}}
TypeAt(n) == IF n \in NumbersOf(Kinds) THEN blocks[LastNumbered(n, Kinds)].type
             ELSE IF n = 0 THEN "PRIMARY" ELSE "PAYLOAD"
TargetsBy(kind, n) == blocks[LastNumbered(n, {kind})].targets
FlagsSound(b) ==
    /\ 1 \in TargetsBy("BCB", b.number) => b.flags.replicate
    /\ ~b.flags.discard

Overlap(c, b) == TargetsBy("BCB", c) \cap TargetsBy("BIB", b)
\* Mutant: the BIB of an encrypted target may stay in the clear.
SharesWhole(c, b) == Overlap(c, b) # {} => Overlap(c, b) = TargetsBy("BIB", b)
Shares(c, b) ==
    Overlap(c, b) # {} => Overlap(c, b) = TargetsBy("BIB", b) /\ b \in TargetsBy("BCB", c)

\* The walk, whose order matters to the error raised and not to the verdict.
SecurityValid(band) ==
    \/ blocks = <<>>
    \/ /\ band \in EncryptionAllowed \/ NumbersOf({"BCB"}) = {}
       /\ ~fragment
       /\ \A i \in DOMAIN blocks :
             /\ blocks[i].parsed
             /\ AsbValid(blocks[i].targets, blocks[i].sound)
             /\ blocks[i].targets \subseteq {0, 1} \cup NumbersOf(Kinds)
             /\ \A j \in DOMAIN blocks \ {i} :
                   blocks[j].type = blocks[i].type => blocks[i].targets \cap blocks[j].targets = {}
       /\ \A n \in NumbersOf({"BIB"}) : \A t \in TargetsBy("BIB", n) : TypeAt(t) \notin Kinds
       /\ \A i \in DOMAIN blocks : blocks[i].type = "BCB" =>
             /\ \A t \in TargetsBy("BCB", blocks[i].number) : t # 0 /\ TypeAt(t) # "BCB"
             /\ FlagsSound(blocks[i])
       /\ \A c \in NumbersOf({"BCB"}), b \in NumbersOf({"BIB"}) : Shares(c, b)

Validate(band) ==
    /\ verdict = "none"
    /\ verdict' = IF SecurityValid(band) THEN band ELSE "refused"
    /\ UNCHANGED <<blocks, fragment>>

Next ==
    \/ \E n \in Numbers, t \in Targets, s \in BOOLEAN :
          /\ s \/ t \in Unsound
          /\ \/ Add("BIB", n, t, s, [replicate |-> FALSE, discard |-> FALSE])
             \/ \E f \in Flags : Add("BCB", n, t, s, f)
    \/ Transfer
    \/ \E b \in UsedBands : Validate(b)

Spec == Init /\ [][Next]_vars

-----------------------------------------------------------------------------
TypeOK ==
    /\ Len(blocks) <= MaxBlocks /\ fragment \in BOOLEAN
    /\ \A i \in DOMAIN blocks :
          blocks[i] \in [type : Kinds, number : Numbers, targets : Targets, sound : BOOLEAN,
                         flags : Flags, parsed : BOOLEAN]
    /\ verdict \in UsedBands \cup {"none", "refused"}

(* The rules, block by block.  An accepted bundle whose blocks have        *)
(* numbers of their own keeps them: whoever removes the BCBs first and     *)
(* then checks the BIBs finds every BIB, and what it covers, readable.     *)
Encrypts(i, n) == blocks[i].type = "BCB" /\ n \in blocks[i].targets
Distinct ==
    /\ \A i \in DOMAIN blocks : blocks[i].number > 1
    /\ \A i, j \in DOMAIN blocks : i # j => blocks[i].number # blocks[j].number
RulesKept ==
    verdict \in Bands /\ Distinct =>
        /\ \A i \in DOMAIN blocks :
              Encrypts(i, 0) = FALSE /\ blocks[i].sound /\ blocks[i].targets # {}
        /\ \A i, j \in DOMAIN blocks :
              /\ Encrypts(i, blocks[j].number) => blocks[j].type = "BIB"
              /\ blocks[i].type = "BIB" => blocks[j].number \notin blocks[i].targets
              /\ blocks[j].type = "BIB" /\ (\E t \in blocks[j].targets : Encrypts(i, t)) =>
                    (\A t \in blocks[j].targets \cup {blocks[j].number} : Encrypts(i, t))
              /\ i # j /\ blocks[i].type = blocks[j].type =>
                    blocks[i].targets \cap blocks[j].targets = {}
        /\ \A i \in DOMAIN blocks : blocks[i].type = "BCB" => verdict # "AMATEUR" /\ ~fragment

=============================================================================
