-------------------------------- MODULE Aprs ---------------------------------
(***************************************************************************)
(* AX.25 UI frames and the APRS reports in them: a frame is built, may be  *)
(* damaged on the way, is decoded and its information field parsed.  Bytes *)
(* are counted, not spelled out.                                           *)
(***************************************************************************)
EXTENDS Integers

CONSTANTS
    Digipeaters, \* bound: numbers of digipeaters
    Ssids,       \* bound: SSIDs asked for
    Types,       \* bound: data types of reports; an item has a name of 3
    Lengths      \* bound: lengths of information fields

AprsAssumption == Digipeaters \cup Ssids \cup Lengths \subseteq Nat

VARIABLES
    report,  \* the information field, or None
    frame,   \* what is on the air: its addresses, information and FCS, or None
    decoded, \* what decode_ax25_ui_frame returned, Malformed, or None
    outcome  \* kind of the packet parse_aprs_info returned, or what it raised

vars == <<report, frame, decoded, outcome>>

None == [none |-> TRUE]
Malformed == [malformed |-> TRUE]
Error == "APRSParseError"

Init == report = None /\ frame = None /\ decoded = None /\ outcome = "none"

-----------------------------------------------------------------------------
\* What a report is to the parser: its length, whether its markers are there
\* (addressee, live or killed, T#), how the position begins, whether its
\* digits are well formed, a range extension that is not a number, and how the
\* text of a message begins, or that its addressee is a bulletin's.
Texts == {"plain", "ack", "rej", "BLN"}
Readable(type, length) == {t \in Texts : t # "plain" => type = ":" /\ (t # "BLN" => length >= 14)}
Reports ==
    {r \in [type : Types, length : Lengths, marked : BOOLEAN, compressed : BOOLEAN,
            wellFormed : BOOLEAN, badRange : BOOLEAN, text : Texts] : r.text \in Readable(r.type, r.length)}

Write ==
    /\ report = None
    /\ report' \in Reports
    /\ UNCHANGED <<frame, decoded, outcome>>

\* build_ax25_ui_frame raises ValueError for an SSID above 15.
Build(digis, ssid, fcs) ==
    /\ report # None /\ frame = None
    /\ ssid <= 15
    /\ frame' = [digis |-> digis, info |-> report.length, fcs |-> fcs, damaged |-> FALSE]
    /\ UNCHANGED <<report, decoded, outcome>>

Damage ==
    /\ frame # None /\ ~frame.damaged /\ decoded = None
    /\ frame' = [frame EXCEPT !.damaged = TRUE]
    /\ UNCHANGED <<report, decoded, outcome>>

\* The decoder cannot tell a frame without FCS: of 18 bytes or more, the last
\* two are taken for one.  A wrong FCS that is let pass stays in the field.
Bytes(f) == 7 * (2 + f.digis) + 2 + f.info + IF f.fcs THEN 2 ELSE 0
Checked(f) == Bytes(f) >= 18
FcsValid(f) == f.fcs /\ ~f.damaged

Refuses(f, validate) == Bytes(f) < 16 \/ (Checked(f) /\ validate /\ ~FcsValid(f))
FieldLength(f) == IF f.fcs /\ ~(Checked(f) /\ FcsValid(f)) THEN f.info + 2 ELSE f.info
Field(f, validate) ==
    [length |-> FieldLength(f), damaged |-> f.damaged, trusted |-> Checked(f) /\ validate]

Decode(validate) ==
    /\ frame # None /\ decoded = None
    /\ \/ /\ Refuses(frame, validate)
          /\ decoded' = Malformed
       \/ /\ ~Refuses(frame, validate)
          /\ decoded' = Field(frame, validate)
       \/ /\ ~Refuses(frame, validate) /\ frame.damaged   \* addresses, control or PID
          /\ decoded' = Malformed
    /\ UNCHANGED <<report, frame, outcome>>

-----------------------------------------------------------------------------
\* Where the position starts in a report; the shortest one that is looked at.
StartOf(type) ==
    CASE type \in {"!", "="} -> 1
      [] type \in {"/", "@"} -> 8
      [] type = ";" -> 18
      [] type = ")" -> 5
      [] OTHER -> 0
Shortest(type) ==
    CASE type \in {"/", "@"} -> 8 [] type = ";" -> 29 [] type = ":" -> 11 [] OTHER -> 1
Positions == {"!", "=", "/", "@", ";", ")"}
Marked == {":", ";", ")", "T"}
MessageKind(text) ==
    CASE text = "ack" -> "message_ack" [] text = "rej" -> "message_reject"
      [] text = "BLN" -> "bulletin" [] OTHER -> "message"
KindOf(r) ==
    CASE r.type \in {"!", "=", "/", "@"} -> "position"
      [] r.type = ":" -> MessageKind(r.text) [] r.type = ";" -> "object" [] r.type = ")" -> "item"
      [] r.type = ">" -> "status" [] r.type = "T" -> "telemetry" [] OTHER -> "other"

\* Mutant: the symbol is looked for behind the position.
SymbolAtEnd == 19
\* _parse_position: 13 characters are asked for, which a compressed position
\* has; the symbol code of the other form is the 19th.
SymbolAt == 18
ParsePosition(r) ==
    LET there == r.length - StartOf(r.type)
    IN IF there < 13 THEN Error
       ELSE IF r.compressed THEN (IF r.wellFormed THEN "ok" ELSE Error)
       ELSE IF there <= SymbolAt THEN "IndexError"
       ELSE IF ~r.wellFormed THEN Error
       ELSE IF there >= 26 /\ r.badRange THEN "ValueError" ELSE "ok"

Unreadable(r) == r.length = 0 \/ r.length < Shortest(r.type) \/ (r.type \in Marked /\ ~r.marked)
ParseInfo(r) ==
    IF Unreadable(r) THEN Error
    ELSE IF r.type \in Positions /\ ParsePosition(r) # "ok" THEN ParsePosition(r)
    ELSE KindOf(r)

\* An undamaged field is the report, longer by what the decoder left on it.
Parse ==
    /\ decoded \notin {None, Malformed} /\ outcome = "none"
    /\ outcome' = IF decoded.damaged THEN "any"
                  ELSE ParseInfo([report EXCEPT !.length = decoded.length])
    /\ UNCHANGED <<report, frame, decoded>>

Next ==
    \/ Write
    \/ \E d \in Digipeaters, s \in Ssids, f \in BOOLEAN : Build(d, s, f)
    \/ Damage
    \/ \E v \in BOOLEAN : Decode(v)
    \/ Parse

Spec == Init /\ [][Next]_vars

-----------------------------------------------------------------------------
TypeOK ==
    /\ report \in Reports \cup {None}
    /\ frame # None => frame.digis \in Digipeaters /\ frame.info = report.length
    /\ outcome \in {"none", "any", "position", "message", "message_ack", "message_reject", "bulletin",
                    "object", "item", "status", "telemetry", "other", Error, "IndexError", "ValueError"}

(* An undamaged frame with an FCS is decoded, and what is decoded of an     *)
(* undamaged frame is the report; a damaged one passes only a receiver     *)
(* that does not check, or where there are no bytes for an FCS.  A         *)
(* complete report is parsed as what it is; the exceptions that are not    *)
(* APRSParseError come from a position without a symbol code or a range    *)
(* that is no number.                                                      *)
Complete(r) ==
    /\ r.length >= Shortest(r.type) /\ r.length > 0 /\ (r.type \in Marked => r.marked)
    /\ r.type \in Positions =>
          /\ r.length - StartOf(r.type) >= (IF r.compressed THEN 13 ELSE 19)
          /\ r.wellFormed /\ ~r.badRange
FramesRead ==
    /\ frame # None /\ ~frame.damaged /\ frame.fcs => decoded # Malformed
    /\ decoded \notin {None, Malformed} =>
          /\ decoded.damaged => ~decoded.trusted
          /\ ~decoded.damaged => decoded.length = report.length
    /\ outcome \notin {"none", "any"} =>
          /\ Complete(report) => outcome = KindOf(report)
          /\ outcome \in {"IndexError", "ValueError"} =>
                report.type \in Positions /\ ~report.compressed /\ ~Complete(report)

=============================================================================
