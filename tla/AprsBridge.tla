----------------------------- MODULE AprsBridge ------------------------------
(***************************************************************************)
(* APRSBridge over its own socket (aprslib not installed).  The receive    *)
(* loop calls a blocking recv inside a coroutine: it gives the other       *)
(* coroutines a turn only when recv timed out.  The network loses, delays  *)
(* and repeats messages and their acknowledgements.                        *)
(***************************************************************************)
EXTENDS Naturals, Sequences

CONSTANTS
    Stations, \* bound: stations written to
    IdWidth,  \* 100000: message ids are seconds modulo this
    TheirIds, \* bound: message ids of the stations
    NoId,     \* message_id of a message without one
    MaxSent,  \* bound: messages sent
    MaxTime   \* bound: length of a behaviour in seconds

BridgeAssumption ==
    IdWidth \in Nat \ {0} /\ {MaxSent, MaxTime} \subseteq Nat /\ NoId \notin Nat
    /\ NoId \notin TheirIds

VARIABLES
    now,
    link,      \* the socket: "none", "open", "ended" by the server, "broken"
    connected, \* _connected
    loop,      \* receive_messages: "off", in "recv", or in "sleep"
    sent,      \* _sent_messages
    pending,   \* _pending_acks: message id -> place in sent
    acked,     \* places of the messages whose acknowledged is set
    reached,   \* history: places of the messages that reached their station
    inbox,     \* ids of _received_messages
    owed,      \* _send_ack tasks that have not run
    answered   \* history: ids that were acknowledged to a station

vars == <<now, link, connected, loop, sent, pending, acked, reached, inbox, owed, answered>>

Free == loop # "recv"

Init ==
    /\ now = 0 /\ link = "none" /\ connected = FALSE /\ loop = "off"
    /\ sent = <<>> /\ pending = <<>> /\ acked = {} /\ reached = {}
    /\ inbox = {} /\ owed = {} /\ answered = {}

-----------------------------------------------------------------------------
\* _connect_raw: the socket is replaced first; a failure, or a login that is
\* not answered as expected, leaves _connected as it was.
Connect(outcome) ==
    /\ Free
    /\ link' = IF outcome = "failed" THEN "broken" ELSE "open"
    /\ connected' = (connected \/ outcome = "ok")
    /\ UNCHANGED <<now, loop, sent, pending, acked, reached, inbox, owed, answered>>

Disconnect ==
    /\ Free /\ link # "none"
    /\ link' = "broken" /\ connected' = FALSE
    /\ UNCHANGED <<now, loop, sent, pending, acked, reached, inbox, owed, answered>>

ServerCloses ==
    /\ link = "open"
    /\ link' = "ended"
    /\ UNCHANGED <<now, connected, loop, sent, pending, acked, reached, inbox, owed, answered>>

\* _send_raw: the first write to a connection the server closed may succeed.
SendRaw(ok) ==
    /\ ok => link \in {"open", "ended"}
    /\ ~ok => link \in {"ended", "broken"}
    /\ connected' = (connected /\ ok)

MessageId == now % IdWidth

\* send_message: listed and pending before it is sent, and if it is not.
SendMessage(station, ack, ok) ==
    /\ Free /\ connected /\ Len(sent) < MaxSent
    /\ sent' = Append(sent, [to |-> station, id |-> IF ack THEN MessageId ELSE NoId,
                             out |-> ok /\ link = "open"])
    /\ pending' = IF ack
                  THEN [i \in DOMAIN pending \cup {MessageId} |->
                            IF i = MessageId THEN Len(sent) + 1 ELSE pending[i]]
                  ELSE pending
    /\ SendRaw(ok)
    /\ UNCHANGED <<now, link, loop, acked, reached, inbox, owed, answered>>

\* A station gets it, now or later, once or more.
Reach(k) ==
    /\ sent[k].out
    /\ reached' = reached \cup {k}
    /\ UNCHANGED <<now, link, connected, loop, sent, pending, acked, inbox, owed, answered>>

-----------------------------------------------------------------------------
StartReceiving ==
    /\ loop = "off" /\ link # "none"
    /\ loop' = "recv"
    /\ UNCHANGED <<now, link, connected, sent, pending, acked, reached, inbox, owed, answered>>

\* _parse_message of a line that begins with "ack": whoever sent it.
AckIsKnown(i) == i \in DOMAIN pending
Without(i) == [j \in DOMAIN pending \ {i} |-> pending[j]]
HearAck(k) ==
    /\ loop = "recv" /\ link = "open"
    /\ k \in reached /\ sent[k].id # NoId
    /\ IF AckIsKnown(sent[k].id)
       THEN /\ acked' = acked \cup {pending[sent[k].id]}
            /\ pending' = Without(sent[k].id)
       ELSE UNCHANGED <<acked, pending>>
    /\ UNCHANGED <<now, link, connected, loop, sent, reached, inbox, owed, answered>>

\* _parse_message of a message for this station; it may be a repetition.
HearMessage(i) ==
    /\ loop = "recv" /\ link = "open"
    /\ inbox' = inbox \cup {i}
    /\ owed' = IF i = NoId THEN owed ELSE owed \cup {i}
    /\ UNCHANGED <<now, link, connected, loop, sent, pending, acked, reached, answered>>

\* socket.timeout: the other coroutines run until the sleep is over.
Pause ==
    /\ loop = "recv" /\ link = "open"
    /\ loop' = "sleep"
    /\ UNCHANGED <<now, link, connected, sent, pending, acked, reached, inbox, owed, answered>>

Resume ==
    /\ loop = "sleep"
    /\ loop' = "recv"
    /\ UNCHANGED <<now, link, connected, sent, pending, acked, reached, inbox, owed, answered>>

\* An exception ends the loop, as does timeout_s.  After the server closed the
\* connection recv returns nothing at once: without a timeout_s the loop spins.
StopReceiving ==
    /\ loop = "recv" /\ link # "none"
    /\ loop' = "off"
    /\ UNCHANGED <<now, link, connected, sent, pending, acked, reached, inbox, owed, answered>>

SendAck(i, ok) ==
    /\ Free /\ i \in owed
    /\ owed' = owed \ {i}
    /\ answered' = IF ok THEN answered \cup {i} ELSE answered
    /\ SendRaw(ok)
    /\ UNCHANGED <<now, link, loop, sent, pending, acked, reached, inbox>>

Tick ==
    /\ now < MaxTime
    /\ now' = now + 1
    /\ UNCHANGED <<link, connected, loop, sent, pending, acked, reached, inbox, owed, answered>>

Next ==
    \/ \E o \in {"ok", "refused", "failed"} : Connect(o)
    \/ Disconnect \/ ServerCloses \/ StartReceiving \/ Pause \/ Resume \/ StopReceiving \/ Tick
    \/ \E s \in Stations, a, ok \in BOOLEAN : SendMessage(s, a, ok)
    \/ \E k \in DOMAIN sent : Reach(k) \/ HearAck(k)
    \/ \E i \in TheirIds \cup {NoId} : HearMessage(i)
    \/ \E i \in owed, ok \in BOOLEAN : SendAck(i, ok)

Spec == Init /\ [][Next]_vars

-----------------------------------------------------------------------------
TypeOK ==
    /\ now \in 0..MaxTime /\ link \in {"none", "open", "ended", "broken"}
    /\ connected \in BOOLEAN /\ loop \in {"off", "recv", "sleep"}
    /\ \A k \in DOMAIN sent : sent[k].to \in Stations /\ sent[k].id \in 0..(IdWidth - 1) \cup {NoId}
    /\ DOMAIN pending \subseteq 0..(IdWidth - 1)
    /\ acked \subseteq DOMAIN sent /\ reached \subseteq DOMAIN sent
    /\ inbox \subseteq TheirIds \cup {NoId} /\ owed \subseteq inbox /\ answered \subseteq inbox

(* A message marked acknowledged reached its station, or one with its id   *)
(* reached another: ids of the same second, or a turn of the counter       *)
(* apart, are told apart by nobody.  It is not pending any more, and what  *)
(* is pending is the last message with its id.                             *)
Twins(k) == {j \in DOMAIN sent : sent[j].id = sent[k].id}
AckTruthful ==
    /\ \A k \in acked : sent[k].id # NoId /\ Twins(k) \cap reached # {}
    /\ \A k \in acked : Twins(k) = {k} => k \in reached
    /\ \A i \in DOMAIN pending :
          /\ sent[pending[i]].id = i /\ pending[i] \notin acked
          /\ \A j \in Twins(pending[i]) : j <= pending[i]

=============================================================================
