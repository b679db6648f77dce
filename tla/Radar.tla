--------------------------------- MODULE Radar ---------------------------------
(***************************************************************************)
(* The radar's connections: each client of the WebSocket has a task that   *)
(* streams positions and a loop that carries out its commands; all of      *)
(* them, and the HTTP calls, share the satellite connected to and the      *)
(* service mode.                                                           *)
(*                                                                         *)
(* A satellite is found whatever the case of its name and kept as it was   *)
(* typed: a name is the satellite and whether it is spelled as in the      *)
(* catalogue.                                                              *)
(***************************************************************************)
EXTENDS Naturals

CONSTANTS Catalog, Clients, MaxChanges \* bound: commands and calls that change something

Http == [client |-> "http"]
RadarAssumption == MaxChanges \in Nat /\ Http \notin Clients

VARIABLES
    target,    \* connected_satellite, or Nothing
    mode,      \* _current_service_mode
    socket,    \* of each client: "none", "open", "gone" (not noticed yet), "closed"
    streaming, \* clients whose stream task runs
    active,    \* _active_ws_connections
    shown,     \* what the last position message told each client, or Unseen
    reply,     \* the last answer to each client's connect, or Unseen
    last,      \* history: who set target last
    changes

vars == <<target, mode, socket, streaming, active, shown, reply, last, changes>>

Nothing == [name |-> "none", exact |-> TRUE]
Unseen == [unseen |-> TRUE]
Typed == [name : Catalog, exact : BOOLEAN]
Unlisted == [name |-> "unlisted", exact |-> TRUE]
Modes == {"standby", "active", "emergency"}

Init ==
    /\ target = Nothing /\ mode = "active" /\ last = Http /\ changes = 0
    /\ socket = [c \in Clients |-> "none"] /\ streaming = {} /\ active = {}
    /\ shown = [c \in Clients |-> Unseen] /\ reply = [c \in Clients |-> Unseen]

-----------------------------------------------------------------------------
Accept(c) ==
    /\ socket[c] = "none"
    /\ socket' = [socket EXCEPT ![c] = "open"]
    /\ active' = active \cup {c} /\ streaming' = streaming \cup {c}
    /\ UNCHANGED <<target, mode, shown, reply, last, changes>>

\* Once a second; a send that fails ends the task, not the loop.
Stream(c) ==
    /\ c \in streaming
    /\ IF socket[c] = "open"
       THEN shown' = [shown EXCEPT ![c] = [connected |-> target, mode |-> mode]]
            /\ UNCHANGED streaming
       ELSE streaming' = streaming \ {c} /\ UNCHANGED shown
    /\ UNCHANGED <<target, mode, socket, active, reply, last, changes>>

Hang(c) ==
    /\ socket[c] = "open"
    /\ socket' = [socket EXCEPT ![c] = "gone"]
    /\ UNCHANGED <<target, mode, streaming, active, shown, reply, last, changes>>

\* The finally clause.
Stop(c) ==
    /\ socket' = [socket EXCEPT ![c] = "closed"]
    /\ active' = active \ {c} /\ streaming' = streaming \ {c}

\* receive_text raises, or the heartbeat after 30 quiet seconds does.
Disconnected(c) ==
    /\ socket[c] = "gone"
    /\ Stop(c)
    /\ UNCHANGED <<target, mode, shown, reply, last, changes>>

\* An answer that cannot be sent ends the loop; what was done stays done.
Answering(c, answer) ==
    IF socket[c] = "open"
    THEN reply' = [reply EXCEPT ![c] = answer] /\ UNCHANGED <<socket, active, streaming>>
    ELSE Stop(c) /\ UNCHANGED reply

Change == changes < MaxChanges /\ changes' = changes + 1

Connected(name) == IF name.name \in Catalog THEN name ELSE target

\* A command may have come just before its client went.
ConnectCommand(c, name) ==
    /\ socket[c] \in {"open", "gone"} /\ Change
    /\ target' = Connected(name)
    /\ last' = IF name.name \in Catalog THEN c ELSE last
    /\ Answering(c, [success |-> name.name \in Catalog, name |-> name])
    /\ UNCHANGED <<mode, shown>>

DisconnectCommand(c) ==
    /\ socket[c] \in {"open", "gone"} /\ Change
    /\ target' = Nothing /\ last' = c
    /\ Answering(c, [success |-> TRUE, name |-> Nothing])
    /\ UNCHANGED <<mode, shown>>

\* A mode that is none of the three is passed over without an answer.
SetModeCommand(c, m) ==
    /\ socket[c] \in {"open", "gone"} /\ Change
    /\ IF m \in Modes
       THEN mode' = m /\ Answering(c, reply[c])
       ELSE UNCHANGED <<mode, socket, active, streaming, reply>>
    /\ UNCHANGED <<target, shown, last>>

\* JSON that is no object, or a satellite's name that is no string, raises in
\* the handler; text that is not JSON does not.
Misspeak(c) ==
    /\ socket[c] = "open"
    /\ Stop(c)
    /\ UNCHANGED <<target, mode, shown, reply, last, changes>>

PostConnect(name) ==
    /\ Change
    /\ target' = Connected(name)
    /\ last' = IF name.name \in Catalog THEN Http ELSE last
    /\ UNCHANGED <<mode, socket, streaming, active, shown, reply>>

PostDisconnect ==
    /\ Change
    /\ target' = Nothing /\ last' = Http
    /\ UNCHANGED <<mode, socket, streaming, active, shown, reply>>

PostMode(m) ==
    /\ m \in Modes /\ Change
    /\ mode' = m
    /\ UNCHANGED <<target, socket, streaming, active, shown, reply, last>>

\* get_connected_position compares the name as it was typed.
Position == IF target # Nothing /\ target.exact THEN target.name ELSE "none"

Next ==
    \/ \E c \in Clients :
        \/ Accept(c) \/ Stream(c) \/ Hang(c) \/ Disconnected(c) \/ Misspeak(c)
        \/ DisconnectCommand(c)
        \/ \E name \in Typed \cup {Unlisted} : ConnectCommand(c, name)
        \/ \E m \in Modes \cup {"sleep"} : SetModeCommand(c, m)
    \/ \E name \in Typed \cup {Unlisted} : PostConnect(name)
    \/ \E m \in Modes : PostMode(m)
    \/ PostDisconnect

Spec == Init /\ [][Next]_vars

-----------------------------------------------------------------------------
TypeOK ==
    /\ target \in Typed \cup {Nothing} /\ mode \in Modes
    /\ socket \in [Clients -> {"none", "open", "gone", "closed"}]
    /\ streaming \subseteq Clients /\ active \subseteq Clients
    /\ last \in Clients \cup {Http} /\ changes \in 0..MaxChanges

\* No task streams for a client whose loop has ended, and the list of
\* connections has the clients with a loop.
OneTaskPerLoop ==
    /\ active = {c \in Clients : socket[c] \in {"open", "gone"}}
    /\ streaming \subseteq active

\* Who set the satellite last, and was told so, has that satellite; its
\* position is known when the name is spelled as in the catalogue.
ReplyHolds ==
    \A c \in Clients :
        (last = c /\ reply[c] # Unseen /\ reply[c].success /\ socket[c] = "open") =>
            /\ target = reply[c].name
            /\ reply[c].name.exact => Position = reply[c].name.name

RadarSound == OneTaskPerLoop /\ ReplyHolds

=============================================================================
