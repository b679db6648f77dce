----------------------------- MODULE MCBackend ------------------------------
(* The backend's request handlers, each against its tables: a behaviour    *)
(* exercises one of them, and the variables of the others keep still.      *)
EXTENDS Naturals, TLC

CONSTANTS Requests, Names, Emails, NoEmail, Codes, MaxUses, MaxFaults,
          Slots, Limit, Hour, Day, TokenLife, MaxStored, MaxRows, Page,
          Catalog, Clients, MaxChanges, Sizes, Budget, Elevations, Waiting, Times,
          Symbols, MaxLength, MaxCalls, Satellites, Short, Users, Ahead, Far, Steps

VARIABLES
    handler,
    required, up, uses, users, ask, at, seen, overlapped, lost, faults,
    now, token, age, doing,
    status, created, filter, offset, walked, walking, at0, tally, turn, owed,
    target, mode, socket, streaming, active, shown, reply, last, changes,
    queue, plan,
    text, hint, packet, back, counts,
    sky, first, passNow, selected, answer

registering == <<required, up, uses, users, ask, at, seen, overlapped, lost, faults>>
sending == <<now, token, age, doing>>
reading == <<status, created, filter, offset, walked, walking, at0, tally, turn, owed>>
radar == <<target, mode, socket, streaming, active, shown, reply, last, changes>>
planning == <<queue, plan>>
turbo == <<text, hint, packet, back, counts>>
passes == <<sky, first, passNow, selected, answer>>

Register == INSTANCE Accounts
Send == INSTANCE Posting
Read == INSTANCE Inbox
Radar == INSTANCE Radar
Plan == INSTANCE TxPlan
Turbo == INSTANCE TurboCompressor
Search == INSTANCE PassSearch WITH now <- passNow

ASSUME HandlersAssumption ==
    /\ Register!AccountsAssumption /\ Send!PostingAssumption /\ Read!InboxAssumption
    /\ Radar!RadarAssumption /\ Plan!TxPlanAssumption
    /\ Turbo!TurboAssumption /\ Search!PassSearchAssumption

\* A handler that is not exercised has one of its initial states.  Of the
\* satellites, only Short's sky takes every form.
Init ==
    /\ handler \in {"register", "send", "walk", "report", "radar", "plan", "turbo", "passes"}
    /\ Search!Init /\ (handler # "passes" => first = Short /\ \A t \in 1..Steps : ~sky[Short][t])
    /\ \A s \in Satellites \ {Short} : sky[s] = [t \in 1..Steps |-> t = 3]
    /\ Register!Init /\ (handler # "register" => required)
    /\ Send!Init /\ Read!Init
    /\ Radar!Init /\ Plan!Init
    /\ Turbo!Init /\ (handler # "turbo" => hint = "gps" /\ text = <<"word">>)

Next ==
    /\ UNCHANGED handler
    /\ \/ /\ handler = "register" /\ Register!Next
          /\ UNCHANGED <<sending, reading, radar, planning, turbo, passes>>
       \/ /\ handler = "send" /\ Send!Next
          /\ UNCHANGED <<registering, reading, radar, planning, turbo, passes>>
       \/ /\ handler = "walk" /\ Read!Walks
          /\ UNCHANGED <<registering, sending, radar, planning, turbo, passes>>
       \/ /\ handler = "report" /\ Read!Reports
          /\ UNCHANGED <<registering, sending, radar, planning, turbo, passes>>
       \/ /\ handler = "radar" /\ Radar!Next
          /\ UNCHANGED <<registering, sending, reading, planning, turbo, passes>>
       \/ /\ handler = "plan" /\ Plan!Next
          /\ UNCHANGED <<registering, sending, reading, radar, turbo, passes>>
       \/ /\ handler = "turbo" /\ Turbo!Next
          /\ UNCHANGED <<registering, sending, reading, radar, planning, passes>>
       \/ /\ handler = "passes" /\ Search!Next
          /\ UNCHANGED <<registering, sending, reading, radar, planning, turbo>>

vars == <<handler, registering, sending, reading, radar, planning, turbo, passes>>

Spec == Init /\ [][Next]_vars

Symmetry == Permutations(Requests) \cup Permutations(Slots) \cup Permutations(Clients)

(* Every variable of the handler exercised has its type.                   *)
TypeOK ==
    /\ Register!TypeOK /\ Send!TypeOK /\ Read!TypeOK
    /\ Radar!TypeOK /\ Plan!TypeOK /\ Turbo!TypeOK /\ Search!TypeOK

(* Registration: one owner for each name, a truthful count of an invite's  *)
(* accounts, and its limit.                                                *)
OneOwner == Register!OneOwner
InviteSound == Register!InviteSound

(* Sending: the hourly limit.  Reading: no row is missed.                  *)
HourlyLimit == Send!HourlyLimit
ReadComplete == Read!WalkComplete /\ Read!TotalComplete

(* The radio's routes: the radar's connections, the plan for a pass, the   *)
(* compressor, and the search for passes.                                  *)
RadioAnswers ==
    /\ Radar!RadarSound
    /\ Plan!PlanKeepsPriorities
    /\ Turbo!MessagesRestored
    /\ Search!PassesFound

(* What should_transmit_now says of the pass it returns: that it is the    *)
(* one under way.  Refuted: it is the next one to rise.                    *)
AdviceIsCurrent == Search!AdviceIsCurrent

=============================================================================
