------------------------------ MODULE Posting -------------------------------
(***************************************************************************)
(* The messages one user posts: login, the bearer token, and the hourly    *)
(* limit of POST /api/v1/send, which is a count before an insert.          *)
(*                                                                         *)
(* The hour is that of datetime.now().replace(hour=hour-1), and during the *)
(* first hour of the day, replace(hour=23): a moment still to come, after  *)
(* which no message was posted.  Time is in ticks, Hour of them an hour.   *)
(***************************************************************************)
EXTENDS Naturals, FiniteSets

CONSTANTS
    Slots,      \* requests of the user that may be under way at once
    Limit,      \* settings.MAX_MESSAGES_PER_USER_PER_HOUR
    Hour,       \* ticks in an hour
    Day,        \* hours in a day
    TokenLife,  \* settings.JWT_EXPIRY_HOURS, in ticks
    MaxStored   \* bound: messages posted within an hour

PostingAssumption ==
    /\ Limit \in Nat \ {0} /\ Hour \in Nat \ {0} /\ Day \in Nat \ {0, 1}
    /\ TokenLife \in Nat /\ MaxStored \in Nat
    /\ IsFiniteSet(Slots)

VARIABLES
    now,    \* tick of the day, UTC
    token,  \* age of the user's token; TokenLife: expired, or none yet
    age,    \* age of each Message row; Old: more than an hour, or no row
    doing   \* the await each request is at

vars == <<now, token, age, doing>>

Rows == 1..MaxStored
Old == Hour + 1
Least(x, y) == IF x <= y THEN x ELSE y

TypeOK ==
    /\ now \in 0..(Hour * Day - 1)
    /\ token \in 0..TokenLife
    /\ age \in [Rows -> 0..Old]
    /\ doing \in [Slots -> {"idle", "count", "insert"}]

Init ==
    /\ now = 0
    /\ token = TokenLife
    /\ age = [i \in Rows |-> Old]
    /\ doing = [s \in Slots |-> "idle"]

-----------------------------------------------------------------------------
Go(s, step) == doing' = [doing EXCEPT ![s] = step]

\* create_access_token, at a login or a registration.
Login ==
    /\ token' = 0
    /\ UNCHANGED <<now, age, doing>>

\* get_current_user: the token is checked, then the user is read.
Authenticate(s) ==
    /\ doing[s] = "idle"
    /\ token < TokenLife
    /\ Go(s, "count")
    /\ UNCHANGED <<now, token, age>>

\* The rows since one_hour_ago.
Recent == {i \in Rows : age[i] <= Hour}
\* Mutant: only the newest messages are counted.
CountedLastTick == {i \in Rows : age[i] = 0}
Counted == IF now < Hour THEN {} ELSE Recent

\* The count, the payload's size and the duty cycle's budget are judged
\* without an await, and the row is added.
Allow(s) ==
    /\ doing[s] = "count"
    /\ Cardinality(Counted) < Limit
    /\ Go(s, "insert")
    /\ UNCHANGED <<now, token, age>>

TooMany(s) ==
    /\ doing[s] = "count"
    /\ Cardinality(Counted) >= Limit
    /\ Go(s, "idle")
    /\ UNCHANGED <<now, token, age>>

\* The amateur band with encryption, a long payload, an exhausted budget, or a
\* commit that raises.
Refuse(s) ==
    /\ doing[s] # "idle"
    /\ Go(s, "idle")
    /\ UNCHANGED <<now, token, age>>

Insert(s) ==
    /\ doing[s] = "insert"
    /\ \E i \in Rows :
        /\ age[i] = Old /\ \A j \in 1..(i - 1) : age[j] # Old
        /\ age' = [age EXCEPT ![i] = 0]
    /\ Go(s, "idle")
    /\ UNCHANGED <<now, token>>

Tick ==
    /\ now' = IF now + 1 = Hour * Day THEN 0 ELSE now + 1
    /\ token' = Least(token + 1, TokenLife)
    /\ age' = [i \in Rows |-> Least(age[i] + 1, Old)]
    /\ UNCHANGED doing

Next ==
    \/ Login
    \/ Tick
    \/ \E s \in Slots :
        \/ Authenticate(s)
        \/ Allow(s)
        \/ TooMany(s)
        \/ Refuse(s)
        \/ Insert(s)

Spec == Init /\ [][Next]_vars

-----------------------------------------------------------------------------
\* The tick of the day at which row i was posted.
PostedAt(i) == IF age[i] <= now THEN now - age[i] ELSE now + Hour * Day - age[i]
Midnight == \E i \in Recent : PostedAt(i) < Hour

(* A user's messages of any hour pass the limit by no more than the other  *)
(* requests that were under way with the last, except for an hour that     *)
(* holds some of the first hour of the day, when nothing is counted.       *)
HourlyLimit ==
    ~Midnight => Cardinality(Recent) <= Limit + Cardinality(Slots) - 1

=============================================================================
