------------------------------ MODULE Accounts ------------------------------
(***************************************************************************)
(* POST /api/v1/auth/register: an invite code admits max_uses accounts.    *)
(*                                                                         *)
(* A registration awaits five times: it reads the invite, the name, the    *)
(* e-mail, commits the account, and commits the invite's count as what it  *)
(* read at first plus one.  Other registrations run in between, a commit   *)
(* may raise, and the process may stop anywhere; the tables survive.       *)
(***************************************************************************)
EXTENDS Naturals, FiniteSets

CONSTANTS
    Requests,   \* registrations; the account one creates has its name
    Names,      \* usernames asked for
    Emails,     \* e-mail addresses asked for
    NoEmail,    \* req.email is None
    Codes,      \* settings.DEFAULT_INVITE_CODES
    MaxUses,    \* InviteCode.max_uses
    MaxFaults   \* bound: failing commits and stops of the process

AccountsAssumption ==
    /\ Names # {} /\ Codes # {}
    /\ MaxUses \in Nat \ {0} /\ MaxFaults \in Nat

VARIABLES
    required,    \* settings.INVITE_CODE_REQUIRED
    up,          \* whether the process runs
    uses,        \* InviteCode.uses_count of each code in the table
    users,       \* rows of the users table
    ask,         \* what each registration asks for
    at,          \* the await each registration is at
    seen,        \* uses_count of the invite object a registration holds
    overlapped,  \* history: codes two registrations held at once
    lost,        \* history: accounts created and never counted, per code
    faults

vars == <<required, up, uses, users, ask, at, seen, overlapped, lost, faults>>
history == <<overlapped, lost>>

Ended == {"done", "refused"}
Stages == {"idle", "name", "email", "create", "consume"} \cup Ended
Asks == [name: Names, email: Emails \cup {NoEmail}, code: Codes]

TypeOK ==
    /\ required \in BOOLEAN /\ up \in BOOLEAN
    /\ DOMAIN uses \subseteq Codes /\ \A c \in DOMAIN uses : uses[c] \in Nat
    /\ users \subseteq Requests
    /\ ask \in [Requests -> Asks]
    /\ at \in [Requests -> Stages]
    /\ seen \in [Requests -> Nat]
    /\ overlapped \subseteq Codes
    /\ lost \in [Codes -> Nat]
    /\ faults \in 0..MaxFaults

Admitted(c) == {r \in users : ask[r].code = c}
UnderWay(r) == at[r] \notin Ended \cup {"idle"}

(***************************************************************************)
(* init_db: a code that is in the table keeps its row.                     *)
(***************************************************************************)
\* Mutant: seeding starts every count anew.
SeedAfresh(table) == [c \in Codes |-> 0]
Seed(table) == [c \in Codes |-> IF c \in DOMAIN table THEN table[c] ELSE 0]

Init ==
    /\ required \in BOOLEAN
    /\ up = FALSE
    /\ uses = <<>>
    /\ users = {}
    /\ ask = [r \in Requests |-> CHOOSE a \in Asks : TRUE]
    /\ at = [r \in Requests |-> "idle"]
    /\ seen = [r \in Requests |-> 0]
    /\ overlapped = {}
    /\ lost = [c \in Codes |-> 0]
    /\ faults = 0

Boot ==
    /\ ~up
    /\ up' = TRUE
    /\ uses' = Seed(uses)
    /\ UNCHANGED <<required, users, ask, at, seen, history, faults>>

-----------------------------------------------------------------------------
Go(r, step) == at' = [at EXCEPT ![r] = step]

\* validate_invite_code: the row object that consume_invite_code will write.
Validate(r, a) ==
    /\ up /\ at[r] = "idle"
    /\ ask' = [ask EXCEPT ![r] = a]
    /\ seen' = [seen EXCEPT ![r] = uses[a.code]]
    /\ Go(r, IF required /\ uses[a.code] >= MaxUses THEN "refused" ELSE "name")
    /\ overlapped' = IF \E q \in Requests : UnderWay(q) /\ ask[q].code = a.code
                     THEN overlapped \cup {a.code} ELSE overlapped
    /\ UNCHANGED <<required, up, uses, users, lost, faults>>

NameTaken(n) == \E r \in users : ask[r].name = n
EmailTaken(e) == e # NoEmail /\ \E r \in users : ask[r].email = e

CheckName(r) ==
    /\ up /\ at[r] = "name"
    /\ Go(r, IF NameTaken(ask[r].name) THEN "refused"
             ELSE IF ask[r].email = NoEmail THEN "create" ELSE "email")
    /\ UNCHANGED <<required, up, uses, users, ask, seen, history, faults>>

CheckEmail(r) ==
    /\ up /\ at[r] = "email"
    /\ Go(r, IF EmailTaken(ask[r].email) THEN "refused" ELSE "create")
    /\ UNCHANGED <<required, up, uses, users, ask, seen, history, faults>>

\* Mutant: no column is unique.
Unconstrained(a) == TRUE
\* The columns are unique: the commit raises when another account came first.
Constraint(a) == ~NameTaken(a.name) /\ ~EmailTaken(a.email)

Create(r) ==
    /\ up /\ at[r] = "create"
    /\ IF Constraint(ask[r])
       THEN /\ users' = users \cup {r}
            /\ Go(r, IF required THEN "consume" ELSE "done")
       ELSE Go(r, "refused") /\ UNCHANGED users
    /\ UNCHANGED <<required, up, uses, ask, seen, history, faults>>

\* consume_invite_code writes what was read at first, plus one.
ConsumeNone(r) == seen[r]
Consumed(r) == seen[r] + 1

Consume(r) ==
    /\ up /\ at[r] = "consume"
    /\ uses' = [uses EXCEPT ![ask[r].code] = Consumed(r)]
    /\ Go(r, "done")
    /\ UNCHANGED <<required, up, users, ask, seen, history, faults>>

Uncounted(r) == IF at[r] = "consume" THEN 1 ELSE 0

\* A commit raises: the account, or the count of an account that stays.
CommitFails(r) ==
    /\ up /\ at[r] \in {"create", "consume"}
    /\ faults < MaxFaults /\ faults' = faults + 1
    /\ lost' = [lost EXCEPT ![ask[r].code] = @ + Uncounted(r)]
    /\ Go(r, "refused")
    /\ UNCHANGED <<required, up, uses, users, ask, seen, overlapped>>

\* The process stops: what was under way is gone, the tables stay.
Stop ==
    /\ up /\ faults < MaxFaults /\ faults' = faults + 1
    /\ up' = FALSE
    /\ at' = [r \in Requests |-> IF UnderWay(r) THEN "refused" ELSE at[r]]
    /\ lost' = [c \in Codes |-> lost[c] +
           Cardinality({r \in Requests : at[r] = "consume" /\ ask[r].code = c})]
    /\ UNCHANGED <<required, uses, users, ask, seen, overlapped>>

Next ==
    \/ Boot
    \/ Stop
    \/ \E r \in Requests :
        \/ \E a \in Asks : Validate(r, a)
        \/ CheckName(r)
        \/ CheckEmail(r)
        \/ Create(r)
        \/ Consume(r)
        \/ CommitFails(r)

Spec == Init /\ [][Next]_vars

-----------------------------------------------------------------------------
(* A name, and an e-mail, belong to one account: register() reads both     *)
(* before it creates the account, and other registrations come in between. *)
OneOwner ==
    \A q, r \in users : q # r =>
        /\ ask[q].name # ask[r].name
        /\ ask[q].email = ask[r].email => ask[q].email = NoEmail

(* An invite never counts more accounts than it admitted, whatever the     *)
(* order in which registrations write back what they read.                 *)
UsesTruthful ==
    \A c \in DOMAIN uses : uses[c] <= Cardinality(Admitted(c))

(* An invite admits max_uses accounts and one more for each account whose  *)
(* count was lost to a failing commit or a stop, as long as no two         *)
(* registrations held it at once.                                          *)
InviteLimit ==
    required => \A c \in Codes \ overlapped :
        Cardinality(Admitted(c)) <= MaxUses + lost[c]

(* An invite's count is truthful and its limit kept.                       *)
InviteSound == UsesTruthful /\ InviteLimit

=============================================================================
