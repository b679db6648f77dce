--------------------------- MODULE Backend_proofs ----------------------------
(***************************************************************************)
(* Proofs about the backend's handlers: registration, for any number of    *)
(* registrations, names and invites; the hourly limit of a user's          *)
(* messages, for any limit, number of requests and length of the day; the  *)
(* reading of messages, for any page; and the radio's routes, for any      *)
(* clients of the radar, queue of a plan, text to compress, and sky.       *)
(***************************************************************************)
EXTENDS MCBackend, Airtime_proofs, SequenceTheorems

(* Whatever handler is exercised, registration and the message route only  *)
(* take steps of their own.                                                *)
LEMMA Handlers ==
    /\ Register!AccountsAssumption /\ Send!PostingAssumption
    /\ Init => Register!Init /\ Send!Init
    /\ [Next]_vars => [Register!Next]_registering /\ [Send!Next]_sending
BY HandlersAssumption DEF Init, Next, vars

\* The units count with their own instances of the standard module.
LEMMA SameCounts ==
    \A S : Register!Cardinality(S) = Cardinality(S) /\ Send!Cardinality(S) = Cardinality(S)
BY DEF Cardinality, Register!Cardinality, Send!Cardinality
\* A set is finite for them as it is here.
LEMMA SameFinite == \A S : Send!IsFiniteSet(S) = IsFiniteSet(S)
BY DEF IsFiniteSet, Send!IsFiniteSet

-----------------------------------------------------------------------------
(* Registration. *)

\* An account is created on the way from "create" to "consume" or the end.
Registered ==
    /\ IsFiniteSet(users)
    /\ up => DOMAIN uses = Codes
    /\ \A r \in users : at[r] \in Register!Ended \cup {"consume"}
    /\ \A r \in Requests : Register!UnderWay(r) => up
    /\ \A r \in Requests : at[r] = "consume" => required /\ r \in users

\* The count that a registration will write is not above the accounts there
\* are: none goes away, and its own is the one more.
SeenTruthful ==
    \A r \in Requests : Register!UnderWay(r) =>
        seen[r] + Register!Uncounted(r) <= Cardinality(Register!Admitted(ask[r].code))

CountInv == Registered /\ Register!UsesTruthful /\ SeenTruthful

\* Accounts that wait for their invite to count them.
Owing(c) == {r \in Requests : at[r] = "consume" /\ ask[r].code = c}
Count(c) == IF c \in DOMAIN uses THEN uses[c] ELSE 0

\* Where registrations with a code did not overlap, at most one is under
\* way, it holds the count as it is, and there is room for one more.
Alone ==
    \A c \in Codes \ overlapped : \A r \in Requests :
        Register!UnderWay(r) /\ ask[r].code = c =>
            /\ \A q \in Requests : Register!UnderWay(q) /\ ask[q].code = c => q = r
            /\ seen[r] = Count(c)
            /\ required => Count(c) < MaxUses

\* Each account is counted, about to be counted, or was lost to the count.
Balance ==
    required => \A c \in Codes \ overlapped :
        /\ Count(c) <= MaxUses
        /\ Cardinality(Register!Admitted(c)) = Count(c) + lost[c] + Cardinality(Owing(c))

LimitInv == Alone /\ Balance

-----------------------------------------------------------------------------
(* Type correctness: the types, and how far each registration got.         *)

RegisterInv == Register!TypeOK /\ Registered

\* The accounts that wait for their invite are finitely many.
LEMMA OwingFinite ==
    ASSUME Registered, NEW c
    PROVE  /\ IsFiniteSet(Owing(c)) /\ Cardinality(Owing(c)) \in Nat
           /\ IsFiniteSet(Register!Admitted(c)) /\ Cardinality(Register!Admitted(c)) \in Nat
<1>1. Owing(c) \subseteq users /\ Register!Admitted(c) \subseteq users /\ IsFiniteSet(users)
    BY DEF Registered, Owing, Register!Admitted
<1> QED
    BY <1>1, FS_Subset, FS_CardinalityType

\* Registration starts with typed, empty tables.
LEMMA RegisterInit == Register!AccountsAssumption /\ Register!Init => RegisterInv
<1> SUFFICES ASSUME Register!AccountsAssumption, Register!Init PROVE RegisterInv
    OBVIOUS
<1>1. PICK n \in Names, c \in Codes : TRUE
    BY DEF Register!AccountsAssumption
<1>2. [name |-> n, email |-> NoEmail, code |-> c] \in Register!Asks
    BY DEF Register!Asks
<1>3. (CHOOSE a \in Register!Asks : TRUE) \in Register!Asks
    BY <1>2
<1>4. ask \in [Requests -> Register!Asks] /\ at \in [Requests -> Register!Stages]
    BY <1>3 DEF Register!Init, Register!Stages
<1>5. DOMAIN uses = {}
    BY DEF Register!Init
<1>6. Register!TypeOK
    <2>1. seen \in [Requests -> Nat] /\ lost \in [Codes -> Nat]
        BY DEF Register!Init
    <2>2. faults \in 0..MaxFaults
        BY DEF Register!Init, Register!AccountsAssumption
    <2>3. required \in BOOLEAN /\ up \in BOOLEAN
        BY DEF Register!Init
    <2>4. users \subseteq Requests /\ overlapped \subseteq Codes
        BY DEF Register!Init
    <2> QED
        BY <1>4, <1>5, <2>1, <2>2, <2>3, <2>4 DEF Register!TypeOK
<1>7. Registered
    BY FS_EmptySet DEF Register!Init, Registered, Register!UnderWay
<1> QED
    BY <1>6, <1>7 DEF RegisterInv

\* Each step of a registration keeps the types, and the way of an account.
LEMMA RegisterStep == Register!AccountsAssumption /\ RegisterInv
    /\ [Register!Next]_registering => RegisterInv'
<1> SUFFICES ASSUME Register!AccountsAssumption, RegisterInv, [Register!Next]_registering
    PROVE RegisterInv'
    OBVIOUS
<1> USE DEF RegisterInv, Register!TypeOK, Registered, Register!UnderWay,
    Register!Ended, Register!Stages, Register!Go, Register!history
<1>1. CASE Register!Boot
    BY <1>1 DEF Register!Boot, Register!Seed
<1>2. CASE Register!Stop
    <2>1. \A c \in Codes : Cardinality(Owing(c)) \in Nat
        BY OwingFinite
    <2>2. lost' \in [Codes -> Nat]
        BY <1>2, <2>1, SameCounts DEF Register!Stop, Owing
    <2>3. Register!TypeOK'
        <3>1. at' \in [Requests -> Register!Stages]
            BY <1>2 DEF Register!Stop
        <3>2. faults' \in 0..MaxFaults
            BY <1>2 DEF Register!Stop, Register!AccountsAssumption
        <3> QED
            BY <1>2, <2>2, <3>1, <3>2 DEF Register!Stop
    <2>4. Registered'
        BY <1>2 DEF Register!Stop
    <2> QED
        BY <2>3, <2>4
<1>3. ASSUME NEW r \in Requests, NEW a \in Register!Asks, Register!Validate(r, a)
    PROVE RegisterInv'
    <2>1. a.code \in Codes /\ uses[a.code] \in Nat
        BY <1>3 DEF Register!Validate, Register!Asks
    <2>2. Register!TypeOK'
        BY <1>3, <2>1 DEF Register!Validate
    <2>3. Registered'
        BY <1>3 DEF Register!Validate
    <2> QED
        BY <2>2, <2>3
<1>4. ASSUME NEW r \in Requests, Register!CheckName(r) \/ Register!CheckEmail(r)
    PROVE RegisterInv'
    BY <1>4 DEF Register!CheckName, Register!CheckEmail
<1>5. ASSUME NEW r \in Requests, Register!Create(r) PROVE RegisterInv'
    <2>1. IsFiniteSet(users')
        BY <1>5, FS_AddElement DEF Register!Create
    <2> QED
        BY <1>5, <2>1 DEF Register!Create
<1>6. ASSUME NEW r \in Requests, Register!Consume(r) PROVE RegisterInv'
    <2>1. DOMAIN uses' = DOMAIN uses /\ \A c \in DOMAIN uses' : uses'[c] \in Nat
        BY <1>6 DEF Register!Consume, Register!Consumed
    <2> QED
        BY <1>6, <2>1 DEF Register!Consume
<1>7. ASSUME NEW r \in Requests, Register!CommitFails(r) PROVE RegisterInv'
    <2>1. lost' \in [Codes -> Nat]
        BY <1>7 DEF Register!CommitFails, Register!Uncounted, Register!Asks
    <2>2. faults' \in 0..MaxFaults
        BY <1>7 DEF Register!CommitFails, Register!AccountsAssumption
    <2> QED
        BY <1>7, <2>1, <2>2 DEF Register!CommitFails
<1>8. CASE UNCHANGED registering
    BY <1>8 DEF registering
<1> QED
    BY <1>1, <1>2, <1>3, <1>4, <1>5, <1>6, <1>7, <1>8 DEF Register!Next

(* Every variable keeps its type, at any number of registrations.          *)
THEOREM RegisterTypeCorrect ==
    Spec => []Register!TypeOK
<1>1. Init => RegisterInv
    BY Handlers, RegisterInit
<1>2. RegisterInv /\ [Next]_vars => RegisterInv'
    BY Handlers, RegisterStep
<1>3. RegisterInv => Register!TypeOK
    BY DEF RegisterInv
<1> QED
    BY <1>1, <1>2, <1>3, PTL DEF Spec

-----------------------------------------------------------------------------
(* One owner of each name and address. *)

\* Only Create adds an owner, and it looks for another one first.
LEMMA OwnerStep == RegisterInv /\ Register!OneOwner
    /\ [Register!Next]_registering => Register!OneOwner'
<1> SUFFICES ASSUME RegisterInv, Register!OneOwner, [Register!Next]_registering
    PROVE Register!OneOwner'
    OBVIOUS
<1> USE
    DEF RegisterInv, Register!TypeOK, Register!OneOwner, Register!Go, Register!history
<1>1. ASSUME NEW r \in Requests, NEW a \in Register!Asks, Register!Validate(r, a)
    PROVE Register!OneOwner'
    <2>1. r \notin users
        BY <1>1 DEF Register!Validate, Registered, Register!Ended
    <2>2. users' = users /\ \A q \in users : ask'[q] = ask[q]
        BY <1>1, <2>1 DEF Register!Validate
    <2> QED
        BY <2>2
<1>2. ASSUME NEW r \in Requests, Register!Create(r) PROVE Register!OneOwner'
    <2>1. CASE users' = users
        BY <1>2, <2>1 DEF Register!Create
    <2>2. CASE users' = users \cup {r} /\ Register!Constraint(ask[r])
        <3>1. \A q \in users : /\ ask[q].name # ask[r].name
                               /\ ask[q].email = ask[r].email => ask[r].email = NoEmail
            BY <2>2 DEF Register!Constraint, Register!NameTaken, Register!EmailTaken
        <3> QED
            BY <1>2, <2>2, <3>1 DEF Register!Create
    <2> QED
        BY <1>2, <2>1, <2>2 DEF Register!Create
<1>3. CASE UNCHANGED <<users, ask>>
    BY <1>3
<1> QED
    BY <1>1, <1>2, <1>3
    DEF Register!Next, registering, Register!Boot, Register!Stop, Register!CheckName,
        Register!CheckEmail, Register!Consume, Register!CommitFails

(* A name, and an e-mail address, belong to one account, however the       *)
(* registrations interleave.                                               *)
THEOREM OneOwnerHolds ==
    Spec => []OneOwner
<1>1. Init => RegisterInv /\ OneOwner
    BY Handlers, RegisterInit DEF Register!Init, Register!OneOwner, OneOwner
<1>2. RegisterInv /\ OneOwner /\ [Next]_vars => (RegisterInv /\ OneOwner)'
    BY Handlers, RegisterStep, OwnerStep DEF OneOwner
<1> QED
    BY <1>1, <1>2, PTL DEF Spec

-----------------------------------------------------------------------------
(* The count of an invite is truthful. *)

\* A step that writes a count writes one that the accounts bear out.
LEMMA CountStep ==
    Register!AccountsAssumption /\ RegisterInv /\ CountInv
        /\ [Register!Next]_registering => (Register!UsesTruthful /\ SeenTruthful)'
<1> SUFFICES ASSUME Register!AccountsAssumption, RegisterInv, CountInv, [Register!Next]_registering
             PROVE  (Register!UsesTruthful /\ SeenTruthful)'
    OBVIOUS
<1> USE SameCounts DEF RegisterInv, Register!TypeOK, CountInv, Register!UsesTruthful,
    SeenTruthful, Register!UnderWay, Register!Ended, Register!Stages,
            Register!Uncounted, Register!Go, Register!history
<1>0. \A c : Cardinality(Register!Admitted(c)) \in Nat
    BY OwingFinite
<1>1. CASE Register!Boot
    <2>1. \A c : Register!Admitted(c)' = Register!Admitted(c)
        BY <1>1 DEF Register!Boot, Register!Admitted
    <2> QED
        BY <1>0, <1>1, <2>1 DEF Register!Boot, Register!Seed
<1>2. CASE Register!Stop
    <2>1. \A c : Register!Admitted(c)' = Register!Admitted(c)
        BY <1>2 DEF Register!Stop, Register!Admitted
    <2> QED
        BY <1>2, <2>1 DEF Register!Stop
<1>3. ASSUME NEW r \in Requests, NEW a \in Register!Asks, Register!Validate(r, a)
      PROVE  (Register!UsesTruthful /\ SeenTruthful)'
    <2>1. r \notin users
        BY <1>3 DEF Register!Validate, Registered
    <2>2. \A c : Register!Admitted(c)' = Register!Admitted(c)
        BY <1>3, <2>1 DEF Register!Validate, Register!Admitted
    <2>3. a.code \in DOMAIN uses
        BY <1>3 DEF Register!Validate, Registered, Register!Asks
    <2>4. ask'[r] = a /\ seen'[r] = uses[a.code] /\ at'[r] \in {"refused", "name"}
        BY <1>3 DEF Register!Validate
    <2>5. \A q \in Requests \ {r} : ask'[q] = ask[q] /\ seen'[q] = seen[q] /\ at'[q] = at[q]
        BY <1>3 DEF Register!Validate
    <2> QED
        BY <1>3, <2>2, <2>3, <2>4, <2>5 DEF Register!Validate
<1>4. ASSUME NEW r \in Requests, Register!CheckName(r) \/ Register!CheckEmail(r) \/ Register!CommitFails(r)
      PROVE  (Register!UsesTruthful /\ SeenTruthful)'
    <2>1. \A c : Register!Admitted(c)' = Register!Admitted(c)
        BY <1>4 DEF Register!CheckName, Register!CheckEmail, Register!CommitFails,
            Register!Admitted
    <2>2. Register!UnderWay(r)' => Register!UnderWay(r) /\ Register!Uncounted(r)' = 0 /\ Register!Uncounted(r) = 0
        BY <1>4 DEF Register!CheckName, Register!CheckEmail, Register!CommitFails
    <2> QED
        BY <1>4, <2>1, <2>2
            DEF Register!CheckName, Register!CheckEmail, Register!CommitFails
<1>5. ASSUME NEW r \in Requests, Register!Create(r), users' = users \cup {r}
      PROVE  (Register!UsesTruthful /\ SeenTruthful)'
    <2>1. r \notin users
        BY <1>5 DEF Register!Create, Registered
    <2>2. \A c : Register!Admitted(c)' = IF ask[r].code = c THEN Register!Admitted(c) \cup {r} ELSE Register!Admitted(c)
        BY <1>5 DEF Register!Create, Register!Admitted
    <2>3. \A c : Cardinality(Register!Admitted(c)') =
                     IF ask[r].code = c THEN Cardinality(Register!Admitted(c)) + 1 ELSE Cardinality(Register!Admitted(c))
        <3> TAKE c
        <3>1. r \notin Register!Admitted(c) /\ IsFiniteSet(Register!Admitted(c))
            BY <2>1, OwingFinite DEF Register!Admitted
        <3> QED
            BY <2>2, <3>1, FS_AddElement
    <2>4. Register!UsesTruthful'
        BY <1>0, <1>5, <2>3 DEF Register!Create
    <2>5. SeenTruthful'
        BY <1>0, <1>5, <2>3 DEF Register!Create
    <2> QED
        BY <2>4, <2>5
<1>6. ASSUME NEW r \in Requests, Register!Create(r), users' = users
      PROVE  (Register!UsesTruthful /\ SeenTruthful)'
    <2>1. \A c : Register!Admitted(c)' = Register!Admitted(c)
        BY <1>6 DEF Register!Create, Register!Admitted
    <2>2. ~Register!UnderWay(r)'
        BY <1>6 DEF Register!Create, Registered
    <2> QED
        BY <1>6, <2>1, <2>2 DEF Register!Create
<1>7. ASSUME NEW r \in Requests, Register!Consume(r)
      PROVE  (Register!UsesTruthful /\ SeenTruthful)'
    <2>1. \A c : Register!Admitted(c)' = Register!Admitted(c)
        BY <1>7 DEF Register!Consume, Register!Admitted
    <2>2. Register!UsesTruthful'
        BY <1>7, <2>1 DEF Register!Consume, Register!Consumed
    <2>3. SeenTruthful'
        BY <1>7, <2>1 DEF Register!Consume
    <2> QED
        BY <2>2, <2>3
<1>8. CASE UNCHANGED registering
    BY <1>8 DEF registering, Register!Admitted
<1>9. ASSUME NEW r \in Requests, Register!Create(r)
    PROVE users' = users \/ users' = users \cup {r}
    BY <1>9 DEF Register!Create
<1> QED
    BY <1>1, <1>2, <1>3, <1>4, <1>5, <1>6, <1>7, <1>8, <1>9 DEF Register!Next

\* Counts stay truthful, whatever registrations overlap.
LEMMA CountHolds == Spec => [](RegisterInv /\ CountInv)
<1>1. Init => RegisterInv /\ CountInv
    BY Handlers, RegisterInit, SameCounts DEF Register!Init, RegisterInv, CountInv,
        Register!UsesTruthful, SeenTruthful, Register!UnderWay
<1>2. (RegisterInv /\ CountInv) /\ [Next]_vars => (RegisterInv /\ CountInv)'
    BY Handlers, RegisterStep, CountStep DEF RegisterInv, CountInv
<1> QED
    BY <1>1, <1>2, PTL DEF Spec

-----------------------------------------------------------------------------
(* The limit of an invite. *)

\* Without an overlap at most one account waits for its invite.
LEMMA OneOwing ==
    ASSUME RegisterInv, Alone, NEW c \in Codes \ overlapped
    PROVE  Cardinality(Owing(c)) <= 1 /\ (Cardinality(Owing(c)) = 0 <=> Owing(c) = {})
<1>1. IsFiniteSet(Owing(c))
    BY OwingFinite DEF RegisterInv
<1>2. ASSUME NEW r \in Owing(c) PROVE Owing(c) = {r}
    BY DEF Owing, Alone, Register!UnderWay, Register!Ended
<1> QED
    <2>1. CASE Owing(c) = {}
        BY <2>1, FS_EmptySet
    <2>2. CASE Owing(c) # {}
        <3>1. PICK r \in Owing(c) : Owing(c) = {r}
            BY <1>2, <2>2
        <3> QED
            BY <3>1, FS_Singleton
    <2> QED
        BY <2>1, <2>2

\* A second registration with the code ends its being alone.
LEMMA AloneStep ==
    Register!AccountsAssumption /\ RegisterInv /\ Alone
        /\ [Register!Next]_registering => Alone'
<1> SUFFICES ASSUME Register!AccountsAssumption, RegisterInv, Alone, [Register!Next]_registering
    PROVE Alone'
    OBVIOUS
<1> USE DEF RegisterInv, Register!TypeOK, Alone, Register!UnderWay, Register!Ended,
    Register!Stages, Count, Register!Go, Register!history
<1>1. CASE Register!Boot
    BY <1>1 DEF Register!Boot, Registered
<1>2. CASE Register!Stop
    BY <1>2 DEF Register!Stop
<1>3. ASSUME NEW r \in Requests, NEW a \in Register!Asks, Register!Validate(r, a)
    PROVE Alone'
    <2>1. \A q \in Requests \ {r} : ask'[q] = ask[q] /\ seen'[q] = seen[q] /\ at'[q] = at[q]
        BY <1>3 DEF Register!Validate
    <2>2. /\ ask'[r] = a /\ seen'[r] = Count(a.code) /\ uses' = uses /\ overlapped \subseteq overlapped'
          /\ at'[r] = IF required /\ Count(a.code) >= MaxUses THEN "refused" ELSE "name"
          /\ Count(a.code) \in Nat /\ required' = required
        BY <1>3 DEF Register!Validate, Registered, Register!Asks
    <2>3. a.code \notin overlapped' => \A q \in Requests : Register!UnderWay(q) => ask[q].code # a.code
        BY <1>3 DEF Register!Validate
    <2> QED
        BY <2>1, <2>2, <2>3 DEF Register!AccountsAssumption
<1>4. ASSUME NEW r \in Requests, Register!CheckName(r) \/ Register!CheckEmail(r) \/ Register!CommitFails(r) \/ Register!Create(r)
      PROVE  Alone'
    <2>1. /\ \A q \in Requests : Register!UnderWay(q)' => Register!UnderWay(q)
          /\ UNCHANGED <<ask, seen, uses, overlapped, required>>
        BY <1>4
            DEF Register!CheckName, Register!CheckEmail, Register!CommitFails,
                Register!Create
    <2> QED
        BY <2>1
<1>5. ASSUME NEW r \in Requests, Register!Consume(r) PROVE Alone'
    <2>1. /\ ~Register!UnderWay(r)' /\ \A q \in Requests : Register!UnderWay(q)' => Register!UnderWay(q)
          /\ UNCHANGED <<ask, seen, overlapped, required>>
        BY <1>5 DEF Register!Consume
    <2>2. \A c \in Codes : c # ask[r].code => Count(c)' = Count(c)
        BY <1>5 DEF Register!Consume
    <2>3. Register!UnderWay(r)
        BY <1>5 DEF Register!Consume
    <2> QED
        BY <2>1, <2>2, <2>3
<1>6. CASE UNCHANGED registering
    BY <1>6 DEF registering
<1> QED
    BY <1>1, <1>2, <1>3, <1>4, <1>5, <1>6 DEF Register!Next

\* Each account moves from waiting to counted, or to lost.
LEMMA BalanceStep ==
    Register!AccountsAssumption /\ RegisterInv /\ Alone /\ Balance
        /\ [Register!Next]_registering => Balance'
<1> SUFFICES ASSUME Register!AccountsAssumption, RegisterInv, Alone, Balance, [Register!Next]_registering, required',
                    NEW c \in Codes, c \notin overlapped'
             PROVE  (/\ Count(c) <= MaxUses
                     /\ Cardinality(Register!Admitted(c)) = Count(c) + lost[c] + Cardinality(Owing(c)))'
    BY DEF Balance
<1> DEFINE Goal == /\ Count(c)' <= MaxUses
                   /\ Cardinality(Register!Admitted(c)') = Count(c)' + lost'[c] + Cardinality(Owing(c)')
<1> USE DEF RegisterInv, Register!TypeOK, Register!Ended, Register!Go, Register!history
<1>1. required /\ c \notin overlapped
    BY DEF Register!Next, registering, Register!Boot, Register!Stop,
        Register!Validate, Register!CheckName, Register!CheckEmail,
        Register!Create, Register!Consume, Register!CommitFails
<1>2. /\ Count(c) <= MaxUses
      /\ Cardinality(Register!Admitted(c)) = Count(c) + lost[c] + Cardinality(Owing(c))
    BY <1>1 DEF Balance
<1>3. /\ Count(c) \in Nat /\ lost[c] \in Nat /\ MaxUses \in Nat
      /\ IsFiniteSet(Owing(c)) /\ Cardinality(Owing(c)) \in Nat
      /\ IsFiniteSet(Register!Admitted(c)) /\ Cardinality(Register!Admitted(c)) \in Nat
    BY OwingFinite DEF Count, Register!AccountsAssumption
<1>4. ASSUME Count(c)' = Count(c), Register!Admitted(c)' = Register!Admitted(c), lost'[c] = lost[c], Owing(c)' = Owing(c)
      PROVE  Goal
    BY <1>2, <1>4
<1>5. CASE Register!Boot
    <2>1. Count(c)' = Count(c)
        BY <1>5 DEF Register!Boot, Register!Seed, Count
    <2> QED
        BY <1>4, <1>5, <2>1 DEF Register!Boot, Register!Admitted, Owing
<1>6. CASE Register!Stop
    <2>1. lost'[c] = lost[c] + Cardinality(Owing(c)) /\ Count(c)' = Count(c) /\ Register!Admitted(c)' = Register!Admitted(c)
        BY <1>6, SameCounts DEF Register!Stop, Owing, Count, Register!Admitted
    <2>2. Owing(c)' = {}
        BY <1>6 DEF Register!Stop, Owing, Register!UnderWay
    <2> QED
        BY <1>2, <1>3, <2>1, <2>2, FS_EmptySet
<1>7. ASSUME NEW r \in Requests, NEW a \in Register!Asks, Register!Validate(r, a)
    PROVE Goal
    <2>1. r \notin users
        BY <1>7 DEF Register!Validate, Registered
    <2>2. Register!Admitted(c)' = Register!Admitted(c)
        BY <1>7, <2>1 DEF Register!Validate, Register!Admitted
    <2>3. at[r] # "consume" /\ at'[r] # "consume"
        BY <1>7 DEF Register!Validate
    <2>4. \A q \in Requests \ {r} : ask'[q] = ask[q] /\ at'[q] = at[q]
        BY <1>7 DEF Register!Validate
    <2>5. Owing(c)' = Owing(c)
        BY <2>3, <2>4 DEF Owing
    <2> QED
        BY <1>4, <1>7, <2>2, <2>5 DEF Register!Validate, Count
<1>8. ASSUME NEW r \in Requests, Register!CheckName(r) \/ Register!CheckEmail(r)
    PROVE Goal
    <2>1. Owing(c)' = Owing(c)
        BY <1>8 DEF Register!CheckName, Register!CheckEmail, Owing
    <2> QED
        BY <1>4, <1>8, <2>1
            DEF Register!CheckName, Register!CheckEmail, Count, Register!Admitted
<1>9. ASSUME NEW r \in Requests, Register!Create(r) PROVE Goal
    <2>1. CASE users' = users /\ at'[r] = "refused"
        <3>1. Owing(c)' = Owing(c)
            BY <1>9, <2>1 DEF Register!Create, Owing
        <3> QED
            BY <1>4, <1>9, <2>1, <3>1 DEF Register!Create, Count, Register!Admitted
    <2>2. CASE users' = users \cup {r} /\ at'[r] = "consume" /\ ask[r].code # c
        <3>1. Owing(c)' = Owing(c) /\ Register!Admitted(c)' = Register!Admitted(c)
            BY <1>9, <2>2 DEF Register!Create, Owing, Register!Admitted
        <3> QED
            BY <1>4, <1>9, <3>1 DEF Register!Create, Count
    <2>3. CASE users' = users \cup {r} /\ at'[r] = "consume" /\ ask[r].code = c
        <3>1. Owing(c)' = Owing(c) \cup {r} /\ Register!Admitted(c)' = Register!Admitted(c) \cup {r}
            BY <1>9, <2>3 DEF Register!Create, Owing, Register!Admitted
        <3>2. r \notin Owing(c) /\ r \notin Register!Admitted(c)
            BY <1>9 DEF Register!Create, Owing, Register!Admitted, Registered
        <3>3. /\ Cardinality(Owing(c)') = Cardinality(Owing(c)) + 1
              /\ Cardinality(Register!Admitted(c)') = Cardinality(Register!Admitted(c)) + 1
            BY <1>3, <3>1, <3>2, FS_AddElement
        <3>4. Count(c)' = Count(c) /\ lost' = lost
            BY <1>9 DEF Register!Create, Count
        <3> QED
            BY <1>2, <1>3, <3>3, <3>4
    <2> QED
        BY <1>1, <1>9, <2>1, <2>2, <2>3 DEF Register!Create
<1>10. ASSUME NEW r \in Requests, Register!Consume(r) PROVE Goal
    <2>1. Register!Admitted(c)' = Register!Admitted(c) /\ lost' = lost
        BY <1>10 DEF Register!Consume, Register!Admitted
    <2>2. CASE ask[r].code # c
        <3>1. Owing(c)' = Owing(c) /\ Count(c)' = Count(c)
            BY <1>10, <2>2 DEF Register!Consume, Owing, Count
        <3> QED
            BY <1>4, <2>1, <3>1
    <2>3. CASE ask[r].code = c
        <3>1. Owing(c)' = Owing(c) \ {r} /\ r \in Owing(c)
            BY <1>10, <2>3 DEF Register!Consume, Owing
        <3>2. Cardinality(Owing(c)') = Cardinality(Owing(c)) - 1
            BY <1>3, <3>1, FS_RemoveElement
        <3>3. seen[r] = Count(c) /\ Count(c) < MaxUses
            BY <1>1, <1>10, <2>3 DEF Register!Consume, Alone, Register!UnderWay
        <3>4. Count(c)' = Count(c) + 1
            BY <1>10, <2>3, <3>3
                DEF Register!Consume, Register!Consumed, Count, Registered
        <3> QED
            BY <1>2, <1>3, <2>1, <3>2, <3>3, <3>4
    <2> QED
        BY <2>2, <2>3
<1>11. ASSUME NEW r \in Requests, Register!CommitFails(r) PROVE Goal
    <2>1. Register!Admitted(c)' = Register!Admitted(c) /\ Count(c)' = Count(c)
        BY <1>11 DEF Register!CommitFails, Register!Admitted, Count
    <2>2. CASE at[r] = "consume" /\ ask[r].code = c
        <3>1. Owing(c)' = Owing(c) \ {r} /\ r \in Owing(c)
            BY <1>11, <2>2 DEF Register!CommitFails, Owing
        <3>2. Cardinality(Owing(c)') = Cardinality(Owing(c)) - 1
            BY <1>3, <3>1, FS_RemoveElement
        <3>3. lost'[c] = lost[c] + 1
            BY <1>11, <2>2 DEF Register!CommitFails, Register!Uncounted
        <3> QED
            BY <1>2, <1>3, <2>1, <3>2, <3>3
    <2>3. CASE ~(at[r] = "consume" /\ ask[r].code = c)
        <3>1. Owing(c)' = Owing(c)
            BY <1>11, <2>3 DEF Register!CommitFails, Owing
        <3>2. lost'[c] = lost[c]
            BY <1>11, <2>3 DEF Register!CommitFails, Register!Uncounted
        <3> QED
            BY <1>4, <2>1, <3>1, <3>2
    <2> QED
        BY <2>2, <2>3
<1>12. CASE UNCHANGED registering
    BY <1>4, <1>12 DEF registering, Count, Register!Admitted, Owing
<1> QED
    BY <1>5, <1>6, <1>7, <1>8, <1>9, <1>10, <1>11, <1>12 DEF Register!Next

\* Registrations that do not overlap keep the balance.
LEMMA LimitHolds == Spec => [](RegisterInv /\ LimitInv)
<1>1. ASSUME Init PROVE RegisterInv /\ LimitInv
    <2>0. Register!Init /\ Register!AccountsAssumption
        BY <1>1, Handlers
    <2>1. RegisterInv
        BY <2>0, RegisterInit
    <2>2. Alone
        BY <2>0 DEF Register!Init, Alone, Register!UnderWay
    <2>3. \A c \in Codes : Register!Admitted(c) = {} /\ Owing(c) = {} /\ Count(c) = 0 /\ lost[c] = 0
        <3> SUFFICES ASSUME NEW c \in Codes
                     PROVE  Register!Admitted(c) = {} /\ Owing(c) = {} /\ Count(c) = 0 /\ lost[c] = 0
            OBVIOUS
        <3>1. Register!Admitted(c) = {}
            BY <2>0 DEF Register!Init, Register!Admitted
        <3>2. Owing(c) = {}
            BY <2>0 DEF Register!Init, Owing
        <3>3. Count(c) = 0
            <4>1. DOMAIN uses = {}
                BY <2>0 DEF Register!Init
            <4> QED
                BY <4>1 DEF Count
        <3>4. lost[c] = 0
            BY <2>0 DEF Register!Init
        <3> QED
            BY <3>1, <3>2, <3>3, <3>4
    <2>4. Balance
        <3>1. \A c \in Codes : Cardinality(Register!Admitted(c)) = 0 /\ Cardinality(Owing(c)) = 0
            <4>1. Cardinality({}) = 0
                BY FS_EmptySet
            <4> QED
                BY <2>3, <4>1
        <3> QED
            BY <2>0, <2>3, <3>1 DEF Balance, Register!AccountsAssumption
    <2> QED
        BY <2>1, <2>2, <2>4 DEF LimitInv
<1>2. (RegisterInv /\ LimitInv) /\ [Next]_vars => (RegisterInv /\ LimitInv)'
    BY Handlers, RegisterStep, AloneStep, BalanceStep DEF LimitInv
<1> QED
    BY <1>1, <1>2, PTL DEF Spec

(* An invite's count is at most the accounts it admitted; and it admits at *)
(* most max_uses accounts, and those whose count was lost, where no two    *)
(* registrations held it at once.                                          *)
THEOREM InviteSoundHolds ==
    Spec => []InviteSound
<1>1. RegisterInv /\ CountInv /\ LimitInv => InviteSound
    <2> SUFFICES ASSUME RegisterInv, CountInv, LimitInv PROVE Register!InviteLimit
        BY DEF CountInv, Register!InviteSound, InviteSound
    <2> SUFFICES ASSUME required, NEW c \in Codes \ overlapped
                 PROVE  Cardinality(Register!Admitted(c)) <= MaxUses + lost[c]
        BY SameCounts DEF Register!InviteLimit
    <2>1. /\ Count(c) <= MaxUses
          /\ Cardinality(Register!Admitted(c)) = Count(c) + lost[c] + Cardinality(Owing(c))
        BY DEF LimitInv, Balance
    <2>2. Cardinality(Owing(c)) <= 1 /\ (Cardinality(Owing(c)) = 0 <=> Owing(c) = {})
        BY OneOwing DEF LimitInv
    <2>3. Owing(c) # {} => Count(c) < MaxUses
        BY DEF LimitInv, Alone, Owing, Register!UnderWay, Register!Ended
    <2>4. /\ Count(c) \in Nat /\ lost[c] \in Nat /\ MaxUses \in Nat /\ Cardinality(Owing(c)) \in Nat
        BY Handlers, OwingFinite
            DEF RegisterInv, Register!TypeOK, Count, Register!AccountsAssumption
    <2> QED
        BY <2>1, <2>2, <2>3, <2>4
<1>2. Spec => [](RegisterInv /\ CountInv)
    BY CountHolds
<1>3. Spec => [](RegisterInv /\ LimitInv)
    BY LimitHolds
<1> QED
    BY <1>1, <1>2, <1>3, PTL

-----------------------------------------------------------------------------
(* The message route. *)

Ticks == Hour * Day

\* A day has two hours or more, of a tick or more each.
LEMMA TicksType ==
    ASSUME Send!PostingAssumption
    PROVE  /\ Ticks \in Nat /\ Hour \in Nat /\ Hour >= 1 /\ Ticks >= Hour + Hour
<1>1. Hour \in Nat /\ Day \in Nat /\ Hour >= 1 /\ Day >= 2
    BY DEF Send!PostingAssumption
<1>2. Hour * Day \in Nat /\ Hour * Day >= Hour * 2
    BY <1>1
<1> QED
    BY <1>1, <1>2 DEF Ticks

-----------------------------------------------------------------------------
(* Type correctness. *)

\* The route starts with typed variables.
LEMMA SendInit == Send!PostingAssumption /\ Send!Init => Send!TypeOK
<1> SUFFICES ASSUME Send!PostingAssumption, Send!Init PROVE Send!TypeOK
    OBVIOUS
<1>1. 0 \in 0..(Hour * Day - 1)
    BY TicksType DEF Ticks
<1>2. Send!Old \in 0..Send!Old /\ TokenLife \in 0..TokenLife
    BY DEF Send!PostingAssumption, Send!Old
<1> QED
    BY <1>1, <1>2 DEF Send!Init, Send!TypeOK

\* Each step of the route keeps the types.
LEMMA SendStep == Send!PostingAssumption /\ Send!TypeOK
    /\ [Send!Next]_sending => Send!TypeOK'
<1> SUFFICES ASSUME Send!PostingAssumption, Send!TypeOK, [Send!Next]_sending
    PROVE Send!TypeOK'
    OBVIOUS
<1> USE DEF Send!TypeOK, Send!Go
<1>1. CASE Send!Login
    BY <1>1 DEF Send!Login, Send!PostingAssumption
<1>2. CASE Send!Tick
    <2>1. now' \in 0..(Hour * Day - 1)
        BY <1>2, TicksType DEF Send!Tick, Ticks
    <2>2. token' \in 0..TokenLife
        BY <1>2 DEF Send!Tick, Send!Least, Send!PostingAssumption
    <2>3. age' \in [Send!Rows -> 0..Send!Old]
        BY <1>2 DEF Send!Tick, Send!Least, Send!Old, Send!PostingAssumption
    <2> QED
        BY <1>2, <2>1, <2>2, <2>3 DEF Send!Tick
<1>3. ASSUME NEW s \in Slots, Send!Insert(s) PROVE Send!TypeOK'
    BY <1>3 DEF Send!Insert, Send!Old, Send!PostingAssumption
<1>4. ASSUME NEW s \in Slots, Send!Authenticate(s) \/ Send!Allow(s) \/ Send!TooMany(s) \/ Send!Refuse(s)
    PROVE Send!TypeOK'
    BY <1>4 DEF Send!Authenticate, Send!Allow, Send!TooMany, Send!Refuse
<1>5. CASE UNCHANGED sending
    BY <1>5 DEF sending
<1> QED
    BY <1>1, <1>2, <1>3, <1>4, <1>5 DEF Send!Next

(* Every variable keeps its type, in every day.                            *)
THEOREM SendTypeCorrect ==
    Spec => []Send!TypeOK
<1>1. Init => Send!TypeOK
    BY Handlers, SendInit
<1>2. Send!TypeOK /\ [Next]_vars => Send!TypeOK'
    BY Handlers, SendStep
<1> QED
    BY <1>1, <1>2, PTL DEF Spec

-----------------------------------------------------------------------------
(* The hourly limit.  Requests that were let in count as posted once the   *)
(* first hour is over; the rows of the first hour do not.                  *)

Daytime == {i \in Send!Recent : Send!PostedAt(i) >= Hour}
LetIn == {s \in Slots : doing[s] = "insert"}

DayLimit ==
    Cardinality(Daytime) + (IF now < Hour THEN 0 ELSE Cardinality(LetIn))
        <= Limit + Cardinality(Slots) - 1

\* The messages counted are at most as many as the requests.
LEMMA RowsFinite ==
    ASSUME Send!PostingAssumption
    PROVE  /\ IsFiniteSet(Send!Recent) /\ Cardinality(Send!Recent) \in Nat
           /\ IsFiniteSet(Daytime) /\ Cardinality(Daytime) \in Nat
           /\ Cardinality(Daytime) <= Cardinality(Send!Recent)
           /\ IsFiniteSet(LetIn) /\ Cardinality(LetIn) \in Nat
           /\ Cardinality(LetIn) <= Cardinality(Slots) /\ Cardinality(Slots) \in Nat
<1>1. IsFiniteSet(Send!Rows)
    BY FS_Interval DEF Send!Rows, Send!PostingAssumption
<1>2. Send!Recent \subseteq Send!Rows /\ Daytime \subseteq Send!Recent /\ LetIn \subseteq Slots /\ IsFiniteSet(Slots)
    BY SameFinite DEF Send!Recent, Daytime, LetIn, Send!PostingAssumption
<1> QED
    BY <1>1, <1>2, FS_Subset, FS_CardinalityType

\* The rows of the day only age.
LEMMA DaytimeShrinks ==
    ASSUME Send!PostingAssumption, Send!TypeOK, Send!Tick
    PROVE  /\ Daytime' \subseteq Daytime
           /\ now < Hour /\ now' >= Hour => Daytime' = {}
<1>1. /\ Ticks \in Nat /\ Hour \in Nat /\ Hour >= 1 /\ Ticks >= Hour + Hour
    BY TicksType
<1>2. /\ now \in 0..(Ticks - 1) /\ now' = IF now + 1 = Ticks THEN 0 ELSE now + 1
      /\ \A i \in Send!Rows : age[i] \in 0..(Hour + 1)
                         /\ age'[i] = IF age[i] + 1 <= Hour + 1 THEN age[i] + 1 ELSE Hour + 1
    BY DEF Send!TypeOK, Send!Tick, Send!Least, Send!Old, Ticks
<1>3. ASSUME NEW i \in Daytime' PROVE i \in Daytime /\ ~(now < Hour /\ now' >= Hour)
    <2>1. /\ i \in Send!Rows /\ age'[i] <= Hour
          /\ (IF age'[i] <= now' THEN now' - age'[i] ELSE now' + Ticks - age'[i]) >= Hour
        BY <1>3 DEF Daytime, Send!Recent, Send!PostedAt, Ticks
    <2>2. age[i] \in Nat /\ age'[i] = age[i] + 1 /\ age[i] <= Hour
        BY <1>1, <1>2, <2>1
    <2>3. (IF age[i] <= now THEN now - age[i] ELSE now + Ticks - age[i]) >= Hour
        BY <1>1, <1>2, <2>1, <2>2
    <2>4. ~(now < Hour /\ now' >= Hour)
        BY <1>1, <1>2, <2>1, <2>2
    <2> QED
        BY <2>1, <2>2, <2>3, <2>4 DEF Daytime, Send!Recent, Send!PostedAt, Ticks
<1> QED
    BY <1>3

\* A request is let in below the limit, and becomes one row of the day.
LEMMA DayLimitStep == Send!PostingAssumption /\ Send!TypeOK /\ DayLimit
    /\ [Send!Next]_sending => DayLimit'
<1> SUFFICES ASSUME Send!PostingAssumption, Send!TypeOK, DayLimit, [Send!Next]_sending
    PROVE DayLimit'
    OBVIOUS
<1> DEFINE d == Cardinality(Daytime)
           l == Cardinality(LetIn)
           n == Cardinality(Slots)
<1>1. /\ d \in Nat /\ l \in Nat /\ n \in Nat /\ l <= n
      /\ IsFiniteSet(Daytime) /\ IsFiniteSet(LetIn)
      /\ Cardinality(Send!Recent) \in Nat /\ d <= Cardinality(Send!Recent)
      /\ Limit \in Nat /\ Limit >= 1
    BY RowsFinite DEF Send!PostingAssumption
<1>2. now \in Nat /\ Hour \in Nat
    BY TicksType DEF Send!TypeOK, Ticks
<1>3. ASSUME Daytime' = Daytime, now' = now, LetIn' \subseteq LetIn PROVE DayLimit'
    <2>1. Cardinality(LetIn') \in Nat /\ Cardinality(LetIn') <= l
        BY <1>1, <1>3, FS_Subset, FS_CardinalityType
    <2> QED
        BY <1>1, <1>2, <1>3, <2>1 DEF DayLimit
<1>4. ASSUME age' = age, now' = now PROVE Daytime' = Daytime
    BY <1>4 DEF Daytime, Send!Recent, Send!PostedAt
<1>5. CASE Send!Login
    BY <1>3, <1>4, <1>5 DEF Send!Login, LetIn
<1>6. CASE Send!Tick
    <2>1. /\ Daytime' \subseteq Daytime /\ LetIn' = LetIn
          /\ now < Hour /\ now' >= Hour => Daytime' = {}
          /\ now' \in Nat
        BY <1>2, <1>6, DaytimeShrinks DEF Send!Tick, LetIn
    <2>2. Cardinality(Daytime') \in Nat /\ Cardinality(Daytime') <= d
        BY <1>1, <2>1, FS_Subset, FS_CardinalityType
    <2>3. CASE now < Hour /\ now' >= Hour
        <3>1. Cardinality(Daytime') = 0
            BY <2>1, <2>3, FS_EmptySet
        <3> QED
            BY <1>1, <1>2, <2>1, <2>3, <3>1 DEF DayLimit
    <2>4. CASE now < Hour /\ now' < Hour
        BY <1>1, <2>2, <2>4 DEF DayLimit
    <2>5. CASE ~(now < Hour)
        BY <1>1, <1>2, <2>1, <2>2, <2>5 DEF DayLimit
    <2> QED
        BY <1>2, <2>1, <2>3, <2>4, <2>5
<1>7. ASSUME NEW s \in Slots, Send!Allow(s) PROVE DayLimit'
    <2>1. Daytime' = Daytime /\ now' = now
        BY <1>4, <1>7 DEF Send!Allow
    <2>2. Cardinality(LetIn') \in Nat /\ Cardinality(LetIn') <= n
        <3>1. LetIn' \subseteq Slots /\ IsFiniteSet(Slots)
            BY SameFinite DEF LetIn, Send!PostingAssumption
        <3> QED
            BY <3>1, FS_Subset, FS_CardinalityType
    <2>3. CASE now < Hour
        BY <1>1, <2>1, <2>3 DEF DayLimit
    <2>4. CASE ~(now < Hour)
        <3>1. Cardinality(Send!Recent) < Limit
            BY <1>7, <2>4, SameCounts DEF Send!Allow, Send!Counted
        <3> QED
            BY <1>1, <2>1, <2>2, <2>4, <3>1 DEF DayLimit
    <2> QED
        BY <2>3, <2>4
<1>8. ASSUME NEW s \in Slots, Send!Insert(s) PROVE DayLimit'
    <2>1. PICK i \in Send!Rows : age[i] = Send!Old /\ age' = [age EXCEPT ![i] = 0]
        BY <1>8 DEF Send!Insert
    <2>2. now' = now /\ LetIn' = LetIn \ {s} /\ s \in LetIn
        BY <1>8 DEF Send!Insert, LetIn, Send!Go, Send!TypeOK
    <2>3. Cardinality(LetIn') = l - 1
        BY <1>1, <2>2, FS_RemoveElement
    <2>4. Daytime' \ {i} = Daytime \ {i}
        BY <2>1, <2>2 DEF Daytime, Send!Recent, Send!PostedAt, Send!TypeOK
    <2>5. i \in Daytime' => now >= Hour
        BY <1>2, <2>1, <2>2 DEF Daytime, Send!PostedAt, Send!TypeOK
    <2>6. i \notin Daytime
        BY <1>2, <2>1 DEF Daytime, Send!Recent, Send!Old
    <2>7. CASE i \in Daytime'
        <3>1. Daytime' = Daytime \cup {i}
            BY <2>4, <2>6, <2>7
        <3>2. Cardinality(Daytime') = d + 1
            BY <1>1, <2>6, <3>1, FS_AddElement
        <3> QED
            BY <1>1, <1>2, <2>2, <2>3, <2>5, <2>7, <3>2 DEF DayLimit
    <2>8. CASE i \notin Daytime'
        <3>1. Daytime' = Daytime
            BY <2>4, <2>6, <2>8
        <3> QED
            BY <1>3, <2>2, <3>1
    <2> QED
        BY <2>7, <2>8
<1>9. ASSUME NEW s \in Slots, Send!Authenticate(s) \/ Send!TooMany(s) \/ Send!Refuse(s)
    PROVE DayLimit'
    <2>1. LetIn' \subseteq LetIn
        BY <1>9
            DEF Send!Authenticate, Send!TooMany, Send!Refuse, LetIn, Send!Go,
                Send!TypeOK
    <2> QED
        BY <1>3, <1>4, <1>9, <2>1 DEF Send!Authenticate, Send!TooMany, Send!Refuse
<1>10. CASE UNCHANGED sending
    BY <1>3, <1>4, <1>10 DEF sending, LetIn
<1> QED
    BY <1>5, <1>6, <1>7, <1>8, <1>9, <1>10 DEF Send!Next

(* Outside the first hour of the day, the messages of an hour pass the     *)
(* limit by at most the requests that were under way with the last.        *)
THEOREM HourlyLimitHolds ==
    Spec => []HourlyLimit
<1>0. Send!PostingAssumption
    BY Handlers
<1>1. Init => Send!TypeOK /\ DayLimit
    <2> SUFFICES ASSUME Send!Init PROVE Send!TypeOK /\ DayLimit
        BY Handlers
    <2>1. Send!TypeOK
        BY <1>0, SendInit
    <2>2. Daytime = {} /\ LetIn = {}
        BY <1>0
            DEF Send!Init, Daytime, Send!Recent, LetIn, Send!Old, Send!PostingAssumption
    <2>3. Cardinality(Daytime) = 0 /\ Cardinality(LetIn) = 0 /\ Cardinality(Slots) \in Nat
        BY <1>0, <2>2, FS_EmptySet, RowsFinite
    <2> QED
        BY <1>0, <2>1, <2>3 DEF DayLimit, Send!PostingAssumption
<1>2. (Send!TypeOK /\ DayLimit) /\ [Next]_vars => (Send!TypeOK /\ DayLimit)'
    BY Handlers, SendStep, DayLimitStep
<1>3. Send!TypeOK /\ DayLimit => HourlyLimit
    <2> SUFFICES ASSUME Send!TypeOK, DayLimit, ~Send!Midnight
                 PROVE  Cardinality(Send!Recent) <= Limit + Cardinality(Slots) - 1
        BY SameCounts DEF Send!HourlyLimit, HourlyLimit
    <2>1. \A i \in Send!Recent : Send!PostedAt(i) \in Int /\ Hour \in Int
        BY <1>0, TicksType DEF Send!PostedAt, Ticks, Send!Recent, Send!TypeOK
    <2>2. Daytime = Send!Recent
        BY <2>1 DEF Send!Midnight, Daytime
    <2> QED
        BY <1>0, <2>2, RowsFinite DEF DayLimit, Send!PostingAssumption
<1> QED
    BY <1>1, <1>2, <1>3, PTL DEF Spec

-----------------------------------------------------------------------------
(* Reading messages while they change.                                     *)

\* Reading a user's messages takes steps of its own.
LEMMA InboxUnit ==
    /\ Read!InboxAssumption
    /\ Init => Read!Init
    /\ [Next]_vars => [Read!Next]_reading
BY HandlersAssumption DEF Init, Next, vars, Read!Next

\* The inbox counts as the library does.
LEMMA InboxCounts == \A X : Read!Cardinality(X) = Cardinality(X)
BY DEF Cardinality, Read!Cardinality

\* Where the statuses are in the order in which they are asked for.
LEMMA StatusPlaces ==
    /\ Read!Asked[1] = "queued" /\ Read!Asked[2] = "transmitting" /\ Read!Asked[3] = "awaiting_ack"
    /\ Read!Asked[4] = "delivered" /\ Read!Asked[5] = "failed" /\ Read!Asked[6] = "expired"
    /\ Len(Read!Asked) = 6
BY DEF Read!Asked, Read!Statuses

\* The rows whose status the report asks for from turn t on.
StillAsked(t) == {i \in Read!Ids : \E k \in t..6 : status[i] = Read!Asked[k]}

\* The clock of the database does not go back: rows are in the order of their ids.
Chronological == \A i, j \in Read!Ids : i <= j => created[i] <= created[j]

\* A second in which the walk owes a row is read, or a row of it is on a page to
\* come, and then the walk goes on; the report has counted, or will ask for the
\* status of, as many rows as there were.
Unread ==
    /\ at0 <= Len(status)
    /\ filter = Read!Any =>
          \A i \in 1..at0 : \/ \E j \in walked : created[j] = created[i]
                            \/ walking /\ Len(status) - i >= offset
Uncounted ==
    IF turn = 0 THEN tally >= owed
    ELSE tally + Cardinality(StillAsked(turn)) >= owed

InboxInv == Read!TypeOK /\ Chronological /\ Unread /\ Uncounted

\* The invariant says that both are complete.
LEMMA InboxComplete == InboxInv => ReadComplete
<1> SUFFICES ASSUME InboxInv PROVE ReadComplete
    OBVIOUS
<1>1. Read!WalkComplete
    BY DEF InboxInv, Unread, Read!WalkComplete
<1>2. Read!TotalComplete
    BY DEF InboxInv, Uncounted, Read!TotalComplete
<1> QED
    BY <1>1, <1>2 DEF ReadComplete

\* Nothing read, nothing owed.
LEMMA InboxStarts == Read!InboxAssumption /\ Read!Init => InboxInv
<1> SUFFICES ASSUME Read!InboxAssumption, Read!Init PROVE InboxInv
    OBVIOUS
<1>1. /\ status = <<>> /\ Len(status) = 0 /\ DOMAIN status = {}
      /\ created = <<>> /\ Len(created) = 0 /\ created \in Seq(Nat)
    BY DEF Read!Init
<1>2. Read!TypeOK
    <2>1. status \in Seq({Read!Statuses[i] : i \in 1..6})
        BY <1>1
    <2>2. MaxRows \in Nat
        BY DEF Read!InboxAssumption
    <2>3. /\ filter = Read!Any /\ offset = 0 /\ walked = {} /\ walking = FALSE /\ at0 = 0
          /\ tally = 0 /\ turn = 0 /\ owed = 0
        BY DEF Read!Init
    <2>4. Len(status) <= MaxRows /\ 0 \in 0..MaxRows /\ walked \subseteq Read!Ids
        BY <1>1, <2>2, <2>3
    <2>5. offset \in Nat /\ at0 \in 0..MaxRows /\ tally \in Nat /\ turn \in 0..6 /\ owed \in 0..MaxRows
        BY <2>3, <2>4
    <2>6. filter \in {Read!Any, "queued"} /\ walking \in BOOLEAN
        BY <2>3
    <2> QED
        BY <1>1, <2>1, <2>4, <2>5, <2>6 DEF Read!TypeOK
<1>3. Chronological /\ Unread /\ Uncounted
    BY <1>1 DEF Read!Init, Read!Ids, Chronological, Unread, Uncounted
<1> QED
    BY <1>2, <1>3 DEF InboxInv

\* What a listing is, in the terms of the library.
LEMMA ListingFacts ==
    ASSUME Read!InboxAssumption, Read!TypeOK, NEW place \in Read!Listings(Read!Ids)
    PROVE  /\ Len(status) \in Nat /\ Read!Ids = 1..Len(status)
           /\ created \in [1..Len(status) -> Nat]
           /\ place \in Bijection(1..Len(status), 0..(Len(status) - 1))
           /\ \A i, j \in 1..Len(status) : created[i] > created[j] => place[i] < place[j]
<1>1. Len(status) \in Nat /\ Read!Ids = 1..Len(status) /\ created \in [1..Len(status) -> Nat]
    BY DEF Read!TypeOK, Read!InboxAssumption, Read!Ids
<1>2. Cardinality(Read!Ids) = Len(status)
    <2> DEFINE n == Len(status)
    <2>1. n \in Nat /\ Read!Ids = 1..n
        BY <1>1
    <2> HIDE DEF n
    <2>2. Cardinality(1..n) = IF 1 > n THEN 0 ELSE n - 1 + 1
        BY <2>1, FS_Interval
    <2> QED
        BY <2>1, <2>2 DEF n
<1>3. \A S, T : Read!Bijection(S, T) = Bijection(S, T)
    BY DEF Read!Bijection, Read!Injection, Read!Surjection, Read!IsInjective,
           Bijection, Injection, Surjection, IsInjective
<1> QED
    BY <1>1, <1>2, <1>3, InboxCounts DEF Read!Listings

\* The row at the place that the i-th row from the end has by the clock is of the
\* same second: fewer than i rows are newer than row i, and fewer than n - i + 1
\* older.
LEMMA PlacesFollowClock ==
    ASSUME NEW n \in Nat, NEW clock \in [1..n -> Nat],
           \A i, j \in 1..n : i <= j => clock[i] <= clock[j],
           NEW place \in Bijection(1..n, 0..(n - 1)),
           \A i, j \in 1..n : clock[i] > clock[j] => place[i] < place[j],
           NEW i \in 1..n
    PROVE  \E j \in 1..n : place[j] = n - i /\ clock[j] = clock[i]
<1>1. /\ place \in [1..n -> 0..(n - 1)]
      /\ \A a, b \in 1..n : place[a] = place[b] => a = b
      /\ \A t \in 0..(n - 1) : \E s \in 1..n : place[s] = t
    BY DEF Bijection, Injection, Surjection, IsInjective
<1>2. PICK j \in 1..n : place[j] = n - i
    <2>1. n - i \in 0..(n - 1)
        OBVIOUS
    <2> QED
        BY <1>1, <2>1
<1>3. ASSUME clock[j] > clock[i] PROVE FALSE
    <2> DEFINE S == 1..i
               T == (n - i + 1)..(n - 1)
               f == [k \in S |-> place[k]]
    <2>1. \A k \in S : k \in 1..n /\ place[k] \in T
        <3>1. ASSUME NEW k \in S PROVE k \in 1..n /\ place[k] \in T
            <4>1. k \in 1..n /\ k <= i
                OBVIOUS
            <4>2. clock[k] <= clock[i]
                BY <4>1
            <4>3. clock[j] > clock[k] /\ place[k] \in 0..(n - 1)
                BY <1>1, <1>3, <4>1, <4>2
            <4>4. place[j] < place[k]
                BY <4>1, <4>3
            <4> QED
                BY <1>2, <4>1, <4>3, <4>4
        <3> QED
            BY <3>1
    <2>2. f \in [S -> T] /\ \A x, y \in S : x # y => f[x] # f[y]
        BY <1>1, <2>1
    <2>3. IsFiniteSet(S) /\ Cardinality(S) = i
        BY FS_Interval
    <2>4. IsFiniteSet(T) /\ Cardinality(T) = i - 1
        <3>1. n - i + 1 \in Int /\ n - 1 \in Int
            OBVIOUS
        <3>2. IsFiniteSet(T) /\ Cardinality(T) =
                 IF n - i + 1 > n - 1 THEN 0 ELSE (n - 1) - (n - i + 1) + 1
            BY <3>1, FS_Interval
        <3> QED
            BY <3>2
    <2> HIDE DEF S, T, f
    <2>5. Cardinality(T) < Cardinality(S)
        BY <2>3, <2>4
    <2> QED
        BY <2>2, <2>3, <2>4, <2>5, FS_PigeonHole
<1>4. ASSUME clock[j] < clock[i] PROVE FALSE
    <2> DEFINE S == i..n
               T == 0..(n - i - 1)
               f == [k \in S |-> place[k]]
    <2>1. \A k \in S : k \in 1..n /\ place[k] \in T
        <3>1. ASSUME NEW k \in S PROVE k \in 1..n /\ place[k] \in T
            <4>1. k \in 1..n /\ i <= k
                OBVIOUS
            <4>2. clock[i] <= clock[k]
                BY <4>1
            <4>3. clock[k] > clock[j] /\ place[k] \in 0..(n - 1)
                BY <1>1, <1>4, <4>1, <4>2
            <4>4. place[k] < place[j]
                BY <4>1, <4>3
            <4> QED
                BY <1>2, <4>1, <4>3, <4>4
        <3> QED
            BY <3>1
    <2>2. f \in [S -> T] /\ \A x, y \in S : x # y => f[x] # f[y]
        BY <1>1, <2>1
    <2>3. IsFiniteSet(S) /\ Cardinality(S) = n - i + 1
        BY FS_Interval
    <2>4. IsFiniteSet(T) /\ Cardinality(T) = n - i
        <3>1. n - i - 1 \in Int
            OBVIOUS
        <3>2. IsFiniteSet(T) /\ Cardinality(T) = IF 0 > n - i - 1 THEN 0 ELSE n - i - 1 - 0 + 1
            BY <3>1, FS_Interval
        <3> QED
            BY <3>2
    <2> HIDE DEF S, T, f
    <2>5. Cardinality(T) < Cardinality(S)
        BY <2>3, <2>4
    <2> QED
        BY <2>2, <2>3, <2>4, <2>5, FS_PigeonHole
<1> QED
    <2>1. clock[i] \in Nat /\ clock[j] \in Nat
        OBVIOUS
    <2> QED
        BY <1>2, <1>3, <1>4, <2>1

\* The rows of a listing at p places from one on.
RowsAt(place, n, from, p) == {i \in 1..n : place[i] \in from..(from + p - 1)}

\* A page that does not reach the end of the listing is full.
LEMMA PageIsFull ==
    ASSUME NEW n \in Nat, NEW from \in Nat, NEW p \in Nat, from + p <= n,
           NEW place \in Bijection(1..n, 0..(n - 1))
    PROVE  Cardinality(RowsAt(place, n, from, p)) = p
<1> DEFINE S == RowsAt(place, n, from, p)
           T == from..(from + p - 1)
           f == [i \in S |-> place[i]]
<1>1. /\ place \in [1..n -> 0..(n - 1)]
      /\ \A a, b \in 1..n : place[a] = place[b] => a = b
      /\ \A t \in 0..(n - 1) : \E s \in 1..n : place[s] = t
    BY DEF Bijection, Injection, Surjection, IsInjective
<1>2. f \in [S -> T] /\ IsInjective(f)
    BY <1>1 DEF IsInjective, RowsAt
<1>3. \A t \in T : \E s \in S : f[s] = t
    <2>1. \A t \in T : t \in 0..(n - 1)
        OBVIOUS
    <2> QED
        BY <1>1, <2>1 DEF RowsAt
<1>4. IsFiniteSet(T) /\ Cardinality(T) = p
    <2>1. from + p - 1 \in Int
        OBVIOUS
    <2>2. IsFiniteSet(T) /\ Cardinality(T) = IF from > from + p - 1 THEN 0 ELSE (from + p - 1) - from + 1
        BY <2>1, FS_Interval
    <2> QED
        BY <2>2
<1> HIDE DEF S, T, f
<1>5. f \in Injection(S, T) /\ f \in Surjection(S, T)
    BY <1>2, <1>3 DEF Injection, Surjection
<1>6. Cardinality(S) = Cardinality(T)
    BY <1>4, <1>5, FS_Injection
<1> QED
    BY <1>4, <1>6 DEF S

\* Every step keeps what is owed.
LEMMA InboxStep == Read!InboxAssumption /\ InboxInv /\ [Read!Next]_reading => InboxInv'
<1> SUFFICES ASSUME Read!InboxAssumption, InboxInv, [Read!Next]_reading PROVE InboxInv'
    OBVIOUS
<1> DEFINE Named == {Read!Statuses[i] : i \in 1..6}
<1>0. /\ Read!TypeOK /\ Chronological /\ Unread /\ Uncounted /\ MaxRows \in Nat /\ Page \in Nat \ {0}
      /\ status \in Seq(Named) /\ Len(status) \in Nat /\ Len(status) <= MaxRows /\ Read!Ids = 1..Len(status)
      /\ DOMAIN status = 1..Len(status)
      /\ created \in Seq(Nat) /\ Len(created) = Len(status)
      /\ offset \in Nat /\ walked \subseteq Read!Ids /\ at0 \in 0..MaxRows /\ tally \in Nat
      /\ turn \in 0..6 /\ owed \in 0..MaxRows /\ filter \in {Read!Any, "queued"} /\ walking \in BOOLEAN
    BY DEF InboxInv, Read!TypeOK, Read!InboxAssumption, Read!Ids
<1>f. /\ IsFiniteSet(Read!Ids) /\ Cardinality(Read!Ids) = Len(status)
      /\ \A t : IsFiniteSet(StillAsked(t)) /\ Cardinality(StillAsked(t)) \in Nat
    <2>1. IsFiniteSet(Read!Ids) /\ Cardinality(Read!Ids) = Len(status)
        <3> DEFINE n == Len(status)
        <3>1. n \in Nat /\ Read!Ids = 1..n
            BY <1>0
        <3> HIDE DEF n
        <3>2. IsFiniteSet(1..n) /\ Cardinality(1..n) = IF 1 > n THEN 0 ELSE n - 1 + 1
            BY <3>1, FS_Interval
        <3>3. Cardinality(1..n) = n
            BY <3>1, <3>2
        <3> QED
            BY <3>1, <3>2, <3>3 DEF n
    <2>2. \A t : StillAsked(t) \subseteq Read!Ids
        BY DEF StillAsked
    <2> QED
        BY <2>1, <2>2, FS_Subset, FS_CardinalityType
\* The rows may grow in number, and move on.
<1>1. ASSUME status' \in Seq(Named), Len(status') \in Nat, Len(status) <= Len(status'), Len(status') <= MaxRows,
             DOMAIN status' = 1..Len(status'), UNCHANGED <<Read!walk, Read!report>>,
             created' \in Seq(Nat), Len(created') = Len(status'), Chronological',
             \A i \in 1..Len(status) : created'[i] = created[i],
             \A t \in 1..6 : StillAsked(t) \subseteq StillAsked(t)'
      PROVE  InboxInv'
    <2>1. UNCHANGED <<filter, offset, walked, walking, at0, tally, turn, owed>>
        BY <1>1 DEF Read!walk, Read!report
    <2>2. Read!TypeOK'
        BY <1>0, <1>1, <2>1 DEF Read!TypeOK, Read!Ids
    <2>3. Unread'
        <3>1. walked \subseteq 1..Len(status) /\ 1..at0 \subseteq 1..Len(status)
            BY <1>0 DEF Unread
        <3>2. \A i \in 1..at0 : (\E k \in walked : created[k] = created[i])
                                   => \E k \in walked' : created'[k] = created'[i]
            BY <1>1, <2>1, <3>1
        <3>3. \A i \in 1..at0 : Len(status) - i >= offset => Len(status') - i >= offset
            <4>1. /\ Len(status) \in Nat /\ Len(status') \in Nat /\ Len(status) <= Len(status')
                  /\ at0 \in Nat /\ offset \in Nat
                BY <1>0, <1>1
            <4> QED
                BY <4>1
        <3>4. at0' <= Len(status')
            <4>1. /\ Len(status) \in Nat /\ Len(status') \in Nat /\ Len(status) <= Len(status')
                  /\ at0 \in Nat /\ at0 <= Len(status)
                BY <1>0, <1>1 DEF Unread
            <4> QED
                BY <2>1, <4>1
        <3>5. ASSUME filter' = Read!Any, NEW i \in 1..at0'
              PROVE  \/ \E k \in walked' : created'[k] = created'[i]
                     \/ walking' /\ Len(status') - i >= offset'
            <4>1. filter = Read!Any /\ i \in 1..at0
                BY <2>1, <3>5
            <4>2. \/ \E k \in walked : created[k] = created[i]
                  \/ walking /\ Len(status) - i >= offset
                BY <1>0, <4>1 DEF Unread
            <4> QED
                BY <2>1, <3>2, <3>3, <4>1, <4>2
        <3> QED
            BY <3>4, <3>5 DEF Unread
    <2>4. Uncounted'
        <3>1. CASE turn = 0
            BY <1>0, <2>1, <3>1 DEF Uncounted
        <3>2. CASE turn # 0
            <4>1. PICK t \in 1..6 : t = turn
                BY <1>0, <3>2
            <4>2. StillAsked(turn) = StillAsked(t) /\ StillAsked(turn)' = StillAsked(t)' /\ turn' # 0
                BY <2>1, <3>2, <4>1 DEF StillAsked
            <4>3. IsFiniteSet(StillAsked(t)') /\ StillAsked(t) \subseteq StillAsked(t)'
                <5>1. StillAsked(t)' \subseteq 1..Len(status')
                    BY <1>1 DEF StillAsked, Read!Ids
                <5>2. IsFiniteSet(1..Len(status'))
                    BY <1>1, FS_Interval
                <5> QED
                    BY <1>1, <5>1, <5>2, FS_Subset
            <4>4. Cardinality(StillAsked(t)) <= Cardinality(StillAsked(t)') /\ Cardinality(StillAsked(t)') \in Nat
                BY <4>3, FS_Subset, FS_CardinalityType
            <4>5. tally + Cardinality(StillAsked(t)) >= owed
                BY <3>2, <4>2, <1>0 DEF Uncounted
            <4>6. tally' + Cardinality(StillAsked(t)') >= owed'
                BY <1>0, <1>f, <2>1, <4>4, <4>5
            <4> QED
                BY <4>2, <4>6 DEF Uncounted
        <3> QED
            BY <3>1, <3>2
    <2> QED
        BY <1>1, <2>2, <2>3, <2>4 DEF InboxInv
<1>2. CASE Read!Post
    <2>1. Len(status) < MaxRows /\ status' = Append(status, "queued") /\ "queued" \in Named
        BY <1>2, StatusPlaces DEF Read!Post, Read!Asked
    <2>2. /\ status' \in Seq(Named) /\ Len(status') = Len(status) + 1 /\ DOMAIN status' = 1..Len(status')
          /\ \A i \in 1..Len(status) : status'[i] = status[i]
        BY <1>0, <2>1
    <2>3. \A t \in 1..6 : StillAsked(t) \subseteq StillAsked(t)'
        BY <1>0, <2>2 DEF StillAsked, Read!Ids
    <2>4. PICK t \in {Read!Newest, Read!Newest + 1} : created' = Append(created, t)
        BY <1>2 DEF Read!Post
    <2>5. /\ t \in Nat /\ \A i \in 1..Len(status) : created[i] \in Nat /\ created[i] <= t
        <3>1. CASE Len(status) = 0
            BY <1>0, <2>4, <3>1 DEF Read!Newest
        <3>2. CASE Len(status) # 0
            <4>1. Read!Newest = created[Len(status)] /\ Len(status) \in Read!Ids
                BY <1>0, <3>2 DEF Read!Newest
            <4>2. \A i \in 1..Len(status) : created[i] <= created[Len(status)]
                BY <1>0, <4>1 DEF Chronological
            <4>3. \A i \in 1..Len(status) : created[i] \in Nat
                BY <1>0
            <4> QED
                BY <1>0, <2>4, <4>1, <4>2, <4>3
        <3> QED
            BY <3>1, <3>2
    <2>6. /\ created' \in Seq(Nat) /\ Len(created') = Len(status')
          /\ \A i \in 1..Len(status) : created'[i] = created[i]
          /\ created'[Len(status')] = t
        BY <1>0, <2>2, <2>4, <2>5
    <2>7. Chronological'
        <3>1. SUFFICES ASSUME NEW i \in 1..Len(status'), NEW j \in 1..Len(status'), i <= j
                       PROVE  created'[i] <= created'[j]
            BY <2>2 DEF Chronological, Read!Ids
        <3>2. CASE j = Len(status')
            <4>1. i \in 1..Len(status) \/ i = j
                BY <1>0, <2>2, <3>1, <3>2
            <4> QED
                BY <2>5, <2>6, <3>2, <4>1
        <3>3. CASE j # Len(status')
            <4>1. i \in Read!Ids /\ j \in Read!Ids
                BY <1>0, <2>2, <3>1, <3>3
            <4>2. created[i] <= created[j]
                BY <1>0, <3>1, <4>1 DEF Chronological
            <4> QED
                BY <1>0, <2>6, <4>1, <4>2
        <3> QED
            BY <3>2, <3>3
    <2> QED
        BY <1>0, <1>1, <1>2, <2>1, <2>2, <2>3, <2>6, <2>7 DEF Read!Post
<1>3. ASSUME NEW i \in Read!Ids, Read!Move(i) PROVE InboxInv'
    <2>1. PICK m \in Read!Moves : status[i] = m[1] /\ status' = [status EXCEPT ![i] = m[2]]
        BY <1>3 DEF Read!Move
    <2>2. \E a, b \in 1..6 : a < b /\ m[1] = Read!Asked[a] /\ m[2] = Read!Asked[b]
        <3>1. \/ m[1] = Read!Asked[1] /\ m[2] = Read!Asked[2]
              \/ m[1] = Read!Asked[2] /\ m[2] = Read!Asked[3]
              \/ m[1] = Read!Asked[2] /\ m[2] = Read!Asked[5]
            BY <2>1, StatusPlaces DEF Read!Moves
        <3> QED
            BY <3>1
    <2>3. PICK a \in 1..6, b \in 1..6 : a < b /\ m[1] = Read!Asked[a] /\ m[2] = Read!Asked[b]
        BY <2>2
    <2>4. /\ status' \in Seq(Named) /\ Len(status') = Len(status) /\ DOMAIN status' = 1..Len(status')
          /\ status'[i] = m[2] /\ \A j \in 1..Len(status) : j # i => status'[j] = status[j]
        <3>1. m[2] \in Named
            BY <2>3 DEF Read!Asked
        <3> HIDE DEF Named
        <3> QED
            BY <1>0, <1>3, <2>1, <3>1
    <2>5. ASSUME NEW t \in 1..6, NEW j \in StillAsked(t) PROVE j \in StillAsked(t)'
        <3>1. PICK k \in t..6 : status[j] = Read!Asked[k]
            BY DEF StillAsked
        <3>2. j \in 1..Len(status) /\ j \in Read!Ids'
            BY <1>0, <2>4 DEF StillAsked, Read!Ids
        <3>3. CASE j # i
            BY <2>4, <3>1, <3>2, <3>3 DEF StillAsked
        <3>4. CASE j = i
            <4>1. Read!Asked[k] = Read!Asked[a] /\ k \in 1..6
                BY <2>1, <2>3, <3>1, <3>4
            <4>2. k = a
                BY <4>1, StatusPlaces
            <4>3. b \in t..6 /\ status'[j] = Read!Asked[b]
                BY <2>3, <2>4, <3>4, <4>2
            <4> QED
                BY <3>2, <4>3 DEF StillAsked
        <3> QED
            BY <3>3, <3>4
    <2>6. created' = created
        BY <1>3 DEF Read!Move
    <2>7. Chronological'
        BY <1>0, <2>4, <2>6 DEF Chronological, Read!Ids
    <2> QED
        BY <1>0, <1>1, <1>3, <2>4, <2>5, <2>6, <2>7 DEF Read!Move
<1>4. ASSUME NEW f \in {Read!Any, "queued"}, Read!StartWalk(f) PROVE InboxInv'
    <2>1. /\ filter' = f /\ offset' = 0 /\ walked' = {} /\ walking' = TRUE /\ at0' = Len(status)
          /\ UNCHANGED <<status, created, tally, turn, owed>>
        BY <1>4 DEF Read!StartWalk, Read!rows, Read!report
    <2>2. Read!TypeOK'
        BY <1>0, <2>1 DEF Read!TypeOK, Read!Ids
    <2>3. Unread'
        BY <1>0, <2>1 DEF Unread
    <2>4. Uncounted'
        BY <1>0, <2>1 DEF Uncounted, StillAsked, Read!Ids
    <2> QED
        BY <1>0, <2>1, <2>2, <2>3, <2>4 DEF InboxInv, Chronological, Read!Ids
<1>5. CASE Read!NextPage
    <2>1. PICK place \in Read!Listings(Read!Matching(filter)) :
             /\ walked' = walked \cup Read!Fetched(place, offset)
             /\ walking' = (Cardinality(Read!Fetched(place, offset)) = Page)
        BY <1>5, InboxCounts DEF Read!NextPage
    <2> DEFINE page == Read!Fetched(place, offset)
    <2>2. /\ walking /\ offset' = offset + Page
          /\ UNCHANGED <<status, created, filter, at0, tally, turn, owed>>
        BY <1>5 DEF Read!NextPage, Read!rows, Read!report
    <2>3. page \subseteq Read!Ids /\ walking' \in BOOLEAN
        <3>1. DOMAIN place = Read!Matching(filter)
            BY <2>1 DEF Read!Listings, Read!Bijection, Read!Injection
        <3> QED
            BY <2>1, <3>1 DEF Read!Fetched, Read!PageOf, Read!Matching
    <2>4. Read!TypeOK'
        BY <1>0, <2>1, <2>2, <2>3 DEF Read!TypeOK, Read!Ids
    <2>5. ASSUME filter = Read!Any, NEW i \in 1..at0
          PROVE  \/ \E j \in walked' : created[j] = created[i]
                 \/ walking' /\ Len(status) - i >= offset + Page
        <3> DEFINE n == Len(status)
        <3>1. place \in Read!Listings(Read!Ids)
            BY <2>1, <2>5 DEF Read!Matching
        <3>2. /\ n \in Nat /\ Read!Ids = 1..n /\ created \in [1..n -> Nat]
              /\ place \in Bijection(1..n, 0..(n - 1))
              /\ \A a, b \in 1..n : created[a] > created[b] => place[a] < place[b]
            BY <1>0, <3>1, ListingFacts
        <3>3. \A a, b \in 1..n : a <= b => created[a] <= created[b]
            BY <1>0, <3>2 DEF Chronological
        <3>4. \/ \E j \in walked : created[j] = created[i]
              \/ n - i >= offset
            BY <1>0, <2>5 DEF Unread
        <3>5. i \in 1..n
            BY <1>0 DEF Unread
        <3>6. page = RowsAt(place, n, offset, Page)
            BY <3>2 DEF RowsAt, Read!Fetched, Read!PageOf, Bijection, Injection
        <3> HIDE DEF page, n
        <3>7. PICK j \in 1..n : place[j] = n - i /\ created[j] = created[i]
            BY <3>2, <3>3, <3>5, PlacesFollowClock
        <3>8. ASSUME n - i >= offset, n - i < offset + Page PROVE j \in walked'
            <4>1. n - i \in offset..(offset + Page - 1)
                BY <1>0, <3>2, <3>5, <3>8
            <4> QED
                BY <2>1, <3>6, <3>7, <4>1 DEF page, RowsAt
        <3>9. ASSUME n - i >= offset + Page PROVE walking'
            <4>1. /\ n \in Nat /\ offset \in Nat /\ Page \in Nat /\ i \in 1..n
                  /\ place \in Bijection(1..n, 0..(n - 1))
                BY <1>0, <3>2, <3>5
            <4>2. offset + Page <= n
                BY <3>9, <4>1
            <4>3. Cardinality(RowsAt(place, n, offset, Page)) = Page
                BY <4>1, <4>2, PageIsFull
            <4>4. Cardinality(page) = Page
                BY <3>6, <4>3, Zenon
            <4> QED
                BY <2>1, <4>4 DEF page
        <3>10. (\E k \in walked : created[k] = created[i]) => \E k \in walked' : created[k] = created[i]
            BY <2>1
        <3>11. n - i < offset + Page \/ n - i >= offset + Page
            BY <1>0, <3>2, <3>5
        <3> QED
            BY <3>4, <3>7, <3>8, <3>9, <3>10, <3>11 DEF n
    <2>6. Unread'
        BY <1>0, <2>1, <2>2, <2>5 DEF Unread
    <2>7. Uncounted'
        BY <1>0, <2>2 DEF Uncounted, StillAsked, Read!Ids
    <2> QED
        BY <1>0, <2>2, <2>4, <2>6, <2>7 DEF InboxInv, Chronological, Read!Ids
<1>6. CASE Read!StartReport
    <2>1. /\ turn' = 1 /\ tally' = 0 /\ owed' = Len(status)
          /\ UNCHANGED <<status, created, filter, offset, walked, walking, at0>>
        BY <1>6 DEF Read!StartReport, Read!rows, Read!walk
    <2>2. StillAsked(1) = Read!Ids
        <3>1. ASSUME NEW i \in Read!Ids PROVE \E k \in 1..6 : status[i] = Read!Asked[k]
            BY <1>0, <3>1 DEF Read!Asked
        <3> QED
            BY <3>1 DEF StillAsked
    <2>3. StillAsked(turn)' = StillAsked(1)
        BY <2>1 DEF StillAsked, Read!Ids
    <2>4. Uncounted'
        BY <1>0, <1>f, <2>1, <2>2, <2>3 DEF Uncounted
    <2>5. Read!TypeOK' /\ Unread'
        BY <1>0, <2>1 DEF Read!TypeOK, Read!Ids, Unread
    <2> QED
        BY <1>0, <2>1, <2>4, <2>5 DEF InboxInv, Chronological, Read!Ids
<1>7. CASE Read!CountStatus
    <2> DEFINE here == {i \in Read!Ids : status[i] = Read!Asked[turn]}
               rest == StillAsked(turn + 1)
    <2>1. /\ turn # 0 /\ tally' = tally + Cardinality(here) /\ turn' = Read!Following(turn)
          /\ UNCHANGED <<status, created, filter, offset, walked, walking, at0, owed>>
        BY <1>7, InboxCounts DEF Read!CountStatus, Read!rows, Read!walk
    <2>2. turn \in 1..6 /\ turn' = IF turn = 6 THEN 0 ELSE turn + 1
        BY <1>0, <2>1, StatusPlaces DEF Read!Following
    <2>3. StillAsked(turn) = here \cup rest /\ (turn = 6 => rest = {})
        <3>1. \A k \in turn..6 : k = turn \/ k \in (turn + 1)..6
            BY <2>2
        <3>2. turn \in turn..6 /\ \A k \in (turn + 1)..6 : k \in turn..6
            BY <2>2
        <3>3. turn = 6 => (turn + 1)..6 = {}
            BY <2>2
        <3> QED
            BY <3>1, <3>2, <3>3 DEF StillAsked
    <2>4. /\ IsFiniteSet(here) /\ Cardinality(here) \in Nat /\ IsFiniteSet(rest) /\ Cardinality(rest) \in Nat
        <3>1. here \subseteq Read!Ids
            OBVIOUS
        <3> QED
            BY <1>f, <3>1, FS_Subset, FS_CardinalityType
    <2> HIDE DEF here, rest
    <2>5. Cardinality(here \cup rest) <= Cardinality(here) + Cardinality(rest)
        <3>1. /\ Cardinality(here \cup rest) = Cardinality(here) + Cardinality(rest) - Cardinality(here \cap rest)
              /\ Cardinality(here \cap rest) \in Nat
            BY <2>4, FS_Union, FS_Intersection, FS_CardinalityType
        <3> QED
            BY <2>4, <3>1
    <2>6. tally + Cardinality(here \cup rest) >= owed
        BY <1>0, <2>2, <2>3 DEF Uncounted
    <2>7. Uncounted'
        <3>1. CASE turn = 6
            <4>1. here \cup rest = here
                BY <2>3, <3>1
            <4>2. tally + Cardinality(here) >= owed
                BY <2>6, <4>1, Zenon
            <4> QED
                BY <2>1, <2>2, <3>1, <4>2 DEF Uncounted
        <3>2. CASE turn # 6
            <4>1. turn' = turn + 1 /\ turn' # 0 /\ StillAsked(turn)' = rest
                BY <2>1, <2>2, <3>2 DEF StillAsked, Read!Ids, rest
            <4>2. tally' + Cardinality(rest) >= owed'
                <5>1. Cardinality(here \cup rest) \in Nat
                    BY <2>4, FS_Union, FS_CardinalityType
                <5> QED
                    BY <1>0, <2>1, <2>4, <2>5, <2>6, <5>1
            <4> QED
                BY <4>1, <4>2 DEF Uncounted
        <3> QED
            BY <3>1, <3>2
    <2>8. Read!TypeOK' /\ Unread'
        BY <1>0, <2>1, <2>2, <2>4 DEF Read!TypeOK, Read!Ids, Unread
    <2> QED
        BY <1>0, <2>1, <2>7, <2>8 DEF InboxInv, Chronological, Read!Ids
<1>8. CASE UNCHANGED reading
    BY <1>8 DEF reading, InboxInv, Chronological, Read!TypeOK, Read!Ids, Unread, Uncounted, StillAsked
<1>9. CASE Read!Next
    BY <1>2, <1>3, <1>4, <1>5, <1>6, <1>7, <1>9 DEF Read!Next, Read!Walks, Read!Reports, Read!Changes
<1> QED
    BY <1>8, <1>9

\* A walk without a filter reads a row of every second in which there was one when
\* it began, so it misses no row alone in its second, and the report of the queue
\* counts at least as many rows as there were.
THEOREM ReadCompleteHolds == Spec => []ReadComplete
<1>1. Init => InboxInv
    BY InboxUnit, InboxStarts
<1>2. InboxInv /\ [Next]_vars => InboxInv'
    BY InboxUnit, InboxStep
<1> QED
    BY <1>1, <1>2, InboxComplete, PTL DEF Spec

-----------------------------------------------------------------------------
(* The radar: its clients share one satellite and one mode. *)

\* The unit's assumption holds, and the composition starts it and steps it as its
\* module says.
LEMMA RadarUnit ==
    /\ Radar!RadarAssumption
    /\ Init => Radar!Init
    /\ [Next]_vars => [Radar!Next]_radar
BY HandlersAssumption DEF Init, Next, vars

\* A client that was never connected was told nothing.
Untold == \A c \in Clients : socket[c] = "none" => reply[c] = Radar!Unseen

\* The inductive invariant of the radar.
RadarInv == Radar!TypeOK /\ reply = [c \in Clients |-> reply[c]] /\ Untold /\ Radar!RadarSound

\* The radar starts with no client, and nothing told to any.
LEMMA RadarStarts == Radar!RadarAssumption /\ Radar!Init => RadarInv
BY DEF Radar!Init, RadarInv, Untold, Radar!TypeOK, Radar!RadarSound, Radar!OneTaskPerLoop,
       Radar!ReplyHolds, Radar!Modes, Radar!RadarAssumption

\* A name that is in the catalogue is one that can be typed.
LEMMA UnlistedIsTyped ==
    \A name \in Radar!Typed \cup {Radar!Unlisted} : name.name \in Catalog => name \in Radar!Typed
<1>1. "unlisted" \in Catalog => Radar!Unlisted \in Radar!Typed
    BY DEF Radar!Typed, Radar!Unlisted
<1>2. Radar!Unlisted.name = "unlisted"
    BY DEF Radar!Unlisted
<1> QED
    BY <1>1, <1>2, Zenon

\* Each step keeps the tasks of the loops; a satellite is set together with who
\* set it and what that client is told.
LEMMA RadarStep == Radar!RadarAssumption /\ RadarInv /\ [Radar!Next]_radar => RadarInv'
<1> SUFFICES ASSUME Radar!RadarAssumption, RadarInv, [Radar!Next]_radar PROVE RadarInv'
    OBVIOUS
<1> USE DEF RadarInv, Untold, Radar!TypeOK, Radar!RadarSound, Radar!OneTaskPerLoop, Radar!ReplyHolds,
    Radar!Position, Radar!RadarAssumption
<1>1. ASSUME NEW c \in Clients, Radar!Accept(c) PROVE RadarInv'
    BY <1>1 DEF Radar!Accept
<1>2. ASSUME NEW c \in Clients, Radar!Stream(c) PROVE RadarInv'
    BY <1>2 DEF Radar!Stream
<1>3. ASSUME NEW c \in Clients, Radar!Hang(c) PROVE RadarInv'
    BY <1>3 DEF Radar!Hang
<1>4. ASSUME NEW c \in Clients, Radar!Disconnected(c) PROVE RadarInv'
    BY <1>4 DEF Radar!Disconnected, Radar!Stop
<1>5. ASSUME NEW c \in Clients, Radar!Misspeak(c) PROVE RadarInv'
    BY <1>5 DEF Radar!Misspeak, Radar!Stop
<1>6. ASSUME NEW c \in Clients, Radar!DisconnectCommand(c) PROVE RadarInv'
    <2> USE <1>6 DEF Radar!DisconnectCommand, Radar!Answering, Radar!Stop, Radar!Change
    <2>1. Radar!TypeOK' /\ (reply = [q \in Clients |-> reply[q]])' /\ Untold'
        OBVIOUS
    <2>2. Radar!OneTaskPerLoop'
        OBVIOUS
    <2>3. target' = Radar!Nothing /\ last' = c
        OBVIOUS
    <2>4. socket'[c] = "open" => reply'[c] = [success |-> TRUE, name |-> Radar!Nothing]
        OBVIOUS
    <2>5. Radar!Position' = "none" /\ Radar!Nothing.name = "none"
        BY <2>3 DEF Radar!Nothing
    <2>6. Radar!ReplyHolds'
        BY <2>3, <2>4, <2>5 DEF Radar!ReplyHolds
    <2> QED
        BY <2>1, <2>2, <2>6
<1>7. ASSUME NEW c \in Clients, NEW name \in Radar!Typed \cup {Radar!Unlisted},
             Radar!ConnectCommand(c, name)
      PROVE  RadarInv'
    <2> USE <1>7 DEF Radar!ConnectCommand, Radar!Connected, Radar!Answering, Radar!Stop, Radar!Change
    <2>1. name.name \in Catalog => name \in Radar!Typed
        BY UnlistedIsTyped
    <2>2. Radar!TypeOK'
        <3>1. target' \in Radar!Typed \cup {Radar!Nothing}
            BY <2>1
        <3> QED
            BY <3>1
    <2>3. Radar!OneTaskPerLoop' /\ (reply = [q \in Clients |-> reply[q]])'
        OBVIOUS
    <2>4. Untold'
        OBVIOUS
    <2>5. ASSUME NEW q \in Clients, last' = q, reply'[q] # Radar!Unseen, reply'[q].success,
                 socket'[q] = "open"
          PROVE  target' = reply'[q].name /\ (reply'[q].name.exact => Radar!Position' = reply'[q].name.name)
        <3>1. CASE q = c
            <4>1. reply'[q] = [success |-> name.name \in Catalog, name |-> name]
                BY <2>5, <3>1
            <4>2. name.name \in Catalog
                <5>1. [success |-> name.name \in Catalog, name |-> name].success
                    BY <2>5, <4>1, Zenon
                <5> QED
                    BY <5>1
            <4>r. reply'[q].name = name
                BY <4>1
            <4>n. target' = name
                BY <4>2
            <4>3. name.exact => Radar!Position' = name.name
                BY <4>n DEF Radar!Position, Radar!Nothing
            <4> QED
                BY <4>3, <4>n, <4>r
        <3>2. CASE q # c
            <4>1. last' = last /\ target' = target /\ reply'[q] = reply[q] /\ socket[q] = "open"
                BY <2>5, <3>2
            <4> QED
                BY <2>5, <4>1 DEF Radar!ReplyHolds, Radar!Position
        <3> QED
            BY <3>1, <3>2
    <2>6. Radar!ReplyHolds'
        BY <2>5 DEF Radar!ReplyHolds
    <2> QED
        BY <2>2, <2>3, <2>4, <2>6
<1>8. ASSUME NEW c \in Clients, NEW m \in Radar!Modes \cup {"sleep"}, Radar!SetModeCommand(c, m)
      PROVE  RadarInv'
    <2> USE <1>8 DEF Radar!SetModeCommand, Radar!Answering, Radar!Stop, Radar!Change
    <2>1. reply' = reply
        OBVIOUS
    <2>2. Radar!TypeOK' /\ Untold'
        BY <2>1
    <2>3. Radar!OneTaskPerLoop'
        OBVIOUS
    <2>4. Radar!ReplyHolds'
        BY <2>1
    <2> QED
        BY <2>1, <2>2, <2>3, <2>4
<1>9. ASSUME NEW name \in Radar!Typed \cup {Radar!Unlisted}, Radar!PostConnect(name)
      PROVE  RadarInv'
    <2> USE <1>9 DEF Radar!PostConnect, Radar!Connected, Radar!Change
    <2>1. name.name \in Catalog => name \in Radar!Typed
        BY UnlistedIsTyped
    <2>2. target' \in Radar!Typed \cup {Radar!Nothing}
        BY <2>1
    <2>3. Radar!TypeOK'
        BY <2>2
    <2>4. Radar!OneTaskPerLoop' /\ Untold' /\ (reply = [q \in Clients |-> reply[q]])'
        OBVIOUS
    <2>5. Radar!ReplyHolds'
        <3>1. CASE name.name \in Catalog
            BY <3>1
        <3>2. CASE name.name \notin Catalog
            BY <3>2
        <3> QED
            BY <3>1, <3>2
    <2> QED
        BY <2>3, <2>4, <2>5
<1>10. ASSUME NEW m \in Radar!Modes, Radar!PostMode(m) PROVE RadarInv'
    BY <1>10 DEF Radar!PostMode, Radar!Change
<1>11. CASE Radar!PostDisconnect
    BY <1>11 DEF Radar!PostDisconnect, Radar!Change
<1>12. CASE UNCHANGED radar
    BY <1>12 DEF radar
<1>13. CASE Radar!Next
    BY <1>1, <1>2, <1>3, <1>4, <1>5, <1>6, <1>7, <1>8, <1>9, <1>10, <1>11, <1>13 DEF Radar!Next
<1> QED
    BY <1>12, <1>13

-----------------------------------------------------------------------------
(* The plan for a pass. *)

\* The unit's assumption holds, and the composition starts it and steps it as its
\* module says.
LEMMA PlanUnit ==
    /\ Plan!TxPlanAssumption
    /\ Init => Plan!Init
    /\ [Next]_vars => [Plan!Next]_planning
BY HandlersAssumption DEF Init, Next, vars

\* A function that starts at a value and takes each step from the one before.
Iterates(f, n, a, step) == f[0] = a /\ \A k \in 1..n : f[k] = step[<<k, f[k - 1]>>]

\* Over an interval there is one, if the steps stay among the values: a recursive
\* definition of that form has a value.
LEMMA Iterated ==
    ASSUME NEW n \in Nat, NEW Values, NEW a \in Values, NEW step \in [(1..n) \X Values -> Values]
    PROVE  \E f \in [0..n -> Values] : Iterates(f, n, a, step)
<1> DEFINE Good(f, m) == Iterates(f, m, a, step)
           X == {m \in 0..n : \E f \in [0..m -> Values] : Good(f, m)}
<1>1. 0 \in X
    <2> DEFINE f == [k \in 0..0 |-> a]
    <2>1. f \in [0..0 -> Values] /\ f[0] = a
        OBVIOUS
    <2>2. \A k \in 1..0 : FALSE
        OBVIOUS
    <2> HIDE DEF f
    <2> QED
        BY <2>1, <2>2 DEF Iterates
<1>2. ASSUME NEW i \in 1..n, i - 1 \in X PROVE i \in X
    <2>1. PICK f \in [0..(i - 1) -> Values] : Good(f, i - 1)
        BY <1>2
    <2> DEFINE g == [k \in 0..i |-> IF k = i THEN step[<<i, f[i - 1]>>] ELSE f[k]]
    <2>2. <<i, f[i - 1]>> \in (1..n) \X Values
        BY <2>1
    <2>3. step[<<i, f[i - 1]>>] \in Values
        BY <2>2
    <2>4. g \in [0..i -> Values]
        BY <2>1, <2>3
    <2>5. \A k \in 0..(i - 1) : g[k] = f[k]
        OBVIOUS
    <2>6. g[i] = step[<<i, g[i - 1]>>]
        <3>1. i \in 0..i /\ i - 1 \in 0..(i - 1)
            OBVIOUS
        <3>2. g[i] = step[<<i, f[i - 1]>>] /\ g[i - 1] = f[i - 1]
            BY <2>5, <3>1
        <3> QED
            BY <3>2
    <2>7. ASSUME NEW k \in 1..i PROVE g[k] = step[<<k, g[k - 1]>>]
        <3>1. CASE k = i
            BY <2>6, <3>1
        <3>2. CASE k # i
            <4>1. k \in 1..(i - 1) /\ k - 1 \in 0..(i - 1) /\ k \in 0..(i - 1)
                BY <3>2
            <4> HIDE DEF g
            <4> QED
                BY <2>1, <2>5, <4>1 DEF Iterates
        <3> QED
            BY <3>1, <3>2
    <2>8. g[0] = a
        BY <2>1 DEF Iterates
    <2> HIDE DEF g
    <2>9. Good(g, i)
        BY <2>7, <2>8 DEF Iterates
    <2> QED
        BY <2>4, <2>9
<1> HIDE DEF X
<1>3. 0..n \subseteq X
    BY <1>1, <1>2, Climb
<1>4. n \in X
    BY <1>3
<1> QED
    BY <1>4 DEF X

\* What may wait for a pass.
PlanMessages == [priority : Plan!Priorities, created : 1..Times, size : Sizes]

\* A queue in order: none before one that is more urgent, or as urgent and older.
Ordered(q) == \A i, j \in 1..Len(q) : i < j => Plan!Before(q[i], q[j])

\* The inductive invariant of the plan: the queue is in order, and a plan is the one
\* that is made of it.
PlanInv ==
    /\ queue \in Seq(PlanMessages) /\ Len(queue) <= Waiting /\ Ordered(queue)
    /\ plan = Plan!NoPlan \/ \E el \in Elevations : plan = Plan!Greedy(queue, el)

\* The unit counts as this module does.
LEMMA PlanCounts == \A X : Plan!Cardinality(X) = Cardinality(X)
BY DEF Cardinality, Plan!Cardinality

\* A message is put where the ordered queue stays ordered: those before it are
\* the first ones.
LEMMA StaysOrdered ==
    ASSUME Plan!TxPlanAssumption, NEW q \in Seq(PlanMessages), Ordered(q), NEW m \in PlanMessages
    PROVE  /\ Plan!Enqueued(q, m) \in Seq(PlanMessages) /\ Len(Plan!Enqueued(q, m)) = Len(q) + 1
           /\ Ordered(Plan!Enqueued(q, m))
<1> DEFINE n == Len(q)
           D == {i \in 1..n : Plan!Before(q[i], m)}
           N == {i \in 1..(n + 1) : i \notin D}
<1>0. n \in Nat /\ \A i \in 1..n : q[i] \in PlanMessages
    OBVIOUS
<1>t. \A x, y, z \in PlanMessages :
          /\ Plan!Before(x, y) /\ Plan!Before(y, z) => Plan!Before(x, z)
          /\ Plan!Before(x, y) \/ Plan!Before(y, x)
    BY DEF PlanMessages, Plan!Before, Plan!Priorities, Plan!TxPlanAssumption
<1> HIDE DEF n
<1>1. PICK x \in N : \A y \in N : x <= y
    <2>1. N \in SUBSET Nat /\ n + 1 \in N
        BY <1>0
    <2> QED
        BY <2>1, LeastNatural
<1>2. x \in 1..(n + 1) /\ x \notin D /\ \A i \in 1..(x - 1) : i \in D
    BY <1>0, <1>1
<1>3. D = 1..(x - 1)
    <2>1. ASSUME NEW i \in D, ~(i \in 1..(x - 1)) PROVE FALSE
        <3>1. i \in 1..n /\ x \in 1..n /\ x < i /\ Plan!Before(q[i], m)
            BY <1>0, <1>2, <2>1
        <3>2. Plan!Before(q[x], q[i])
            BY <3>1 DEF Ordered, n
        <3>3. Plan!Before(q[x], m)
            BY <1>0, <1>t, <3>1, <3>2
        <3> QED
            BY <1>2, <3>1, <3>3
    <2> QED
        BY <1>2, <2>1
<1>4. Cardinality(D) = x - 1
    <2>1. x - 1 \in Nat /\ 1 \in Int /\ x - 1 \in Int
        BY <1>0, <1>2
    <2>2. Cardinality(1..(x - 1)) = x - 1
        BY <2>1, FS_Interval
    <2> QED
        BY <1>3, <2>2
<1> DEFINE r == Plan!Enqueued(q, m)
<1>5. DOMAIN q = 1..n
    BY DEF n
<1>6. r = SubSeq(q, 1, x - 1) \o <<m>> \o SubSeq(q, x, n)
    <2>1. Plan!Cardinality({i \in DOMAIN q : Plan!Before(q[i], m)}) = x - 1
        BY <1>4, <1>5, PlanCounts
    <2>2. 1 + (x - 1) = x /\ x - 1 \in Int
        BY <1>0, <1>2
    <2>3. r = Plan!InsertAt(q, x, m)
        BY <2>1, <2>2 DEF Plan!Enqueued
    <2> QED
        BY <2>3 DEF Plan!InsertAt, n
<1> HIDE DEF r, D, N
<1>7. /\ r \in Seq(PlanMessages) /\ Len(r) = n + 1
      /\ \A i \in 1..(n + 1) : r[i] = IF i < x THEN q[i] ELSE IF i = x THEN m ELSE q[i - 1]
    <2> DEFINE a == SubSeq(q, 1, x - 1)
               b == SubSeq(q, x, n)
    <2>1. /\ a \in Seq(PlanMessages) /\ Len(a) = x - 1
          /\ \A i \in 1..(x - 1) : a[i] = q[i]
        BY <1>0, <1>2 DEF n
    <2>2. /\ b \in Seq(PlanMessages) /\ Len(b) = n - x + 1
          /\ \A i \in 1..(n - x + 1) : b[i] = q[x + i - 1]
        BY <1>0, <1>2 DEF n
    <2> HIDE DEF a, b
    <2> DEFINE c == a \o <<m>>
    <2>3. /\ c \in Seq(PlanMessages) /\ Len(c) = x
          /\ \A i \in 1..x : c[i] = IF i < x THEN a[i] ELSE m
        BY <1>0, <1>2, <2>1
    <2> HIDE DEF c
    <2>4. r = c \o b
        BY <1>6 DEF a, b, c
    <2>5. r \in Seq(PlanMessages) /\ Len(r) = n + 1
        <3>1. r \in Seq(PlanMessages) /\ Len(r) = Len(c) + Len(b)
            BY <2>2, <2>3, <2>4, ConcatProperties
        <3> QED
            BY <1>0, <1>2, <2>2, <2>3, <3>1
    <2>c. \A i \in 1..(Len(c) + Len(b)) : r[i] = IF i <= Len(c) THEN c[i] ELSE b[i - Len(c)]
        BY <2>2, <2>3, <2>4, ConcatProperties
    <2>6. ASSUME NEW i \in 1..(n + 1)
          PROVE  r[i] = IF i < x THEN q[i] ELSE IF i = x THEN m ELSE q[i - 1]
        <3>1. CASE i <= x
            <4>1. r[i] = c[i]
                BY <1>0, <1>2, <2>2, <2>3, <2>c, <3>1
            <4> QED
                BY <1>0, <1>2, <2>1, <2>3, <3>1, <4>1
        <3>2. CASE x < i
            <4>1. r[i] = b[i - x] /\ i - x \in 1..(n - x + 1) /\ x + (i - x) - 1 = i - 1
                BY <1>0, <1>2, <2>2, <2>3, <2>c, <3>2
            <4> QED
                BY <1>2, <2>2, <3>2, <4>1
        <3> QED
            BY <1>2, <3>1, <3>2
    <2> QED
        BY <2>5, <2>6
<1>8. ASSUME NEW i \in 1..(n + 1), NEW j \in 1..(n + 1), i < j PROVE Plan!Before(r[i], r[j])
    <2>1. \A k, l \in 1..n : k < l => Plan!Before(q[k], q[l])
        BY DEF Ordered, n
    <2>2. \A k \in 1..n : k < x => Plan!Before(q[k], m)
        BY <1>0, <1>2 DEF D
    <2>3. \A k \in 1..n : x <= k => Plan!Before(m, q[k])
        <3> SUFFICES ASSUME NEW k \in 1..n, x <= k PROVE Plan!Before(m, q[k])
            OBVIOUS
        <3>1. k \notin D
            BY <1>0, <1>2, <1>3
        <3> QED
            BY <1>0, <1>t, <3>1 DEF D
    <2>4. CASE j < x
        <3>1. r[i] = q[i] /\ r[j] = q[j] /\ i \in 1..n /\ j \in 1..n
            BY <1>0, <1>2, <1>7, <1>8, <2>4
        <3> QED
            BY <1>8, <2>1, <3>1
    <2>5. CASE i < x /\ x = j
        BY <1>0, <1>2, <1>7, <1>8, <2>2, <2>5
    <2>6. CASE i < x /\ x < j
        <3>1. r[i] = q[i] /\ r[j] = q[j - 1] /\ i \in 1..n /\ j - 1 \in 1..n /\ i < j - 1
            BY <1>0, <1>2, <1>7, <2>6
        <3> QED
            BY <2>1, <3>1
    <2>7. CASE i = x
        <3>1. r[i] = m /\ r[j] = q[j - 1] /\ j - 1 \in 1..n /\ x <= j - 1
            BY <1>0, <1>2, <1>7, <1>8, <2>7
        <3> QED
            BY <2>3, <3>1
    <2>8. CASE x < i
        <3>1. r[i] = q[i - 1] /\ r[j] = q[j - 1] /\ i - 1 \in 1..n /\ j - 1 \in 1..n /\ i - 1 < j - 1
            BY <1>0, <1>2, <1>7, <1>8, <2>8
        <3> QED
            BY <2>1, <3>1
    <2> QED
        BY <1>0, <1>2, <2>4, <2>5, <2>6, <2>7, <2>8
<1>9. Ordered(r)
    BY <1>7, <1>8 DEF Ordered
<1> QED
    BY <1>7, <1>9 DEF n, r

\* The airtime of a message is a natural number.
LEMMA AirtimeType ==
    ASSUME Plan!TxPlanAssumption, NEW size \in Sizes, NEW el \in Elevations
    PROVE  Plan!Airtime(size, el) \in Nat
<1>1. size \in Nat /\ el \in Nat
    BY DEF Plan!TxPlanAssumption
<1>2. Plan!SymbolTime(Plan!SfForElevation(el)) \in {1, 2, 4, 8, 16, 32}
    <2>1. Plan!SfForElevation(el) \in {7, 8, 9, 10, 11, 12}
        BY <1>1 DEF Plan!SfForElevation
    <2> QED
        BY <2>1 DEF Plan!SymbolTime
<1>3. Plan!SymbolsIn(size) \in Nat
    BY <1>1 DEF Plan!SymbolsIn
<1> DEFINE a == Plan!SymbolTime(Plan!SfForElevation(el))
           b == 4 * 8 + 17 + 4 * Plan!SymbolsIn(size)
<1>4. b \in Nat
    BY <1>3
<1> HIDE DEF a, b
<1>5. \A x \in {1, 2, 4, 8, 16, 32} : x * b \in Nat
    BY <1>4
<1> QED
    BY <1>2, <1>5 DEF Plan!Airtime, a, b

\* A message of a queue has a size.
LEMMA MessageSize ==
    ASSUME NEW q \in Seq(PlanMessages), NEW i \in 1..Len(q)
    PROVE  q[i] \in PlanMessages /\ q[i].size \in Sizes
<1>1. q[i] \in PlanMessages
    OBVIOUS
<1> QED
    BY <1>1 DEF PlanMessages

\* What the plan has come to after each message of the queue: the fold that
\* defines the plan has a value, and goes message by message.
Outcome(q, el, i) == [elevation : {el}, scheduled : SUBSET (1..i), airtime : 0..Budget]
\* The airtime of a message of the queue.
Needed(q, el, i) == Plan!Airtime(q[i].size, el)
\* From message to message, the plan takes what fits in what is left.
Runs(f, q, el) ==
    /\ f[0] = [elevation |-> el, scheduled |-> {}, airtime |-> 0]
    /\ \A i \in 1..Len(q) :
           f[i] = IF f[i - 1].airtime + Needed(q, el, i) <= Budget
                  THEN [elevation |-> el, scheduled |-> f[i - 1].scheduled \cup {i},
                        airtime |-> f[i - 1].airtime + Needed(q, el, i)]
                  ELSE f[i - 1]

\* The plan is what such a run comes to at the end of the queue.
LEMMA GreedyRuns ==
    ASSUME Plan!TxPlanAssumption, NEW q \in Seq(PlanMessages), NEW el \in Elevations
    PROVE  \E f : /\ Runs(f, q, el) /\ \A i \in 0..Len(q) : f[i] \in Outcome(q, el, i)
                  /\ Plan!Greedy(q, el) = f[Len(q)]
<1> DEFINE n == Len(q)
           A(i) == Needed(q, el, i)
           None == [elevation |-> el, scheduled |-> {}, airtime |-> 0]
           More(p, i) == IF p.airtime + A(i) <= Budget
                         THEN [elevation |-> el, scheduled |-> p.scheduled \cup {i},
                               airtime |-> p.airtime + A(i)]
                         ELSE p
           Values == Outcome(q, el, n)
           step == [x \in (1..n) \X Values |-> More(x[2], x[1])]
           Defines(f) == f = [i \in 0..n |-> IF i = 0 THEN None ELSE More(f[i - 1], i)]
           g == CHOOSE f : Defines(f)
<1>0. n \in Nat /\ Budget \in Nat /\ \A i \in 1..n : A(i) \in Nat
    <2>1. \A i \in 1..n : q[i].size \in Sizes
        BY MessageSize
    <2>2. \A i \in 1..n : A(i) \in Nat
        BY <2>1, AirtimeType DEF Needed
    <2> QED
        BY <2>2 DEF Plan!TxPlanAssumption
<1>g. Plan!Greedy(q, el) = g[n]
    BY DEF Plan!Greedy, Needed
<1> HIDE DEF n, A
<1>1. None \in Outcome(q, el, 0) /\ None \in Values
    BY <1>0 DEF Outcome
<1>2. ASSUME NEW k \in Nat, NEW p \in Outcome(q, el, k), NEW i \in 1..n, NEW m \in Nat, k <= m, i <= m
      PROVE  More(p, i) \in Outcome(q, el, m)
    <2>1. CASE p.airtime + A(i) <= Budget
        <3>1. p.airtime + A(i) \in 0..Budget /\ p.scheduled \cup {i} \in SUBSET (1..m)
            BY <1>0, <1>2, <2>1 DEF Outcome
        <3> QED
            BY <2>1, <3>1 DEF Outcome
    <2>2. CASE ~(p.airtime + A(i) <= Budget)
        <3>1. p.scheduled \in SUBSET (1..m)
            BY <1>2 DEF Outcome
        <3> QED
            BY <2>2, <3>1 DEF Outcome
    <2> QED
        BY <2>1, <2>2
<1> HIDE DEF None, More
<1>3. step \in [(1..n) \X Values -> Values]
    <2>1. \A x \in (1..n) \X Values : More(x[2], x[1]) \in Values
        BY <1>0, <1>2
    <2> QED
        BY <2>1
<1> HIDE DEF step
<1>4. PICK h \in [0..n -> Values] : Iterates(h, n, None, step)
    BY <1>0, <1>1, <1>3, Iterated
<1>5. Defines(h)
    <2>1. \A k \in 1..n : k - 1 \in 0..n /\ <<k, h[k - 1]>> \in (1..n) \X Values
        BY <1>0, <1>4
    <2>2. \A k \in 1..n : h[k] = More(h[k - 1], k)
        BY <1>4, <2>1 DEF Iterates, step
    <2>3. \A k \in 0..n : h[k] = IF k = 0 THEN None ELSE More(h[k - 1], k)
        <3>1. \A k \in 0..n : k = 0 \/ k \in 1..n
            BY <1>0
        <3> QED
            BY <1>4, <2>2, <3>1 DEF Iterates
    <2>4. h = [k \in 0..n |-> h[k]]
        BY <1>4
    <2> QED
        BY <2>3, <2>4, Zenon
<1> HIDE DEF Values
<1>6. Defines(g)
    BY <1>5
<1> HIDE DEF g
<1>7. g[0] = None /\ \A i \in 1..n : g[i] = More(g[i - 1], i)
    BY <1>0, <1>6
<1> DEFINE X == {i \in 0..n : g[i] \in Outcome(q, el, i)}
<1>8. 0..n \subseteq X
    <2>1. 0 \in X
        BY <1>0, <1>1, <1>7
    <2>2. ASSUME NEW i \in 1..n, i - 1 \in X PROVE i \in X
        <3>1. g[i - 1] \in Outcome(q, el, i - 1) /\ i - 1 \in Nat /\ i \in Nat /\ i \in 0..n
            BY <1>0, <2>2
        <3>2. More(g[i - 1], i) \in Outcome(q, el, i)
            BY <1>2, <3>1
        <3> QED
            BY <1>7, <3>1, <3>2
    <2> HIDE DEF X
    <2> QED
        BY <1>0, <2>1, <2>2, Climb
<1>9. Runs(g, q, el)
    BY <1>7 DEF Runs, n, None, More, A
<1> QED
    BY <1>g, <1>8, <1>9 DEF n

\* The load of a set of messages, summed down the queue.
Sums(f, M) ==
    /\ f[0] = 0 /\ \A i \in 0..Len(queue) : f[i] \in Nat
    /\ \A i \in 1..Len(queue) :
           f[i] = f[i - 1] + IF i \in M THEN Needed(queue, plan.elevation, i) ELSE 0

\* The load is what such a sum comes to at the end of the queue.
LEMMA LoadSums ==
    ASSUME Plan!TxPlanAssumption, queue \in Seq(PlanMessages), plan.elevation \in Elevations, NEW M
    PROVE  \E f : Sums(f, M) /\ Plan!Load(M) = f[Len(queue)]
<1> DEFINE n == Len(queue)
           A(i) == Needed(queue, plan.elevation, i)
           More(x, i) == x + IF i \in M THEN A(i) ELSE 0
           step == [x \in (1..n) \X Nat |-> More(x[2], x[1])]
           Defines(f) == f = [i \in 0..n |-> IF i = 0 THEN 0 ELSE More(f[i - 1], i)]
           g == CHOOSE f : Defines(f)
<1>0. n \in Nat /\ \A i \in 1..n : A(i) \in Nat
    <2>1. \A i \in 1..n : queue[i].size \in Sizes
        BY MessageSize
    <2> QED
        BY <2>1, AirtimeType DEF Needed
<1>g. Plan!Load(M) = g[n]
    BY DEF Plan!Load, Needed
<1> HIDE DEF n, A
<1>2. \A x \in Nat, i \in 1..n : More(x, i) \in Nat
    BY <1>0
<1>m. \A x, i : More(x, i) = x + IF i \in M THEN A(i) ELSE 0
    OBVIOUS
<1> HIDE DEF More
<1>3. step \in [(1..n) \X Nat -> Nat]
    BY <1>2
<1> HIDE DEF step
<1>4. PICK h \in [0..n -> Nat] : Iterates(h, n, 0, step)
    BY <1>0, <1>3, Iterated
<1>5. Defines(h)
    <2>1. \A k \in 1..n : k - 1 \in 0..n /\ <<k, h[k - 1]>> \in (1..n) \X Nat
        BY <1>0, <1>4
    <2>2. \A k \in 1..n : h[k] = More(h[k - 1], k)
        BY <1>4, <2>1 DEF Iterates, step
    <2>3. \A k \in 0..n : h[k] = IF k = 0 THEN 0 ELSE More(h[k - 1], k)
        <3>1. \A k \in 0..n : k = 0 \/ k \in 1..n
            BY <1>0
        <3> QED
            BY <1>4, <2>2, <3>1 DEF Iterates
    <2>4. h = [k \in 0..n |-> h[k]]
        BY <1>4
    <2> QED
        BY <2>3, <2>4, Zenon
<1>6. Defines(g)
    BY <1>5
<1> HIDE DEF g
<1>7. g[0] = 0 /\ \A i \in 1..n : g[i] = More(g[i - 1], i)
    BY <1>0, <1>6
<1> DEFINE X == {i \in 0..n : g[i] \in Nat}
<1>8. 0..n \subseteq X
    <2>1. 0 \in X
        BY <1>0, <1>7
    <2>2. ASSUME NEW i \in 1..n, i - 1 \in X PROVE i \in X
        <3>1. g[i - 1] \in Nat /\ g[i] = More(g[i - 1], i) /\ i \in 0..n
            BY <1>0, <1>7, <2>2
        <3> QED
            BY <1>2, <3>1
    <2> HIDE DEF X
    <2> QED
        BY <1>0, <2>1, <2>2, Climb
<1>9. Sums(g, M)
    BY <1>7, <1>8, <1>m DEF Sums, n, A
<1> QED
    BY <1>g, <1>9 DEF n

\* The plan keeps the budget, and defers only what did not fit behind messages
\* at least as urgent.
LEMMA GreedyKeepsPriorities ==
    ASSUME Plan!TxPlanAssumption, queue \in Seq(PlanMessages), Ordered(queue),
           NEW el \in Elevations, plan = Plan!Greedy(queue, el)
    PROVE  /\ Plan!PlanKeepsPriorities /\ plan.scheduled \subseteq 1..Len(queue)
           /\ plan.airtime \in 0..Budget
<1> DEFINE n == Len(queue)
           A(i) == Needed(queue, el, i)
<1>1. PICK f : /\ Runs(f, queue, el) /\ \A i \in 0..n : f[i] \in Outcome(queue, el, i)
               /\ plan = f[n]
    BY GreedyRuns
<1>0. n \in Nat /\ Budget \in Nat /\ \A i \in 1..n : A(i) \in Nat
    <2>1. \A i \in 1..n : queue[i].size \in Sizes
        BY MessageSize
    <2> QED
        BY <2>1, AirtimeType DEF Needed, Plan!TxPlanAssumption
<1>2. /\ plan.elevation = el /\ plan.scheduled \subseteq 1..n /\ plan.airtime \in 0..Budget
      /\ \A i \in 0..n : f[i].scheduled \subseteq 1..i /\ f[i].airtime \in 0..Budget
    BY <1>0, <1>1 DEF Outcome
<1>3. /\ f[0].scheduled = {} /\ f[0].airtime = 0
      /\ \A i \in 1..n :
            \/ /\ f[i - 1].airtime + A(i) <= Budget
               /\ f[i].scheduled = f[i - 1].scheduled \cup {i} /\ f[i].airtime = f[i - 1].airtime + A(i)
            \/ /\ f[i - 1].airtime + A(i) > Budget
               /\ f[i].scheduled = f[i - 1].scheduled /\ f[i].airtime = f[i - 1].airtime
    <2>1. f[0].scheduled = {} /\ f[0].airtime = 0
        BY <1>1 DEF Runs
    <2>2. ASSUME NEW i \in 1..n, f[i - 1].airtime + A(i) <= Budget
          PROVE  f[i].scheduled = f[i - 1].scheduled \cup {i} /\ f[i].airtime = f[i - 1].airtime + A(i)
        <3>1. f[i] = [elevation |-> el, scheduled |-> f[i - 1].scheduled \cup {i},
                      airtime |-> f[i - 1].airtime + A(i)]
            BY <1>1, <2>2 DEF Runs
        <3> HIDE DEF A
        <3> QED
            BY <3>1
    <2>3. ASSUME NEW i \in 1..n, ~(f[i - 1].airtime + A(i) <= Budget) PROVE f[i] = f[i - 1]
        BY <1>1, <2>3 DEF Runs
    <2>4. \A i \in 1..n : i - 1 \in 0..n /\ f[i - 1].airtime \in Nat /\ A(i) \in Nat
        BY <1>0, <1>2
    <2> HIDE DEF A, n
    <2> QED
        BY <1>0, <2>1, <2>2, <2>3, <2>4
<1> HIDE DEF n, A
\* What is scheduled up to a message is what the plan schedules of it.
<1> DEFINE X == {k \in 0..n : \A j \in 0..k : f[k].scheduled \cap (1..j) = f[j].scheduled}
<1>4. 0..n \subseteq X
    <2>1. 0 \in X
        <3>1. \A j \in 0..0 : j = 0
            OBVIOUS
        <3> QED
            BY <1>0, <1>3, <3>1
    <2>2. ASSUME NEW k \in 1..n, k - 1 \in X PROVE k \in X
        <3>1. ASSUME NEW j \in 0..k PROVE f[k].scheduled \cap (1..j) = f[j].scheduled
            <4>1. CASE j = k
                <5>1. f[k].scheduled \subseteq 1..k
                    BY <1>0, <1>2
                <5> QED
                    BY <4>1, <5>1
            <4>2. CASE j # k
                <5>1. j \in 0..(k - 1) /\ k \notin 1..j
                    BY <4>2
                <5>2. f[k - 1].scheduled \cap (1..j) = f[j].scheduled
                    BY <2>2, <5>1
                <5>3. f[k].scheduled \cap (1..j) = f[k - 1].scheduled \cap (1..j)
                    BY <1>3, <5>1
                <5> QED
                    BY <5>2, <5>3
            <4> QED
                BY <4>1, <4>2
        <3>2. k \in 0..n
            OBVIOUS
        <3> QED
            BY <3>1, <3>2
    <2> HIDE DEF X
    <2> QED
        BY <1>0, <2>1, <2>2, Climb
<1>5. ASSUME NEW j \in 0..n PROVE plan.scheduled \cap (1..j) = f[j].scheduled
    <2>1. n \in X
        BY <1>0, <1>4
    <2> QED
        BY <1>1, <2>1
<1> HIDE DEF X
<1>6. ASSUME NEW k \in 1..n
      PROVE  IF k \in plan.scheduled
             THEN f[k].airtime = f[k - 1].airtime + A(k)
             ELSE f[k - 1].airtime + A(k) > Budget /\ f[k].airtime = f[k - 1].airtime
    <2>1. k \in 1..k /\ k \in 0..n /\ k - 1 \in 0..n /\ k \notin 1..(k - 1)
        BY <1>0
    <2>2. k \in plan.scheduled <=> k \in f[k].scheduled
        BY <1>5, <2>1
    <2>3. k \notin f[k - 1].scheduled
        BY <1>2, <2>1
    <2> QED
        BY <1>3, <2>2, <2>3
\* Sums over sets that agree with the plan up to a message are the plan's airtime.
<1>7. ASSUME NEW M, NEW g, Sums(g, M), NEW d \in 0..n, \A i \in 1..d : i \in M <=> i \in plan.scheduled
      PROVE  g[d] = f[d].airtime
    <2> DEFINE Y == {k \in 0..d : g[k] = f[k].airtime}
    <2>1. 0 \in Y
        BY <1>0, <1>3, <1>7 DEF Sums
    <2>2. ASSUME NEW k \in 1..d, k - 1 \in Y PROVE k \in Y
        <3>1. k \in 1..n /\ k \in 0..d /\ (k \in M <=> k \in plan.scheduled) /\ g[k - 1] = f[k - 1].airtime
            BY <1>0, <1>7, <2>2
        <3>2. g[k] = g[k - 1] + IF k \in M THEN A(k) ELSE 0
            BY <1>2, <1>7, <3>1 DEF Sums, n, A
        <3>3. f[k - 1].airtime \in Nat
            BY <1>0, <1>2, <3>1
        <3> QED
            BY <1>6, <3>1, <3>2, <3>3
    <2>3. d \in Nat
        BY <1>0
    <2> HIDE DEF Y
    <2>4. 0..d \subseteq Y
        BY <2>1, <2>2, <2>3, Climb
    <2> QED
        BY <2>3, <2>4 DEF Y
\* A sum never falls.
<1>8. ASSUME NEW M, NEW g, Sums(g, M), NEW d \in 0..n PROVE g[d] <= g[n]
    <2> DEFINE Y == {k \in 0..n : k < d \/ g[d] <= g[k]}
    <2>0. \A k \in 0..n : g[k] \in Nat
        BY <1>8 DEF Sums, n
    <2>1. 0 \in Y
        BY <1>0, <2>0
    <2>2. ASSUME NEW k \in 1..n, k - 1 \in Y PROVE k \in Y
        <3>1. g[k] = g[k - 1] + IF k \in M THEN A(k) ELSE 0
            BY <1>2, <1>8 DEF Sums, n, A
        <3>2. k - 1 \in 0..n /\ k \in 0..n /\ A(k) \in Nat
            BY <1>0
        <3>3. g[k - 1] <= g[k] /\ g[k] \in Nat /\ g[k - 1] \in Nat /\ g[d] \in Nat
            BY <2>0, <3>1, <3>2
        <3>4. CASE k - 1 < d
            <4>1. k < d \/ k = d
                BY <1>0, <3>4
            <4> QED
                BY <2>0, <3>2, <4>1
        <3>5. CASE g[d] <= g[k - 1]
            BY <3>2, <3>3, <3>5
        <3> QED
            BY <2>2, <3>4, <3>5
    <2> HIDE DEF Y
    <2>3. n \in Y
        <3>1. 0..n \subseteq Y
            BY <1>0, <2>1, <2>2, Climb
        <3> QED
            BY <1>0, <3>1
    <2> QED
        BY <1>0, <2>3 DEF Y
<1>9. \A M : \E g : Sums(g, M) /\ Plan!Load(M) = g[n]
    BY <1>2, LoadSums DEF n
<1>10. Plan!Load(plan.scheduled) <= Budget
    <2>1. PICK g : Sums(g, plan.scheduled) /\ Plan!Load(plan.scheduled) = g[n]
        BY <1>9
    <2>2. g[n] = f[n].airtime
        <3>1. n \in 0..n
            BY <1>0
        <3> QED
            BY <1>7, <2>1, <3>1
    <2> QED
        BY <1>0, <1>1, <1>2, <2>1, <2>2
<1>11. ASSUME NEW d \in (1..n) \ plan.scheduled
       PROVE  Plan!Load({i \in DOMAIN queue : i = d \/ (i \in plan.scheduled /\ Plan!Before(queue[i], queue[d]))})
                  > Budget
    <2> DEFINE M == {i \in DOMAIN queue : i = d \/ (i \in plan.scheduled /\ Plan!Before(queue[i], queue[d]))}
    <2>0. DOMAIN queue = 1..n
        BY DEF n
    <2>1. PICK g : Sums(g, M) /\ Plan!Load(M) = g[n]
        BY <1>9
    <2>2. d - 1 \in 0..n /\ d \in 0..n /\ d \in M /\ \A i \in 1..(d - 1) : i \in 1..n /\ i < d /\ i # d
        BY <1>0, <2>0
    <2>3. \A i \in 1..(d - 1) : i \in M <=> i \in plan.scheduled
        BY <2>0, <2>2 DEF Ordered, n
    <2> HIDE DEF M
    <2>4. g[d - 1] = f[d - 1].airtime
        BY <1>7, <2>1, <2>2, <2>3
    <2>5. g[d] = g[d - 1] + A(d)
        BY <1>2, <2>1, <2>2 DEF Sums, n, A
    <2>6. g[d] > Budget
        BY <1>6, <2>4, <2>5
    <2>7. g[d] <= g[n] /\ g[d] \in Nat /\ g[n] \in Nat
        <3>1. n \in 0..n /\ \A i \in 0..n : g[i] \in Nat
            BY <1>0, <2>1 DEF Sums, n
        <3> QED
            BY <1>8, <2>1, <2>2, <3>1
    <2> QED
        BY <1>0, <2>1, <2>6, <2>7 DEF M
<1>12. Plan!PlanKeepsPriorities
    <2>1. DOMAIN queue = 1..n
        BY DEF n
    <2> QED
        BY <1>10, <1>11, <2>1 DEF Plan!PlanKeepsPriorities
<1> QED
    BY <1>2, <1>12 DEF n

\* The invariant gives what the plan promises.
LEMMA PlanPromises == Plan!TxPlanAssumption /\ PlanInv => Plan!TypeOK /\ Plan!PlanKeepsPriorities
<1> SUFFICES ASSUME Plan!TxPlanAssumption, PlanInv PROVE Plan!TypeOK /\ Plan!PlanKeepsPriorities
    OBVIOUS
<1>1. /\ Len(queue) <= Waiting
      /\ \A i \in DOMAIN queue : queue[i] \in [priority : Plan!Priorities, created : 1..Times, size : Sizes]
    <2>1. queue \in Seq(PlanMessages) /\ Len(queue) <= Waiting
        BY DEF PlanInv
    <2>2. \A i \in DOMAIN queue : queue[i] \in PlanMessages
        BY <2>1
    <2> QED
        BY <2>1, <2>2 DEF PlanMessages
<1>2. CASE plan = Plan!NoPlan
    <2>1. plan.scheduled = {} /\ plan.airtime = 0
        BY <1>2 DEF Plan!NoPlan
    <2> QED
        BY <1>1, <1>2, <2>1 DEF Plan!TypeOK, Plan!PlanKeepsPriorities, Plan!TxPlanAssumption
<1>3. ASSUME NEW el \in Elevations, plan = Plan!Greedy(queue, el)
      PROVE  Plan!TypeOK /\ Plan!PlanKeepsPriorities
    <2>1. DOMAIN queue = 1..Len(queue)
        BY DEF PlanInv
    <2> QED
        BY <1>1, <1>3, <2>1, GreedyKeepsPriorities DEF PlanInv, Plan!TypeOK
<1> QED
    BY <1>2, <1>3 DEF PlanInv

\* The queue starts empty.
LEMMA PlanStarts == Plan!TxPlanAssumption /\ Plan!Init => PlanInv
BY DEF Plan!TxPlanAssumption, Plan!Init, PlanInv, Ordered

\* The queue stays ordered, and a plan is the one of the queue as it is.
LEMMA PlanStep == Plan!TxPlanAssumption /\ PlanInv /\ [Plan!Next]_planning => PlanInv'
<1> SUFFICES ASSUME Plan!TxPlanAssumption, PlanInv, [Plan!Next]_planning PROVE PlanInv'
    OBVIOUS
<1>1. ASSUME NEW p \in Plan!Priorities, NEW t \in 1..Times, NEW s \in Sizes,
             Plan!Enqueue([priority |-> p, created |-> t, size |-> s])
      PROVE  PlanInv'
    <2> DEFINE m == [priority |-> p, created |-> t, size |-> s]
    <2>1. m \in PlanMessages
        BY DEF PlanMessages
    <2>2. Len(queue) < Waiting /\ queue' = Plan!Enqueued(queue, m) /\ plan' = Plan!NoPlan
        BY <1>1 DEF Plan!Enqueue
    <2> HIDE DEF m
    <2>3. queue' \in Seq(PlanMessages) /\ Len(queue') = Len(queue) + 1 /\ Ordered(queue')
        BY <2>1, <2>2, StaysOrdered DEF PlanInv
    <2>4. Len(queue) \in Nat /\ Waiting \in Nat
        BY DEF PlanInv, Plan!TxPlanAssumption
    <2>5. Len(queue') <= Waiting
        BY <2>2, <2>3, <2>4
    <2> QED
        BY <2>2, <2>3, <2>5 DEF PlanInv
<1>2. ASSUME NEW el \in Elevations, Plan!GetTransmissionPlan(el) PROVE PlanInv'
    <2>1. queue' = queue /\ plan' = Plan!Greedy(queue, el)
        BY <1>2 DEF Plan!GetTransmissionPlan
    <2>2. plan' = Plan!Greedy(queue', el)
        BY <2>1
    <2>3. queue' \in Seq(PlanMessages) /\ Len(queue') <= Waiting /\ Ordered(queue')
        BY <2>1 DEF PlanInv
    <2> QED
        BY <2>2, <2>3 DEF PlanInv
<1>3. CASE UNCHANGED planning
    <2>1. queue' = queue /\ plan' = plan
        BY <1>3 DEF planning
    <2>2. ASSUME NEW el \in Elevations, plan = Plan!Greedy(queue, el)
          PROVE  plan' = Plan!Greedy(queue', el)
        BY <2>1, <2>2
    <2> QED
        BY <2>1, <2>2 DEF PlanInv, Ordered
<1>4. CASE Plan!Next
    BY <1>1, <1>2, <1>4 DEF Plan!Next
<1> QED
    BY <1>3, <1>4

-----------------------------------------------------------------------------
(* The compressor. *)

\* The unit's assumption holds, and the composition starts it and steps it as its
\* module says.
LEMMA TurboUnit ==
    /\ Turbo!TurboAssumption
    /\ Init => Turbo!Init
    /\ [Next]_vars => [Turbo!Next]_turbo
BY HandlersAssumption DEF Init, Next, vars

\* The symbols there are.
Kinds == DOMAIN Turbo!Bytes
\* The methods of compression.
Methods == {"NONE", "ZLIB", "DICTIONARY", "GPS_PACKED", "COMBINED"}

\* A packet carries the message as its method forms it.
MadeOf(p, m) ==
    \/ p.method \in {"NONE", "ZLIB"} /\ p.data = m
    \/ p.method \in {"DICTIONARY", "COMBINED"} /\ p.data = Turbo!DictionaryCompress(m)
    \/ p.method = "GPS_PACKED" /\ p.data = Turbo!PackGps(m) /\ Turbo!Packable(m)
\* The first numbers among the first i symbols, each at its place.
Picks(r, m, i, place) ==
    /\ place \in [1..Len(r) -> 1..i]
    /\ \A k, l \in 1..Len(r) : k < l => place[k] < place[l]
    /\ \A q \in 1..i : m[q] \in Turbo!Numbers =>
           (\E k \in 1..Len(r) : place[k] = q) \/ (Len(r) = 3 /\ place[3] < q)
    /\ \A k \in 1..Len(r) : m[place[k]] \in Turbo!Numbers /\ r[k] = m[place[k]]
Picked(r, m, i) == \E place : Picks(r, m, i, place)
\* A packet was made.
Sent == packet \notin {Turbo!None, Turbo!Failed}

\* The inductive invariant of the compressor.
TurboInv ==
    /\ text \in Turbo!Messages /\ hint \in {"none", "text", "gps"}
    /\ Sent => MadeOf(packet, text)
    /\ back # <<>> => Sent /\ back = Turbo!Decompress(packet)
    /\ counts \in [packets : 0..MaxCalls, original : Nat, compressed : Nat]
    /\ Turbo!NeverLarger

\* The symbols, one by one.
LEMMA KindsOf ==
    Kinds = {"word", "phrase", "stop", "point", "minus", "number", "far", "break", "accent",
             "script", "control", "raw"}
BY DEF Kinds, Turbo!Bytes

\* Each symbol takes a number of bytes, with the dictionary and without.
LEMMA ByteCounts == \A k \in Kinds : Turbo!Bytes[k] \in Nat /\ Turbo!DictionaryBytes[k] \in Nat
<1>1. \A k \in Kinds : Turbo!Bytes[k] \in {1, 2, 3, 4, 5, 6, 9, 10, 11}
    BY KindsOf DEF Turbo!Bytes
<1>2. \A k \in Kinds : Turbo!DictionaryBytes[k] \in {1, Turbo!Bytes[k]}
    BY DEF Turbo!DictionaryBytes, Kinds
<1> QED
    BY <1>1, <1>2

\* A message is a sequence of symbols.
LEMMA MessageType ==
    ASSUME Turbo!TurboAssumption, NEW m \in Turbo!Messages
    PROVE  m \in Seq(Kinds) /\ Len(m) \in Nat /\ \A i \in 1..Len(m) : m[i] \in Kinds
<1>1. PICK n \in 1..MaxLength : m \in [1..n -> Symbols]
    BY DEF Turbo!Messages
<1>2. Symbols \subseteq Kinds
    BY DEF Turbo!TurboAssumption, Kinds
<1>3. n \in Nat /\ m \in [1..n -> Kinds]
    BY <1>1, <1>2
<1> QED
    BY <1>3

\* The size of a message is a number: the sum goes symbol by symbol.
LEMMA SizeType ==
    ASSUME NEW m \in Seq(Kinds), NEW size, \A k \in Kinds : size[k] \in Nat
    PROVE  Turbo!SizeOf(m, size) \in Nat
<1> DEFINE n == Len(m)
           More(x, i) == x + size[m[i]]
           step == [x \in (1..n) \X Nat |-> More(x[2], x[1])]
           Defines(f) == f = [i \in 0..n |-> IF i = 0 THEN 0 ELSE More(f[i - 1], i)]
           g == CHOOSE f : Defines(f)
<1>0. n \in Nat /\ \A i \in 1..n : size[m[i]] \in Nat
    OBVIOUS
<1>g. Turbo!SizeOf(m, size) = g[n]
    BY DEF Turbo!SizeOf
<1> HIDE DEF n
<1>2. \A x \in Nat, i \in 1..n : More(x, i) \in Nat
    BY <1>0
<1> HIDE DEF More
<1>3. step \in [(1..n) \X Nat -> Nat]
    BY <1>2
<1> HIDE DEF step
<1>4. PICK h \in [0..n -> Nat] : Iterates(h, n, 0, step)
    BY <1>0, <1>3, Iterated
<1>5. Defines(h)
    <2>0. \A k \in 1..n : k - 1 \in 0..n /\ h[k - 1] \in Nat
        BY <1>0, <1>4
    <2>1. \A k \in 1..n : k - 1 \in 0..n /\ <<k, h[k - 1]>> \in (1..n) \X Nat
        BY <2>0
    <2>2. \A k \in 1..n : h[k] = More(h[k - 1], k)
        BY <1>4, <2>1 DEF Iterates, step
    <2>3. \A k \in 0..n : h[k] = IF k = 0 THEN 0 ELSE More(h[k - 1], k)
        <3>1. \A k \in 0..n : k = 0 \/ k \in 1..n
            BY <1>0
        <3> QED
            BY <1>4, <2>2, <3>1 DEF Iterates
    <2>4. h = [k \in 0..n |-> h[k]]
        BY <1>4
    <2> QED
        BY <2>3, <2>4, Zenon
<1>6. Defines(g)
    BY <1>5
<1> HIDE DEF g
<1>7. g[0] = 0 /\ \A i \in 1..n : g[i] = More(g[i - 1], i)
    BY <1>0, <1>6
<1> DEFINE X == {i \in 0..n : g[i] \in Nat}
<1>8. 0..n \subseteq X
    <2>1. 0 \in X
        BY <1>0, <1>7
    <2>2. ASSUME NEW i \in 1..n, i - 1 \in X PROVE i \in X
        <3>1. g[i - 1] \in Nat /\ g[i] = More(g[i - 1], i) /\ i \in 0..n
            BY <1>0, <1>7, <2>2
        <3> QED
            BY <1>2, <3>1
    <2> HIDE DEF X
    <2> QED
        BY <1>0, <2>1, <2>2, Climb
<1> QED
    BY <1>0, <1>g, <1>8

\* One symbol further, the first numbers are those before it, and it if it is a number
\* and they were not yet three.
LEMMA PickNext ==
    ASSUME NEW m \in Seq(Kinds), NEW i \in 1..Len(m), NEW x \in Seq(Turbo!Numbers), Len(x) <= 3,
           Picked(x, m, i - 1)
    PROVE  LET y == IF m[i] \in Turbo!Numbers /\ Len(x) < 3 THEN Append(x, m[i]) ELSE x
           IN y \in Seq(Turbo!Numbers) /\ Len(y) <= 3 /\ Picked(y, m, i)
<1> DEFINE n == Len(x)
<1>1. PICK place : Picks(x, m, i - 1, place)
    BY DEF Picked
<1>2. /\ place \in [1..n -> 1..(i - 1)] /\ n \in Nat /\ n <= 3 /\ i \in Nat /\ i >= 1
      /\ \A k, l \in 1..n : k < l => place[k] < place[l]
      /\ \A q \in 1..(i - 1) : m[q] \in Turbo!Numbers =>
             (\E k \in 1..n : place[k] = q) \/ (n = 3 /\ place[3] < q)
      /\ \A k \in 1..n : m[place[k]] \in Turbo!Numbers /\ x[k] = m[place[k]]
    <2>1. n \in Nat /\ n <= 3 /\ i \in Nat /\ i >= 1
        OBVIOUS
    <2> QED
        BY <1>1, <2>1 DEF Picks
<1> HIDE DEF n
<1>3. CASE m[i] \in Turbo!Numbers /\ n < 3
    <2> DEFINE y == Append(x, m[i])
               there == [k \in 1..(n + 1) |-> IF k = n + 1 THEN i ELSE place[k]]
    <2>1. y \in Seq(Turbo!Numbers) /\ Len(y) = n + 1 /\ y[n + 1] = m[i] /\ \A k \in 1..n : y[k] = x[k]
        BY <1>2, <1>3 DEF n
    <2> HIDE DEF y
    <2>2. /\ DOMAIN there = 1..(n + 1) /\ there[n + 1] = i
          /\ \A k \in 1..n : there[k] = place[k] /\ place[k] \in 1..(i - 1) /\ k \in 1..(n + 1)
          /\ n + 1 \in 1..(n + 1) /\ \A k \in 1..(n + 1) : k = n + 1 \/ k \in 1..n
        <3>1. /\ n + 1 \in 1..(n + 1) /\ \A k \in 1..(n + 1) : k = n + 1 \/ k \in 1..n
              /\ \A k \in 1..n : k \in 1..(n + 1) /\ k # n + 1
            BY <1>2
        <3>2. \A k \in 1..n : place[k] \in 1..(i - 1)
            BY <1>2
        <3> QED
            BY <3>1, <3>2
    <2>3. there \in [1..(n + 1) -> 1..i]
        BY <1>2
    <2> HIDE DEF there
    <2>4. \A k, l \in 1..(n + 1) : k < l => there[k] < there[l]
        <3> SUFFICES ASSUME NEW k \in 1..(n + 1), NEW l \in 1..(n + 1), k < l
                     PROVE  there[k] < there[l]
            OBVIOUS
        <3>1. k \in 1..n
            BY <1>2
        <3> QED
            BY <1>2, <2>2, <3>1
    <2>5. ASSUME NEW q \in 1..i, m[q] \in Turbo!Numbers
          PROVE  (\E k \in 1..(n + 1) : there[k] = q) \/ (n + 1 = 3 /\ there[3] < q)
        <3>1. CASE q = i
            BY <2>2, <3>1
        <3>2. CASE q \in 1..(i - 1)
            <4>1. PICK k \in 1..n : place[k] = q
                <5>1. n # 3
                    BY <1>2, <1>3
                <5> QED
                    BY <1>2, <2>5, <3>2, <5>1
            <4> QED
                BY <2>2, <4>1
        <3> QED
            BY <1>2, <3>1, <3>2
    <2>6. \A k \in 1..(n + 1) : m[there[k]] \in Turbo!Numbers /\ y[k] = m[there[k]]
        BY <1>2, <1>3, <2>1, <2>2
    <2>7. Picks(y, m, i, there)
        BY <2>1, <2>3, <2>4, <2>5, <2>6 DEF Picks
    <2> QED
        <3>1. y \in Seq(Turbo!Numbers) /\ Len(y) <= 3 /\ Picked(y, m, i)
            BY <1>2, <1>3, <2>1, <2>7 DEF Picked
        <3> QED
            BY <1>3, <3>1 DEF y, n
<1>4. CASE ~(m[i] \in Turbo!Numbers /\ n < 3)
    <2>1. place \in [1..n -> 1..i]
        BY <1>2
    <2>2. ASSUME NEW q \in 1..i, m[q] \in Turbo!Numbers
          PROVE  (\E k \in 1..n : place[k] = q) \/ (n = 3 /\ place[3] < q)
        <3>1. CASE q = i
            <4>1. n = 3
                <5>1. ~(n < 3) /\ n \in Nat /\ n <= 3
                    BY <1>2, <1>4, <2>2, <3>1
                <5> QED
                    BY <5>1
            <4>2. place[3] \in 1..(i - 1)
                BY <1>2, <4>1
            <4> QED
                BY <1>2, <3>1, <4>1, <4>2
        <3>2. CASE q \in 1..(i - 1)
            BY <1>2, <2>2, <3>2
        <3> QED
            BY <1>2, <3>1, <3>2
    <2>3. Picks(x, m, i, place)
        BY <1>2, <2>1, <2>2 DEF Picks, n
    <2> QED
        BY <1>4, <2>3 DEF Picked, n
<1> QED
    BY <1>3, <1>4

\* Coordinates are packed as the first numbers of the message, at most three.
LEMMA PackType ==
    ASSUME NEW m \in Seq(Kinds)
    PROVE  LET r == Turbo!PackGps(m)
           IN r \in Seq(Turbo!Numbers) /\ Len(r) <= 3 /\ Picked(r, m, Len(m))
<1> DEFINE n == Len(m)
           Values == Seq(Turbo!Numbers)
           More(x, i) == IF m[i] \in Turbo!Numbers /\ Len(x) < 3 THEN Append(x, m[i]) ELSE x
           step == [x \in (1..n) \X Values |-> More(x[2], x[1])]
           Defines(f) == f = [i \in 0..n |-> IF i = 0 THEN <<>> ELSE More(f[i - 1], i)]
           g == CHOOSE f : Defines(f)
<1>0. n \in Nat
    OBVIOUS
<1>g. Turbo!PackGps(m) = g[n]
    BY DEF Turbo!PackGps, Turbo!FirstOf
<1> HIDE DEF n
<1>2. \A x \in Values, i \in 1..n : More(x, i) \in Values
    <2> SUFFICES ASSUME NEW x \in Values, NEW i \in 1..n PROVE More(x, i) \in Values
        OBVIOUS
    <2>1. CASE m[i] \in Turbo!Numbers /\ Len(x) < 3
        <3>1. Append(x, m[i]) \in Seq(Turbo!Numbers)
            BY <2>1
        <3> QED
            BY <2>1, <3>1
    <2> QED
        BY <2>1
<1>e. <<>> \in Values
    OBVIOUS
<1> HIDE DEF More, Values
<1>3. step \in [(1..n) \X Values -> Values]
    <2>1. \A x \in (1..n) \X Values : More(x[2], x[1]) \in Values
        BY <1>2
    <2> QED
        BY <2>1
<1> HIDE DEF step
<1>4. PICK h \in [0..n -> Values] : Iterates(h, n, <<>>, step)
    BY <1>0, <1>3, <1>e, Iterated
<1>5. Defines(h)
    <2>1. \A k \in 1..n : k - 1 \in 0..n /\ <<k, h[k - 1]>> \in (1..n) \X Values
        BY <1>0, <1>4
    <2>2. \A k \in 1..n : h[k] = More(h[k - 1], k)
        BY <1>4, <2>1 DEF Iterates, step
    <2>3. \A k \in 0..n : h[k] = IF k = 0 THEN <<>> ELSE More(h[k - 1], k)
        <3>1. \A k \in 0..n : k = 0 \/ k \in 1..n
            BY <1>0
        <3> QED
            BY <1>4, <2>2, <3>1 DEF Iterates
    <2>4. h = [k \in 0..n |-> h[k]]
        BY <1>4
    <2> QED
        BY <2>3, <2>4, Zenon
<1>6. Defines(g)
    BY <1>5
<1> HIDE DEF g
<1>7. g[0] = <<>> /\ \A i \in 1..n : g[i] = More(g[i - 1], i)
    BY <1>0, <1>6
<1> DEFINE X == {i \in 0..n : g[i] \in Values /\ Len(g[i]) <= 3 /\ Picked(g[i], m, i)}
<1>8. 0..n \subseteq X
    <2>1. 0 \in X
        <3>1. Picks(<<>>, m, 0, <<>>)
            BY DEF Picks
        <3>2. Picked(<<>>, m, 0)
            BY <3>1 DEF Picked
        <3> QED
            BY <1>0, <1>7, <1>e, <3>2
    <2>2. ASSUME NEW i \in 1..n, i - 1 \in X PROVE i \in X
        <3> DEFINE x == g[i - 1]
        <3>1. /\ x \in Seq(Turbo!Numbers) /\ Len(x) <= 3 /\ Picked(x, m, i - 1)
              /\ g[i] = More(x, i) /\ i \in 0..n
            BY <1>0, <1>7, <2>2 DEF Values
        <3> HIDE DEF x
        <3>2. i \in 1..Len(m)
            BY DEF n
        <3>3. More(x, i) \in Seq(Turbo!Numbers) /\ Len(More(x, i)) <= 3 /\ Picked(More(x, i), m, i)
            BY <3>1, <3>2, PickNext DEF More
        <3> QED
            BY <3>1, <3>3 DEF Values
    <2> HIDE DEF X
    <2> QED
        BY <1>0, <2>1, <2>2, Climb
<1> QED
    BY <1>0, <1>g, <1>8 DEF Values, n

\* The method chosen is one that was tried, and no larger than any of them.
LEMMA BestIsLeast ==
    ASSUME NEW cs, NEW p0, 1 \in DOMAIN cs, p0 \in cs[1], DOMAIN cs \subseteq Nat,
           \A i \in DOMAIN cs : \A p \in cs[i] : p.size \in Nat
    PROVE  /\ \E i \in DOMAIN cs : Turbo!Best(cs) \in cs[i]
           /\ Turbo!Best(cs).size <= p0.size /\ Turbo!Best(cs).size \in Nat
<1> DEFINE all == UNION {cs[i] \X {i} : i \in DOMAIN cs}
           Least(x) == \A y \in all : x[1].size < y[1].size \/ (x[1].size = y[1].size /\ x[2] <= y[2])
           best == CHOOSE x \in all : Least(x)
           N == {x[1].size : x \in all}
<1>1. /\ \A x \in all : x[2] \in DOMAIN cs /\ x[1] \in cs[x[2]] /\ x[1].size \in Nat /\ x[2] \in Nat
      /\ <<p0, 1>> \in all
    OBVIOUS
<1>2. Turbo!Best(cs) = best[1]
    BY DEF Turbo!Best
<1> HIDE DEF all
<1>3. PICK s \in N : \A u \in N : s <= u
    <2>1. N \in SUBSET Nat /\ N # {}
        BY <1>1
    <2> QED
        BY <2>1, LeastNatural
<1> DEFINE P == {x[2] : x \in {y \in all : y[1].size = s}}
<1>4. PICK k \in P : \A u \in P : k <= u
    <2>1. P \in SUBSET Nat /\ P # {}
        BY <1>1, <1>3
    <2> QED
        BY <2>1, LeastNatural
<1>5. \E x \in all : Least(x)
    <2>1. PICK x \in all : x[1].size = s /\ x[2] = k
        BY <1>4
    <2>2. ASSUME NEW y \in all
          PROVE  x[1].size < y[1].size \/ (x[1].size = y[1].size /\ x[2] <= y[2])
        <3>1. y[1].size \in N /\ s <= y[1].size /\ y[1].size \in Nat /\ s \in Nat
            BY <1>1, <1>3, <2>1
        <3>2. CASE y[1].size = s
            BY <1>4, <2>1, <3>2
        <3> QED
            BY <2>1, <3>1, <3>2
    <2> QED
        BY <2>2
<1>6. best \in all /\ Least(best)
    BY <1>5
<1> HIDE DEF best
<1>7. best[1].size < p0.size \/ best[1].size = p0.size
    <2>1. <<p0, 1>>[1] = p0
        OBVIOUS
    <2> QED
        BY <1>1, <1>6, <2>1
<1>8. p0.size \in Nat
    OBVIOUS
<1> QED
    BY <1>1, <1>2, <1>6, <1>7, <1>8

\* Every method tried forms the message in its own way.
LEMMA TriedAreMade ==
    ASSUME NEW m \in Seq(Kinds), NEW h, NEW z \in Nat, NEW c \in Nat
    PROVE  LET cs == Turbo!Candidates(m, h, z, c)
           IN /\ DOMAIN cs = 1..5 /\ Turbo!Packet("NONE", Turbo!Size(m), m) \in cs[1]
              /\ \A i \in 1..5 : \A p \in cs[i] : p.size \in Nat /\ MadeOf(p, m)
<1> DEFINE cs == Turbo!Candidates(m, h, z, c)
<1>1. Turbo!Size(m) \in Nat /\ Turbo!SizeOf(m, Turbo!DictionaryBytes) \in Nat
    BY ByteCounts, SizeType DEF Turbo!Size
<1>2. \A e, n, d : /\ Turbo!Packet(e, n, d).size = n /\ Turbo!Packet(e, n, d).method = e
                   /\ Turbo!Packet(e, n, d).data = d
    BY DEF Turbo!Packet
<1>3. /\ cs[1] = {Turbo!Packet("NONE", Turbo!Size(m), m)}
      /\ cs[2] = {Turbo!Packet("ZLIB", z, m)}
      /\ cs[3] \subseteq {Turbo!Packet("DICTIONARY", Turbo!SizeOf(m, Turbo!DictionaryBytes),
                                       Turbo!DictionaryCompress(m))}
      /\ cs[4] \subseteq {Turbo!Packet("GPS_PACKED", IF Len(Turbo!PackGps(m)) = 3 THEN 10 ELSE 8,
                                       Turbo!PackGps(m))}
      /\ cs[5] \subseteq {Turbo!Packet("COMBINED", c, Turbo!DictionaryCompress(m))}
      /\ DOMAIN cs = 1..5
    BY DEF Turbo!Candidates
<1>p. cs[4] # {} => Turbo!Packable(m)
    BY DEF Turbo!Candidates, Turbo!TriesGps
<1> HIDE DEF cs
<1>4. \A i \in 1..5 : i = 1 \/ i = 2 \/ i = 3 \/ i = 4 \/ i = 5
    OBVIOUS
<1>5. \A p \in cs[1] \cup cs[2] \cup cs[3] \cup cs[4] \cup cs[5] : p.size \in Nat /\ MadeOf(p, m)
    <2>1. \A p \in cs[1] \cup cs[2] : p.size \in Nat /\ MadeOf(p, m)
        BY <1>1, <1>2, <1>3 DEF MadeOf
    <2>2. \A p \in cs[3] \cup cs[5] : p.size \in Nat /\ MadeOf(p, m)
        BY <1>1, <1>2, <1>3 DEF MadeOf
    <2>3. \A p \in cs[4] : p.size \in Nat /\ MadeOf(p, m)
        <3> SUFFICES ASSUME NEW p \in cs[4] PROVE p.size \in Nat /\ MadeOf(p, m)
            OBVIOUS
        <3> DEFINE t == IF Len(Turbo!PackGps(m)) = 3 THEN 10 ELSE 8
        <3>1. p = Turbo!Packet("GPS_PACKED", t, Turbo!PackGps(m)) /\ t \in Nat
            BY <1>3
        <3> HIDE DEF t
        <3>2. Turbo!Packable(m)
            BY <1>p
        <3> QED
            BY <1>2, <3>1, <3>2 DEF MadeOf
    <2> QED
        BY <2>1, <2>2, <2>3
<1>6. \A i \in 1..5 : \A p \in cs[i] : p.size \in Nat /\ MadeOf(p, m)
    BY <1>4, <1>5
<1> QED
    BY <1>3, <1>6 DEF cs

\* Without tokens of its own, a message comes back from the dictionary as it was.
LEMMA DictionaryRestores ==
    ASSUME NEW m \in Seq(Kinds)
    PROVE  LET d == Turbo!DictionaryDecompress(Turbo!DictionaryCompress(m))
           IN /\ d \in Seq(Kinds)
              /\ ~Turbo!Has(m, Turbo!Tokens) => d = m
<1> DEFINE c == Turbo!DictionaryCompress(m)
           d == Turbo!DictionaryDecompress(c)
           n == Len(m)
<1>0. n \in Nat /\ \A i \in 1..n : m[i] \in Kinds
    OBVIOUS
<1>1. Len(c) = n /\ \A i \in 1..n : c[i] = IF m[i] = "phrase" THEN "control" ELSE m[i]
    BY <1>0 DEF Turbo!DictionaryCompress
<1> HIDE DEF c
<1>2. /\ d = [i \in 1..n |-> IF c[i] \in Turbo!Tokens THEN "phrase" ELSE c[i]]
    BY <1>1 DEF Turbo!DictionaryDecompress
<1>3. "phrase" \in Kinds /\ "control" \in Kinds
    BY KindsOf
<1>4. d \in [1..n -> Kinds]
    BY <1>0, <1>1, <1>2, <1>3
<1>5. ASSUME ~Turbo!Has(m, Turbo!Tokens) PROVE d = m
    <2>1. \A i \in 1..n : m[i] \notin Turbo!Tokens
        BY <1>5 DEF Turbo!Has
    <2>2. \A i \in 1..n : d[i] = m[i]
        BY <1>1, <1>2, <2>1 DEF Turbo!Tokens
    <2>3. m = [i \in 1..n |-> m[i]] /\ d = [i \in 1..n |-> d[i]]
        BY <1>2
    <2> QED
        BY <2>2, <2>3
<1>6. d \in Seq(Kinds)
    BY <1>0, <1>4
<1> QED
    BY <1>5, <1>6 DEF c

\* The invariant gives what the compressor promises.
LEMMA TurboPromises == Turbo!TurboAssumption /\ TurboInv => Turbo!TypeOK /\ Turbo!MessagesRestored
<1> SUFFICES ASSUME Turbo!TurboAssumption, TurboInv PROVE Turbo!TypeOK /\ Turbo!MessagesRestored
    OBVIOUS
<1>1. text \in Seq(Kinds)
    BY MessageType DEF TurboInv
<1>2. Sent => packet.method \in Methods
    BY DEF TurboInv, MadeOf, Methods
<1>3. counts.packets \in 0..MaxCalls
    BY DEF TurboInv
<1>4. ASSUME back # <<>>
      PROVE  /\ \A i \in 1..Len(back) : back[i] \in Kinds \cup Turbo!Readings
             /\ \/ back = text
                \/ packet.method \in {"DICTIONARY", "COMBINED"} /\ Turbo!Has(text, Turbo!Tokens)
                \/ /\ packet.method = "GPS_PACKED" /\ Len(back) \in 2..3
                   /\ Turbo!CoordinatesOf(back, text)
    <2>1. MadeOf(packet, text) /\ back = Turbo!Decompress(packet)
        BY <1>4 DEF TurboInv
    <2>2. CASE packet.method \in {"NONE", "ZLIB"} /\ packet.data = text
        <3>1. back = text
            BY <2>1, <2>2 DEF Turbo!Decompress
        <3> QED
            BY <1>1, <3>1
    <2>3. CASE packet.method \in {"DICTIONARY", "COMBINED"} /\ packet.data = Turbo!DictionaryCompress(text)
        <3>1. back = Turbo!DictionaryDecompress(Turbo!DictionaryCompress(text))
            BY <2>1, <2>3 DEF Turbo!Decompress
        <3>2. back \in Seq(Kinds) /\ (~Turbo!Has(text, Turbo!Tokens) => back = text)
            BY <1>1, <3>1, DictionaryRestores
        <3> QED
            BY <2>3, <3>2
    <2>4. CASE /\ packet.method = "GPS_PACKED" /\ packet.data = Turbo!PackGps(text)
               /\ Turbo!Packable(text)
        <3> DEFINE r == Turbo!PackGps(text)
        <3>1. back = Turbo!UnpackGps(r)
            BY <2>1, <2>4 DEF Turbo!Decompress
        <3>2. r \in Seq(Turbo!Numbers) /\ Len(r) <= 3 /\ Picked(r, text, Len(text))
            BY <1>1, PackType
        <3>3. Len(r) >= 2 /\ r[1] # "far" /\ r[2] # "far" /\ (Len(r) = 3 => r[3] # "minus")
            BY <2>4 DEF Turbo!Packable
        <3> HIDE DEF r
        <3>4. /\ Len(back) = Len(r) /\ Len(r) \in 2..3 /\ Len(text) \in Nat
              /\ \A i \in 1..Len(r) : back[i] = Turbo!Reading(i, r[i])
            <4>1. Len(r) \in Nat /\ Len(text) \in Nat
                BY <1>1, <3>2
            <4>2. Len(r) \in 2..3
                <5>1. Len(r) <= 3 /\ Len(r) >= 2
                    BY <3>2, <3>3
                <5>2. \A k \in Nat : k <= 3 /\ k >= 2 => k \in 2..3
                    OBVIOUS
                <5> QED
                    BY <4>1, <5>1, <5>2, Zenon
            <4>3. Len(back) = Len(r) /\ \A i \in 1..Len(r) : back[i] = Turbo!Reading(i, r[i])
                BY <3>1, <4>1 DEF Turbo!UnpackGps
            <4> QED
                BY <4>1, <4>2, <4>3
        <3>5. ASSUME NEW i \in 1..Len(r) PROVE back[i] \in Turbo!Readings
            <4>1. r[i] \in {"point", "minus", "number", "far"}
                BY <3>2 DEF Turbo!Numbers
            <4>2. CASE i = 3
                <5>1. r[i] \in {"point", "number", "far"}
                    BY <3>3, <3>4, <4>1, <4>2
                <5>2. back[i] = Turbo!Metres[r[i]]
                    BY <3>4, <4>2 DEF Turbo!Reading
                <5> QED
                    BY <5>1, <5>2 DEF Turbo!Metres, Turbo!Readings
            <4>3. CASE i # 3
                <5>1. r[i] \in {"point", "minus", "number"}
                    BY <3>3, <3>4, <4>1, <4>3
                <5>2. back[i] = Turbo!Degrees[r[i]]
                    BY <3>4, <4>3 DEF Turbo!Reading
                <5> QED
                    BY <5>1, <5>2 DEF Turbo!Degrees, Turbo!Readings
            <4> QED
                BY <4>2, <4>3
        <3>6. PICK place : Picks(r, text, Len(text), place)
            BY <3>2 DEF Picked
        <3>7. Turbo!CoordinatesOf(back, text)
            BY <3>4, <3>6 DEF Picks, Turbo!CoordinatesOf
        <3> QED
            BY <2>4, <3>4, <3>5, <3>7
    <2> QED
        BY <2>1, <2>2, <2>3, <2>4 DEF MadeOf
<1>5. Turbo!TypeOK
    BY <1>2, <1>3, <1>4 DEF TurboInv, Turbo!TypeOK, Sent, Kinds, Methods
<1>6. Turbo!MessagesRestored
    BY <1>4 DEF TurboInv, Turbo!MessagesRestored, Turbo!Restored
<1> QED
    BY <1>5, <1>6

\* The compressor starts with nothing made.
LEMMA TurboStarts == Turbo!TurboAssumption /\ Turbo!Init => TurboInv
<1> SUFFICES ASSUME Turbo!TurboAssumption, Turbo!Init PROVE TurboInv
    OBVIOUS
<1>1. packet = Turbo!None /\ Turbo!None # Turbo!Failed
    <2>1. DOMAIN Turbo!None = {"none"} /\ DOMAIN Turbo!Failed = {"failed"}
        BY DEF Turbo!None, Turbo!Failed
    <2>2. "failed" \notin {"none"} /\ "failed" \in {"failed"}
        OBVIOUS
    <2> QED
        BY <2>1, <2>2 DEF Turbo!Init
<1>2. counts = [packets |-> 0, original |-> 0, compressed |-> 0] /\ MaxCalls \in Nat
    BY DEF Turbo!Init, Turbo!TurboAssumption
<1>3. counts.compressed = 0 /\ counts.original = 0
    BY <1>2
<1> QED
    BY <1>1, <1>2, <1>3 DEF Turbo!Init, TurboInv, Sent, Turbo!NeverLarger

\* Each call keeps the packet the message's, and counts no more bytes than before.
LEMMA TurboStep == Turbo!TurboAssumption /\ TurboInv /\ [Turbo!Next]_turbo => TurboInv'
<1> SUFFICES ASSUME Turbo!TurboAssumption, TurboInv, [Turbo!Next]_turbo PROVE TurboInv'
    OBVIOUS
<1>0. /\ text \in Turbo!Messages /\ hint \in {"none", "text", "gps"} /\ text \in Seq(Kinds)
      /\ Sent => MadeOf(packet, text)
      /\ back # <<>> => Sent /\ back = Turbo!Decompress(packet)
      /\ counts \in [packets : 0..MaxCalls, original : Nat, compressed : Nat]
      /\ packet = Turbo!Failed => Turbo!Has(text, {"script", "raw"})
      /\ counts.compressed <= counts.original /\ MaxCalls \in Nat
    BY MessageType DEF TurboInv, Turbo!NeverLarger, Turbo!TurboAssumption
<1>1. CASE Turbo!Compress
    <2>1. /\ packet = Turbo!None /\ counts.packets < MaxCalls /\ UNCHANGED <<text, hint, back>>
          /\ back = <<>>
        BY <1>0, <1>1 DEF Turbo!Compress, Sent
    <2>2. CASE Turbo!TriesDictionary(text, hint) /\ ~Turbo!Encodable(text)
        <3>1. packet' = Turbo!Failed /\ counts' = counts
            BY <1>1, <2>2 DEF Turbo!Compress
        <3>2. Turbo!Has(text, {"script", "raw"})
            BY <2>2 DEF Turbo!Encodable
        <3>3. ~Sent'
            BY <3>1 DEF Sent
        <3> QED
            BY <1>0, <2>1, <3>1, <3>2, <3>3 DEF TurboInv, Turbo!NeverLarger, Turbo!Has
    <2>3. CASE ~(Turbo!TriesDictionary(text, hint) /\ ~Turbo!Encodable(text))
        <3>1. PICK z \in Turbo!Zlib(Turbo!Size(text)),
                   c \in Turbo!Zlib(Turbo!SizeOf(text, Turbo!DictionaryBytes)) :
                  /\ packet' = Turbo!Best(Turbo!Candidates(text, hint, z, c))
                  /\ counts' = [packets |-> counts.packets + 1,
                                original |-> counts.original + Turbo!Size(text),
                                compressed |-> counts.compressed + packet'.size]
            BY <1>1, <2>3 DEF Turbo!Compress
        <3>2. Turbo!Size(text) \in Nat /\ Turbo!SizeOf(text, Turbo!DictionaryBytes) \in Nat
            BY <1>0, ByteCounts, SizeType DEF Turbo!Size
        <3>3. z \in Nat /\ c \in Nat
            BY <3>2 DEF Turbo!Zlib
        <3> DEFINE cs == Turbo!Candidates(text, hint, z, c)
                   p0 == Turbo!Packet("NONE", Turbo!Size(text), text)
        <3>4. /\ DOMAIN cs = 1..5 /\ p0 \in cs[1]
              /\ \A i \in 1..5 : \A p \in cs[i] : p.size \in Nat /\ MadeOf(p, text)
            BY <1>0, <3>3, TriedAreMade
        <3>5. p0.size = Turbo!Size(text)
            BY DEF Turbo!Packet
        <3> HIDE DEF cs, p0
        <3>6. /\ \E i \in DOMAIN cs : Turbo!Best(cs) \in cs[i]
              /\ Turbo!Best(cs).size <= p0.size /\ Turbo!Best(cs).size \in Nat
            <4>1. 1 \in DOMAIN cs /\ DOMAIN cs \subseteq Nat
                BY <3>4
            <4> QED
                BY <3>4, <4>1, BestIsLeast
        <3>7. MadeOf(packet', text) /\ packet'.size <= Turbo!Size(text) /\ packet'.size \in Nat
            BY <3>1, <3>4, <3>5, <3>6 DEF cs
        <3>8. MadeOf(packet', text')
            BY <2>1, <3>7
        <3>9. packet' # Turbo!Failed
            <4>1. PICK i \in 1..5 : packet' \in cs[i]
                BY <3>1, <3>4, <3>6 DEF cs
            <4>2. \E e, n, d : packet' = Turbo!Packet(e, n, d)
                BY <4>1 DEF cs, Turbo!Candidates
            <4>3. DOMAIN packet' = {"method", "size", "data"} /\ DOMAIN Turbo!Failed = {"failed"}
                BY <4>2 DEF Turbo!Packet, Turbo!Failed
            <4>4. "size" \in {"method", "size", "data"} /\ "size" \notin {"failed"}
                OBVIOUS
            <4> QED
                BY <4>3, <4>4
        <3>10. /\ counts' \in [packets : 0..MaxCalls, original : Nat, compressed : Nat]
               /\ counts'.compressed <= counts'.original
            <4> DEFINE s == packet'.size
                       t == Turbo!Size(text)
            <4>1. counts' = [packets |-> counts.packets + 1, original |-> counts.original + t,
                             compressed |-> counts.compressed + s] /\ s \in Nat /\ t \in Nat /\ s <= t
                BY <3>1, <3>2, <3>7
            <4> HIDE DEF s, t
            <4>2. /\ counts.packets + 1 \in 0..MaxCalls /\ counts.original + t \in Nat
                  /\ counts.compressed + s \in Nat
                  /\ counts.compressed + s <= counts.original + t
                BY <1>0, <2>1, <4>1
            <4> QED
                BY <4>1, <4>2
        <3>11. Turbo!NeverLarger'
            BY <3>9, <3>10 DEF Turbo!NeverLarger
        <3> QED
            BY <1>0, <2>1, <3>8, <3>10, <3>11 DEF TurboInv
    <2> QED
        BY <2>2, <2>3
<1>2. CASE Turbo!Receive
    BY <1>0, <1>2 DEF Turbo!Receive, TurboInv, Sent, MadeOf, Turbo!NeverLarger, Turbo!Decompress, Turbo!Has
<1>3. CASE Turbo!Again
    <2>1. /\ packet' = Turbo!None /\ back' = <<>> /\ UNCHANGED <<text, hint, counts>>
        BY <1>3 DEF Turbo!Again
    <2>2. Turbo!None # Turbo!Failed
        <3>1. DOMAIN Turbo!None = {"none"} /\ DOMAIN Turbo!Failed = {"failed"}
            BY DEF Turbo!None, Turbo!Failed
        <3>2. "failed" \notin {"none"} /\ "failed" \in {"failed"}
            OBVIOUS
        <3> QED
            BY <3>1, <3>2
    <2> QED
        BY <1>0, <2>1, <2>2 DEF TurboInv, Sent, Turbo!NeverLarger
<1>4. CASE UNCHANGED turbo
    BY <1>0, <1>4 DEF turbo, TurboInv, Sent, MadeOf, Turbo!NeverLarger, Turbo!Decompress, Turbo!Has
<1>5. CASE Turbo!Next
    BY <1>1, <1>2, <1>3, <1>5 DEF Turbo!Next
<1> QED
    BY <1>4, <1>5

-----------------------------------------------------------------------------
(* The search for passes, over any sky. *)

\* The unit's assumption holds, and the composition starts it and steps it as its
\* module says.
LEMMA SearchUnit ==
    /\ Search!PassSearchAssumption
    /\ Init => Search!Init
    /\ [Next]_vars => [Search!Next]_passes
BY HandlersAssumption DEF Init, Next, vars

\* The sky says of each satellite whether it is up at each sample.
Sky == sky \in [Satellites -> [Search!Moments -> BOOLEAN]]

\* The inductive invariant of the search: the last answer is true of the sky.
SearchInv == Sky /\ Search!TypeOK /\ Search!PassesFound

\* Between a rise and the set matched with it the satellite stays above the
\* minimum: the first sample after a gap would be another rise.
LEMMA NoGap ==
    ASSUME Search!PassSearchAssumption, Sky, NEW s \in Satellites,
           NEW a \in Search!Rises(s), NEW b \in Search!Sets(s), a < b,
           \A r \in Search!Rises(s) : r <= a \/ b < r
    PROVE  \A t \in Search!Moments : (a <= t /\ t < b) => sky[s][t]
<1> USE DEF Search!PassSearchAssumption, Search!Moments, Sky, Search!Rises, Search!Sets
<1> SUFFICES ASSUME NEW t \in Search!Moments, a <= t, t < b, ~sky[s][t] PROVE FALSE
    OBVIOUS
<1> DEFINE N == {u \in Search!Moments : t < u /\ sky[s][u]}
<1>1. a \in Search!Moments /\ sky[s][a] /\ b \in Search!Moments /\ sky[s][b - 1] /\ b # 1
    OBVIOUS
<1>2. b - 1 \in N
    <2>1. b - 1 \in Search!Moments /\ t <= b - 1 /\ t # b - 1
        BY <1>1
    <2> QED
        BY <1>1, <2>1
<1>3. N \in SUBSET Nat
    OBVIOUS
<1>4. PICK u \in N : \A v \in N : u <= v
    BY <1>2, <1>3, LeastNatural
<1>5. u \in Search!Moments \ {1} /\ u - 1 \in Search!Moments /\ t <= u - 1 /\ u <= b - 1
    BY <1>1, <1>2, <1>4
<1>6. ~sky[s][u - 1]
    <2>1. u - 1 \notin N
        BY <1>3, <1>4, <1>5
    <2> QED
        BY <1>5, <2>1
<1>7. u \in Search!Rises(s)
    BY <1>4, <1>5, <1>6
<1> QED
    BY <1>1, <1>5, <1>7

\* A pass that is found has its samples in the grid, after the time asked at.
LEMMA PassesInWindow ==
    ASSUME Search!PassSearchAssumption, NEW s, NEW t \in Search!Moments, NEW h \in Nat,
           NEW p \in Search!NextPasses(s, t, h)
    PROVE  /\ p \in [rise : Search!Moments, set : Search!Moments] /\ p \in Search!Passes
           /\ t < p.rise /\ p.rise < p.set /\ p.set <= t + h
BY DEF Search!PassSearchAssumption, Search!NextPasses, Search!PassesOf, Search!Window,
       Search!Rises, Search!Sets, Search!Moments, Search!Passes

\* A listing has the whole passes of the time asked for.
LEMMA ListedAreWhole ==
    ASSUME Search!PassSearchAssumption, Sky, NEW s \in Satellites, NEW t \in Search!Moments,
           NEW h \in Nat
    PROVE  Search!PassesOf(s, Search!Window(t, h)) =
               {p \in Search!Whole(s) : t < p.rise /\ p.set <= t + h}
<1> USE DEF Search!PassSearchAssumption, Search!Moments, Search!Window
<1>1. ASSUME NEW p \in Search!PassesOf(s, Search!Window(t, h))
      PROVE  p \in Search!Whole(s) /\ t < p.rise /\ p.set <= t + h
    <2>1. /\ p \in [rise : Search!Rises(s) \cap Search!Window(t, h),
                    set : Search!Sets(s) \cap Search!Window(t, h)]
          /\ p.rise < p.set /\ \A r \in Search!Rises(s) : r <= p.rise \/ p.set < r
        BY DEF Search!PassesOf
    <2>2. p.rise \in Search!Rises(s) /\ p.set \in Search!Sets(s) /\ t < p.rise /\ p.set <= t + h
        BY <2>1
    <2>3. Search!Stretch(s, p)
        BY <2>1, <2>2, NoGap DEF Search!Stretch
    <2>4. p \in [rise : Search!Moments \ {1}, set : Search!Moments]
        BY <2>1 DEF Search!Rises, Search!Sets
    <2>5. ~sky[s][p.rise - 1] /\ ~sky[s][p.set]
        BY <2>2 DEF Search!Rises, Search!Sets
    <2> QED
        BY <2>1, <2>2, <2>3, <2>4, <2>5 DEF Search!Whole
<1>2. ASSUME NEW p \in Search!Whole(s), t < p.rise, p.set <= t + h
      PROVE  p \in Search!PassesOf(s, Search!Window(t, h))
    <2>1. /\ p \in [rise : Search!Moments \ {1}, set : Search!Moments]
          /\ p.rise < p.set /\ ~sky[s][p.rise - 1] /\ ~sky[s][p.set]
          /\ \A u \in Search!Moments : (p.rise <= u /\ u < p.set) => sky[s][u]
        BY DEF Search!Whole, Search!Stretch
    <2>2. p.rise \in Search!Moments \ {1} /\ p.set \in Search!Moments \ {1} /\ p.set - 1 \in Search!Moments
        BY <2>1
    <2>3. sky[s][p.rise] /\ sky[s][p.set - 1]
        BY <2>1, <2>2
    <2>4. p.rise \in Search!Rises(s) \cap Search!Window(t, h)
        BY <1>2, <2>1, <2>2, <2>3 DEF Search!Rises
    <2>5. p.set \in Search!Sets(s) \cap Search!Window(t, h)
        BY <1>2, <2>1, <2>2, <2>3 DEF Search!Sets
    <2>6. ASSUME NEW r \in Search!Rises(s), ~(r <= p.rise), ~(p.set < r) PROVE FALSE
        <3>1. r \in Search!Moments /\ r - 1 \in Search!Moments /\ sky[s][r] /\ ~sky[s][r - 1]
            BY DEF Search!Rises
        <3>2. p.rise <= r - 1 /\ r - 1 < p.set
            BY <2>2, <2>6, <3>1
        <3> QED
            BY <2>1, <3>1, <3>2
    <2>7. p \in [rise : Search!Rises(s) \cap Search!Window(t, h),
                 set : Search!Sets(s) \cap Search!Window(t, h)]
        BY <2>1, <2>4, <2>5
    <2> QED
        BY <2>1, <2>6, <2>7 DEF Search!PassesOf
<1>3. \A p \in Search!Whole(s) : TRUE
    OBVIOUS
<1> QED
    BY <1>1, <1>2

\* The next pass is the first to rise of those found, if any is found.
LEMMA NextIsEarliest ==
    ASSUME Search!PassSearchAssumption, NEW s, NEW t \in Search!Moments
    PROVE  LET p == Search!NextPass(s, t)
           IN \/ p = Search!NoPass /\ Search!NextPasses(s, t, Far) = {}
              \/ /\ p # Search!NoPass /\ p \in Search!NextPasses(s, t, Far)
                 /\ \A q \in Search!NextPasses(s, t, Far) : p.rise <= q.rise
<1> DEFINE found == Search!NextPasses(s, t, Far)
           N == {p.rise : p \in found}
<1>0. Far \in Nat
    BY DEF Search!PassSearchAssumption
<1>1. \A p \in found : p.rise \in Nat /\ t < p.rise /\ t \in Nat
    BY <1>0, PassesInWindow DEF Search!Moments, Search!PassSearchAssumption
<1> HIDE DEF found
<1>2. CASE found = {}
    BY <1>2 DEF found, Search!NextPass, Search!Earliest
<1>3. CASE found # {}
    <2>1. N \in SUBSET Nat /\ N # {}
        BY <1>1, <1>3
    <2>2. PICK x \in N : \A y \in N : x <= y
        BY <2>1, LeastNatural
    <2>3. \E p \in found : \A q \in found : p.rise <= q.rise
        BY <2>2
    <2>4. Search!NextPass(s, t) = CHOOSE p \in found : \A q \in found : p.rise <= q.rise
        BY <1>3 DEF found, Search!NextPass, Search!Earliest
    <2>5. /\ Search!NextPass(s, t) \in found
          /\ \A q \in found : Search!NextPass(s, t).rise <= q.rise
        BY <2>3, <2>4
    <2>6. Search!NoPass \notin found
        BY <1>1 DEF Search!NoPass
    <2> QED
        BY <2>5, <2>6 DEF found
<1> QED
    BY <1>2, <1>3

\* A sample later, the next pass is the same one unless it has risen: another
\* that comes into the window sets before this one rises, and was in it before.
LEMMA NextStays ==
    ASSUME Search!PassSearchAssumption, NEW s, NEW t \in Search!Moments, t + 1 \in Search!Moments,
           Search!NextPass(s, t) # Search!NoPass, t + 1 < Search!NextPass(s, t).rise
    PROVE  /\ Search!NextPass(s, t + 1) # Search!NoPass
           /\ Search!NextPass(s, t + 1).rise = Search!NextPass(s, t).rise
<1> DEFINE p == Search!NextPass(s, t)
           q == Search!NextPass(s, t + 1)
           f == Search!FindSatellite(s)
<1>0. Far \in Nat /\ t \in Nat
    BY DEF Search!PassSearchAssumption, Search!Moments
<1>1. p \in Search!NextPasses(s, t, Far) /\ \A x \in Search!NextPasses(s, t, Far) : p.rise <= x.rise
    BY NextIsEarliest
<1>2. p \in Search!NextPasses(s, t + 1, Far)
    BY <1>0, <1>1 DEF Search!NextPasses, Search!PassesOf, Search!Window, Search!Rises, Search!Sets,
        Search!Moments, Search!PassSearchAssumption
<1>3. /\ q # Search!NoPass /\ q \in Search!NextPasses(s, t + 1, Far)
      /\ \A x \in Search!NextPasses(s, t + 1, Far) : q.rise <= x.rise
    BY <1>2, NextIsEarliest
<1>4. /\ t < p.rise /\ p.rise < p.set /\ p.set <= t + Far /\ p.rise \in Nat /\ p.set \in Nat
      /\ t + 1 < q.rise /\ q.rise < q.set /\ q.rise \in Nat /\ q.set \in Nat
    BY <1>0, <1>1, <1>3, PassesInWindow DEF Search!Moments, Search!PassSearchAssumption
<1>5. p.rise \in Search!Rises(f) /\ \A r \in Search!Rises(f) : r <= q.rise \/ q.set < r
    BY <1>1, <1>3 DEF Search!NextPasses, Search!PassesOf
<1> HIDE DEF p, q
<1>6. ASSUME q.rise < p.rise PROVE FALSE
    <2>1. q.set < p.rise
        BY <1>4, <1>5, <1>6
    <2>2. q \in Search!NextPasses(s, t, Far)
        BY <1>0, <1>3, <1>4, <2>1 DEF Search!NextPasses, Search!PassesOf, Search!Window, Search!Rises,
            Search!Sets, Search!Moments, Search!PassSearchAssumption
    <2> QED
        BY <1>1, <1>4, <1>6, <2>2
<1>7. q.rise <= p.rise
    BY <1>2, <1>3
<1>8. q.rise = p.rise
    BY <1>4, <1>6, <1>7
<1> QED
    BY <1>3, <1>8 DEF p, q

\* The predictor's windows lie in the passes and cover them but for a last sample.
LEMMA WindowsCover ==
    ASSUME Search!PassSearchAssumption, Sky, NEW s \in Satellites, passNow \in Search!Moments
    PROVE  /\ Search!PredictPasses(s) \subseteq Search!Passes
           /\ \A p \in Search!PredictPasses(s) : Search!Stretch(s, p)
           /\ \A t \in passNow..(Steps - 1) :
                  sky[s][t] => \E p \in Search!PredictPasses(s) : p.rise <= t /\ t < p.set
<1> USE DEF Search!PassSearchAssumption, Search!Moments
<1>1. ASSUME NEW p \in Search!PredictPasses(s)
      PROVE  p \in Search!Passes /\ Search!Stretch(s, p)
    <2>1. PICK w \in (passNow..Steps) \X Search!Moments :
              /\ p = [rise |-> w[1], set |-> w[2]]
              /\ sky[s][w[1]] /\ w[2] \in Search!Closing(s, w[1])
              /\ \A j \in Search!Closing(s, w[1]) : w[2] <= j
        BY DEF Search!PredictPasses
    <2>2. p.rise = w[1] /\ p.set = w[2] /\ w[1] \in Search!Moments /\ w[2] \in Search!Moments
        BY <2>1
    <2>3. p \in Search!Passes
        BY <2>1, <2>2 DEF Search!Passes
    <2>4. ASSUME NEW t \in Search!Moments, w[1] <= t, t < w[2] PROVE sky[s][t]
        <3>1. t \notin Search!Closing(s, w[1])
            BY <2>1, <2>2, <2>4
        <3>2. CASE t = w[1]
            BY <2>1, <3>2
        <3>3. CASE w[1] < t
            BY <3>1, <3>3 DEF Search!Closing
        <3> QED
            BY <2>2, <2>4, <3>2, <3>3
    <2>5. Search!Stretch(s, p)
        BY <2>2, <2>4 DEF Search!Stretch
    <2> QED
        BY <2>3, <2>5
<1>2. ASSUME NEW t \in passNow..(Steps - 1), sky[s][t]
      PROVE  \E p \in Search!PredictPasses(s) : p.rise <= t /\ t < p.set
    <2> DEFINE N == {a \in passNow..t : \A j \in a..t : sky[s][j]}
    <2>0. t \in Search!Moments /\ Steps \in Nat /\ t < Steps /\ passNow <= t
        OBVIOUS
    <2>1. N \in SUBSET Nat /\ t \in N
        <3>1. \A j \in t..t : j = t
            BY <2>0
        <3> QED
            BY <1>2, <2>0, <3>1
    <2>2. PICK a \in N : \A v \in N : a <= v
        BY <2>1, LeastNatural
    <2>3. a \in passNow..Steps /\ a <= t /\ sky[s][a] /\ a \in Search!Moments
        BY <2>0, <2>2
    <2>4. a = passNow \/ ~sky[s][a - 1]
        <3> SUFFICES ASSUME a # passNow, sky[s][a - 1] PROVE FALSE
            OBVIOUS
        <3>1. a - 1 \in passNow..t
            BY <2>0, <2>3
        <3>2. \A j \in (a - 1)..t : j = a - 1 \/ j \in a..t
            BY <2>0, <2>3
        <3>3. a - 1 \in N
            BY <2>2, <3>1, <3>2
        <3> QED
            BY <2>2, <2>3, <3>3
    <2> DEFINE C == Search!Closing(s, a)
    <2>5. C \in SUBSET Nat /\ Steps \in C
        BY <2>0, <2>3 DEF Search!Closing
    <2>6. PICK b \in C : \A v \in C : b <= v
        BY <2>5, LeastNatural
    <2>7. b \in Search!Moments /\ a < b /\ (~sky[s][b] \/ b = Steps)
        BY <2>6 DEF Search!Closing
    <2>8. t < b
        <3> SUFFICES ASSUME b <= t PROVE FALSE
            BY <2>0, <2>7
        <3>1. b \in a..t /\ b # Steps
            BY <2>0, <2>3, <2>7
        <3>2. \A j \in a..t : sky[s][j]
            BY <2>2
        <3> QED
            BY <2>7, <3>1, <3>2
    <2>9. [rise |-> a, set |-> b] \in Search!PredictPasses(s)
        <3> DEFINE w == <<a, b>>
        <3>1. w \in (passNow..Steps) \X Search!Moments /\ w[1] = a /\ w[2] = b
            BY <2>3, <2>7
        <3> HIDE DEF w
        <3> QED
            BY <2>3, <2>4, <2>6, <3>1 DEF Search!PredictPasses
    <2> QED
        BY <2>3, <2>8, <2>9
<1> QED
    BY <1>1, <1>2

\* The search starts without an answer.
LEMMA SearchStarts == Search!PassSearchAssumption /\ Search!Init => SearchInv
BY DEF Search!PassSearchAssumption, Search!Init, SearchInv, Sky, Search!TypeOK, Search!PassesFound,
       Search!None, Search!Moments, Search!ListsWholePasses, Search!AdviceHolds, Search!CountsDown,
       Search!PredictsWindows

\* Each call answers truthfully, at the time it answers.
LEMMA SearchStep == Search!PassSearchAssumption /\ SearchInv /\ [Search!Next]_passes => SearchInv'
<1> SUFFICES ASSUME Search!PassSearchAssumption, SearchInv, [Search!Next]_passes PROVE SearchInv'
    OBVIOUS
<1> USE DEF SearchInv, Sky, Search!TypeOK
<1>f. \A s \in Satellites : Search!FindSatellite(s) \in Satellites
    BY DEF Search!FindSatellite, Search!PassSearchAssumption
<1>h. Ahead \in Nat /\ Far \in Nat
    BY DEF Search!PassSearchAssumption
<1> DEFINE Quiet(kinds) == answer'.kind \in kinds /\ kinds \subseteq {"none", "all", "select", "selected", "deselect"}
<1>q. ASSUME NEW kinds, Quiet(kinds), UNCHANGED <<sky, first>>, passNow' \in Search!Moments,
             selected' \in [Users -> Satellites \cup {Search!Nobody}]
      PROVE  SearchInv'
    <2>1. answer'.kind \notin {"list", "next", "transmit", "predict"}
        BY <1>q
    <2>2. Search!TypeOK' /\ Sky'
        BY <1>q, <2>1
    <2> QED
        BY <2>1, <2>2 DEF Search!PassesFound, Search!ListsWholePasses, Search!AdviceHolds,
            Search!CountsDown, Search!PredictsWindows
<1>1. ASSUME NEW s \in Satellites, Search!List(s) PROVE SearchInv'
    <2>1. /\ answer' = [kind |-> "list", of |-> s, passes |-> Search!NextPasses(s, passNow, Ahead)]
          /\ UNCHANGED <<sky, first, passNow, selected>>
        BY <1>1 DEF Search!List, Search!Answer
    <2>2. answer'.kind = "list" /\ answer'.of = s /\ answer'.passes = Search!NextPasses(s, passNow, Ahead)
        BY <2>1
    <2>3. Search!NextPasses(s, passNow, Ahead) \subseteq Search!Passes
        BY <1>h, PassesInWindow
    <2>4. Search!TypeOK' /\ Sky'
        BY <2>1, <2>2, <2>3 DEF Search!Passes
    <2>5. Search!NextPasses(s, passNow, Ahead) =
              {p \in Search!Whole(Search!FindSatellite(s)) : passNow < p.rise /\ p.set <= passNow + Ahead}
        BY <1>f, <1>h, ListedAreWhole DEF Search!NextPasses
    <2>6. Search!ListsWholePasses'
        BY <2>1, <2>2, <2>5 DEF Search!ListsWholePasses, Search!FindSatellite, Search!Whole, Search!Stretch
    <2>7. (Search!AdviceHolds /\ Search!CountsDown /\ Search!PredictsWindows)'
        BY <2>2 DEF Search!AdviceHolds, Search!CountsDown, Search!PredictsWindows
    <2> QED
        BY <2>4, <2>6, <2>7 DEF Search!PassesFound
<1>2. ASSUME NEW s \in Satellites, Search!GetNext(s) PROVE SearchInv'
    <2>1. PICK later \in {passNow, passNow + 1} \cap Search!Moments :
              /\ answer' = [kind |-> "next", of |-> s, pass |-> Search!NextPass(s, passNow),
                            eta |-> IF \/ Search!NextPass(s, passNow) = Search!NoPass
                                       \/ Search!NextPass(s, later) = Search!NoPass
                                    THEN Search!NoEta ELSE Search!NextPass(s, later).rise - later]
              /\ passNow' = later /\ UNCHANGED <<sky, first, selected>>
        BY <1>2 DEF Search!GetNext, Search!Answer
    <2> DEFINE p == Search!NextPass(s, passNow)
               q == Search!NextPass(s, later)
    <2>2. /\ answer'.kind = "next" /\ answer'.pass = p
          /\ answer'.eta = IF p = Search!NoPass \/ q = Search!NoPass THEN Search!NoEta ELSE q.rise - later
        BY <2>1
    <2>3. Search!TypeOK' /\ Sky'
        BY <2>1, <2>2
    <2>4. p # Search!NoPass => p.rise \in Nat
        BY <1>h, NextIsEarliest, PassesInWindow DEF Search!Moments, Search!PassSearchAssumption
    <2>5. later \in Nat /\ passNow \in Nat
        BY DEF Search!Moments, Search!PassSearchAssumption
    <2>6. p = Search!NoPass \/ p.rise <= later \/ (q # Search!NoPass /\ q.rise = p.rise)
        <3>1. CASE later = passNow
            BY <3>1
        <3>2. CASE later = passNow + 1
            BY <2>4, <2>5, <3>2, NextStays
        <3> QED
            BY <2>1, <3>1, <3>2
    <2> HIDE DEF p, q
    <2>7. p = Search!NoPass \/ p.rise <= later \/ answer'.eta + later = p.rise
        BY <2>2, <2>4, <2>5, <2>6
    <2>8. Search!CountsDown'
        BY <2>1, <2>2, <2>7 DEF Search!CountsDown, Search!NoPass
    <2>9. (Search!AdviceHolds /\ Search!ListsWholePasses /\ Search!PredictsWindows)'
        BY <2>2 DEF Search!AdviceHolds, Search!ListsWholePasses, Search!PredictsWindows
    <2> QED
        BY <2>3, <2>8, <2>9 DEF Search!PassesFound
<1>3. ASSUME NEW s \in Satellites, Search!ShouldTransmitNow(s) PROVE SearchInv'
    <2> DEFINE risen == sky[Search!FindSatellite(s)][passNow]
               p == IF risen THEN Search!NextPass(s, passNow) ELSE Search!NoPass
    <2>1. /\ answer' = [kind |-> "transmit", of |-> s, yes |-> risen, pass |-> p]
          /\ UNCHANGED <<sky, first, passNow, selected>>
        BY <1>3 DEF Search!ShouldTransmitNow, Search!Answer
    <2>2. p # Search!NoPass => risen /\ p \in Search!Whole(Search!FindSatellite(s))
        <3>1. p # Search!NoPass => risen /\ p \in Search!NextPasses(s, passNow, Far)
            BY NextIsEarliest
        <3>2. Search!NextPasses(s, passNow, Far) \subseteq Search!Whole(Search!FindSatellite(s))
            BY <1>f, <1>h, ListedAreWhole DEF Search!NextPasses
        <3> HIDE DEF p
        <3> QED
            BY <3>1, <3>2
    <2> HIDE DEF p
    <2>3. answer'.kind = "transmit" /\ answer'.of = s /\ answer'.yes = risen /\ answer'.pass = p
        BY <2>1
    <2>4. Search!TypeOK' /\ Sky'
        BY <2>1, <2>3
    <2>5. Search!AdviceHolds'
        BY <2>1, <2>2, <2>3 DEF Search!AdviceHolds, Search!FindSatellite, Search!NoPass, Search!Whole,
            Search!Stretch
    <2>6. (Search!CountsDown /\ Search!ListsWholePasses /\ Search!PredictsWindows)'
        BY <2>3 DEF Search!CountsDown, Search!ListsWholePasses, Search!PredictsWindows
    <2> QED
        BY <2>4, <2>5, <2>6 DEF Search!PassesFound
<1>4. ASSUME NEW s \in Satellites, Search!Predict(s) PROVE SearchInv'
    <2>1. /\ answer' = [kind |-> "predict", of |-> s, passes |-> Search!PredictPasses(s)]
          /\ UNCHANGED <<sky, first, passNow, selected>>
        BY <1>4 DEF Search!Predict, Search!Answer
    <2>2. answer'.kind = "predict" /\ answer'.of = s /\ answer'.passes = Search!PredictPasses(s)
        BY <2>1
    <2>3. Search!TypeOK' /\ Sky'
        BY <2>1, <2>2, WindowsCover DEF Search!Passes
    <2>4. Search!PredictsWindows'
        BY <2>1, <2>2, WindowsCover DEF Search!PredictsWindows, Search!Stretch
    <2>5. (Search!CountsDown /\ Search!ListsWholePasses /\ Search!AdviceHolds)'
        BY <2>2 DEF Search!CountsDown, Search!ListsWholePasses, Search!AdviceHolds
    <2> QED
        BY <2>3, <2>4, <2>5 DEF Search!PassesFound
<1>5. ASSUME NEW u \in Users, NEW s \in Satellites, Search!SelectSatellite(u, s) PROVE SearchInv'
    <2>1. answer'.kind = "select"
        BY <1>5 DEF Search!SelectSatellite, Search!Answer
    <2> QED
        BY <1>5, <1>q, <2>1 DEF Search!SelectSatellite, Search!Answer
<1>6. ASSUME NEW u \in Users, Search!DeselectSatellite(u) PROVE SearchInv'
    <2>1. answer'.kind = "deselect"
        BY <1>6 DEF Search!DeselectSatellite, Search!Answer
    <2> QED
        BY <1>6, <1>q, <2>1 DEF Search!DeselectSatellite, Search!Answer
<1>7. CASE Search!ListAll
    <2>1. answer'.kind = "all"
        BY <1>7 DEF Search!ListAll, Search!Answer
    <2> QED
        BY <1>7, <1>q, <2>1 DEF Search!ListAll, Search!Answer
<1>8. CASE Search!GetSelected
    <2>1. answer'.kind = "selected"
        BY <1>8 DEF Search!GetSelected, Search!Answer
    <2> QED
        BY <1>8, <1>q, <2>1 DEF Search!GetSelected, Search!Answer
<1>9. CASE Search!Tick
    <2>1. answer'.kind = "none"
        BY <1>9 DEF Search!Tick, Search!None
    <2> QED
        BY <1>9, <1>q, <2>1 DEF Search!Tick
<1>10. CASE UNCHANGED passes
    BY <1>10 DEF passes, Search!PassesFound, Search!ListsWholePasses, Search!AdviceHolds,
        Search!CountsDown, Search!PredictsWindows, Search!Whole, Search!Stretch, Search!FindSatellite
<1>11. CASE Search!Next
    BY <1>1, <1>2, <1>3, <1>4, <1>5, <1>6, <1>7, <1>8, <1>9, <1>11 DEF Search!Next
<1> QED
    BY <1>10, <1>11

-----------------------------------------------------------------------------
(* What the composition promises. *)

\* The units' invariants hold in the composition.
LEMMA RadioHolds == Spec => [](RadarInv /\ PlanInv /\ TurboInv /\ SearchInv)
<1>1. Init => RadarInv /\ PlanInv /\ TurboInv /\ SearchInv
    BY RadarUnit, RadarStarts, PlanUnit, PlanStarts, TurboUnit, TurboStarts, SearchUnit, SearchStarts
<1>2. RadarInv /\ PlanInv /\ TurboInv /\ SearchInv /\ [Next]_vars
          => (RadarInv /\ PlanInv /\ TurboInv /\ SearchInv)'
    <2>1. RadarInv /\ [Next]_vars => RadarInv'
        BY RadarUnit, RadarStep
    <2>2. PlanInv /\ [Next]_vars => PlanInv'
        BY PlanUnit, PlanStep
    <2>3. TurboInv /\ [Next]_vars => TurboInv'
        BY TurboUnit, TurboStep
    <2>4. SearchInv /\ [Next]_vars => SearchInv'
        BY SearchUnit, SearchStep
    <2> QED
        BY <2>1, <2>2, <2>3, <2>4
<1> QED
    BY <1>1, <1>2, PTL DEF Spec

\* The radio's routes: a client that set the satellite is told what it is; a plan
\* keeps the duty cycle and defers nothing for what is less urgent; what is compressed
\* comes back, but for the losses that the compressor is known for; and the passes
\* found are the whole passes of the sky.
THEOREM RadioAnswersHolds == Spec => []RadioAnswers
<1>1. RadarInv /\ PlanInv /\ TurboInv /\ SearchInv => RadioAnswers
    BY PlanUnit, PlanPromises, TurboUnit, TurboPromises DEF RadarInv, SearchInv, RadioAnswers
<1> QED
    BY <1>1, RadioHolds, PTL

\* Type correctness of all the handlers.
THEOREM BackendTypes == Spec => []TypeOK
<1>1. InboxInv => Read!TypeOK
    BY DEF InboxInv
<1>2. RadarInv /\ PlanInv /\ TurboInv /\ SearchInv
          => Radar!TypeOK /\ Plan!TypeOK /\ Turbo!TypeOK /\ Search!TypeOK
    BY PlanUnit, PlanPromises, TurboUnit, TurboPromises DEF RadarInv, SearchInv
<1>3. Init => InboxInv
    BY InboxUnit, InboxStarts
<1>4. InboxInv /\ [Next]_vars => InboxInv'
    BY InboxUnit, InboxStep
<1>5. Spec => []Read!TypeOK
    BY <1>1, <1>3, <1>4, PTL DEF Spec
<1> QED
    BY <1>2, <1>5, RegisterTypeCorrect, SendTypeCorrect, RadioHolds, PTL DEF TypeOK

=============================================================================
