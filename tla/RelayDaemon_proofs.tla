------------------------- MODULE RelayDaemon_proofs -------------------------
(***************************************************************************)
(* Proofs about the relay daemon: the tracker exceeds its budget by no     *)
(* more than one packet's excess over the guess, and every packet heard is *)
(* waiting in order or was given to the radio once, for every number of    *)
(* packets, airtimes, budget, window and number of errors.                 *)
(***************************************************************************)
EXTENDS RelayDaemon, Airtime_proofs, SequenceTheorems

-----------------------------------------------------------------------------
(* Type correctness. *)

\* A packet is on the air only while it is the first of the buffer.
Aired == burst = "airing" => buffer # <<>>

LEMMA PopType == ASSUME TypeOK, buffer # <<>> PROVE Head(buffer) \in Ids /\ Pop(buffer) \in Seq(Ids)
    BY HeadTailProperties DEF TypeOK, Pop

LEMMA TypeStep == TypeOK /\ Aired /\ [Next]_vars => (TypeOK /\ Aired)'
<1> SUFFICES ASSUME TypeOK, Aired, [Next]_vars PROVE (TypeOK /\ Aired)'
    OBVIOUS
<1> USE RelayAssumption DEF Aired
<1>1. CASE Listen
    BY <1>1 DEF TypeOK, Listen, Request
<1>2. CASE Hear
    <2>1. heard + 1 \in 0..MaxId /\ since \in 0..(heard + 1)
        BY <1>2 DEF Hear, TypeOK
    <2>2. Append(buffer, heard + 1) \in Seq(Ids) /\ Append(buffer, heard + 1) # <<>>
        <3>1. heard + 1 \in Ids /\ buffer \in Seq(Ids)
            BY <1>2 DEF Hear, TypeOK, Ids
        <3> QED
            BY <3>1, AppendProperties
    <2> QED
        BY <1>2, <2>1, <2>2 DEF Hear, TypeOK
<1>3. CASE HearNothing
    BY <1>3 DEF TypeOK, HearNothing
<1>4. ASSUME Serve PROVE tries' \in [Ids -> Nat]
    <2>1. Head(buffer) \in Ids
        BY <1>4, PopType DEF Serve
    <2> QED
        BY <1>4, <2>1 DEF Serve, TypeOK
<1>5. CASE Transmit
    BY <1>4, <1>5 DEF TypeOK, Transmit, Serve
<1>6. CASE TransmitFails
    BY <1>4, <1>6, PopType DEF TypeOK, TransmitFails, Serve
<1>7. CASE Transmitted
    <2>1. Gone \in Nat /\ 0 \in 0..Gone
        BY DEF Gone
    <2> QED
        BY <1>7, <2>1, PopType DEF TypeOK, Transmitted
<1>8. CASE EndBurst
    BY <1>8 DEF TypeOK, EndBurst
<1>9. CASE Stop
    BY <1>9 DEF TypeOK, Stop, Gone
<1>10. CASE Restart
    BY <1>10 DEF TypeOK, Restart
<1>11. CASE Tick
    <2>1. \A p \in Ids : Older(age[p]) \in 0..Gone
        BY DEF Older, Gone, TypeOK
    <2> QED
        BY <1>11, <2>1 DEF TypeOK, Tick
<1>12. CASE UNCHANGED vars
    BY <1>12 DEF TypeOK, vars
<1> QED
    BY <1>1, <1>2, <1>3, <1>5, <1>6, <1>7, <1>8, <1>9, <1>10, <1>11, <1>12 DEF Next

LEMMA TypeInit == Init => TypeOK /\ Aired
    BY RelayAssumption DEF Init, TypeOK, Aired, Gone, Ids

\* Every variable of the relay daemon keeps its type.
THEOREM TypeCorrect == Spec => []TypeOK
<1> QED
    BY TypeInit, TypeStep, PTL DEF Spec

-----------------------------------------------------------------------------
(* The duty cycle. *)

\* While a packet is on the air the tracker still has room for the guess.
Room ==
    /\ Overshoot
    /\ burst = "airing" => UsedAirtime + Guess <= Budget

LEMMA ExcessBound == Excess \in Nat /\ MaxAir <= Guess + Excess
    BY RelayAssumption DEF Excess

LEMMA LoggedFinite == ASSUME NEW S \in SUBSET Ids PROVE IsFiniteSet(S)
<1>1. IsFiniteSet(Ids)
    BY FS_Interval, RelayAssumption DEF Ids
<1> QED
    BY <1>1, FS_Subset

LEMMA SameAir == ASSUME [Next]_vars PROVE air' = air
    BY DEF Next, Listen, Hear, HearNothing, Transmit, TransmitFails, Transmitted,
           EndBurst, Stop, Restart, Tick, vars, Serve

\* The airtime logged grows by at most one packet, and only when it is sent.
LEMMA UsedStep ==
    ASSUME TypeOK, Aired, [Next]_vars
    PROVE  /\ UsedAirtime \in Nat /\ UsedAirtime' \in Nat
           /\ Transmitted => UsedAirtime' <= UsedAirtime + MaxAir
           /\ ~Transmitted => UsedAirtime' <= UsedAirtime
<1> DEFINE Used(S) == AirtimeOf(S, air, MaxAir)
<1>1. Logged \in SUBSET Ids /\ Logged' \in SUBSET Ids
    BY DEF Logged
<1>2. IsFiniteSet(Logged) /\ IsFiniteSet(Logged')
    BY <1>1, LoggedFinite
<1>3. UsedAirtime = Used(Logged) /\ UsedAirtime' = Used(Logged')
    BY SameAir DEF UsedAirtime, AirtimeOf, Units
<1>4. UsedAirtime \in Nat /\ UsedAirtime' \in Nat
    BY <1>2, <1>3, AirtimeFinite, RelayAssumption
<1>5. ASSUME Transmitted PROVE UsedAirtime' <= UsedAirtime + MaxAir
    <2> DEFINE p == Head(buffer)
    <2>1. p \in Ids
        BY <1>5, PopType DEF Aired, Transmitted
    <2>2. air[p] \in Nat /\ air[p] <= MaxAir
        <3>1. air[p] \in 1..MaxAir
            BY <2>1, RelayAssumption DEF TypeOK
        <3> QED
            BY <3>1, RelayAssumption
    <2>3. Logged' \subseteq Logged \cup {p}
        BY <1>5, <2>1 DEF Transmitted, Logged, TypeOK
    <2>4. IsFiniteSet(Logged \cup {p})
        BY <1>1, <2>1, LoggedFinite
    <2>5. Used(Logged') <= Used(Logged \cup {p})
        BY <2>3, <2>4, AirtimeMonotone, RelayAssumption
    <2>6. Used(Logged \cup {p}) <= Used(Logged) + air[p]
        BY <1>2, <2>2, AirtimeAdd, RelayAssumption
    <2>7. Used(Logged \cup {p}) \in Nat
        BY <2>4, AirtimeFinite, RelayAssumption
    <2> HIDE DEF Used, p
    <2> QED
        BY <1>3, <1>4, <2>2, <2>5, <2>6, <2>7, RelayAssumption
<1>6. ASSUME ~Transmitted PROVE UsedAirtime' <= UsedAirtime
    <2>1. Logged' \subseteq Logged
        <3>1. CASE UNCHANGED age
            BY <3>1 DEF Logged
        <3>2. CASE Stop
            BY <3>2, RelayAssumption DEF Stop, Logged, Gone
        <3>3. CASE Tick
            BY <3>3, RelayAssumption DEF Tick, Older, Logged, Gone, TypeOK
        <3> QED
            BY <1>6, <3>1, <3>2, <3>3
            DEF Next, Listen, Hear, HearNothing, Transmit, TransmitFails, EndBurst,
                Restart, vars
    <2> QED
        BY <1>2, <1>3, <2>1, AirtimeMonotone, RelayAssumption
<1> QED
    BY <1>4, <1>5, <1>6

LEMMA RoomStep == TypeOK /\ Aired /\ Room /\ [Next]_vars => Room'
<1> SUFFICES ASSUME TypeOK, Aired, Room, [Next]_vars
             PROVE  /\ UsedAirtime' <= Budget + Excess
                    /\ burst' = "airing" => UsedAirtime' + Guess <= Budget
    BY DEF Room, Overshoot, Excess
<1> DEFINE u == UsedAirtime
           v == UsedAirtime'
<1>0. /\ u \in Nat /\ v \in Nat
      /\ Transmitted => v <= u + MaxAir
      /\ ~Transmitted => v <= u
      /\ u <= Budget + Excess
      /\ burst = "airing" => u + Guess <= Budget
      /\ Excess \in Nat /\ MaxAir <= Guess + Excess
      /\ Budget \in Nat /\ Guess \in Nat /\ MaxAir \in Nat
    BY UsedStep, ExcessBound, RelayAssumption DEF Room, Overshoot
<1> HIDE DEF u, v
<1>1. CASE Transmitted
    <2>1. burst = "airing" /\ burst' # "airing"
        BY <1>1 DEF Transmitted
    <2>2. v <= Budget + Excess
        BY <1>0, <1>1, <2>1
    <2> QED
        BY <2>1, <2>2 DEF v
<1>2. CASE ~Transmitted
    <2>1. v <= Budget + Excess
        BY <1>0, <1>2
    <2>2. ASSUME burst' = "airing" PROVE u + Guess <= Budget
        <3>1. CASE Transmit
            BY <3>1 DEF Transmit, Serve, CanTransmit, u
        <3>2. CASE ~Transmit
            <4>1. burst = "airing"
                BY <1>2, <2>2, <3>2
                DEF Next, Listen, Hear, HearNothing, TransmitFails, EndBurst, Stop,
                    Restart, Tick, vars
            <4> QED
                BY <1>0, <4>1
        <3> QED
            BY <3>1, <3>2
    <2>3. burst' = "airing" => v + Guess <= Budget
        BY <1>0, <1>2, <2>2
    <2> QED
        BY <2>1, <2>3 DEF v
<1> QED
    BY <1>1, <1>2

\* The tracker's sum stays within the budget and one packet's excess.
THEOREM OvershootHolds == Spec => []Overshoot
<1>1. Init => TypeOK /\ Aired /\ Room
    <2> SUFFICES ASSUME Init PROVE Room
        BY TypeInit
    <2>1. Logged = {}
        BY RelayAssumption DEF Init, Logged, Gone
    <2>2. UsedAirtime = 0
        BY <2>1, AirtimeEmpty, RelayAssumption DEF UsedAirtime
    <2> QED
        BY <2>2, RelayAssumption, ExcessBound DEF Init, Room, Overshoot
<1>2. TypeOK /\ Aired /\ Room /\ [Next]_vars => (TypeOK /\ Aired /\ Room)'
    BY TypeStep, RoomStep
<1>3. Room => Overshoot
    BY DEF Room
<1> QED
    BY <1>1, <1>2, <1>3, PTL DEF Spec

-----------------------------------------------------------------------------
(* Every packet heard is waiting in order, or was given to the radio once. *)

\* EachOnce by positions in the buffer, with what makes it inductive: only
\* packets heard since the start wait, and what is not heard was not sent.
Increasing == \A i, j \in 1..Len(buffer) : i < j => buffer[i] < buffer[j]
AtSome(p) == \E i \in 1..Len(buffer) : buffer[i] = p
OnAir(p) == burst = "airing" /\ p = Head(buffer)
Times(p) == IF AtSome(p) /\ ~OnAir(p) THEN 0 ELSE 1
Accounted ==
    /\ Increasing
    /\ \A i \in 1..Len(buffer) : buffer[i] \in since + 1..heard
    /\ \A p \in since + 1..heard : tries[p] = Times(p)
    /\ \A p \in heard + 1..MaxId : tries[p] = 0

LEMMA AccountedImpliesOnce == TypeOK /\ Accounted => EachOnce
<1> SUFFICES ASSUME TypeOK, Accounted PROVE EachOnce
    OBVIOUS
<1>1. DOMAIN buffer = 1..Len(buffer)
    BY LenProperties DEF TypeOK
<1>2. \A p : AtSome(p) <=> p \in ToSet(buffer)
    BY <1>1 DEF AtSome, ToSet
<1> QED
    BY <1>1, <1>2 DEF Accounted, EachOnce, Increasing, Times, OnAir

\* Removing the first packet of an increasing buffer removes it for good.
LEMMA PopFirst ==
    ASSUME TypeOK, Accounted, buffer # <<>>, buffer' = Pop(buffer)
    PROVE  /\ Increasing'
           /\ \A i \in 1..Len(buffer') : buffer'[i] \in since + 1..heard
           /\ \A p : AtSome(p)' <=> AtSome(p) /\ p # Head(buffer)
<1>1. /\ Len(buffer) \in Nat /\ Len(buffer) >= 1
      /\ Len(buffer') = Len(buffer) - 1
      /\ \A i \in 1..Len(buffer') : buffer'[i] = buffer[i + 1]
      /\ Head(buffer) = buffer[1]
    BY HeadTailProperties, LenProperties, EmptySeq DEF TypeOK, Pop
<1>2. \A i \in 1..Len(buffer) : buffer[i] \in Nat
    BY ElementOfSeq DEF TypeOK, Ids
<1>3. \A i, j \in 1..Len(buffer) : i < j => buffer[i] < buffer[j]
    BY DEF Accounted, Increasing
<1>4. Increasing'
    BY <1>1, <1>3 DEF Increasing
<1>5. \A i \in 1..Len(buffer') : buffer'[i] \in since + 1..heard
    BY <1>1 DEF Accounted
<1>6. ASSUME NEW p, AtSome(p)' PROVE AtSome(p) /\ p # Head(buffer)
    <2>1. PICK i \in 1..Len(buffer') : buffer'[i] = p
        BY <1>6 DEF AtSome
    <2>2. i + 1 \in 1..Len(buffer) /\ buffer[i + 1] = p /\ 1 < i + 1
        BY <1>1, <2>1
    <2>3. buffer[1] < p /\ p \in Nat /\ buffer[1] \in Nat
        BY <1>1, <1>2, <1>3, <2>2
    <2> QED
        BY <1>1, <2>2, <2>3 DEF AtSome
<1>7. ASSUME NEW p, AtSome(p), p # Head(buffer) PROVE AtSome(p)'
    <2>1. PICK i \in 1..Len(buffer) : buffer[i] = p
        BY <1>7 DEF AtSome
    <2>2. i - 1 \in 1..Len(buffer') /\ buffer'[i - 1] = p
        BY <1>1, <1>7, <2>1
    <2> QED
        BY <2>2 DEF AtSome
<1> QED
    BY <1>4, <1>5, <1>6, <1>7

LEMMA AccountedStep ==
    TypeOK /\ Aired /\ Accounted /\ [Next]_vars => Accounted'
<1> SUFFICES ASSUME TypeOK, Aired, Accounted, [Next]_vars PROVE Accounted'
    OBVIOUS
<1>0. TypeOK' /\ Aired'
    BY TypeStep
<1>a. /\ heard \in Nat /\ since \in Nat /\ since <= heard /\ MaxId \in Nat
      /\ tries \in [Ids -> Nat]
      /\ \A p \in since + 1..heard : p \in Ids
    BY RelayAssumption DEF TypeOK, Ids
<1>1. ASSUME UNCHANGED <<buffer, heard, since, burst, tries>> PROVE Accounted'
    BY <1>1 DEF Accounted, Increasing, Times, AtSome, OnAir
<1>2. CASE Hear
    <2>1. /\ Len(buffer) \in Nat
          /\ Len(buffer') = Len(buffer) + 1
          /\ \A i \in 1..Len(buffer) : buffer'[i] = buffer[i]
          /\ buffer'[Len(buffer) + 1] = heard + 1
        BY <1>2, AppendProperties, LenProperties, <1>a DEF Hear, TypeOK, Ids
    <2>2. \A i \in 1..Len(buffer) : buffer[i] \in since + 1..heard
        BY DEF Accounted
    <2>3. heard' = heard + 1 /\ UNCHANGED <<since, burst, tries>> /\ heard + 1 \in 1..MaxId
        BY <1>2, <1>a DEF Hear
    <2>4. Increasing'
        <3> SUFFICES ASSUME NEW i \in 1..Len(buffer'), NEW j \in 1..Len(buffer'), i < j
                     PROVE  buffer'[i] < buffer'[j]
            BY DEF Increasing
        <3>1. i \in 1..Len(buffer)
            BY <2>1
        <3>2. CASE j \in 1..Len(buffer)
            BY <2>1, <3>1, <3>2 DEF Accounted, Increasing
        <3>3. CASE j = Len(buffer) + 1
            BY <1>a, <2>1, <2>2, <3>1, <3>3
        <3> QED
            BY <2>1, <3>2, <3>3
    <2>5. \A i \in 1..Len(buffer') : buffer'[i] \in since' + 1..heard'
        BY <1>a, <2>1, <2>2, <2>3
    <2>6. \A p : AtSome(p)' <=> AtSome(p) \/ p = heard + 1
        BY <2>1 DEF AtSome
    <2>7. \A p \in since + 1..heard : OnAir(p)' <=> OnAir(p)
        <3>1. CASE buffer = <<>>
            BY <2>3, <3>1 DEF OnAir, Aired
        <3>2. CASE buffer # <<>>
            <4>1. Len(buffer) >= 1 /\ Head(buffer) = buffer[1] /\ Head(buffer') = buffer'[1]
                BY <2>1, <3>2, <1>0, HeadTailProperties, EmptySeq, LenProperties DEF TypeOK
            <4> QED
                BY <2>1, <2>3, <4>1 DEF OnAir
        <3> QED
            BY <3>1, <3>2
    <2>8. \A p : p = heard + 1 => ~OnAir(p)'
        <3> SUFFICES ASSUME burst = "airing", heard + 1 = Head(buffer') PROVE FALSE
            BY <2>3 DEF OnAir
        <3>1. Len(buffer) >= 1 /\ Head(buffer') = buffer'[1]
            BY <2>1, <1>0, HeadTailProperties, EmptySeq, LenProperties DEF TypeOK, Aired
        <3>2. Head(buffer') = buffer[1] /\ buffer[1] \in since + 1..heard
            BY <2>1, <2>2, <3>1
        <3> QED
            BY <1>a, <3>2
    <2>9. \A p \in since + 1..heard : tries'[p] = Times(p)'
        BY <1>a, <2>3, <2>6, <2>7 DEF Accounted, Times
    <2>10. \A p : p = heard + 1 => tries'[p] = Times(p)'
        BY <1>a, <2>3, <2>6, <2>8 DEF Accounted, Times
    <2>11. \A p \in since' + 1..heard' : tries'[p] = Times(p)'
        BY <1>a, <2>3, <2>9, <2>10
    <2>12. \A p \in heard' + 1..MaxId : tries'[p] = 0
        BY <1>a, <2>3 DEF Accounted
    <2> QED
        BY <2>4, <2>5, <2>11, <2>12 DEF Accounted
<1>3. ASSUME Serve PROVE /\ Head(buffer) \in since + 1..heard
                         /\ tries' = [tries EXCEPT ![Head(buffer)] = 1]
    <2>1. buffer # <<>> /\ burst # "airing"
        BY <1>3 DEF Serve
    <2>2. Len(buffer) >= 1 /\ Head(buffer) = buffer[1] /\ Len(buffer) \in Nat
        BY <2>1, HeadTailProperties, EmptySeq, LenProperties DEF TypeOK
    <2>3. Head(buffer) \in since + 1..heard /\ AtSome(Head(buffer))
        BY <2>2 DEF Accounted, AtSome
    <2>4. tries[Head(buffer)] = 0
        BY <2>1, <2>3 DEF Accounted, Times, OnAir
    <2> QED
        BY <1>3, <2>3, <2>4 DEF Serve
<1>4. CASE Transmit
    <2>1. UNCHANGED <<buffer, heard, since>> /\ burst' = "airing" /\ burst # "airing"
        BY <1>4 DEF Transmit, Serve
    <2>2. Increasing' /\ (\A p : AtSome(p)' <=> AtSome(p))
        BY <2>1 DEF Accounted, Increasing, AtSome
    <2>3. Head(buffer) \in since + 1..heard /\ tries' = [tries EXCEPT ![Head(buffer)] = 1]
        BY <1>3, <1>4 DEF Transmit
    <2>4. \A p \in since + 1..heard : tries'[p] = Times(p)'
        BY <1>a, <2>1, <2>2, <2>3 DEF Accounted, Times, OnAir
    <2>5. \A p \in heard + 1..MaxId : tries'[p] = 0
        BY <1>a, <2>3 DEF Accounted, Ids
    <2> QED
        BY <2>1, <2>2, <2>4, <2>5 DEF Accounted
<1>5. CASE TransmitFails \/ Transmitted
    <2>1. /\ UNCHANGED <<heard, since>> /\ burst' # "airing" /\ buffer # <<>>
          /\ buffer' = Pop(buffer)
        BY <1>5 DEF TransmitFails, Serve, Transmitted, Aired
    <2>2. /\ Increasing'
          /\ \A i \in 1..Len(buffer') : buffer'[i] \in since + 1..heard
          /\ \A p : AtSome(p)' <=> AtSome(p) /\ p # Head(buffer)
        BY <2>1, PopFirst
    <2>3. CASE TransmitFails
        <3>1. Head(buffer) \in since + 1..heard /\ tries' = [tries EXCEPT ![Head(buffer)] = 1]
            BY <1>3, <2>3 DEF TransmitFails
        <3>2. burst # "airing"
            BY <2>3 DEF TransmitFails, Serve
        <3>3. \A p \in since + 1..heard : tries'[p] = Times(p)'
            BY <1>a, <2>1, <2>2, <3>1, <3>2 DEF Accounted, Times, OnAir
        <3>4. \A p \in heard + 1..MaxId : tries'[p] = 0
            BY <1>a, <3>1 DEF Accounted, Ids
        <3> QED
            BY <2>1, <2>2, <3>3, <3>4 DEF Accounted
    <2>4. CASE Transmitted
        <3>1. burst = "airing" /\ UNCHANGED tries
            BY <2>4 DEF Transmitted
        <3>2. \A p \in since + 1..heard : tries'[p] = Times(p)'
            BY <2>1, <2>2, <3>1 DEF Accounted, Times, OnAir
        <3> QED
            BY <2>1, <2>2, <3>1, <3>2 DEF Accounted
    <2> QED
        BY <1>5, <2>3, <2>4
<1>6. CASE Stop
    <2>1. /\ buffer' = <<>> /\ since' = heard /\ heard' = heard /\ tries' = tries
        BY <1>6 DEF Stop
    <2>2. Len(buffer') = 0
        BY <2>1, EmptySeq
    <2> QED
        BY <1>a, <2>1, <2>2 DEF Accounted, Increasing
<1>7. CASE EndBurst \/ Restart
    <2>1. UNCHANGED <<buffer, heard, since, tries>> /\ burst # "airing" /\ burst' # "airing"
        BY <1>7 DEF EndBurst, Restart, Up
    <2> QED
        BY <2>1 DEF Accounted, Increasing, Times, AtSome, OnAir
<1> QED
    BY <1>1, <1>2, <1>4, <1>5, <1>6, <1>7 DEF Next, Listen, HearNothing, Tick, vars

\* Whatever is heard during a burst, each packet goes to the radio once, in
\* the order it was heard.
THEOREM EachOnceHolds == Spec => []EachOnce
<1>1. Init => TypeOK /\ Aired /\ Accounted
    <2> SUFFICES ASSUME Init PROVE Accounted
        BY TypeInit
    <2>1. Len(buffer) = 0 /\ heard = 0 /\ since = 0
        BY EmptySeq DEF Init
    <2> QED
        BY <2>1, RelayAssumption DEF Init, Accounted, Increasing, Ids
<1>2. TypeOK /\ Aired /\ Accounted /\ [Next]_vars => (TypeOK /\ Aired /\ Accounted)'
    BY TypeStep, AccountedStep
<1> QED
    BY <1>1, <1>2, AccountedImpliesOnce, PTL DEF Spec

-----------------------------------------------------------------------------
(* The daemon implements the lossy queue. *)

\* What Tail leaves of a buffer does not depend on what is appended meanwhile.
LEMMA TailAppend ==
    ASSUME TypeOK, buffer # <<>>, NEW p \in Ids
    PROVE  Tail(Append(buffer, p)) = Append(Tail(buffer), p)
<1>1. /\ buffer \in Seq(Ids) /\ Len(buffer) \in Nat /\ Len(buffer) >= 1
      /\ Tail(buffer) \in Seq(Ids) /\ Len(Tail(buffer)) = Len(buffer) - 1
      /\ \A i \in 1..Len(Tail(buffer)) : Tail(buffer)[i] = buffer[i + 1]
    BY HeadTailProperties, LenProperties, EmptySeq DEF TypeOK
<1> DEFINE s == Append(buffer, p)
           t == Append(Tail(buffer), p)
<1>2. /\ s \in Seq(Ids) /\ Len(s) = Len(buffer) + 1 /\ s # <<>>
      /\ \A i \in 1..Len(buffer) : s[i] = buffer[i]
      /\ s[Len(buffer) + 1] = p
    BY <1>1, AppendProperties
<1>3. /\ t \in Seq(Ids) /\ Len(t) = Len(buffer)
      /\ \A i \in 1..Len(buffer) - 1 : t[i] = buffer[i + 1]
      /\ t[Len(buffer)] = p
    BY <1>1, AppendProperties
<1> HIDE DEF s, t
<1>4. /\ Tail(s) \in Seq(Ids) /\ Len(Tail(s)) = Len(buffer)
      /\ \A i \in 1..Len(buffer) : Tail(s)[i] = s[i + 1]
    BY <1>1, <1>2, HeadTailProperties
<1>5. \A i \in 1..Len(buffer) : Tail(s)[i] = t[i]
    BY <1>1, <1>2, <1>3, <1>4
<1>6. Tail(s) = t
    BY <1>3, <1>4, <1>5, SeqEqual
<1> QED
    BY <1>6 DEF s, t

LEMMA FifoInit == Init => Fifo!Init
    BY DEF Init, Fifo!Init, Waiting, Ids

LEMMA FifoStep == TypeOK /\ Aired /\ [Next]_vars => [Fifo!Next]_Fifo!vars
<1> SUFFICES ASSUME TypeOK, Aired, [Next]_vars PROVE [Fifo!Next]_Fifo!vars
    OBVIOUS
<1>1. CASE Hear
    <2>1. heard + 1 \in Ids /\ heard < MaxId
        BY <1>1, RelayAssumption DEF Hear, TypeOK, Ids
    <2>2. Waiting' = Append(Waiting, heard + 1)
        BY <1>1, <2>1, TailAppend DEF Hear, Waiting, Aired
    <2>3. Fifo!Arrive
        BY <1>1, <2>1, <2>2 DEF Hear, Fifo!Arrive
    <2> QED
        BY <2>3 DEF Fifo!Next
<1>2. CASE Transmit \/ TransmitFails
    <2>1. Waiting = buffer /\ buffer # <<>> /\ heard' = heard
        BY <1>2 DEF Transmit, TransmitFails, Serve, Waiting
    <2>2. Waiting' = Tail(buffer)
        BY <1>2 DEF Transmit, TransmitFails, Serve, Waiting, Pop
    <2>3. Fifo!HandOn
        BY <1>2, <2>1, <2>2 DEF Transmit, TransmitFails, Serve, Fifo!HandOn
    <2> QED
        BY <2>3 DEF Fifo!Next
<1>3. CASE Stop
    <2>1. Fifo!Lose
        BY <1>3 DEF Stop, Waiting, Fifo!Lose
    <2> QED
        BY <2>1 DEF Fifo!Next
\* The packet on the air was handed on when its transmission began.
<1>4. CASE Transmitted
    BY <1>4 DEF Transmitted, Waiting, Pop, Fifo!vars
<1>5. CASE EndBurst \/ Restart
    BY <1>5 DEF EndBurst, Restart, Up, Waiting, Fifo!vars
<1>6. CASE Listen \/ HearNothing \/ Tick \/ UNCHANGED vars
    BY <1>6 DEF Listen, HearNothing, Tick, vars, Waiting, Fifo!vars
<1> QED
    BY <1>1, <1>2, <1>3, <1>4, <1>5, <1>6 DEF Next

\* Every behaviour of the daemon is one of a lossy queue: what is heard goes to
\* the radio in order and at most once, and is lost only all at once.
THEOREM FifoImplemented == Spec => ImplementsFifo
<1>1. Spec => []TypeOK /\ []Aired
    BY TypeInit, TypeStep, PTL DEF Spec
<1> QED
    BY <1>1, FifoInit, FifoStep, PTL DEF Spec, ImplementsFifo, Fifo!Spec

=============================================================================
