--------------------------- MODULE Airtime_proofs ---------------------------
(***************************************************************************)
(* Lemmas about the airtime of finite sets of transmissions, cited by the  *)
(* proofs about the duty-cycle trackers, and about least naturals, with    *)
(* the induction over an interval that the other proofs rest on.           *)
(***************************************************************************)
EXTENDS Airtime, FiniteSetTheorems, WellFoundedInduction, TLAPS

\* The airtime of a finite set is a natural number.
THEOREM AirtimeFinite ==
    ASSUME NEW S, IsFiniteSet(S), NEW air, NEW most \in Nat
    PROVE  IsFiniteSet(Units(S, air, most)) /\ AirtimeOf(S, air, most) \in Nat
<1>1. IsFiniteSet(1..most)
    BY FS_Interval
<1>2. IsFiniteSet(S \X (1..most))
    BY <1>1, FS_Product
<1>3. IsFiniteSet(Units(S, air, most))
    BY <1>2, FS_Subset DEF Units
<1> QED
    BY <1>3, FS_CardinalityType DEF AirtimeOf

\* Fewer transmissions take no more airtime.
THEOREM AirtimeMonotone ==
    ASSUME NEW T, IsFiniteSet(T), NEW S \in SUBSET T, NEW air, NEW most \in Nat
    PROVE  AirtimeOf(S, air, most) <= AirtimeOf(T, air, most)
<1>1. Units(S, air, most) \subseteq Units(T, air, most)
    BY DEF Units
<1>2. IsFiniteSet(Units(T, air, most))
    BY AirtimeFinite
<1> QED
    BY <1>1, <1>2, FS_Subset DEF AirtimeOf

\* Nothing sent, no airtime.
THEOREM AirtimeEmpty ==
    ASSUME NEW air, NEW most \in Nat
    PROVE  AirtimeOf({}, air, most) = 0
<1>1. Units({}, air, most) = {}
    BY DEF Units
<1> QED
    BY <1>1, FS_EmptySet DEF AirtimeOf

\* One more transmission adds at most its own airtime.
THEOREM AirtimeAdd ==
    ASSUME NEW S, IsFiniteSet(S), NEW m, NEW air, air[m] \in Nat, NEW most \in Nat
    PROVE  AirtimeOf(S \cup {m}, air, most) <= AirtimeOf(S, air, most) + air[m]
<1> DEFINE Own == {m} \X (1..air[m])
           Old == Units(S, air, most)
           New == Units(S \cup {m}, air, most)
<1>1. IsFiniteSet({m}) /\ Cardinality({m}) = 1
    BY FS_Singleton
<1>2. IsFiniteSet(1..air[m]) /\ Cardinality(1..air[m]) = air[m]
    BY FS_Interval
<1>3. IsFiniteSet(Own) /\ Cardinality(Own) = 1 * air[m]
    BY <1>1, <1>2, FS_Product
<1>4. New \subseteq Old \cup Own
    <2> SUFFICES ASSUME NEW u \in New, u \notin Old PROVE u \in Own
        OBVIOUS
    <2>1. u \in (S \cup {m}) \X (1..most) /\ u[2] <= air[u[1]]
        BY DEF Units
    <2>2. u[1] = m
        BY <2>1 DEF Units
    <2> QED
        BY <2>1, <2>2
<1>5. IsFiniteSet(Old) /\ Cardinality(Old) \in Nat
    BY AirtimeFinite DEF AirtimeOf
<1> HIDE DEF Own, Old, New
<1>6. /\ IsFiniteSet(Old \cup Own)
      /\ Cardinality(Old \cup Own)
            = Cardinality(Old) + Cardinality(Own) - Cardinality(Old \cap Own)
    BY <1>3, <1>5, FS_Union
<1>7. Cardinality(Old \cap Own) \in Nat
    BY <1>5, FS_Intersection, FS_CardinalityType
<1>8. Cardinality(New) <= Cardinality(Old \cup Own)
    BY <1>4, <1>6, FS_Subset
<1>9. Cardinality(New) \in Nat /\ Cardinality(Old \cup Own) \in Nat
    BY <1>4, <1>6, FS_Subset, FS_CardinalityType
<1>10. Cardinality(New) <= Cardinality(Old) + air[m]
    BY <1>3, <1>5, <1>6, <1>7, <1>8, <1>9
<1> QED
    BY <1>10 DEF Old, New, AirtimeOf

-----------------------------------------------------------------------------
\* A set of naturals has a least one: the intervals up to its members are
\* finite sets, and a least of these is the interval up to a least member.
LEMMA LeastNatural ==
    ASSUME NEW N \in SUBSET Nat, N # {}
    PROVE  \E x \in N : \A y \in N : x <= y
<1> DEFINE U == {0..n : n \in N}
           R == StrictSubsetOrdering(Nat)
<1>1. IsWellFoundedOn(R, FiniteSubsetsOf(Nat))
    BY FS_StrictSubsetOrderingWellFounded
<1>2. U # {} /\ U \subseteq FiniteSubsetsOf(Nat)
    <2>1. \A n \in N : IsFiniteSet(0..n) /\ 0..n \subseteq Nat
        BY FS_Interval
    <2> QED
        BY <2>1 DEF FiniteSubsetsOf
<1> HIDE DEF U
<1>3. PICK u \in U : \A v \in U : ~(<<v, u>> \in R)
    BY <1>1, <1>2, WFMin
<1>4. PICK x \in N : u = 0..x
    BY DEF U
<1>5. ASSUME NEW y \in N, y < x PROVE FALSE
    <2>1. 0..y \in U
        BY DEF U
    <2>2. 0..y \subseteq 0..x /\ x \in 0..x /\ x \notin 0..y
        BY <1>5
    <2>3. 0..y \in SUBSET Nat /\ 0..x \in SUBSET Nat /\ 0..y # 0..x
        BY <2>2
    <2>4. <<0..y, u>> \in R
        BY <1>4, <2>2, <2>3 DEF StrictSubsetOrdering
    <2> QED
        BY <1>3, <2>1, <2>4
<1> QED
    BY <1>5


\* Induction over an interval: a set that has 0 and with each number the next one.
LEMMA Climb ==
    ASSUME NEW n \in Nat, NEW X, 0 \in X,
           \A i \in 1..n : i - 1 \in X => i \in X
    PROVE  0..n \subseteq X
<1> DEFINE N == {i \in 0..n : i \notin X}
<1>1. SUFFICES ASSUME N # {} PROVE FALSE
    OBVIOUS
<1>2. N \in SUBSET Nat
    OBVIOUS
<1>3. PICK x \in N : \A y \in N : x <= y
    BY <1>1, <1>2, LeastNatural
<1>4. x # 0 /\ x \in 1..n /\ x - 1 \in 0..n /\ x - 1 < x
    BY <1>3
<1>5. x - 1 \notin N
    BY <1>3, <1>4
<1> QED
    BY <1>3, <1>4, <1>5

=============================================================================
