----------------------------- MODULE OrderLemmas ------------------------------
(***************************************************************************)
(* Facts about sets of natural numbers and finite sets in some order, for  *)
(* the proofs about slices, loops and queues.  They replace induction: a   *)
(* counterexample to a claim about all numbers would have a least one.     *)
(***************************************************************************)
EXTENDS Naturals, FiniteSets, FiniteSetTheorems, WellFoundedInduction, TLAPS

\* A nonempty set of natural numbers has a least element: of the intervals
\* 0..n that end in the set, one strictly contains no other.
LEMMA LeastElement ==
    ASSUME NEW S \in SUBSET Nat, S # {}
    PROVE  \E m \in S : \A n \in S : m <= n
<1> DEFINE Initials == {0..n : n \in S}
<1>1. IsWellFoundedOn(StrictSubsetOrdering(Nat), FiniteSubsetsOf(Nat))
  BY FS_StrictSubsetOrderingWellFounded
<1>2. Initials \subseteq FiniteSubsetsOf(Nat)
  <2>1. ASSUME NEW n \in S PROVE 0..n \in FiniteSubsetsOf(Nat)
    <3>1. IsFiniteSet(0..n)
      BY FS_Interval
    <3>2. 0..n \subseteq Nat
      OBVIOUS
    <3> QED
      BY <3>1, <3>2 DEF FiniteSubsetsOf
  <2> QED
    BY <2>1
<1>3. Initials # {}
  OBVIOUS
<1>4. PICK x \in Initials : \A y \in Initials :
                              ~(<<y, x>> \in StrictSubsetOrdering(Nat))
  <2> HIDE DEF Initials
  <2> QED
    BY <1>1, <1>2, <1>3, WFMin
<1>5. PICK m \in S : x = 0..m
  BY <1>4
<1>6. ASSUME NEW n \in S, n < m PROVE FALSE
  <2>1. 0..n \in Initials
    OBVIOUS
  <2>2. 0..n \subseteq 0..m
    BY <1>6
  <2>3. m \in 0..m /\ m \notin 0..n
    BY <1>6
  <2>4. 0..n \in SUBSET Nat /\ 0..m \in SUBSET Nat
    OBVIOUS
  <2>5. <<0..n, 0..m>> \in StrictSubsetOrdering(Nat)
    BY <2>2, <2>3, <2>4 DEF StrictSubsetOrdering
  <2> QED
    BY <2>1, <2>5, <1>4, <1>5
<1> QED
  BY <1>6

\* The first c elements of a finite set D whose elements have different places
\* p in some order: those up to the least place that has c of them.
LEMMA FirstOnes ==
    ASSUME NEW D, IsFiniteSet(D), NEW n \in Nat, NEW p \in [D -> 1..n],
           \A x, y \in D : p[x] = p[y] => x = y,
           NEW c \in Nat, c <= Cardinality(D)
    PROVE  \E T \in SUBSET D :
              /\ Cardinality(T) = c
              /\ \A x \in T, y \in D : p[y] < p[x] => y \in T
<1> DEFINE UpTo(m) == {x \in D : p[x] <= m}
           Enough == {m \in 0..n : Cardinality(UpTo(m)) >= c}
<1>1. \A x \in D : p[x] \in Nat /\ p[x] >= 1 /\ p[x] <= n
  OBVIOUS
<1>2. ASSUME NEW m \in Nat
      PROVE  IsFiniteSet(UpTo(m)) /\ Cardinality(UpTo(m)) \in Nat
  <2>1. UpTo(m) \in SUBSET D
    OBVIOUS
  <2> HIDE DEF UpTo
  <2> QED
    BY <2>1, FS_Subset, FS_CardinalityType
<1>3. n \in Enough
  <2>1. UpTo(n) = D
    BY <1>1
  <2> QED
    BY <2>1
<1>4. PICK m \in Enough : \A k \in Enough : m <= k
  <2>1. Enough \in SUBSET Nat
    OBVIOUS
  <2> HIDE DEF Enough
  <2> QED
    BY <1>3, <2>1, LeastElement
<1>5. m \in Nat /\ m <= n /\ Cardinality(UpTo(m)) >= c
  OBVIOUS
<1>6. Cardinality(UpTo(m)) <= c
  <2>1. CASE m = 0
    <3>1. UpTo(m) = {}
      BY <1>1, <2>1
    <3> QED
      BY <3>1, FS_EmptySet
  <2>2. CASE m # 0
    <3>1. m - 1 \in 0..n /\ m - 1 \in Nat /\ ~(m <= m - 1)
      BY <1>5, <2>2
    <3>2. m - 1 \notin Enough
      BY <1>4, <3>1
    <3> DEFINE E == UpTo(m - 1)
    <3>3. IsFiniteSet(E) /\ Cardinality(E) \in Nat /\ Cardinality(E) < c
      <4>1. IsFiniteSet(E) /\ Cardinality(E) \in Nat
        BY <1>2, <3>1
      <4>2. ~(Cardinality(E) >= c)
        BY <3>1, <3>2
      <4> HIDE DEF E
      <4> QED
        BY <4>1, <4>2
    <3>4. CASE \E x \in D : p[x] = m
      <4>1. PICK x \in D : p[x] = m
        BY <3>4
      <4>2. UpTo(m) = UpTo(m - 1) \union {x}
        BY <1>1, <1>5, <4>1
      <4> HIDE DEF E
      <4>3. Cardinality(E \union {x}) = IF x \in E THEN Cardinality(E) ELSE Cardinality(E) + 1
        BY <3>3, FS_AddElement
      <4>4. UpTo(m) = E \union {x}
        BY <4>2 DEF E
      <4> HIDE DEF UpTo
      <4> QED
        BY <3>3, <4>3, <4>4
    <3>5. CASE ~(\E x \in D : p[x] = m)
      <4>1. UpTo(m) = E
        BY <1>1, <1>5, <3>5
      <4> HIDE DEF UpTo, E
      <4> QED
        BY <3>3, <4>1
    <3> QED
      BY <3>4, <3>5
  <2> QED
    BY <2>1, <2>2
<1>7. Cardinality(UpTo(m)) = c
  BY <1>2, <1>5, <1>6
<1>8. \A x \in UpTo(m), y \in D : p[y] < p[x] => y \in UpTo(m)
  BY <1>1, <1>5
<1>9. UpTo(m) \in SUBSET D
  OBVIOUS
<1> QED
  BY <1>7, <1>8, <1>9

\* A factor may be cancelled.
LEMMA CancelFactor ==
    ASSUME NEW a \in Nat, NEW b \in Nat, NEW c \in Nat, c * a < c * b
    PROVE  a < b
<1>1. ASSUME a >= b PROVE FALSE
  <2>1. a - b \in Nat /\ a = b + (a - b)
    BY <1>1
  <2>2. PICK d \in Nat : a = b + d
    BY <2>1
  <2>3. c * a = c * b + c * d /\ c * d \in Nat /\ c * b \in Nat
    BY <2>2
  <2> QED
    BY <2>3
<1> QED
  BY <1>1
=============================================================================
