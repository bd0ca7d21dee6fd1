-------------------------- MODULE MiddlewareProofs ---------------------------
(***************************************************************************)
(* Proofs about Middleware for every limit, window, interval, set of       *)
(* buttons and size of the debouncer's map: the limiter and the debouncer  *)
(* implement the sliding window.                                           *)
(*                                                                         *)
(* The argument: times are appended as they come, so the slice is sorted,  *)
(* oldest first, and the loop that filters it drops a prefix.  A refusal   *)
(* means that nothing was dropped (the slice is never longer than Limit),  *)
(* so that the filter has overwritten the slice with itself.  In a sorted  *)
(* slice the entries at most a ticks old are a suffix, whose length is     *)
(* what the sliding window counts.                                         *)
(***************************************************************************)
EXTENDS Middleware, OrderLemmas, FiniteSetTheorems, SequenceTheorems, TLAPS

Oldest(s) == \A i, j \in 1..Len(s) : i < j => s[i] >= s[j]

\* The inductive invariant: the types and the order of the slice.
MInv == MiddlewareTypeOK /\ Oldest(requests)

-----------------------------------------------------------------------------
(* The filter                                                              *)

\* In a slice sorted by age the entries younger than a are those after a cut.
Cut(s, a, d) ==
    /\ d \in 0..Len(s)
    /\ \A j \in 1..Len(s) : s[j] < a <=> j > d

LEMMA CutExists ==
    ASSUME NEW s \in Seq(Nat), Oldest(s), NEW a \in Nat
    PROVE  \E d \in 0..Len(s) : Cut(s, a, d)
<1> DEFINE Young == {j \in 1..Len(s) : s[j] < a}
<1>1. Len(s) \in Nat /\ \A j \in 1..Len(s) : s[j] \in Nat
  OBVIOUS
<1>2. CASE Young = {}
  <2>1. Len(s) \in 0..Len(s)
    BY <1>1
  <2>2. \A j \in 1..Len(s) : ~(s[j] < a) /\ ~(j > Len(s))
    BY <1>1, <1>2
  <2> QED
    BY <2>1, <2>2 DEF Cut
<1>3. CASE Young # {}
  <2>1. PICK m \in Young : \A n \in Young : m <= n
    <3>1. Young \in SUBSET Nat
      BY <1>1
    <3> HIDE DEF Young
    <3> QED
      BY <1>3, <3>1, LeastElement
  <2>2. m - 1 \in 0..Len(s)
    BY <1>1
  <2>3. ASSUME NEW j \in 1..Len(s) PROVE s[j] < a <=> j > m - 1
    <3>1. ASSUME s[j] < a PROVE j > m - 1
      BY <2>1, <3>1, <1>1
    <3>2. ASSUME j > m - 1 PROVE s[j] < a
      <4>1. CASE j = m
        BY <4>1
      <4>2. CASE j > m
        BY <4>2, <1>1 DEF Oldest
      <4> QED
        BY <3>2, <4>1, <4>2, <1>1
    <3> QED
      BY <3>1, <3>2
  <2> QED
    BY <2>2, <2>3 DEF Cut
<1> QED
  BY <1>2, <1>3

\* Filter on a sorted slice drops a prefix.  Its loop has one result: of the
\* entries at which two of its tables differ there would be a first one.
LEMMA FilterSorted ==
    ASSUME NEW s \in Seq(Nat), NEW d \in 0..Len(s), Cut(s, Window, d)
    PROVE  Filter(s) = SubSeq(s, d + 1, Len(s))
<1> DEFINE Entry(t, i) == IF i = 0 THEN <<>>
                          ELSE IF s[i] < Window THEN Append(t[i - 1], s[i])
                          ELSE t[i - 1]
           Step(t) == [i \in 0..Len(s) |-> Entry(t, i)]
           result == [i \in 0..Len(s) |->
                        IF i <= d THEN <<>> ELSE SubSeq(s, d + 1, i)]
           valid == CHOOSE t : t = Step(t)
<1>1. Len(s) \in Nat /\ d \in Nat /\ d <= Len(s)
  OBVIOUS
<1>2. ASSUME NEW i \in 1..Len(s), i > d
      PROVE  /\ i > d + 1 => SubSeq(s, d + 1, i) = Append(SubSeq(s, d + 1, i - 1), s[i])
             /\ i = d + 1 => SubSeq(s, d + 1, i) = Append(<<>>, s[i])
  <2>1. SubSeq(s, d + 1, i) = SubSeq(s, d + 1, i - 1) \o <<s[i]>>
    BY <1>1, <1>2, SubSeqRecursiveSecond
  <2>2. SubSeq(s, d + 1, i - 1) \in Seq(Nat) /\ s[i] \in Nat
    <3>1. \A k \in (d + 1)..(i - 1) : s[k] \in Nat
      BY <1>1
    <3> QED
      BY <3>1, <1>1, SubSeqProperties
  <2>3. Append(SubSeq(s, d + 1, i - 1), s[i]) = SubSeq(s, d + 1, i - 1) \o <<s[i]>>
    BY <2>2, AppendIsConcat
  <2>4. i = d + 1 => SubSeq(s, d + 1, i - 1) = <<>>
    BY <1>1, SubSeqEmpty
  <2> QED
    BY <2>1, <2>3, <2>4
<1>3. \A i \in 1..Len(s) :
         result[i] = IF s[i] < Window THEN Append(result[i - 1], s[i])
                     ELSE result[i - 1]
  <2> TAKE i \in 1..Len(s)
  <2>1. i \in 0..Len(s) /\ i - 1 \in 0..Len(s)
    BY <1>1
  <2>2. CASE i <= d
    <3>1. ~(s[i] < Window)
      BY <2>2, <1>1 DEF Cut
    <3>2. result[i] = <<>> /\ result[i - 1] = <<>>
      BY <2>1, <2>2, <1>1
    <3> QED
      BY <3>1, <3>2
  <2>3. CASE i > d
    <3>1. s[i] < Window
      BY <2>3, <1>1 DEF Cut
    <3>2. result[i] = SubSeq(s, d + 1, i)
      BY <2>1, <2>3, <1>1
    <3>3. CASE i = d + 1
      BY <3>1, <3>2, <3>3, <1>2, <2>1, <1>1
    <3>4. CASE i > d + 1
      <4>1. result[i - 1] = SubSeq(s, d + 1, i - 1)
        BY <2>1, <3>4, <1>1
      <4>2. SubSeq(s, d + 1, i) = Append(SubSeq(s, d + 1, i - 1), s[i])
        BY <3>4, <2>3, <1>2
      <4> QED
        BY <3>1, <3>2, <4>1, <4>2
    <3> QED
      BY <2>3, <3>3, <3>4, <1>1
  <2> QED
    BY <2>2, <2>3, <1>1
<1>4. result = Step(result)
  <2>1. ASSUME NEW i \in 0..Len(s) PROVE result[i] = Entry(result, i)
    <3>1. CASE i = 0
      BY <3>1, <1>1
    <3>2. CASE i # 0
      <4>1. i \in 1..Len(s)
        BY <3>2, <1>1
      <4> HIDE DEF result
      <4> QED
        BY <4>1, <3>2, <1>3
    <3> QED
      BY <3>1, <3>2
  <2>2. result = [i \in 0..Len(s) |-> result[i]]
    OBVIOUS
  <2> HIDE DEF result, Entry
  <2> QED
    BY <2>1, <2>2
<1>5. valid = Step(valid)
  <2> HIDE DEF Step, result
  <2> QED
    BY <1>4
<1>6. ASSUME valid # result PROVE FALSE
  <2> DEFINE Differ == {i \in 0..Len(s) : valid[i] # result[i]}
  <2>1. Differ # {}
    <3>1. valid = [i \in 0..Len(s) |-> valid[i]]
      BY <1>5
    <3>2. result = [i \in 0..Len(s) |-> result[i]]
      OBVIOUS
    <3> HIDE DEF valid, result
    <3> QED
      BY <3>1, <3>2, <1>6
  <2>2. PICK m \in Differ : \A n \in Differ : m <= n
    <3>1. Differ \in SUBSET Nat
      BY <1>1
    <3> HIDE DEF Differ
    <3> QED
      BY <2>1, <3>1, LeastElement
  <2> HIDE DEF valid, result
  <2>3. m # 0
    <3>1. 0 \in 0..Len(s)
      BY <1>1
    <3>2. valid[0] = <<>> /\ result[0] = <<>>
      BY <1>4, <1>5, <3>1
    <3> QED
      BY <3>2
  <2>4. m \in 1..Len(s) /\ m - 1 \in 0..Len(s)
    BY <2>3, <1>1
  <2>5. valid[m - 1] = result[m - 1]
    BY <2>2, <2>4, <1>1
  <2>6. valid[m] = Entry(valid, m) /\ result[m] = Entry(result, m)
    <3>1. m \in 0..Len(s)
      BY <2>2
    <3> HIDE DEF Entry
    <3> QED
      BY <3>1, <1>4, <1>5
  <2>7. Entry(valid, m) = Entry(result, m)
    BY <2>3, <2>5
  <2> QED
    BY <2>2, <2>6, <2>7
<1>7. Filter(s) = valid[Len(s)]
  BY DEF Filter
<1>8. result[Len(s)] = SubSeq(s, d + 1, Len(s))
  <2>1. CASE d = Len(s)
    BY <2>1, <1>1, SubSeqEmpty
  <2>2. CASE d < Len(s)
    BY <2>2, <1>1
  <2> QED
    BY <2>1, <2>2, <1>1
<1> QED
  BY <1>6, <1>7, <1>8
\* The slice of an answered message: the young entries and now.
LEMMA FilteredSlice ==
    ASSUME NEW s \in Seq(0..Window), Oldest(s),
           NEW d \in 0..Len(s), Cut(s, Window, d)
    PROVE  /\ Filter(s) \in Seq(0..Window)
           /\ Len(Filter(s)) = Len(s) - d
           /\ \A i \in 1..(Len(s) - d) : Filter(s)[i] = s[d + i]
<1>1. Window \in Nat /\ s \in Seq(Nat) /\ Len(s) \in Nat /\ d \in Nat /\ d <= Len(s)
  BY MiddlewareAssumption
<1>2. Filter(s) = SubSeq(s, d + 1, Len(s))
  BY <1>1, FilterSorted
<1>3. \A i \in (d + 1)..Len(s) : s[i] \in 0..Window
  BY <1>1
<1>4. /\ SubSeq(s, d + 1, Len(s)) \in Seq(0..Window)
      /\ Len(SubSeq(s, d + 1, Len(s))) =
           IF d + 1 <= Len(s) THEN Len(s) - (d + 1) + 1 ELSE 0
      /\ \A i \in 1..(Len(s) - (d + 1) + 1) :
            SubSeq(s, d + 1, Len(s))[i] = s[d + 1 + i - 1]
  BY <1>1, <1>3, SubSeqProperties
<1> QED
  BY <1>1, <1>2, <1>4

LEMMA AppendedSlice ==
    ASSUME NEW s \in Seq(0..Window), Oldest(s),
           NEW d \in 0..Len(s), Cut(s, Window, d)
    PROVE  /\ Append(Filter(s), 0) \in Seq(0..Window)
           /\ Len(Append(Filter(s), 0)) = Len(s) - d + 1
           /\ \A i \in 1..(Len(s) - d) : Append(Filter(s), 0)[i] = s[d + i]
           /\ Append(Filter(s), 0)[Len(s) - d + 1] = 0
           /\ Oldest(Append(Filter(s), 0))
<1>1. Len(s) \in Nat /\ d \in Nat /\ d <= Len(s) /\ 0 \in 0..Window
  BY MiddlewareAssumption
<1>2. /\ Filter(s) \in Seq(0..Window)
      /\ Len(Filter(s)) = Len(s) - d
      /\ \A i \in 1..(Len(s) - d) : Filter(s)[i] = s[d + i]
  BY FilteredSlice
<1> DEFINE r == Append(Filter(s), 0)
<1>3. /\ r \in Seq(0..Window)
      /\ Len(r) = Len(s) - d + 1
      /\ \A i \in 1..(Len(s) - d) : r[i] = s[d + i]
      /\ r[Len(s) - d + 1] = 0
  BY <1>1, <1>2, AppendProperties
<1> HIDE DEF r
<1>4. ASSUME NEW i \in 1..Len(r), NEW j \in 1..Len(r), i < j
      PROVE  r[i] >= r[j]
  <2>1. i \in 1..(Len(s) - d) /\ r[i] = s[d + i] /\ d + i \in 1..Len(s)
    BY <1>1, <1>3, <1>4
  <2>2. s[d + i] \in Nat
    BY <2>1, MiddlewareAssumption
  <2>3. CASE j = Len(s) - d + 1
    BY <2>1, <2>2, <2>3, <1>3
  <2>4. CASE j # Len(s) - d + 1
    <3>1. j \in 1..(Len(s) - d) /\ r[j] = s[d + j] /\ d + j \in 1..Len(s)
      BY <1>1, <1>3, <2>4
    <3> QED
      BY <2>1, <3>1, <1>1, <1>4 DEF Oldest
  <2> QED
    BY <2>3, <2>4
<1>5. Oldest(r)
  BY <1>4 DEF Oldest
<1> QED
  BY <1>3, <1>5 DEF r

-----------------------------------------------------------------------------
(* What the sliding window counts                                          *)

Within(s, a) == Cardinality({i \in DOMAIN s : s[i] <= a})

LEMMA CutCount ==
    ASSUME NEW s \in Seq(Nat), NEW a \in Nat, NEW d \in 0..Len(s), Cut(s, a + 1, d)
    PROVE  Within(s, a) = Len(s) - d
<1>1. Len(s) \in Nat /\ d \in Nat /\ d <= Len(s)
  OBVIOUS
<1>2. \A j \in 1..Len(s) : s[j] \in Nat /\ (s[j] <= a <=> j > d)
  BY <1>1 DEF Cut
<1>3. {i \in DOMAIN s : s[i] <= a} = (d + 1)..Len(s)
  <2>1. DOMAIN s = 1..Len(s)
    OBVIOUS
  <2> QED
    BY <1>1, <1>2, <2>1
<1>4. Cardinality((d + 1)..Len(s)) = IF d + 1 > Len(s) THEN 0 ELSE Len(s) - (d + 1) + 1
  <2>1. d + 1 \in Int /\ Len(s) \in Int
    BY <1>1
  <2> QED
    BY <2>1, FS_Interval
<1> DEFINE n == Len(s)
<1>5. n \in Nat /\ d \in Nat /\ d <= n
  BY <1>1
<1>6. (IF d + 1 > n THEN 0 ELSE n - (d + 1) + 1) = n - d
  <2> HIDE DEF n
  <2> QED
    BY <1>5
<1> QED
  BY <1>3, <1>4, <1>6 DEF Within

\* The loop keeps what the window counts, and now is counted at every age.
LEMMA AppendedCount ==
    ASSUME NEW s \in Seq(0..Window), Oldest(s),
           NEW d \in 0..Len(s), Cut(s, Window, d), NEW a \in 0..(Window - 1)
    PROVE  /\ Within(s, a) \in Nat
           /\ Within(Append(Filter(s), 0), a) = Within(s, a) + 1
<1> DEFINE r == Append(Filter(s), 0)
<1>1. /\ Window \in Nat /\ a \in Nat /\ a + 1 <= Window /\ s \in Seq(Nat)
      /\ Len(s) \in Nat /\ d \in Nat /\ d <= Len(s)
      /\ \A j \in 1..Len(s) : s[j] \in Nat
  BY MiddlewareAssumption
<1>2. PICK e \in 0..Len(s) : Cut(s, a + 1, e)
  BY <1>1, CutExists
<1>3. e >= d
  <2>1. ASSUME e < d PROVE FALSE
    <3>1. d \in 1..Len(s) /\ d > e
      BY <2>1, <1>1
    <3>2. s[d] < a + 1
      BY <3>1, <1>2 DEF Cut
    <3>3. ~(s[d] < Window)
      BY <3>1, <1>1 DEF Cut
    <3> QED
      BY <3>1, <3>2, <3>3, <1>1
  <2> QED
    BY <2>1, <1>1
<1>4. /\ r \in Seq(0..Window)
      /\ Len(r) = Len(s) - d + 1
      /\ \A i \in 1..(Len(s) - d) : r[i] = s[d + i]
      /\ r[Len(s) - d + 1] = 0
  BY AppendedSlice
<1> HIDE DEF r
<1>5. e - d \in 0..Len(r) /\ r \in Seq(Nat)
  BY <1>1, <1>3, <1>4
<1>6. ASSUME NEW j \in 1..Len(r) PROVE r[j] < a + 1 <=> j > e - d
  <2>1. CASE j = Len(s) - d + 1
    BY <2>1, <1>1, <1>4
  <2>2. CASE j # Len(s) - d + 1
    <3>1. j \in 1..(Len(s) - d) /\ d + j \in 1..Len(s)
      <4>1. j \in 1..(Len(s) - d + 1)
        BY <1>4
      <4> QED
        BY <4>1, <2>2, <1>1
    <3>2. r[j] = s[d + j]
      BY <3>1, <1>4
    <3>3. s[d + j] < a + 1 <=> d + j > e
      BY <3>1, <1>2 DEF Cut
    <3> QED
      BY <3>1, <3>2, <3>3, <1>1
  <2> QED
    BY <2>1, <2>2
<1>7. Cut(r, a + 1, e - d)
  BY <1>5, <1>6 DEF Cut
<1>8. Within(r, a) = Len(r) - (e - d)
  BY <1>1, <1>5, <1>7, CutCount
<1>9. Within(s, a) = Len(s) - e
  BY <1>1, <1>2, CutCount
<1> QED
  BY <1>1, <1>4, <1>8, <1>9 DEF r
-----------------------------------------------------------------------------
(* The invariant                                                           *)

\* How the filter cuts the slice of a reachable state.
LEMMA FilterCut ==
    ASSUME MInv
    PROVE  \E d \in 0..Len(requests) :
              /\ Cut(requests, Window, d)
              /\ Len(Valid) = Len(requests) - d
              /\ Valid \in Seq(0..Window)
              /\ d = 0 => Overwritten = requests
<1>1. requests \in Seq(0..Window) /\ Oldest(requests) /\ Window \in Nat
  BY MiddlewareAssumption DEF MInv, MiddlewareTypeOK
<1>2. requests \in Seq(Nat) /\ Len(requests) \in Nat
  BY <1>1
<1>3. PICK d \in 0..Len(requests) : Cut(requests, Window, d)
  BY <1>1, <1>2, CutExists
<1>4. Len(Valid) = Len(requests) - d /\ Valid \in Seq(0..Window)
  BY <1>1, <1>3, FilteredSlice DEF Valid
<1>5. ASSUME d = 0 PROVE Overwritten = requests
  <2>1. Valid = requests
    <3>1. Valid = SubSeq(requests, 1, Len(requests))
      BY <1>2, <1>3, <1>5, FilterSorted DEF Valid
    <3> QED
      BY <1>2, <3>1, SubSeqFull
  <2>2. SubSeq(requests, Len(requests) + 1, Len(requests)) = <<>>
    BY <1>2, SubSeqEmpty
  <2>3. requests \o <<>> = requests
    BY <1>2, ConcatEmptySeq
  <2> QED
    BY <2>1, <2>2, <2>3 DEF Overwritten
<1> QED
  BY <1>3, <1>4, <1>5

\* What Allow does to the slice: a refusal leaves it alone.
LEMMA AllowCases ==
    ASSUME MInv, Allow, NEW d \in 0..Len(requests), Cut(requests, Window, d)
    PROVE  \/ /\ Len(requests) - d >= Limit
              /\ allowed' = "refuse"
              /\ requests' = requests
           \/ /\ Len(requests) - d < Limit
              /\ allowed' = "allow"
              /\ requests' = Append(Filter(requests), 0)
<1>1. /\ requests \in Seq(0..Window) /\ Oldest(requests)
      /\ Len(requests) \in Nat /\ Len(requests) <= Limit /\ Limit \in Nat
      /\ d \in Nat /\ d <= Len(requests)
  BY MiddlewareAssumption DEF MInv, MiddlewareTypeOK
<1>2. PICK e \in 0..Len(requests) :
              /\ Cut(requests, Window, e)
              /\ Len(Valid) = Len(requests) - e
              /\ e = 0 => Overwritten = requests
  BY FilterCut
<1>3. e = d
  <2>1. ASSUME e < d PROVE FALSE
    <3>1. d \in 1..Len(requests)
      BY <2>1, <1>1
    <3> QED
      BY <2>1, <3>1, <1>1, <1>2 DEF Cut
  <2>2. ASSUME d < e PROVE FALSE
    <3>1. e \in 1..Len(requests)
      BY <2>2, <1>1
    <3> QED
      BY <2>2, <3>1, <1>1, <1>2 DEF Cut
  <2> QED
    BY <2>1, <2>2, <1>1
<1>4. CASE Len(Valid) >= Limit
  <2>1. requests' = Overwritten /\ allowed' = "refuse"
    BY <1>4 DEF Allow
  <2>2. d = 0
    BY <1>1, <1>2, <1>3, <1>4
  <2> QED
    BY <2>1, <2>2, <1>2, <1>3, <1>4
<1>5. CASE ~(Len(Valid) >= Limit)
  <2>1. requests' = Append(Valid, 0) /\ allowed' = "allow"
    BY <1>5 DEF Allow
  <2> QED
    BY <2>1, <1>1, <1>2, <1>3, <1>5 DEF Valid
<1> QED
  BY <1>4, <1>5

LEMMA AllowMInv ==
    ASSUME MInv, Allow
    PROVE  MInv'
<1>1. /\ requests \in Seq(0..Window) /\ Oldest(requests)
      /\ Len(requests) \in Nat /\ Limit \in Nat
  BY MiddlewareAssumption DEF MInv, MiddlewareTypeOK
<1>2. PICK d \in 0..Len(requests) : Cut(requests, Window, d)
  BY FilterCut
<1>3. requests' \in Seq(0..Window) /\ Len(requests') <= Limit /\ Oldest(requests')
  <2>1. CASE requests' = requests
    BY <2>1, <1>1 DEF MInv, MiddlewareTypeOK
  <2>2. CASE Len(requests) - d < Limit /\ requests' = Append(Filter(requests), 0)
    <3>1. /\ Append(Filter(requests), 0) \in Seq(0..Window)
          /\ Len(Append(Filter(requests), 0)) = Len(requests) - d + 1
          /\ Oldest(Append(Filter(requests), 0))
      BY <1>1, <1>2, AppendedSlice
    <3> QED
      BY <2>2, <3>1, <1>1, <1>2
  <2> QED
    BY <2>1, <2>2, <1>2, AllowCases
<1>4. allowed' \in Answers /\ UNCHANGED <<lastSeen, processed>>
  BY DEF Allow, Answers, debouncerVars
<1> QED
  BY <1>3, <1>4 DEF MInv, MiddlewareTypeOK, Oldest

LEMMA CleanedType ==
    ASSUME NEW seen, DOMAIN seen \subseteq Keys,
           \A k \in DOMAIN seen : seen[k] \in 0..(KeepFor + 1)
    PROVE  /\ DOMAIN Cleaned(seen) \subseteq DOMAIN seen
           /\ \A k \in DOMAIN Cleaned(seen) : Cleaned(seen)[k] = seen[k]
           /\ \A k \in DOMAIN seen : seen[k] <= KeepFor => k \in DOMAIN Cleaned(seen)
  BY DEF Cleaned

LEMMA ShouldProcessMInv ==
    ASSUME MInv, NEW k \in Keys, ShouldProcess(k)
    PROVE  MInv'
<1>1. UNCHANGED <<requests, allowed>>
  BY DEF ShouldProcess, limiterVars
<1>2. processed' \in [Keys -> Answers]
  BY DEF ShouldProcess, MInv, MiddlewareTypeOK, Answers
<1>3. DOMAIN lastSeen' \subseteq Keys
      /\ \A x \in DOMAIN lastSeen' : lastSeen'[x] \in 0..(KeepFor + 1)
  <2>1. CASE UNCHANGED lastSeen
    BY <2>1 DEF MInv, MiddlewareTypeOK
  <2> DEFINE seen == [x \in DOMAIN lastSeen \union {k} |->
                        IF x = k THEN 0 ELSE lastSeen[x]]
  <2>2. CASE lastSeen' = Cleaned(seen)
    <3>1. DOMAIN seen \subseteq Keys
          /\ \A x \in DOMAIN seen : seen[x] \in 0..(KeepFor + 1)
      BY MiddlewareAssumption DEF MInv, MiddlewareTypeOK
    <3> HIDE DEF seen
    <3> QED
      BY <2>2, <3>1, CleanedType
  <2> QED
    BY <2>1, <2>2 DEF ShouldProcess
<1> QED
  BY <1>1, <1>2, <1>3 DEF MInv, MiddlewareTypeOK, Oldest

LEMMA TickMInv ==
    ASSUME MInv, Tick
    PROVE  MInv'
<1>1. /\ requests \in Seq(0..Window) /\ Oldest(requests) /\ Window \in Nat
      /\ Len(requests) \in Nat /\ Len(requests) <= Limit /\ KeepFor \in Nat
      /\ \A i \in 1..Len(requests) : requests[i] \in 0..Window
  BY MiddlewareAssumption DEF MInv, MiddlewareTypeOK
<1>2. requests' = [i \in 1..Len(requests) |-> Aged(requests[i], Window)]
  <2>1. DOMAIN requests = 1..Len(requests)
    BY <1>1
  <2> QED
    BY <2>1 DEF Tick
<1>3. \A n \in 0..Window : Aged(n, Window) \in 0..Window
  BY <1>1 DEF Aged
<1>4. requests' \in [1..Len(requests) -> 0..Window]
  BY <1>1, <1>2, <1>3
<1>5. requests' \in Seq(0..Window) /\ Len(requests') = Len(requests)
  BY <1>1, <1>4
<1>6. \A m, n \in 0..Window : m >= n => Aged(m, Window) >= Aged(n, Window)
  BY <1>1 DEF Aged
<1>7. Oldest(requests')
  BY <1>1, <1>2, <1>5, <1>6 DEF Oldest
<1>8. \A n \in 0..(KeepFor + 1) : Aged(n, KeepFor + 1) \in 0..(KeepFor + 1)
  BY <1>1 DEF Aged
<1>9. DOMAIN lastSeen' \subseteq Keys
      /\ \A k \in DOMAIN lastSeen' : lastSeen'[k] \in 0..(KeepFor + 1)
  <2>1. lastSeen' = [k \in DOMAIN lastSeen |-> Aged(lastSeen[k], KeepFor + 1)]
    BY DEF Tick
  <2> QED
    BY <2>1, <1>8 DEF MInv, MiddlewareTypeOK
<1>10. allowed' \in Answers /\ processed' \in [Keys -> Answers]
  BY DEF Tick, MInv, MiddlewareTypeOK
<1> QED
  BY <1>1, <1>5, <1>7, <1>9, <1>10 DEF MInv, MiddlewareTypeOK, Oldest

LEMMA MInvHolds == MiddlewareSpec => []MInv
<1>1. MiddlewareInit => MInv
  BY MiddlewareAssumption DEF MiddlewareInit, MInv, MiddlewareTypeOK, Oldest, Answers
<1>2. MInv /\ [MiddlewareNext]_vars => MInv'
  <2> SUFFICES ASSUME MInv, [MiddlewareNext]_vars PROVE MInv'
    OBVIOUS
  <2>1. CASE Allow
    BY <2>1, AllowMInv
  <2>2. ASSUME NEW k \in Keys, ShouldProcess(k) PROVE MInv'
    BY <2>2, ShouldProcessMInv
  <2>3. CASE Return
    BY <2>3 DEF Return, MInv, MiddlewareTypeOK, Oldest, Answers
  <2>4. CASE Tick
    BY <2>4, TickMInv
  <2>5. CASE UNCHANGED vars
    BY <2>5 DEF vars, limiterVars, debouncerVars, MInv, MiddlewareTypeOK, Oldest
  <2> QED
    BY <2>1, <2>2, <2>3, <2>4, <2>5 DEF MiddlewareNext
<1> QED
  BY <1>1, <1>2, PTL DEF MiddlewareSpec

\* The slice of a user never holds more than Limit times, the map only keys of
\* buttons and ages that matter (middleware.go:26-91).
THEOREM MiddlewareTypeCorrect == MiddlewareSpec => []MiddlewareTypeOK
<1>1. MInv => MiddlewareTypeOK
  BY DEF MInv
<1> QED
  BY <1>1, MInvHolds, PTL
-----------------------------------------------------------------------------
(* The limiter implements the sliding window                               *)

LEMMA AllowCounts ==
    ASSUME MInv, Allow
    PROVE  Limiter!Allow \/ Limiter!Refuse
<1>1. /\ requests \in Seq(0..Window) /\ Oldest(requests)
      /\ Window \in Nat \ {0} /\ Limit \in Nat
  BY MiddlewareAssumption DEF MInv, MiddlewareTypeOK
<1>2. PICK d \in 0..Len(requests) : Cut(requests, Window, d)
  BY FilterCut
<1>3. Within(requests, Window - 1) = Len(requests) - d
  <2>1. requests \in Seq(Nat) /\ Window - 1 \in Nat /\ (Window - 1) + 1 = Window
    BY <1>1
  <2> QED
    BY <1>2, <2>1, CutCount
<1>4. Limiter!Count = Len(requests) - d
  <2>1. Window - 1 \in 0..(Window - 1)
    BY <1>1
  <2>2. Limiter!Count = Within(requests, Window - 1)
    BY <2>1 DEF Limiter!Count, Within
  <2> QED
    BY <1>3, <2>2
<1>5. allowed = "none"
  BY DEF Allow
<1>6. CASE Len(requests) - d >= Limit /\ allowed' = "refuse" /\ requests' = requests
  BY <1>4, <1>5, <1>6 DEF Limiter!Refuse
<1>7. CASE /\ Len(requests) - d < Limit /\ allowed' = "allow"
           /\ requests' = Append(Filter(requests), 0)
  <2>1. \A a \in 0..(Window - 1) :
           Within(Append(Filter(requests), 0), a) = Within(requests, a) + 1
    BY <1>1, <1>2, AppendedCount
  <2>2. \A a \in 0..(Window - 1) :
           Cardinality({i \in DOMAIN requests' : requests'[i] <= a})
             = Cardinality({i \in DOMAIN requests : requests[i] <= a}) + 1
    BY <1>7, <2>1 DEF Within
  <2> QED
    BY <1>4, <1>5, <1>7, <2>2 DEF Limiter!Allow, Limiter!Ages
<1> QED
  BY <1>2, <1>6, <1>7, AllowCases

LEMMA TickCounts ==
    ASSUME MInv, Tick
    PROVE  Limiter!Tick
<1>1. /\ Window \in Nat \ {0} /\ Len(requests) \in Nat
      /\ DOMAIN requests = 1..Len(requests)
      /\ \A i \in DOMAIN requests : requests[i] \in 0..Window
  BY MiddlewareAssumption DEF MInv, MiddlewareTypeOK
<1>2. /\ DOMAIN requests' = DOMAIN requests
      /\ \A i \in DOMAIN requests : requests'[i] = Aged(requests[i], Window)
  BY DEF Tick
<1>3. {i \in DOMAIN requests' : requests'[i] <= 0} = {}
  BY <1>1, <1>2 DEF Aged
<1>4. ASSUME NEW a \in 0..(Window - 1), a # 0
      PROVE  {i \in DOMAIN requests' : requests'[i] <= a}
               = {i \in DOMAIN requests : requests[i] <= a - 1}
  BY <1>1, <1>2, <1>4 DEF Aged
<1>5. \A a \in 0..(Window - 1) :
         Cardinality({i \in DOMAIN requests' : requests'[i] <= a})
           = IF a = 0 THEN 0
             ELSE Cardinality({i \in DOMAIN requests : requests[i] <= a - 1})
  BY <1>3, <1>4, FS_EmptySet
<1>6. \A a \in 0..(Window - 1) : a # 0 => a - 1 \in 0..(Window - 1)
  BY <1>1
<1> QED
  BY <1>5, <1>6 DEF Limiter!Tick, Limiter!Ages, Tick

LEMMA LimiterStep ==
    ASSUME MInv, [MiddlewareNext]_vars
    PROVE  Limiter!Step
<1>1. CASE Allow
  BY <1>1, AllowCounts DEF Limiter!Step, Limiter!Next
<1>2. ASSUME NEW k \in Keys, ShouldProcess(k) PROVE Limiter!Step
  BY <1>2 DEF ShouldProcess, limiterVars, Limiter!Step
<1>3. CASE Return
  BY <1>3 DEF Return, Limiter!Step, Limiter!Next, Limiter!Return
<1>4. CASE Tick
  BY <1>4, TickCounts DEF Limiter!Step, Limiter!Next
<1>5. CASE UNCHANGED vars
  BY <1>5 DEF vars, limiterVars, Limiter!Step
<1> QED
  BY <1>1, <1>2, <1>3, <1>4, <1>5 DEF MiddlewareNext

\* SECURITY.md:44: a user's message is let through exactly when fewer than
\* Limit were let through within the window, although Allow filters the slice
\* in place and forgets the result when it refuses (middleware.go:76-90).
THEOREM LimiterCorrect == MiddlewareSpec => LimiterIsWindow
<1>1. MiddlewareInit => Limiter!Init
  <2> SUFFICES ASSUME MiddlewareInit PROVE Limiter!Init
    OBVIOUS
  <2>1. \A a : {i \in DOMAIN requests : requests[i] <= a} = {}
    BY DEF MiddlewareInit
  <2> QED
    BY <2>1, FS_EmptySet DEF MiddlewareInit, Limiter!Init, Limiter!Ages
<1>2. MInv /\ [MiddlewareNext]_vars => Limiter!Step
  BY LimiterStep
<1> QED
  BY <1>1, <1>2, MInvHolds, PTL DEF MiddlewareSpec, LimiterIsWindow, Limiter!Spec
-----------------------------------------------------------------------------
(* The debouncer implements the sliding window with a limit of one         *)

\* What a press of k does to the entry of any button b: k's is new when the
\* press counts, and only entries too old to matter are dropped.
LEMMA PressEntries ==
    ASSUME MInv, NEW k \in Keys, ShouldProcess(k),
           ~(k \in DOMAIN lastSeen /\ lastSeen[k] < Interval)
    PROVE  /\ k \in DOMAIN lastSeen' /\ lastSeen'[k] = 0
           /\ \A b \in Keys \ {k}, a \in 0..(Interval - 1) :
                (b \in DOMAIN lastSeen' /\ lastSeen'[b] <= a)
                  <=> (b \in DOMAIN lastSeen /\ lastSeen[b] <= a)
<1> DEFINE seen == [x \in DOMAIN lastSeen \union {k} |->
                      IF x = k THEN 0 ELSE lastSeen[x]]
<1>1. /\ Interval \in Nat \ {0} /\ KeepFor \in Nat /\ KeepFor >= Interval
      /\ DOMAIN lastSeen \subseteq Keys
      /\ \A x \in DOMAIN lastSeen : lastSeen[x] \in 0..(KeepFor + 1)
  BY MiddlewareAssumption DEF MInv, MiddlewareTypeOK
<1>2. lastSeen' = Cleaned(seen)
  BY DEF ShouldProcess
<1>3. /\ DOMAIN seen = DOMAIN lastSeen \union {k}
      /\ seen[k] = 0
      /\ \A x \in DOMAIN lastSeen \ {k} : seen[x] = lastSeen[x]
  OBVIOUS
<1> HIDE DEF seen
<1>4. DOMAIN seen \subseteq Keys /\ \A x \in DOMAIN seen : seen[x] \in 0..(KeepFor + 1)
  <2>1. 0 \in 0..(KeepFor + 1)
    BY <1>1
  <2> QED
    BY <2>1, <1>1, <1>3
<1>5. /\ DOMAIN lastSeen' \subseteq DOMAIN seen
      /\ \A x \in DOMAIN lastSeen' : lastSeen'[x] = seen[x]
      /\ \A x \in DOMAIN seen : seen[x] <= KeepFor => x \in DOMAIN lastSeen'
  BY <1>2, <1>4, CleanedType
<1>6. k \in DOMAIN lastSeen' /\ lastSeen'[k] = 0
  BY <1>1, <1>3, <1>5
<1>7. ASSUME NEW b \in Keys \ {k}, NEW a \in 0..(Interval - 1)
      PROVE  (b \in DOMAIN lastSeen' /\ lastSeen'[b] <= a)
               <=> (b \in DOMAIN lastSeen /\ lastSeen[b] <= a)
  <2>1. ASSUME b \in DOMAIN lastSeen' PROVE b \in DOMAIN lastSeen /\ lastSeen'[b] = lastSeen[b]
    BY <2>1, <1>3, <1>5
  <2>2. ASSUME b \in DOMAIN lastSeen, lastSeen[b] <= a PROVE b \in DOMAIN lastSeen'
    <3>1. seen[b] = lastSeen[b] /\ b \in DOMAIN seen
      BY <2>2, <1>3
    <3>2. seen[b] <= KeepFor
      BY <2>2, <3>1, <1>1
    <3> QED
      BY <3>1, <3>2, <1>5
  <2> QED
    BY <2>1, <2>2
<1> QED
  BY <1>6, <1>7

LEMMA PressStep ==
    ASSUME MInv, NEW k \in Keys, ShouldProcess(k), NEW b \in Keys
    PROVE  Debouncer(b)!Step
<1>1. /\ Interval \in Nat \ {0} /\ Interval - 1 \in 0..(Interval - 1)
      /\ processed \in [Keys -> Answers]
      /\ \A x \in DOMAIN lastSeen : lastSeen[x] \in Nat
  BY MiddlewareAssumption DEF MInv, MiddlewareTypeOK
<1>2. CASE k \in DOMAIN lastSeen /\ lastSeen[k] < Interval
  <2>1. /\ processed[k] = "none" /\ UNCHANGED lastSeen
        /\ processed' = [processed EXCEPT ![k] = "refuse"]
    BY <1>2 DEF ShouldProcess
  <2>2. CASE b = k
    <3>1. processed'[b] = "refuse"
      BY <2>1, <2>2, <1>1
    <3>2. lastSeen[k] <= Interval - 1
      BY <1>1, <1>2
    <3> QED
      BY <2>1, <2>2, <3>1, <3>2, <1>1, <1>2
      DEF Debouncer!Step, Debouncer!Next, Debouncer!Refuse, Debouncer!Count
  <2>3. CASE b # k
    <3>1. processed'[b] = processed[b]
      BY <2>1, <2>3, <1>1
    <3> QED
      BY <2>1, <3>1 DEF Debouncer!Step
  <2> QED
    BY <2>2, <2>3
<1>3. CASE ~(k \in DOMAIN lastSeen /\ lastSeen[k] < Interval)
  <2>1. processed[k] = "none" /\ processed' = [processed EXCEPT ![k] = "allow"]
    BY <1>3 DEF ShouldProcess
  <2>2. /\ k \in DOMAIN lastSeen' /\ lastSeen'[k] = 0
        /\ \A x \in Keys \ {k}, a \in 0..(Interval - 1) :
             (x \in DOMAIN lastSeen' /\ lastSeen'[x] <= a)
               <=> (x \in DOMAIN lastSeen /\ lastSeen[x] <= a)
    BY <1>3, PressEntries
  <2>3. CASE b = k
    <3>1. processed'[b] = "allow"
      BY <2>1, <2>3, <1>1
    <3>2. \A a \in 0..(Interval - 1) : ~(k \in DOMAIN lastSeen /\ lastSeen[k] <= a)
      BY <1>1, <1>3
    <3>3. \A a \in 0..(Interval - 1) : k \in DOMAIN lastSeen' /\ lastSeen'[k] <= a
      BY <2>2, <1>1
    <3> QED
      BY <2>1, <2>3, <3>1, <3>2, <3>3, <1>1
      DEF Debouncer!Step, Debouncer!Next, Debouncer!Allow, Debouncer!Count, Debouncer!Ages
  <2>4. CASE b # k
    <3>1. processed'[b] = processed[b]
      BY <2>1, <2>4, <1>1
    <3>2. \A a \in 0..(Interval - 1) :
             (b \in DOMAIN lastSeen' /\ lastSeen'[b] <= a)
               <=> (b \in DOMAIN lastSeen /\ lastSeen[b] <= a)
      BY <2>2, <2>4
    <3> QED
      BY <3>1, <3>2 DEF Debouncer!Step
  <2> QED
    BY <2>3, <2>4
<1> QED
  BY <1>2, <1>3

LEMMA AgeStep ==
    ASSUME MInv, Tick, NEW b \in Keys
    PROVE  Debouncer(b)!Step
<1>1. /\ Interval \in Nat \ {0} /\ KeepFor \in Nat /\ KeepFor >= Interval
      /\ \A x \in DOMAIN lastSeen : lastSeen[x] \in 0..(KeepFor + 1)
  BY MiddlewareAssumption DEF MInv, MiddlewareTypeOK
<1>2. /\ DOMAIN lastSeen' = DOMAIN lastSeen
      /\ \A x \in DOMAIN lastSeen : lastSeen'[x] = Aged(lastSeen[x], KeepFor + 1)
      /\ processed' = processed
  BY DEF Tick
<1>3. \A a \in 0..(Interval - 1) :
        (b \in DOMAIN lastSeen' /\ lastSeen'[b] <= a)
          <=> (a # 0 /\ b \in DOMAIN lastSeen /\ lastSeen[b] <= a - 1)
  BY <1>1, <1>2 DEF Aged
<1>4. \A a \in 0..(Interval - 1) : a # 0 => a - 1 \in 0..(Interval - 1)
  BY <1>1
<1> QED
  BY <1>2, <1>3, <1>4 DEF Debouncer!Step, Debouncer!Next, Debouncer!Tick, Debouncer!Ages

LEMMA DebouncerStep ==
    ASSUME MInv, [MiddlewareNext]_vars, NEW b \in Keys
    PROVE  Debouncer(b)!Step
<1>1. CASE Allow
  BY <1>1 DEF Allow, debouncerVars, Debouncer!Step
<1>2. ASSUME NEW k \in Keys, ShouldProcess(k) PROVE Debouncer(b)!Step
  BY <1>2, PressStep
<1>3. CASE Return
  BY <1>3 DEF Return, Debouncer!Step, Debouncer!Next, Debouncer!Return
<1>4. CASE Tick
  BY <1>4, AgeStep
<1>5. CASE UNCHANGED vars
  BY <1>5 DEF vars, debouncerVars, Debouncer!Step
<1> QED
  BY <1>1, <1>2, <1>3, <1>4, <1>5 DEF MiddlewareNext

\* SECURITY.md:45: a button is processed exactly when it was not processed
\* within Interval, whatever the cleanup of a map above MaxEntries drops
\* (middleware.go:39-47).
THEOREM DebouncerCorrect == MiddlewareSpec => DebouncerIsWindow
<1>1. MiddlewareInit => \A k \in Keys : Debouncer(k)!Init
  BY DEF MiddlewareInit, Debouncer!Init, Debouncer!Ages
<1>2. MInv /\ [MiddlewareNext]_vars => [\A k \in Keys : Debouncer(k)!Step]_vars
  BY DebouncerStep
<1> QED
  BY <1>1, <1>2, MInvHolds, PTL DEF MiddlewareSpec, DebouncerIsWindow
=============================================================================
