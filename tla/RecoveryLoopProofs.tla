------------------------- MODULE RecoveryLoopProofs --------------------------
(***************************************************************************)
(* Proofs about RecoveryLoop for any number of messages, any claim count   *)
(* and visibility timeout: the stream as the worker's loops use it is      *)
(* at-least-once delivery.                                                 *)
(*                                                                         *)
(* The argument: a message is in the stream once, so the entry after the   *)
(* cursor was never handed out, and only what was handed out is pending.   *)
(*                                                                         *)
(* A message with few enough others before it is within the scan.  A      *)
(* claim that leaves it out once it is stale takes ClaimCount older ones.  *)
(* They were pending when it was first handed out, and while it is left    *)
(* out fewer than VisibilityTimeout times none of them is stale again: the *)
(* next claims take others, of which there are only so many.               *)
(***************************************************************************)
EXTENDS RecoveryLoop, OrderLemmas, FiniteSetTheorems, TLAPS

\* A message is sent once; only messages that were handed out are pending.
Once == \A m, n \in Positions : stream[m] = stream[n] => m = n
PendingHanded == pel \subseteq Handed

LInv == LoopTypeOK /\ Once /\ PendingHanded

-----------------------------------------------------------------------------
\* What the loops do to the types, one action after the other.
LEMMA LoopTypeStep == LoopTypeOK /\ [LoopNext]_loopVars => LoopTypeOK'
<1> SUFFICES ASSUME LoopTypeOK, [LoopNext]_loopVars PROVE LoopTypeOK'
  OBVIOUS
<1> USE DEF LoopTypeOK, QueueTypeOK
<1>1. ASSUME NEW j \in Jobs, Produce(j) PROVE LoopTypeOK'
  BY <1>1 DEF Produce, Enqueue, historyVars
<1>2. ASSUME NEW j \in Jobs, Finish(j) PROVE LoopTypeOK'
  BY <1>2, QueueAssumption DEF Finish, Ack
<1>3. ASSUME ReadLoop PROVE LoopTypeOK'
  <2>1. PICK j \in Jobs : ReadNew(j) /\ got' = {j}
    BY <1>3 DEF ReadLoop
  <2> QED BY <1>3, <2>1, QueueAssumption DEF ReadLoop, ReadNew
<1>4. ASSUME Sweep PROVE LoopTypeOK'
  <2>1. Claimable \subseteq Jobs
    BY DEF Claimable, Stale
  <2>2. passed' \in [Jobs -> 0..VisibilityTimeout]
    BY <1>4, QueueAssumption DEF Sweep, OneMore
  <2> QED BY <1>4, <2>1, <2>2, QueueAssumption DEF Sweep, ClaimStale, queueVars
<1>5. ASSUME Period PROVE LoopTypeOK'
  <2>1. idle' \in [Jobs -> 0..VisibilityTimeout]
    BY <1>5, QueueAssumption DEF Period, QueueTick
  <2> QED BY <1>5, <2>1 DEF Period, QueueTick, historyVars
<1>6. CASE UNCHANGED loopVars
  BY <1>6 DEF loopVars, queueVars, historyVars
<1> QED BY <1>1, <1>2, <1>3, <1>4, <1>5, <1>6 DEF LoopNext

\* What is sent is never taken back or changed.
LEMMA HandedKept ==
    ASSUME LInv, NEW j \in Jobs, Produce(j)
    PROVE  /\ Handed' = Handed
           /\ Once'
<1>1. /\ stream' = Append(stream, j) /\ delivered' = delivered
      /\ ~InStream(j)
  BY DEF Produce, Enqueue
<1>2. stream \in Seq(Jobs) /\ delivered \in 0..Len(stream)
  BY DEF LInv, LoopTypeOK, QueueTypeOK
<1>3. /\ Len(stream') = Len(stream) + 1
      /\ stream'[Len(stream) + 1] = j
      /\ \A i \in 1..Len(stream) : stream'[i] = stream[i]
  BY <1>1, <1>2
<1>4. Handed' = Handed
  BY <1>1, <1>2, <1>3 DEF Handed
<1>5. Once'
  BY <1>1, <1>2, <1>3 DEF LInv, Once, Positions, InStream
<1> QED BY <1>4, <1>5

\* The entry after the cursor is a message that was not handed out.
LEMMA NextIsNew ==
    ASSUME LInv, NEW j \in Jobs, ReadNew(j)
    PROVE  /\ delivered + 1 \in 1..Len(stream)
           /\ j = stream[delivered + 1]
           /\ j \notin Handed
           /\ Handed' = Handed \union {j}
           /\ \A k \in 1..delivered : stream[k] \in Handed
<1>1. /\ delivered < Len(stream) /\ j = stream[delivered + 1]
      /\ delivered' = delivered + 1 /\ stream' = stream
  BY DEF ReadNew
<1>2. stream \in Seq(Jobs) /\ delivered \in 0..Len(stream)
  BY DEF LInv, LoopTypeOK, QueueTypeOK
<1>3. j \notin Handed
  BY <1>1, <1>2 DEF LInv, Once, Positions, Handed
<1>4. Handed' = Handed \union {j}
  BY <1>1, <1>2 DEF Handed
<1> QED BY <1>1, <1>2, <1>3, <1>4 DEF Handed

\* LInv is inductive.
LEMMA LoopStep == LInv /\ [LoopNext]_loopVars => LInv'
<1> SUFFICES ASSUME LInv, [LoopNext]_loopVars PROVE LInv'
  OBVIOUS
<1>0. LoopTypeOK'
  BY LoopTypeStep DEF LInv
<1>1. ASSUME NEW j \in Jobs, Produce(j) PROVE Once' /\ PendingHanded'
  BY <1>1, HandedKept DEF Produce, Enqueue, LInv, PendingHanded
<1>2. ASSUME stream' = stream, delivered' = delivered, pel' \subseteq pel
      PROVE  Once' /\ PendingHanded'
  BY <1>2 DEF LInv, Once, PendingHanded, Handed, Positions
<1>3. ASSUME NEW j \in Jobs, Finish(j) PROVE Once' /\ PendingHanded'
  BY <1>2, <1>3 DEF Finish, Ack
<1>4. ASSUME ReadLoop PROVE Once' /\ PendingHanded'
  <2>1. PICK j \in Jobs : ReadNew(j)
    BY <1>4 DEF ReadLoop
  <2>2. Once'
    BY <2>1 DEF ReadNew, LInv, Once, Positions
  <2> QED BY <2>1, <2>2, NextIsNew DEF ReadNew, LInv, PendingHanded
<1>5. ASSUME Sweep PROVE Once' /\ PendingHanded'
  BY <1>2, <1>5 DEF Sweep, ClaimStale, queueVars
<1>6. ASSUME Period PROVE Once' /\ PendingHanded'
  BY <1>2, <1>6 DEF Period, QueueTick
<1>7. CASE UNCHANGED loopVars
  <2>1. Once' /\ PendingHanded'
    BY <1>2, <1>7 DEF loopVars, queueVars
  <2> QED BY <1>0, <2>1 DEF LInv
<1> QED BY <1>0, <1>1, <1>3, <1>4, <1>5, <1>6, <1>7 DEF LoopNext, LInv

LEMMA LoopStart == LoopInit => LInv
<1> SUFFICES ASSUME LoopInit PROVE LInv
  OBVIOUS
<1>1. stream = <<>> /\ delivered = 0 /\ pel = {} /\ idle = [j \in Jobs |-> 0]
  BY DEF LoopInit, QueueInit
<1>2. Len(stream) = 0 /\ stream \in Seq(Jobs)
  BY <1>1
<1>3. 0 \in 0..VisibilityTimeout
  BY QueueAssumption
<1>4. LoopTypeOK
  <2>1. idle \in [Jobs -> 0..VisibilityTimeout]
    BY <1>1, <1>3
  <2>2. delivered \in 0..Len(stream) /\ pel \in SUBSET Jobs
    BY <1>1, <1>2
  <2>3. passed \in [Jobs -> 0..VisibilityTimeout]
    BY <1>3 DEF LoopInit
  <2> QED BY <1>2, <2>1, <2>2, <2>3 DEF LoopInit, LoopTypeOK, QueueTypeOK
<1>5. Once /\ PendingHanded
  BY <1>1, <1>2 DEF Once, Positions, PendingHanded
<1> QED BY <1>4, <1>5 DEF LInv

LEMMA LoopAlways == LoopSpec => []LInv
BY LoopStart, LoopStep, PTL DEF LoopSpec

\* The queue's state is well typed at every moment, idle times included
\* (streams.go: Enqueue, ReadNew, ClaimStale, Ack).
THEOREM LoopTypeCorrect == LoopSpec => []LoopTypeOK
<1>1. LInv => LoopTypeOK
  BY DEF LInv
<1> QED BY <1>1, LoopAlways, PTL

-----------------------------------------------------------------------------
\* Every step of the loops is a step of the contract or leaves it unchanged.
LEMMA Refines ==
    LInv /\ [LoopNext]_loopVars
      => [Contract!DeliveryNext]_(Contract!deliveryVars)
<1> SUFFICES ASSUME LInv, [LoopNext]_loopVars
             PROVE  Contract!DeliveryNext \/ UNCHANGED Contract!deliveryVars
  BY DEF Contract!deliveryVars
<1> USE DEF Contract!DeliveryNext
<1>0. ASSUME stream' = stream, delivered' = delivered, pel' = pel
      PROVE  Handed' = Handed /\ (Handed \ pel)' = Handed \ pel
  BY <1>0 DEF Handed
<1>1. ASSUME NEW j \in Jobs, Produce(j) PROVE Contract!Send(j)
  <2>1. Handed' = Handed /\ (Handed \ pel)' = Handed \ pel
    BY <1>1, HandedKept DEF Produce, Enqueue
  <2> QED BY <1>1, <2>1 DEF Produce, Enqueue, InStream, Positions,
             Contract!Send, Contract!Sent
<1>2. ASSUME NEW j \in Jobs, Finish(j) PROVE Contract!Settle(j)
  <2>1. /\ j \in Handed /\ Handed' = Handed
        /\ (Handed \ pel)' = (Handed \ pel) \union {j}
    BY <1>2 DEF LInv, PendingHanded, Finish, Ack, Handed
  <2> QED BY <1>2, <2>1 DEF Finish, Ack, Contract!Settle
<1>3. ASSUME ReadLoop PROVE Contract!HandOutNext
  <2>1. PICK j \in Jobs : ReadNew(j) /\ got' = {j}
    BY <1>3 DEF ReadLoop
  <2>2. /\ delivered + 1 \in 1..Len(stream) /\ j = stream[delivered + 1]
        /\ j \notin Handed /\ Handed' = Handed \union {j}
        /\ \A k \in 1..delivered : stream[k] \in Handed
    BY <2>1, NextIsNew
  <2>3. (Handed \ pel)' = Handed \ pel
    BY <2>1, <2>2 DEF ReadNew
  <2>4. \A k \in 1..((delivered + 1) - 1) : stream[k] \in Handed
    BY <2>2 DEF LInv, LoopTypeOK, QueueTypeOK
  <2>5. stream' = stream
    BY <2>1 DEF ReadNew
  <2> QED BY <2>1, <2>2, <2>3, <2>4, <2>5 DEF Contract!HandOutNext
<1>4. ASSUME Sweep
      PROVE  Contract!HandOutAgain
  <2>1. stream' = stream /\ delivered' = delivered /\ pel' = pel
    BY <1>4 DEF Sweep, ClaimStale, queueVars
  <2>2. got' \subseteq pel
    BY <1>4 DEF Sweep, Claimable, Stale
  <2>3. got' \in SUBSET (Handed \ (Handed \ pel))
    BY <2>2 DEF LInv, PendingHanded
  <2> QED BY <1>0, <2>1, <2>3 DEF Contract!HandOutAgain
<1>5. ASSUME Period
      PROVE  Contract!HandOutAgain
  <2>1. stream' = stream /\ delivered' = delivered /\ pel' = pel /\ got' = {}
    BY <1>5 DEF Period, QueueTick
  <2> QED BY <1>0, <2>1 DEF Contract!HandOutAgain
<1>6. CASE UNCHANGED loopVars
  BY <1>0, <1>6 DEF loopVars, queueVars, Contract!deliveryVars
<1> QED BY <1>1, <1>2, <1>3, <1>4, <1>5, <1>6 DEF LoopNext

LEMMA StartRefines == LoopInit => Contract!DeliveryInit
BY DEF LoopInit, QueueInit, Handed, Contract!DeliveryInit

\* However many messages are pending and whatever is claimed, the worker gets
\* every message in order first, possibly again, and never after its Ack
\* (streams.go: ReadNew, ClaimStale, Ack).
THEOREM DeliveryContract == LoopSpec => AtLeastOnce
BY StartRefines, Refines, LoopAlways, PTL
   DEF LoopSpec, AtLeastOnce, Contract!DeliverySpec
-----------------------------------------------------------------------------
(* How often a stale message is passed over                                *)

\* The pending messages before a pending one were so when it was handed out.
Seniors == \A j, k \in pel : Before(k, j) => k \in ahead[j]

\* Only a stale message has been passed over.
PassedAreStale == \A j \in Jobs : passed[j] > 0 => j \in Stale

\* Those of them that had their turn since: acknowledged, or claimed while j
\* was passed over.
HadTurn(j) ==
    {k \in ahead[j] :
        k \in pel => idle[k] < passed[j] + (IF swept THEN 0 ELSE 1)}

Turns ==
    \A j \in Jobs :
        Cardinality(ahead[j]) < Capacity =>
            ClaimCount * passed[j] <= Cardinality(HadTurn(j))

PInv == LInv /\ Seniors /\ PassedAreStale /\ Turns

\* Only pending messages count for the scan, and these are finitely many.
LEMMA PendingFinite ==
    ASSUME LInv, NEW j
    PROVE  /\ PendingBefore(j) \subseteq pel /\ IsFiniteSet(PendingBefore(j))
           /\ Cardinality(PendingBefore(j)) \in Nat
<1>1. IsFiniteSet(Jobs) /\ PendingBefore(j) \in SUBSET Jobs
  BY QueueAssumption DEF LInv, LoopTypeOK, QueueTypeOK, PendingBefore
<1>2. PendingBefore(j) \subseteq pel
  BY DEF PendingBefore
<1> QED
  BY <1>1, <1>2, FS_Subset, FS_CardinalityType

\* A scan that reaches a message has looked at the pending ones before it.
LEMMA ScanClosed ==
    ASSUME LInv, NEW j \in Scanned, NEW k \in pel, Before(k, j)
    PROVE  k \in Scanned
<1>1. /\ stream \in Seq(Jobs) /\ Len(stream) \in Nat /\ Once
  BY DEF LInv, LoopTypeOK, QueueTypeOK
<1>2. ASSUME NEW i \in pel, Before(i, k) PROVE Before(i, j)
  <2>1. PICK m, n \in Positions : m < n /\ stream[m] = i /\ stream[n] = k
    BY <1>2 DEF Before
  <2>2. PICK a, b \in Positions : a < b /\ stream[a] = k /\ stream[b] = j
    BY DEF Before
  <2>3. n = a
    BY <1>1, <2>1, <2>2 DEF Once
  <2>4. m < b
    BY <1>1, <2>1, <2>2, <2>3 DEF Positions
  <2> QED
    BY <2>1, <2>2, <2>4 DEF Before
<1>3. PendingBefore(k) \in SUBSET PendingBefore(j)
  BY <1>2 DEF PendingBefore
<1>4. Cardinality(PendingBefore(k)) <= Cardinality(PendingBefore(j))
  BY <1>3, PendingFinite, FS_Subset
<1>5. /\ Cardinality(PendingBefore(k)) \in Nat /\ Cardinality(PendingBefore(j)) \in Nat
      /\ ScanFactor * ClaimCount \in Nat
  BY PendingFinite, QueueAssumption
<1> QED
  BY <1>4, <1>5 DEF Scanned

\* Rounds is a number no larger than the two it is the smaller of.
LEMMA RoundsFacts ==
    /\ Rounds \in Nat \ {0} /\ Rounds <= VisibilityTimeout /\ Rounds <= ScanFactor
    /\ Capacity \in Nat /\ Capacity <= ScanFactor * ClaimCount
<1>1. Rounds \in Nat \ {0} /\ Rounds <= VisibilityTimeout /\ Rounds <= ScanFactor
  BY QueueAssumption DEF Rounds
<1>2. \A a, b, c \in Nat : a <= b => c * a \in Nat /\ c * a <= b * c
  OBVIOUS
<1>3. Capacity \in Nat /\ Capacity <= ScanFactor * ClaimCount
  BY <1>1, <1>2, QueueAssumption DEF Capacity
<1> QED
  BY <1>1, <1>3

\* The scan reaches every message with few others before it.
LEMMA ScanReaches ==
    ASSUME LInv, Seniors, NEW j \in pel, Cardinality(ahead[j]) < Capacity
    PROVE  j \in Scanned
<1>1. j \in Jobs /\ IsFiniteSet(ahead[j]) /\ Cardinality(ahead[j]) \in Nat
  <2>1. j \in Jobs /\ IsFiniteSet(Jobs) /\ ahead[j] \in SUBSET Jobs
    BY QueueAssumption DEF LInv, LoopTypeOK, QueueTypeOK
  <2> QED
    BY <2>1, FS_Subset, FS_CardinalityType
<1>2. PendingBefore(j) \in SUBSET ahead[j]
  BY DEF Seniors, PendingBefore
<1>3. Cardinality(PendingBefore(j)) <= Cardinality(ahead[j])
  BY <1>1, <1>2, FS_Subset
<1>4. Cardinality(PendingBefore(j)) \in Nat /\ ScanFactor * ClaimCount \in Nat
  BY PendingFinite, QueueAssumption
<1>5. Cardinality(PendingBefore(j)) < ScanFactor * ClaimCount
  BY <1>1, <1>3, <1>4, RoundsFacts
<1> QED
  BY <1>5 DEF Scanned

\* A claim that leaves j out although it looks at it takes ClaimCount messages
\* before it.
LEMMA ClaimsBefore ==
    ASSUME LInv, NEW j \in Stale \ Claimable, j \in Scanned
    PROVE  \E T \in SUBSET Claimable :
              /\ Cardinality(T) = ClaimCount
              /\ \A k \in T : Before(k, j)
<1>1. /\ stream \in Seq(Jobs) /\ Len(stream) \in Nat /\ Once
      /\ pel \subseteq Jobs /\ IsFiniteSet(Jobs) /\ ClaimCount \in Nat \ {0}
  BY QueueAssumption DEF LInv, LoopTypeOK, QueueTypeOK
<1> DEFINE D == {k \in Stale : Before(k, j)}
           place == [k \in D |-> CHOOSE i \in Positions : stream[i] = k]
<1>2. IsFiniteSet(Stale) /\ D \in SUBSET Stale
  <2>1. Stale \in SUBSET Jobs
    BY <1>1 DEF Stale
  <2> QED
    BY <1>1, <2>1, FS_Subset
<1>3. IsFiniteSet(D) /\ Cardinality(D) \in Nat
  BY <1>2, FS_Subset, FS_CardinalityType
<1>4. ClaimCount <= Cardinality(D)
  <2>1. ~(Cardinality(D) < ClaimCount)
    BY DEF Claimable
  <2> HIDE DEF D
  <2> QED
    BY <1>1, <1>3, <2>1
<1>5. \A k \in D : place[k] \in Positions /\ stream[place[k]] = k
  <2> TAKE k \in D
  <2>1. \E i \in Positions : stream[i] = k
    BY DEF Before
  <2> QED
    BY <2>1
<1>6. place \in [D -> 1..Len(stream)]
  BY <1>5 DEF Positions
<1>7. \A x, y \in D : place[x] = place[y] => x = y
  BY <1>5
<1>8. PICK T \in SUBSET D :
         /\ Cardinality(T) = ClaimCount
         /\ \A x \in T, y \in D : place[y] < place[x] => y \in T
  <2> HIDE DEF D, place
  <2> QED
    BY <1>1, <1>3, <1>4, <1>6, <1>7, FirstOnes
<1>9. ASSUME NEW x \in T PROVE x \in Claimable
  <2> DEFINE older == {k \in Stale : Before(k, x)}
  <2>1. older \subseteq T \ {x}
    <3>1. ASSUME NEW k \in older PROVE k \in T \ {x}
      <4>1. PICK m, n \in Positions : m < n /\ stream[m] = k /\ stream[n] = x
        BY DEF Before
      <4>2. PICK a, b \in Positions : a < b /\ stream[a] = x /\ stream[b] = j
        BY DEF Before
      <4>3. n = a
        BY <1>1, <4>1, <4>2 DEF Once
      <4>4. m < b /\ m \in Nat /\ n \in Nat
        BY <1>1, <4>1, <4>2, <4>3 DEF Positions
      <4>5. k \in D
        BY <4>1, <4>2, <4>4 DEF Before
      <4>6. place[k] = m /\ place[x] = n
        BY <1>1, <1>5, <4>1, <4>5 DEF Once
      <4>7. k \in T
        BY <1>8, <4>1, <4>5, <4>6
      <4>8. k # x
        <5>1. m # n
          BY <4>1, <4>4
        <5> HIDE DEF place
        <5> QED
          BY <4>6, <5>1
      <4> QED
        BY <4>7, <4>8
    <3> QED
      BY <3>1
  <2>2. IsFiniteSet(T)
    BY <1>3, FS_Subset
  <2>3. IsFiniteSet(T \ {x}) /\ Cardinality(T \ {x}) = ClaimCount - 1
    BY <1>8, <2>2, FS_RemoveElement
  <2>4. IsFiniteSet(older) /\ Cardinality(older) <= Cardinality(T \ {x})
    <3> HIDE DEF older
    <3> QED
      BY <2>1, <2>3, FS_Subset
  <2>5. Cardinality(older) \in Nat
    <3> HIDE DEF older
    <3> QED
      BY <2>4, FS_CardinalityType
  <2>6. Cardinality(older) < ClaimCount
    <3> HIDE DEF older
    <3> QED
      BY <1>1, <2>3, <2>4, <2>5
  <2>7. x \in Scanned
    <3>1. x \in pel /\ Before(x, j)
      BY DEF Stale
    <3> QED
      BY <3>1, ScanClosed
  <2> QED
    BY <1>2, <2>6, <2>7 DEF Claimable
<1> QED
  BY <1>8, <1>9

LEMMA PassInit == LoopInit => PInv
<1> SUFFICES ASSUME LoopInit PROVE PInv
  OBVIOUS
<1>1. LInv
  BY LoopStart
<1>2. pel = {} /\ passed = [j \in Jobs |-> 0] /\ ahead = [j \in Jobs |-> {}]
  BY DEF LoopInit, QueueInit
<1>3. Seniors /\ PassedAreStale
  BY <1>2 DEF Seniors, PassedAreStale
<1>4. Turns
  <2> SUFFICES ASSUME NEW j \in Jobs PROVE ClaimCount * passed[j] <= Cardinality(HadTurn(j))
    BY DEF Turns
  <2>1. HadTurn(j) = {}
    BY <1>2 DEF HadTurn
  <2>2. ClaimCount * 0 = 0
    BY QueueAssumption
  <2> QED
    BY <1>2, <2>1, <2>2, FS_EmptySet
<1> QED
  BY <1>1, <1>3, <1>4 DEF PInv

LEMMA SeniorsStep == PInv /\ [LoopNext]_loopVars => Seniors'
<1> SUFFICES ASSUME PInv, [LoopNext]_loopVars PROVE Seniors'
  OBVIOUS
<1>0. /\ stream \in Seq(Jobs) /\ Len(stream) \in Nat /\ delivered \in 0..Len(stream)
      /\ pel \subseteq Jobs /\ pel \subseteq Handed /\ Once /\ Seniors
      /\ ahead \in [Jobs -> SUBSET Jobs]
  BY DEF PInv, LInv, LoopTypeOK, QueueTypeOK, PendingHanded
<1>1. ASSUME NEW i \in Jobs, Produce(i) PROVE Seniors'
  <2>1. stream' = Append(stream, i) /\ UNCHANGED <<pel, ahead>> /\ ~InStream(i)
    BY <1>1 DEF Produce, Enqueue, historyVars
  <2>2. /\ Len(stream') = Len(stream) + 1 /\ stream'[Len(stream) + 1] = i
        /\ \A m \in Positions : stream'[m] = stream[m]
    BY <1>0, <2>1 DEF Positions
  <2>3. i \notin pel
    BY <1>0, <2>1 DEF Handed, InStream, Positions
  <2>4. ASSUME NEW j \in pel, NEW k \in pel, Before(k, j)' PROVE Before(k, j)
    <3>1. PICK m, n \in 1..(Len(stream) + 1) :
             m < n /\ stream'[m] = k /\ stream'[n] = j
      BY <2>2, <2>4 DEF Before, Positions
    <3>2. m \in Positions /\ n \in Positions
      BY <1>0, <2>2, <2>3, <3>1 DEF Positions
    <3> QED
      BY <2>2, <3>1, <3>2 DEF Before
  <2> QED
    BY <1>0, <2>1, <2>4 DEF Seniors
<1>2. ASSUME stream' = stream, pel' \subseteq pel, ahead' = ahead
      PROVE  Seniors'
  <2>1. \A j, k : Before(k, j)' <=> Before(k, j)
    BY <1>2 DEF Before, Positions
  <2> QED
    BY <1>0, <1>2, <2>1 DEF Seniors
<1>3. ASSUME NEW i \in Jobs, ReadNew(i), ahead' = [ahead EXCEPT ![i] = pel]
      PROVE  Seniors'
  <2>1. /\ delivered + 1 \in Positions /\ stream[delivered + 1] = i
        /\ i \notin Handed
    BY <1>3, NextIsNew DEF PInv, Positions
  <2>2. stream' = stream /\ pel' = pel \union {i}
    BY <1>3 DEF ReadNew
  <2>3. \A j, k : Before(k, j)' <=> Before(k, j)
    BY <2>2 DEF Before, Positions
  <2>4. ASSUME NEW j \in pel', NEW k \in pel', Before(k, j) PROVE k \in ahead'[j]
    <3>1. k # j
      BY <1>0, <2>4 DEF Before, Once, Positions
    <3>2. CASE j = i
      BY <1>0, <1>3, <2>2, <3>1, <3>2
    <3>3. CASE j # i
      <4>1. j \in pel /\ ahead'[j] = ahead[j]
        BY <1>0, <1>3, <2>2, <3>3
      <4>2. k # i
        <5>1. PICK n \in 1..delivered : stream[n] = j
          BY <1>0, <4>1 DEF Handed
        <5>2. PICK a, b \in Positions : a < b /\ stream[a] = k /\ stream[b] = j
          BY <2>4 DEF Before
        <5>3. n \in Positions
          BY <1>0 DEF Positions
        <5>4. b = n
          BY <1>0, <5>1, <5>2, <5>3 DEF Once
        <5>5. a \in 1..delivered
          BY <1>0, <5>2, <5>4 DEF Positions
        <5> QED
          BY <2>1, <5>2, <5>5 DEF Handed
      <4> QED
        BY <1>0, <2>2, <2>4, <4>1, <4>2 DEF Seniors
    <3> QED
      BY <3>2, <3>3
  <2> QED
    BY <2>3, <2>4 DEF Seniors
<1>4. ASSUME NEW i \in Jobs, Finish(i) PROVE Seniors'
  BY <1>2, <1>4 DEF Finish, Ack
<1>5. ASSUME Sweep PROVE Seniors'
  BY <1>2, <1>5 DEF Sweep, ClaimStale, queueVars
<1>6. ASSUME Period PROVE Seniors'
  BY <1>2, <1>6 DEF Period, QueueTick, historyVars
<1>7. CASE UNCHANGED loopVars
  BY <1>2, <1>7 DEF loopVars, queueVars, historyVars
<1> QED
  BY <1>1, <1>3, <1>4, <1>5, <1>6, <1>7 DEF LoopNext, ReadLoop

LEMMA PassedAreStaleStep == PInv /\ [LoopNext]_loopVars => PassedAreStale'
<1> SUFFICES ASSUME PInv, [LoopNext]_loopVars PROVE PassedAreStale'
  OBVIOUS
<1>0. /\ pel \subseteq Jobs /\ pel \subseteq Handed /\ PassedAreStale
      /\ idle \in [Jobs -> 0..VisibilityTimeout] /\ passed \in [Jobs -> Nat]
      /\ VisibilityTimeout \in Nat \ {0}
  BY QueueAssumption DEF PInv, LInv, LoopTypeOK, QueueTypeOK, PendingHanded
<1>1. ASSUME pel' = pel, idle' = idle, passed' = passed PROVE PassedAreStale'
  BY <1>0, <1>1 DEF PassedAreStale, Stale
<1>2. ASSUME NEW i \in Jobs, ReadNew(i), passed' = passed PROVE PassedAreStale'
  <2>1. i \notin pel
    BY <1>0, <1>2, NextIsNew DEF PInv
  <2>2. pel' = pel \union {i} /\ \A j \in Jobs \ {i} : idle'[j] = idle[j]
    BY <1>0, <1>2 DEF ReadNew
  <2> QED
    BY <1>0, <1>2, <2>1, <2>2 DEF PassedAreStale, Stale
<1>3. ASSUME NEW i \in Jobs, Finish(i) PROVE PassedAreStale'
  BY <1>0, <1>3 DEF Finish, Ack, PassedAreStale, Stale
<1>4. ASSUME Sweep PROVE PassedAreStale'
  <2>1. \A j \in Jobs : passed'[j] > 0 => j \in Stale \ Claimable
    BY <1>4 DEF Sweep
  <2>2. \A j \in Stale \ Claimable : j \in pel' /\ idle'[j] = idle[j]
    BY <1>0, <1>4 DEF Sweep, ClaimStale, queueVars, Stale
  <2> QED
    BY <2>1, <2>2 DEF PassedAreStale, Stale
<1>5. ASSUME Period PROVE PassedAreStale'
  <2>1. /\ passed' = passed /\ pel' = pel
        /\ \A j \in pel : idle[j] >= VisibilityTimeout => idle'[j] >= VisibilityTimeout
    BY <1>0, <1>5 DEF Period, QueueTick, historyVars
  <2> QED
    BY <1>0, <2>1 DEF PassedAreStale, Stale
<1>6. ASSUME NEW i \in Jobs, Produce(i) PROVE PassedAreStale'
  BY <1>1, <1>6 DEF Produce, Enqueue, historyVars
<1>7. CASE UNCHANGED loopVars
  BY <1>1, <1>7 DEF loopVars, queueVars, historyVars
<1> QED
  BY <1>2, <1>3, <1>4, <1>5, <1>6, <1>7 DEF LoopNext, ReadLoop

\* Sets of messages are finite, and a larger one has more of them.
LEMMA TurnsFinite ==
    ASSUME LoopTypeOK, NEW j \in Jobs
    PROVE  /\ IsFiniteSet(ahead[j]) /\ Cardinality(ahead[j]) \in Nat
           /\ IsFiniteSet(HadTurn(j)) /\ Cardinality(HadTurn(j)) \in Nat
           /\ Cardinality(HadTurn(j)) <= Cardinality(ahead[j])
<1>1. IsFiniteSet(Jobs) /\ ahead[j] \in SUBSET Jobs
  BY QueueAssumption DEF LoopTypeOK
<1>2. IsFiniteSet(ahead[j])
  BY <1>1, FS_Subset
<1>3. HadTurn(j) \in SUBSET ahead[j]
  BY DEF HadTurn
<1> QED
  BY <1>2, <1>3, FS_Subset, FS_CardinalityType

\* The bound of a message that the last claim did not leave out.
LEMMA NotPassedOver ==
    ASSUME LoopTypeOK', NEW j \in Jobs, passed'[j] = 0
    PROVE  ClaimCount * passed'[j] <= Cardinality(HadTurn(j)')
<1> DEFINE after == HadTurn(j)'
<1>1. ClaimCount * 0 = 0
  BY QueueAssumption
<1>2. after \in SUBSET Jobs /\ IsFiniteSet(Jobs)
  BY QueueAssumption DEF LoopTypeOK, HadTurn
<1>3. Cardinality(after) \in Nat
  <2> HIDE DEF after
  <2> QED
    BY <1>2, FS_Subset, FS_CardinalityType
<1> QED
  BY <1>1, <1>3

\* The bound of a message for which no claim was made.
LEMMA TurnsKept ==
    ASSUME LoopTypeOK, LoopTypeOK', NEW j \in Jobs,
           ahead'[j] = ahead[j], passed'[j] = passed[j],
           \A k \in HadTurn(j) :
              k \in pel' => idle'[k] < passed[j] + (IF swept' THEN 0 ELSE 1),
           ClaimCount * passed[j] <= Cardinality(HadTurn(j))
    PROVE  ClaimCount * passed'[j] <= Cardinality(HadTurn(j)')
<1> DEFINE after == HadTurn(j)'
<1>1. HadTurn(j) \subseteq after
  BY DEF HadTurn
<1>2. IsFiniteSet(after) /\ Cardinality(after) \in Nat
  <2>1. after \in SUBSET ahead[j] /\ IsFiniteSet(ahead[j])
    BY TurnsFinite DEF HadTurn
  <2> HIDE DEF after
  <2> QED
    BY <2>1, FS_Subset, FS_CardinalityType
<1>3. Cardinality(HadTurn(j)) <= Cardinality(after)
  <2> HIDE DEF after
  <2> QED
    BY <1>1, <1>2, FS_Subset
<1>4. Cardinality(HadTurn(j)) \in Nat /\ ClaimCount * passed[j] \in Nat
  BY TurnsFinite, QueueAssumption DEF LoopTypeOK
<1> HIDE DEF after
<1>5. ClaimCount * passed[j] <= Cardinality(after)
  BY <1>2, <1>3, <1>4
<1> QED
  BY <1>5 DEF after

\* The bound of a message that a claim left out: the messages it took instead
\* have not had their turn before, for those that had are not stale yet.
LEMMA PassOver ==
    ASSUME PInv, LoopTypeOK', Sweep, NEW j \in Stale \ Claimable,
           Cardinality(ahead[j]) < Capacity
    PROVE  ClaimCount * passed'[j] <= Cardinality(HadTurn(j)')
<1> DEFINE n == passed[j]
           before == HadTurn(j)
           after == HadTurn(j)'
<1>0. /\ LInv /\ LoopTypeOK /\ Seniors /\ Turns
      /\ j \in Jobs /\ j \in pel /\ pel \subseteq Jobs
      /\ idle \in [Jobs -> 0..VisibilityTimeout] /\ passed \in [Jobs -> Nat]
      /\ VisibilityTimeout \in Nat \ {0} /\ ClaimCount \in Nat \ {0}
  BY QueueAssumption DEF PInv, LInv, LoopTypeOK, QueueTypeOK, Stale
<1>1. ClaimCount * n <= Cardinality(before)
  BY <1>0 DEF Turns
<1>2. n < VisibilityTimeout
  <2>1. /\ Cardinality(before) \in Nat /\ Cardinality(ahead[j]) \in Nat
        /\ Cardinality(before) <= Cardinality(ahead[j])
    BY <1>0, TurnsFinite
  <2>2. n \in Nat /\ ClaimCount * n \in Nat /\ Capacity \in Nat
    BY <1>0, RoundsFacts
  <2> HIDE DEF before
  <2>3. ClaimCount * n < Capacity
    BY <1>1, <2>1, <2>2
  <2>4. ClaimCount * n < ClaimCount * Rounds
    BY <2>3 DEF Capacity
  <2> HIDE DEF n
  <2>5. n < Rounds
    BY <1>0, <2>2, <2>4, RoundsFacts, CancelFactor
  <2> QED
    BY <1>0, <2>2, <2>5, RoundsFacts
<1>3. /\ ~swept /\ swept' = TRUE /\ passed'[j] = n + 1 /\ ahead' = ahead
      /\ pel' = pel
      /\ \A k \in Claimable : idle'[k] = 0
      /\ \A k \in Jobs \ Claimable : idle'[k] = idle[k]
  <2>1. Claimable \subseteq Jobs
    BY <1>0 DEF Claimable, Stale
  <2>2. passed'[j] = n + 1
    BY <1>0, <1>2 DEF Sweep, OneMore
  <2> QED
    BY <1>0, <2>1, <2>2 DEF Sweep, ClaimStale, queueVars
<1>4. PICK T \in SUBSET Claimable :
         Cardinality(T) = ClaimCount /\ \A k \in T : Before(k, j)
  BY <1>0, ScanReaches, ClaimsBefore
<1>5. T \subseteq Stale
  BY DEF Claimable
<1>6. T \subseteq ahead[j]
  BY <1>0, <1>4, <1>5 DEF Seniors, Stale
<1>7. \A k \in T : k \notin before
  <2> SUFFICES ASSUME NEW k \in T, k \in before PROVE FALSE
    OBVIOUS
  <2>1. k \in pel /\ idle[k] >= VisibilityTimeout
    BY <1>5 DEF Stale
  <2>2. idle[k] < n + 1
    BY <1>3, <2>1 DEF HadTurn
  <2>3. idle[k] \in Nat /\ n \in Nat
    BY <1>0, <2>1
  <2> HIDE DEF n
  <2> QED
    BY <1>0, <1>2, <2>1, <2>2, <2>3
<1>8. before \union T \subseteq after
  <2>1. ASSUME NEW k \in before PROVE k \in after
    <3>1. k \in ahead[j] /\ (k \in pel => idle[k] < n + 1)
      BY <1>3 DEF HadTurn
    <3>2. k \in pel => idle'[k] < n + 1
      <4>1. CASE k \in Claimable
        <5>1. idle'[k] = 0 /\ n \in Nat
          BY <1>0, <1>3, <4>1
        <5> QED
          BY <5>1
      <4>2. CASE k \notin Claimable
        BY <1>0, <1>3, <3>1, <4>2
      <4> QED
        BY <4>1, <4>2
    <3> QED
      BY <1>0, <1>3, <3>1, <3>2 DEF HadTurn
  <2>2. ASSUME NEW k \in T PROVE k \in after
    <3>1. idle'[k] = 0 /\ n \in Nat
      BY <1>0, <1>3, <1>4, <2>2
    <3> QED
      BY <1>3, <1>6, <2>2, <3>1 DEF HadTurn
  <2> QED
    BY <2>1, <2>2
<1>9. /\ IsFiniteSet(before) /\ Cardinality(before) \in Nat
      /\ IsFiniteSet(after) /\ Cardinality(after) \in Nat
      /\ IsFiniteSet(T)
  <2>1. after \in SUBSET ahead[j] /\ IsFiniteSet(ahead[j])
    BY <1>0, <1>3, TurnsFinite DEF HadTurn
  <2>2. IsFiniteSet(before) /\ Cardinality(before) \in Nat
    BY <1>0, TurnsFinite
  <2> HIDE DEF after, before
  <2> QED
    BY <1>6, <2>1, <2>2, FS_Subset, FS_CardinalityType
<1>10. Cardinality(before \union T) = Cardinality(before) + ClaimCount
  <2>1. before \cap T = {}
    BY <1>7
  <2> HIDE DEF before
  <2>2. Cardinality(before \cap T) = 0
    BY <2>1, FS_EmptySet
  <2>3. Cardinality(before \union T)
          = Cardinality(before) + Cardinality(T) - Cardinality(before \cap T)
    BY <1>9, FS_Union
  <2> QED
    BY <1>0, <1>4, <1>9, <2>2, <2>3
<1>11. Cardinality(before \union T) <= Cardinality(after)
  <2> HIDE DEF before, after
  <2> QED
    BY <1>8, <1>9, FS_Subset
<1>12. n \in Nat /\ ClaimCount * n \in Nat /\ ClaimCount * (n + 1) = ClaimCount * n + ClaimCount
  BY <1>0
<1>13. ClaimCount * (n + 1) <= Cardinality(after)
  <2> HIDE DEF before, after, n
  <2> QED
    BY <1>0, <1>1, <1>9, <1>10, <1>11, <1>12
<1> QED
  BY <1>3, <1>13

LEMMA TurnsStep == PInv /\ [LoopNext]_loopVars => Turns'
<1> SUFFICES ASSUME PInv, [LoopNext]_loopVars PROVE Turns'
  OBVIOUS
<1>0. /\ LInv /\ LoopTypeOK /\ Seniors /\ PassedAreStale /\ Turns
      /\ pel \subseteq Jobs /\ pel \subseteq Handed
      /\ idle \in [Jobs -> 0..VisibilityTimeout] /\ passed \in [Jobs -> Nat]
      /\ ahead \in [Jobs -> SUBSET Jobs]
  BY DEF PInv, LInv, LoopTypeOK, QueueTypeOK, PendingHanded
<1>1. LoopTypeOK'
  BY <1>0, LoopTypeStep
<1> DEFINE Kept(j) ==
              \A k \in HadTurn(j) :
                 k \in pel' => idle'[k] < passed[j] + (IF swept' THEN 0 ELSE 1)
<1>2. ASSUME ahead' = ahead, passed' = passed, \A j \in Jobs : Kept(j)
      PROVE  Turns'
  <2>1. Capacity' = Capacity
    BY DEF Capacity, Rounds
  <2> SUFFICES ASSUME NEW j \in Jobs, Cardinality(ahead[j]) < Capacity
               PROVE  ClaimCount * passed'[j] <= Cardinality(HadTurn(j)')
    BY <1>2, <2>1 DEF Turns
  <2>2. ClaimCount * passed[j] <= Cardinality(HadTurn(j))
    BY <1>0 DEF Turns
  <2> QED
    BY <1>0, <1>1, <1>2, <2>2, TurnsKept
<1>3. ASSUME ahead' = ahead, passed' = passed, pel' = pel, idle' = idle,
             swept' = swept
      PROVE  Turns'
  <2>1. ASSUME NEW j \in Jobs PROVE Kept(j)
    BY <1>3 DEF HadTurn
  <2> HIDE DEF Kept
  <2> QED
    BY <1>2, <1>3, <2>1
<1>4. ASSUME NEW i \in Jobs, Produce(i) PROVE Turns'
  BY <1>3, <1>4 DEF Produce, Enqueue, historyVars
<1>5. ASSUME NEW i \in Jobs, ReadNew(i), ahead' = [ahead EXCEPT ![i] = pel],
             UNCHANGED <<swept, passed>>
      PROVE  Turns'
  <2>1. i \notin pel
    BY <1>0, <1>5, NextIsNew
  <2>2. /\ pel' = pel \union {i} /\ idle'[i] = 0
        /\ \A k \in Jobs \ {i} : idle'[k] = idle[k]
    BY <1>0, <1>5 DEF ReadNew
  <2> SUFFICES ASSUME NEW j \in Jobs, (Cardinality(ahead[j]) < Capacity)'
               PROVE  ClaimCount * passed'[j] <= Cardinality(HadTurn(j)')
    BY DEF Turns
  <2>3. CASE passed[j] = 0
    <3>1. passed'[j] = 0
      BY <1>5, <2>3
    <3> QED
      BY <1>1, <3>1, NotPassedOver
  <2>4. CASE passed[j] # 0
    <3>1. j # i
      BY <1>0, <2>1, <2>4 DEF PassedAreStale, Stale
    <3>2. ahead'[j] = ahead[j] /\ passed'[j] = passed[j]
      BY <1>0, <1>5, <3>1
    <3>3. Cardinality(ahead[j]) < Capacity
      BY <3>2 DEF Capacity, Rounds
    <3>4. ClaimCount * passed[j] <= Cardinality(HadTurn(j))
      BY <1>0, <3>3 DEF Turns
    <3>5. Kept(j)
      <4> SUFFICES ASSUME NEW k \in HadTurn(j), k \in pel'
                   PROVE  idle'[k] < passed[j] + (IF swept' THEN 0 ELSE 1)
        OBVIOUS
      <4>1. passed[j] \in Nat /\ passed[j] > 0
        BY <1>0, <2>4
      <4>2. CASE k = i
        BY <2>2, <4>1, <4>2
      <4>3. CASE k # i
        BY <1>0, <1>5, <2>2, <4>3 DEF HadTurn
      <4> QED
        BY <4>2, <4>3
    <3> QED
      BY <1>0, <1>1, <3>2, <3>4, <3>5, TurnsKept
  <2> QED
    BY <2>3, <2>4
<1>6. ASSUME NEW i \in Jobs, Finish(i) PROVE Turns'
  <2>1. /\ ahead' = ahead /\ swept' = swept /\ pel' = pel \ {i}
        /\ passed'[i] = 0
        /\ \A k \in Jobs \ {i} : idle'[k] = idle[k] /\ passed'[k] = passed[k]
    BY <1>0, <1>6 DEF Finish, Ack
  <2> SUFFICES ASSUME NEW j \in Jobs, Cardinality(ahead[j]) < Capacity
               PROVE  ClaimCount * passed'[j] <= Cardinality(HadTurn(j)')
    BY <2>1 DEF Turns, Capacity, Rounds
  <2>2. CASE j = i
    BY <1>1, <2>1, <2>2, NotPassedOver
  <2>3. CASE j # i
    <3>1. Kept(j)
      BY <1>0, <2>1 DEF HadTurn
    <3>2. ClaimCount * passed[j] <= Cardinality(HadTurn(j))
      BY <1>0 DEF Turns
    <3>3. ahead'[j] = ahead[j] /\ passed'[j] = passed[j]
      BY <2>1, <2>3
    <3> QED
      BY <1>0, <1>1, <3>1, <3>2, <3>3, TurnsKept
  <2> QED
    BY <2>2, <2>3
<1>7. ASSUME Sweep PROVE Turns'
  <2>1. ahead' = ahead
    BY <1>7 DEF Sweep
  <2> SUFFICES ASSUME NEW j \in Jobs, Cardinality(ahead[j]) < Capacity
               PROVE  ClaimCount * passed'[j] <= Cardinality(HadTurn(j)')
    BY <2>1 DEF Turns, Capacity, Rounds
  <2>2. CASE j \in Stale \ Claimable
    BY <1>1, <1>7, <2>2, PassOver
  <2>3. CASE j \notin Stale \ Claimable
    <3>1. passed'[j] = 0
      BY <1>7, <2>3 DEF Sweep
    <3> QED
      BY <1>1, <3>1, NotPassedOver
  <2> QED
    BY <2>2, <2>3
<1>8. ASSUME Period PROVE Turns'
  <2>1. /\ ahead' = ahead /\ passed' = passed /\ swept /\ ~swept' /\ pel' = pel
        /\ \A k \in Jobs : idle'[k] <= idle[k] + 1
    BY <1>0, <1>8 DEF Period, QueueTick, historyVars
  <2>2. ASSUME NEW j \in Jobs PROVE Kept(j)
    <3> SUFFICES ASSUME NEW k \in HadTurn(j), k \in pel'
                 PROVE  idle'[k] < passed[j] + (IF swept' THEN 0 ELSE 1)
      OBVIOUS
    <3>1. k \in Jobs /\ idle[k] < passed[j]
      BY <1>0, <2>1 DEF HadTurn
    <3>2. idle[k] \in Nat /\ idle'[k] \in Nat /\ passed[j] \in Nat
      BY <1>0, <1>1, <3>1 DEF LoopTypeOK, QueueTypeOK
    <3>3. idle'[k] <= idle[k] + 1
      BY <2>1, <3>1
    <3> QED
      BY <2>1, <3>1, <3>2, <3>3
  <2> HIDE DEF Kept
  <2> QED
    BY <1>2, <2>1, <2>2
<1>9. CASE UNCHANGED loopVars
  BY <1>3, <1>9 DEF loopVars, queueVars, historyVars
<1> QED
  BY <1>4, <1>5, <1>6, <1>7, <1>8, <1>9 DEF LoopNext, ReadLoop

\* PInv is inductive.
LEMMA PassAlways == LoopSpec => []PInv
<1>1. PInv /\ [LoopNext]_loopVars => PInv'
  BY LoopStep, SeniorsStep, PassedAreStaleStep, TurnsStep DEF PInv
<1> QED
  BY PassInit, <1>1, PTL DEF LoopSpec

\* However many messages there are, whatever is claimed and acknowledged and in
\* whichever order: a message handed out when fewer than Capacity others were
\* pending is left out by so many claims only as those others fill
\* (worker.go: recoverStaleLoop; streams.go: ClaimStale).
THEOREM StaleSoonClaimed == LoopSpec => []PassedOverRarely
<1>1. PInv => PassedOverRarely
  <2> SUFFICES ASSUME PInv, NEW j \in Jobs, Cardinality(ahead[j]) < Capacity
               PROVE  ClaimCount * passed[j] <= Cardinality(ahead[j])
    BY DEF PassedOverRarely
  <2>1. LoopTypeOK /\ Turns
    BY DEF PInv, LInv
  <2>2. ClaimCount * passed[j] <= Cardinality(HadTurn(j))
    BY <2>1 DEF Turns
  <2>3. ClaimCount * passed[j] \in Nat
    BY <2>1, QueueAssumption DEF LoopTypeOK
  <2> QED
    BY <2>1, <2>2, <2>3, TurnsFinite
<1> QED
  BY <1>1, PassAlways, PTL

\* So, once stale, such a message is left out by fewer than Rounds claims, although
\* every claim starts from "0-0" and looks at a part of the pending list only.
THEOREM ClaimedInTime ==
    LoopSpec => [](\A j \in Jobs :
                     Cardinality(ahead[j]) < Capacity => passed[j] < Rounds)
<1>1. LoopTypeOK /\ PassedOverRarely =>
        \A j \in Jobs :
          Cardinality(ahead[j]) < Capacity => passed[j] < Rounds
  <2> SUFFICES ASSUME LoopTypeOK, PassedOverRarely,
                      NEW j \in Jobs, Cardinality(ahead[j]) < Capacity
               PROVE  passed[j] < Rounds
    OBVIOUS
  <2>1. /\ passed[j] \in Nat /\ ClaimCount \in Nat /\ Rounds \in Nat
        /\ Cardinality(ahead[j]) \in Nat
    BY QueueAssumption, TurnsFinite, RoundsFacts DEF LoopTypeOK
  <2>2. ClaimCount * passed[j] <= Cardinality(ahead[j])
    BY DEF PassedOverRarely
  <2>3. ClaimCount * passed[j] \in Nat /\ ClaimCount * Rounds \in Nat
    BY <2>1
  <2>4. ClaimCount * passed[j] < ClaimCount * Rounds
    BY <2>1, <2>2, <2>3 DEF Capacity
  <2> QED
    BY <2>1, <2>4, CancelFactor
<1> QED
  BY <1>1, LoopTypeCorrect, StaleSoonClaimed, PTL
=============================================================================
