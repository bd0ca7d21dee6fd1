------------------------------ MODULE JobQueue ------------------------------
(***************************************************************************)
(* internal/queue/streams.go: the Redis stream signy:jobs:stream and its   *)
(* one consumer group.  A job id is enqueued at most once (it is a fresh   *)
(* UUID), so a stream entry is identified with its job.                    *)
(*                                                                         *)
(* The stream is append-only and never trimmed; `delivered` is the group's *)
(* last-delivered cursor, `pel` its pending entries list, and idle[j] the  *)
(* time since the pending entry j was last handed out, counted in ticks    *)
(* and capped at the visibility timeout.                                   *)
(***************************************************************************)
EXTENDS Naturals, Sequences, FiniteSets

CONSTANTS
    Jobs,               \* the job ids that may be enqueued
    VisibilityTimeout,  \* XAUTOCLAIM's MinIdle, in ticks
    ClaimCount,         \* XAUTOCLAIM's COUNT (5 in recoverStaleLoop)
    ScanFactor          \* XAUTOCLAIM looks at ScanFactor * COUNT entries (Redis: 10)

ASSUME QueueAssumption ==
    /\ IsFiniteSet(Jobs)
    /\ VisibilityTimeout \in Nat \ {0}
    /\ ClaimCount \in Nat \ {0}
    /\ ScanFactor \in Nat \ {0}

VARIABLES stream, delivered, pel, idle

queueVars == <<stream, delivered, pel, idle>>

Positions == 1..Len(stream)
InStream(j) == \E i \in Positions : stream[i] = j
\* Handed out at least once.
Handed == {stream[i] : i \in 1..delivered}
WasDelivered(j) == \E i \in 1..delivered : stream[i] = j
\* Delivered and acknowledged: the group will never hand it out again.
Acked(j) == WasDelivered(j) /\ j \notin pel

QueueTypeOK ==
    /\ stream \in Seq(Jobs)
    /\ delivered \in 0..Len(stream)
    /\ pel \in SUBSET Jobs
    /\ idle \in [Jobs -> 0..VisibilityTimeout]

\* EnsureGroup creates group and stream together, from entry "0".
QueueInit ==
    /\ stream = <<>>
    /\ delivered = 0
    /\ pel = {}
    /\ idle = [j \in Jobs |-> 0]

\* Producer.Enqueue: XADD.
Enqueue(j) ==
    /\ stream' = Append(stream, j)
    /\ UNCHANGED <<delivered, pel, idle>>

\* Mutant of ReadNew: starts from the newest entry, as a group created at "$".
ReadNewLatest(j) ==
    /\ delivered < Len(stream)
    /\ j = stream[Len(stream)]
    /\ delivered' = Len(stream)
    /\ pel' = pel \union {j}
    /\ idle' = [idle EXCEPT ![j] = 0]
    /\ UNCHANGED stream

\* Consumer.ReadNew(1): XREADGROUP ">" hands out the entry after the cursor.
ReadNew(j) ==
    /\ delivered < Len(stream)
    /\ j = stream[delivered + 1]
    /\ delivered' = delivered + 1
    /\ pel' = pel \union {j}
    /\ idle' = [idle EXCEPT ![j] = 0]
    /\ UNCHANGED stream

\* Mutant of Stale: the timeout is taken one tick too short.
StaleEarly == {j \in pel : idle[j] >= VisibilityTimeout - 1}

Stale == {j \in pel : idle[j] >= VisibilityTimeout}

Before(k, j) ==
    \E m, n \in Positions : m < n /\ stream[m] = k /\ stream[n] = j

PendingBefore(j) == {k \in pel : Before(k, j)}

\* Mutant of Scanned: the limit is the COUNT itself, as with XPENDING and XCLAIM.
ScannedFewer == {j \in pel : Cardinality(PendingBefore(j)) < ClaimCount}

\* The entries one XAUTOCLAIM from "0-0" looks at, those that are not stale among
\* them.  The cursor it returns is dropped: what lies beyond them is not reached.
Scanned == {j \in pel : Cardinality(PendingBefore(j)) < ScanFactor * ClaimCount}

\* Of these it takes the ClaimCount oldest stale ones.
Claimable ==
    {j \in Stale \intersect Scanned :
        Cardinality({k \in Stale : Before(k, j)}) < ClaimCount}

\* Consumer.ClaimStale.
ClaimStale(claimed) ==
    /\ claimed = Claimable
    /\ claimed # {}
    /\ idle' = [j \in Jobs |-> IF j \in claimed THEN 0 ELSE idle[j]]
    /\ UNCHANGED <<stream, delivered, pel>>

\* Consumer.Ack: XACK, a no-op on an entry that is no longer pending.
Ack(j) ==
    /\ pel' = pel \ {j}
    /\ idle' = [idle EXCEPT ![j] = 0]
    /\ UNCHANGED <<stream, delivered>>

\* Mutant of QueueTick: the cap is dropped.
QueueTickUncapped ==
    /\ idle' = [j \in Jobs |-> IF j \in pel THEN idle[j] + 1 ELSE idle[j]]
    /\ UNCHANGED <<stream, delivered, pel>>

\* A tick of the server's clock.
QueueTick ==
    /\ idle' = [j \in Jobs |->
                  IF j \in pel /\ idle[j] < VisibilityTimeout
                  THEN idle[j] + 1 ELSE idle[j]]
    /\ UNCHANGED <<stream, delivered, pel>>
=============================================================================
