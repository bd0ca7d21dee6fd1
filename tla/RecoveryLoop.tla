---------------------------- MODULE RecoveryLoop ----------------------------
(***************************************************************************)
(* The stream between any producers and the worker's two reading loops     *)
(* (worker.go Run and recoverStaleLoop), for the pace of recovery: one     *)
(* tick is the period of recoverStaleLoop's ticker, and every period has   *)
(* one XAUTOCLAIM.  Whether a message that was handed out is ever          *)
(* acknowledged is left open: processMessage returns without an Ack when   *)
(* the user lock is taken, and a crash forgets the message.                *)
(***************************************************************************)
EXTENDS JobQueue

VARIABLES
    got,      \* messages the last step handed out
    swept,    \* the claim of this period was made
    ahead,    \* what was pending when the message was first handed out
    passed    \* how many claims in a row left the stale message out

historyVars == <<ahead, passed>>
loopVars == <<queueVars, got, swept, historyVars>>

LoopInit ==
    /\ QueueInit
    /\ got = {} /\ swept = FALSE
    /\ ahead = [j \in Jobs |-> {}]
    /\ passed = [j \in Jobs |-> 0]

Produce(j) ==
    ~InStream(j) /\ Enqueue(j) /\ got' = {} /\ UNCHANGED <<swept, historyVars>>

ReadLoop ==
    /\ \E j \in Jobs :
        ReadNew(j) /\ got' = {j} /\ ahead' = [ahead EXCEPT ![j] = pel]
    /\ UNCHANGED <<swept, passed>>

Finish(j) ==
    /\ j \in pel
    /\ Ack(j)
    /\ got' = {}
    /\ passed' = [passed EXCEPT ![j] = 0]
    /\ UNCHANGED <<swept, ahead>>

\* Counts as far as VisibilityTimeout, enough for the properties.
OneMore(n) == IF n < VisibilityTimeout THEN n + 1 ELSE n

\* One round of recoverStaleLoop: nothing to claim, or a claim.
Sweep ==
    /\ ~swept
    /\ swept' = TRUE
    /\ \/ Claimable = {} /\ got' = {} /\ UNCHANGED queueVars
       \/ ClaimStale(Claimable) /\ got' = Claimable
    /\ passed' = [j \in Jobs |->
                    IF j \in Stale \ Claimable THEN OneMore(passed[j]) ELSE 0]
    /\ UNCHANGED ahead

Period == swept /\ swept' = FALSE /\ QueueTick /\ got' = {} /\ UNCHANGED historyVars

LoopNext ==
    \/ \E j \in Jobs : Produce(j) \/ Finish(j)
    \/ ReadLoop
    \/ Sweep
    \/ Period

LoopSpec == LoopInit /\ [][LoopNext]_loopVars

\* Both loops run for as long as the process lives.
LoopFairSpec ==
    LoopSpec /\ WF_loopVars(ReadLoop) /\ WF_loopVars(Sweep) /\ WF_loopVars(Period)

-----------------------------------------------------------------------------
\* Every variable has its type.
LoopTypeOK ==
    /\ QueueTypeOK
    /\ got \in SUBSET Jobs
    /\ swept \in BOOLEAN
    /\ ahead \in [Jobs -> SUBSET Jobs]
    /\ passed \in [Jobs -> 0..VisibilityTimeout]

Contract == INSTANCE Delivery WITH
    Messages <- Jobs, sent <- stream, handed <- Handed, settled <- Handed \ pel

\* XREADGROUP, XAUTOCLAIM and XACK as streams.go uses them are at-least-once
\* delivery: first deliveries in order, and no delivery after the Ack.
AtLeastOnce == Contract!DeliverySpec

\* How many claims follow one another before the entry taken first is stale again,
\* or beyond which XAUTOCLAIM does not look, and what they cover together.
Rounds == IF VisibilityTimeout < ScanFactor THEN VisibilityTimeout ELSE ScanFactor
Capacity == ClaimCount * Rounds

\* A message that was first handed out when fewer than Capacity others were
\* pending waits in a queue of its own: of those, ClaimCount are taken by every
\* claim that leaves it out, and none comes round again before it is its turn.
\* So although every claim starts from "0-0" and looks at the oldest entries only,
\* such a message, once stale, is left out by fewer than Rounds claims.
PassedOverRarely ==
    \A j \in Jobs :
        Cardinality(ahead[j]) < Capacity =>
            ClaimCount * passed[j] <= Cardinality(ahead[j])

\* Such a message is handed out again if nobody acknowledges it: the older ones
\* cannot keep it waiting for ever.  (Behind Capacity others they can: those never
\* acknowledged are claimed again and again and the dropped cursor is what would
\* lead past them.)
NoMessageForgotten ==
    \A j \in Jobs :
        j \in Stale /\ Cardinality(ahead[j]) < Capacity ~> j \notin Stale
=============================================================================
