----------------------------- MODULE Lifecycle -----------------------------
(***************************************************************************)
(* What a user is promised about a signing job, with no queue, worker or   *)
(* lock in sight (docs/architecture.md, SECURITY.md): a job is recorded,   *)
(* accepted once, worked on, possibly more than once if the process is     *)
(* restarted, and gets one outcome, which is final.                        *)
(***************************************************************************)
CONSTANT Jobs

VARIABLES status, accepted

lifeVars == <<status, accepted>>

Outcome == {"DONE", "FAILED"}

LifeInit == status = [j \in Jobs |-> "NONE"] /\ accepted = {}

Become(j, s) == status' = [status EXCEPT ![j] = s]

Record(j) == status[j] = "NONE" /\ Become(j, "QUEUED") /\ UNCHANGED accepted

Accept(j) ==
    /\ status[j] = "QUEUED"
    /\ j \notin accepted
    /\ accepted' = accepted \union {j}
    /\ UNCHANGED status

\* Work starts, or starts again after a restart.
Work(j) ==
    /\ j \in accepted
    /\ status[j] \in {"QUEUED", "SIGNING", "PUBLISHING"}
    /\ Become(j, "SIGNING")
    /\ UNCHANGED accepted

Advance(j) ==
    /\ \/ status[j] = "SIGNING" /\ Become(j, "PUBLISHING")
       \/ status[j] = "SIGNING" /\ Become(j, "FAILED")
       \/ status[j] = "PUBLISHING" /\ Become(j, "DONE")
    /\ UNCHANGED accepted

LifeNext == \E j \in Jobs : Record(j) \/ Accept(j) \/ Work(j) \/ Advance(j)

LifeSpec == LifeInit /\ [][LifeNext]_lifeVars

\* An accepted job gets its outcome.
Ends == \A j \in Jobs : j \in accepted ~> status[j] \in Outcome
=============================================================================
