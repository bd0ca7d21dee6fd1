----------------------------- MODULE JobManager -----------------------------
(***************************************************************************)
(* internal/job/manager.go: job records (Redis hashes), the per-user lock, *)
(* the per-user list of recent jobs and the artifact directories, with the *)
(* two multi-command operations, CreateAndEnqueue and DeleteJob, taken one *)
(* command at a time.  A Redis command may fail while the fault budget     *)
(* lasts; what the code does with the error is in each action.             *)
(***************************************************************************)
EXTENDS JobQueue

CONSTANTS
    Users,
    Owner,        \* Owner[j] is the user job j is created for
    Deletable,    \* the jobs an administrator may delete
    LockTTL,      \* TTL of signy:user_lock:<user>, in ticks
    MaxRetries,   \* 3 in processMessage
    ListLimit,    \* 50 in CreateAndEnqueue
    MaxFaults     \* bound on failed Redis commands

ASSUME JobAssumption ==
    /\ Owner \in [Jobs -> Users]
    /\ Deletable \in SUBSET Jobs
    /\ LockTTL \in Nat \ {0}
    /\ MaxRetries \in Nat
    /\ ListLimit \in Nat \ {0}
    /\ MaxFaults \in Nat

VARIABLES
    jobs,      \* signy:job:<id>; NoJob when the key is absent
    lock,      \* remaining TTL of the user's lock, 0 when the key is absent
    listPos,   \* place of a job in its owner's list, 1 the newest, 0 absent
    dirs,      \* jobs whose artifact directory exists
    submit,    \* progress of CreateAndEnqueue
    removal,   \* progress of DeleteJob
    faults     \* Redis commands failed so far

jobVars == <<jobs, lock, listPos, dirs, submit, removal>>

Terminal == {"DONE", "FAILED"}
Statuses == {"QUEUED", "SIGNING", "PUBLISHING"} \union Terminal
Records == [status : Statuses \union {"NONE"}, retry : 0..MaxRetries]
NoJob == [status |-> "NONE", retry |-> 0]

Ended(j) == jobs[j].status \in Terminal
\* The job was saved once and its key is absent now.
Deleted(j) == submit[j] \notin {"new", "rejected"} /\ jobs[j] = NoJob

JobTypeOK ==
    /\ jobs \in [Jobs -> Records]
    /\ lock \in [Users -> 0..LockTTL]
    /\ listPos \in [Jobs -> 0..ListLimit]
    /\ dirs \in SUBSET Jobs
    /\ submit \in [Jobs -> {"new", "list", "enqueue", "accepted", "answered", "rejected", "lost"}]
    /\ removal \in [Jobs -> {"no", "del", "unlist", "files"}]
    /\ faults \in 0..MaxFaults

JobInit ==
    /\ jobs = [j \in Jobs |-> NoJob]
    /\ lock = [u \in Users |-> 0]
    /\ listPos = [j \in Jobs |-> 0]
    /\ dirs = {}
    /\ submit = [j \in Jobs |-> "new"]
    /\ removal = [j \in Jobs |-> "no"]
    /\ faults = 0

\* A Redis command fails.
Fault == faults < MaxFaults /\ faults' = faults + 1

\* saveJob: HSET of every field from the caller's copy, whatever the key
\* holds by now.  Its callers in the worker ignore the error.
SaveJob(j, record) ==
    \/ jobs' = [jobs EXCEPT ![j] = record] /\ UNCHANGED faults
    \/ Fault /\ UNCHANGED jobs

-----------------------------------------------------------------------------
(* CreateAndEnqueue                                                        *)

\* EnsureDir, then saveJob; an error returns before anything else is done.
CreateJob(j) ==
    /\ submit[j] = "new"
    /\ dirs' = dirs \union {j}
    /\ \/ /\ jobs' = [jobs EXCEPT ![j] = [status |-> "QUEUED", retry |-> 0]]
          /\ submit' = [submit EXCEPT ![j] = "list"]
          /\ UNCHANGED faults
       \/ /\ Fault
          /\ submit' = [submit EXCEPT ![j] = "rejected"]
          /\ UNCHANGED jobs
    /\ UNCHANGED <<lock, listPos, removal>>

\* LPUSH, then LTRIM 0 (ListLimit - 1): the others move down, the last drops.
Pushed(j) ==
    [k \in Jobs |->
        IF k = j THEN 1
        ELSE IF Owner[k] # Owner[j] \/ listPos[k] = 0 THEN listPos[k]
        ELSE IF listPos[k] < ListLimit THEN listPos[k] + 1 ELSE 0]

\* The errors of both list commands are dropped.
ListJob(j) ==
    /\ submit[j] = "list"
    /\ submit' = [submit EXCEPT ![j] = "enqueue"]
    /\ \/ listPos' = Pushed(j) /\ UNCHANGED faults
       \/ Fault /\ UNCHANGED listPos
    /\ UNCHANGED <<jobs, lock, dirs, removal>>

\* An error leaves the QUEUED record behind with no stream entry.
EnqueueJob(j) ==
    /\ submit[j] = "enqueue"
    /\ \/ /\ Enqueue(j)
          /\ submit' = [submit EXCEPT ![j] = "accepted"]
          /\ UNCHANGED faults
       \/ /\ Fault
          /\ submit' = [submit EXCEPT ![j] = "rejected"]
          /\ UNCHANGED queueVars
    /\ UNCHANGED <<jobs, lock, listPos, dirs, removal>>

-----------------------------------------------------------------------------
(* DeleteJob                                                               *)

StartDelete(j) ==
    /\ j \in Deletable
    /\ removal[j] = "no"
    /\ jobs[j] # NoJob
    /\ removal' = [removal EXCEPT ![j] = "del"]
    /\ UNCHANGED <<jobs, lock, listPos, dirs, submit, faults>>

DeleteRecord(j) ==
    /\ removal[j] = "del"
    /\ removal' = [removal EXCEPT ![j] = "unlist"]
    /\ SaveJob(j, NoJob)
    /\ UNCHANGED <<lock, listPos, dirs, submit>>

\* LREM: the entries behind it move up.
Removed(j) ==
    [k \in Jobs |->
        IF k = j THEN 0
        ELSE IF Owner[k] = Owner[j] /\ listPos[j] > 0 /\ listPos[k] > listPos[j]
        THEN listPos[k] - 1 ELSE listPos[k]]

UnlistJob(j) ==
    /\ removal[j] = "unlist"
    /\ removal' = [removal EXCEPT ![j] = "files"]
    /\ \/ listPos' = Removed(j) /\ UNCHANGED faults
       \/ Fault /\ UNCHANGED listPos
    /\ UNCHANGED <<jobs, lock, dirs, submit>>

RemoveFiles(j) ==
    /\ removal[j] = "files"
    /\ removal' = [removal EXCEPT ![j] = "no"]
    /\ dirs' = dirs \ {j}
    /\ UNCHANGED <<jobs, lock, listPos, submit, faults>>

-----------------------------------------------------------------------------
(* The user lock                                                           *)

\* Mutants of TakeLock: the TTL without its margin; SET without NX.
TakeLockShort(u) == lock[u] = 0 /\ lock' = [lock EXCEPT ![u] = LockTTL - 1]
TakeLockAlways(u) == lock' = [lock EXCEPT ![u] = LockTTL]

\* TryAcquireUserLock: SET NX with a TTL.
TakeLock(u) == lock[u] = 0 /\ lock' = [lock EXCEPT ![u] = LockTTL]

\* ReleaseUserLock: an unconditional DEL, whoever set the key.
DropLock(u) == lock' = [lock EXCEPT ![u] = 0]

LockTick == lock' = [u \in Users |-> IF lock[u] > 0 THEN lock[u] - 1 ELSE 0]

\* The process dies: requests in progress are cut off between two commands.
CutRequests ==
    /\ submit' = [j \in Jobs |->
                    IF submit[j] \in {"list", "enqueue"} THEN "lost" ELSE submit[j]]
    /\ removal' = [j \in Jobs |-> "no"]
=============================================================================
