------------------------------- MODULE Worker -------------------------------
(***************************************************************************)
(* internal/worker/worker.go: the read loop and its semaphore, the stale   *)
(* message loop, and processMessage, run by one goroutine per delivery and *)
(* taken one Redis command at a time.  A task <<j, s>> is a goroutine that *)
(* processes a delivery of job j: slot Pool for the first delivery, which  *)
(* the read loop makes and the semaphore counts, any other slot for a      *)
(* delivery claimed by recoverStaleLoop.                                   *)
(*                                                                         *)
(* Time is counted in ticks.  StartBound bounds the time from the start of *)
(* a goroutine to its lock attempt, HoldBound the time from taking the     *)
(* lock to releasing it: the signing timeout and the Redis commands around *)
(* it.  worker.go:193 sets the lock's TTL to the signing timeout plus 60 s *)
(* so that HoldBound < LockTTL.                                            *)
(***************************************************************************)
EXTENDS JobManager

CONSTANTS
    Pool,               \* the slot of first deliveries
    Recovered,          \* slots of claimed deliveries: bounds overlapping ones
    WorkerConcurrency,  \* capacity of the semaphore
    StartBound, HoldBound,
    HasMasterKey,       \* config.HasMasterKey()
    DylibJobs,          \* jobs submitted with dylibs to inject
    MaxCrashes          \* bound on the ends of the process

ASSUME WorkerAssumption ==
    /\ Pool \notin Recovered
    /\ IsFiniteSet(Recovered)
    /\ WorkerConcurrency \in Nat \ {0}
    /\ StartBound \in Nat
    /\ HoldBound \in Nat
    /\ HoldBound < LockTTL
    /\ HasMasterKey \in BOOLEAN
    /\ DylibJobs \in SUBSET Jobs
    /\ MaxCrashes \in Nat

VARIABLES
    pc,       \* the command a task is about to issue, "idle" if there is none
    copy,     \* the job as the task read it and changed it since (Go's j)
    timer,    \* ticks since delivery, since the start, or since the lock
    holders,  \* tasks that were told they have the user lock
    dylibs,   \* jobs whose uploaded dylibs are still in incoming/
    signed,   \* what a job's artifact directory has at signed.ipa
    token,    \* jobs with a password at signy:job_pass_token:<id>
    told,     \* last status published on signy:job:events
    crashes

taskVars == <<pc, copy, timer, holders>>
fileVars == <<dylibs, signed>>
vars == <<queueVars, jobVars, faults, taskVars, fileVars, token, told, crashes>>

Slots == {Pool} \union Recovered
Tasks == Jobs \X Slots
JobOf(t) == t[1]
UserOf(t) == Owner[JobOf(t)]

\* Commands before the lock attempt (the read loop still holds "sem") and
\* commands issued with the lock's release deferred.
Starting == {"get", "lock"}
Early == Starting \union {"sem"}
Signing == {"signing", "token", "delToken", "sign", "publishing", "meta",
            "done", "pubDone", "ackDone", "retry", "release"}
Failing == {"fail", "ackFailed", "pubFail"}
Commands == Early \union Signing \union Failing \union {"drop", "cleanup", "idle"}

\* What may be found at signed.ipa: a spoilt file is whatever a zsign wrote that
\* failed or was cut off.
Contents == {"absent", "whole", "spoilt"}

Active(t) == pc[t] # "idle"
InPool(t) == t[2] = Pool /\ pc[t] \notin {"idle", "sem"}
PoolSize == Cardinality({t \in Tasks : InPool(t)})

WorkerTypeOK ==
    /\ pc \in [Tasks -> Commands]
    /\ copy \in [Tasks -> Records]
    /\ timer \in [Tasks -> Nat]
    /\ holders \in SUBSET Tasks
    /\ dylibs \in SUBSET Jobs
    /\ signed \in [Jobs -> Contents]
    /\ token \in SUBSET Jobs
    /\ told \in [Jobs -> Statuses \union {"NONE"}]
    /\ crashes \in 0..MaxCrashes

Init ==
    /\ QueueInit
    /\ JobInit
    /\ pc = [t \in Tasks |-> "idle"]
    /\ copy = [t \in Tasks |-> NoJob]
    /\ timer = [t \in Tasks |-> 0]
    /\ holders = {}
    /\ dylibs = DylibJobs
    /\ signed = [j \in Jobs |-> "absent"]
    /\ token = {}
    /\ told = [j \in Jobs |-> "NONE"]
    /\ crashes = 0

Goto(t, command) == pc' = [pc EXCEPT ![t] = command]

\* The goroutine returns.
Return(t) ==
    /\ pc' = [pc EXCEPT ![t] = "idle"]
    /\ copy' = [copy EXCEPT ![t] = NoJob]
    /\ timer' = [timer EXCEPT ![t] = 0]

-----------------------------------------------------------------------------
(* Run: the read loop holds one delivered message until the semaphore has  *)
(* room for it, and reads no other meanwhile.                              *)

ReadMessage(j) ==
    /\ \A t \in Tasks : pc[t] # "sem"
    /\ ReadNew(j)
    /\ \/ Goto(<<j, Pool>>, "sem") /\ UNCHANGED faults
       \/ Fault /\ UNCHANGED pc    \* the reply is lost: pending, with no task
    /\ UNCHANGED <<jobVars, copy, timer, holders, fileVars, token, told, crashes>>

StartPooled(t) ==
    /\ pc[t] = "sem"
    /\ PoolSize < WorkerConcurrency
    /\ Goto(t, "get")
    /\ timer' = [timer EXCEPT ![t] = 0]
    /\ UNCHANGED <<queueVars, jobVars, faults, copy, holders, fileVars, token,
                   told, crashes>>

\* recoverStaleLoop: a goroutine per claimed message, with no semaphore.
RecoverStale ==
    \E claimed \in SUBSET Stale, s \in [Jobs -> Recovered] :
        /\ ClaimStale(claimed)
        /\ \A j \in claimed : ~Active(<<j, s[j]>>)
        /\ \/ /\ pc' = [t \in Tasks |->
                          IF JobOf(t) \in claimed /\ t[2] = s[JobOf(t)]
                          THEN "get" ELSE pc[t]]
              /\ UNCHANGED faults
           \/ Fault /\ UNCHANGED pc    \* the reply is lost
        /\ UNCHANGED <<jobVars, copy, timer, holders, fileVars, token, told,
                       crashes>>

-----------------------------------------------------------------------------
(* processMessage, up to the user lock                                     *)

\* What GetJob and the checks after it change, for a choice of the next command.
ReadAndChoose(t, next) ==
    /\ pc[t] = "get"
    /\ \/ /\ copy' = [copy EXCEPT ![t] = jobs[JobOf(t)]]
          /\ Goto(t, next)
          /\ UNCHANGED faults
       \/ Fault /\ Goto(t, "drop") /\ UNCHANGED copy
    /\ UNCHANGED <<queueVars, jobVars, timer, holders, fileVars, token, told,
                   crashes>>

Exhausted(j) == jobs[j].retry >= MaxRetries

\* Mutants of GetJob: no check for a terminal job; an absent key read as a blank
\* job; one retry too many.
GetJobRepeat(t) ==
    ReadAndChoose(t, IF jobs[JobOf(t)] = NoJob THEN "drop"
                     ELSE IF Exhausted(JobOf(t)) THEN "fail" ELSE "lock")
GetJobBlank(t) ==
    ReadAndChoose(t, IF Ended(JobOf(t)) THEN "drop"
                     ELSE IF Exhausted(JobOf(t)) THEN "fail" ELSE "lock")
GetJobRetryMore(t) ==
    ReadAndChoose(t, IF jobs[JobOf(t)] = NoJob \/ Ended(JobOf(t)) THEN "drop"
                     ELSE IF jobs[JobOf(t)].retry > MaxRetries THEN "fail"
                     ELSE "lock")

\* GetJob and the checks on what it returned.  Any error, a lost connection
\* as well as an absent key, leads to an Ack.
GetJob(t) ==
    ReadAndChoose(t, IF jobs[JobOf(t)] = NoJob \/ Ended(JobOf(t)) THEN "drop"
                     ELSE IF Exhausted(JobOf(t)) THEN "fail" ELSE "lock")

AckOrNot(j) ==
    \/ Ack(j) /\ UNCHANGED faults
    \/ Fault /\ UNCHANGED queueVars

\* Ack of a job that could not be read or is terminal already.  The dylib
\* clean-up is deferred only once a job was read.
Drop(t) ==
    /\ pc[t] = "drop"
    /\ AckOrNot(JobOf(t))
    /\ IF copy[t] = NoJob
       THEN Return(t)
       ELSE Goto(t, "cleanup") /\ UNCHANGED <<copy, timer>>
    /\ UNCHANGED <<jobVars, holders, fileVars, token, told, crashes>>

\* The lock attempt, for a choice of the command that follows a refusal.
AcquireOr(t, refused) ==
    /\ pc[t] = "lock"
    /\ \/ /\ TakeLock(UserOf(t))
          /\ holders' = holders \union {t}
          /\ timer' = [timer EXCEPT ![t] = 0]
          /\ Goto(t, "signing")
          /\ UNCHANGED faults
       \/ /\ \/ lock[UserOf(t)] > 0 /\ UNCHANGED <<lock, faults>>
             \/ Fault /\ (TakeLock(UserOf(t)) \/ UNCHANGED lock)
          /\ Goto(t, refused)
          /\ UNCHANGED <<holders, timer>>
    /\ UNCHANGED <<queueVars, jobs, listPos, dirs, submit, removal, copy,
                   fileVars, token, told, crashes>>

\* Mutant of AcquireLock: the message is acknowledged on refusal.
AcquireLockOrAck(t) == AcquireOr(t, "drop")

\* TryAcquireUserLock.  Not acquired: return without an Ack.  A lost reply
\* counts as not acquired although the key may be set.
AcquireLock(t) == AcquireOr(t, "cleanup")

-----------------------------------------------------------------------------
(* processMessage, holding the user lock                                   *)

\* UpdateStatus, SetFailed and IncrementRetry change the copy and save it
\* whole; the copy keeps the change when the save fails.
SaveCopy(t, record) ==
    /\ copy' = [copy EXCEPT ![t] = record]
    /\ SaveJob(JobOf(t), record)
    /\ UNCHANGED <<lock, listPos, dirs, submit, removal>>

WithStatus(t, status) == [copy[t] EXCEPT !.status = status]
Tell(j, status) == told' = [told EXCEPT ![j] = status]

\* UpdateStatus(SIGNING) and its event, whose loss makes no difference here.
SaveSigning(t) ==
    /\ pc[t] = "signing"
    /\ SaveCopy(t, WithStatus(t, "SIGNING"))
    /\ Tell(JobOf(t), "SIGNING")
    /\ Goto(t, IF HasMasterKey THEN "sign" ELSE "token")
    /\ UNCHANGED <<queueVars, timer, holders, fileVars, token, crashes>>

\* GET of the one-time password; missing or unreadable means NO_PASSWORD.
GetToken(t) ==
    /\ pc[t] = "token"
    /\ \/ JobOf(t) \in token /\ Goto(t, "delToken") /\ UNCHANGED faults
       \/ JobOf(t) \notin token /\ Goto(t, "fail") /\ UNCHANGED faults
       \/ Fault /\ Goto(t, "fail")
    /\ UNCHANGED <<queueVars, jobVars, copy, timer, holders, fileVars, token,
                   told, crashes>>

\* Mutant of DelToken: the token is left to its TTL.
DelTokenNever(t) ==
    /\ pc[t] = "delToken"
    /\ Goto(t, "sign")
    /\ UNCHANGED <<queueVars, jobVars, faults, copy, timer, holders, fileVars,
                   token, told, crashes>>

DelToken(t) ==
    /\ pc[t] = "delToken"
    /\ \/ token' = token \ {JobOf(t)} /\ UNCHANGED faults
       \/ Fault /\ UNCHANGED token
    /\ Goto(t, "sign")
    /\ UNCHANGED <<queueVars, jobVars, copy, timer, holders, fileVars, told,
                   crashes>>

\* What is at signed.ipa after a zsign that did, or did not, get to its end; it
\* writes into an existing directory or not at all.
Finished(j) == IF j \in dirs THEN {"whole", signed[j]} ELSE {signed[j]}
Unfinished(j) == IF j \in dirs THEN {"absent", "spoilt", signed[j]} ELSE {signed[j]}

\* A run of zsign, for a choice of what a success may leave.
SignLeaving(t, results) ==
    /\ pc[t] = "sign"
    /\ \/ /\ \E c \in results : signed' = [signed EXCEPT ![JobOf(t)] = c]
          /\ Goto(t, "publishing")
       \/ /\ \E c \in Unfinished(JobOf(t)) : signed' = [signed EXCEPT ![JobOf(t)] = c]
          /\ Goto(t, "retry")
    /\ UNCHANGED <<queueVars, jobVars, faults, copy, timer, holders, dylibs,
                   token, told, crashes>>

\* Mutant of Sign: success without the look at signed.ipa.
SignUnverified(t) == SignLeaving(t, Finished(JobOf(t)))

\* Signer.Sign.  Success is exit code 0 and a signed.ipa: the one zsign wrote or,
\* if it wrote none, what an earlier run left there, in whatever state.  Anything
\* else is a failure.
Sign(t) == SignLeaving(t, Finished(JobOf(t)) \ {"absent"})

\* UpdateStatus(PUBLISHING) and its event.
SavePublishing(t) ==
    /\ pc[t] = "publishing"
    /\ SaveCopy(t, WithStatus(t, "PUBLISHING"))
    /\ Tell(JobOf(t), "PUBLISHING")
    /\ Goto(t, "meta")
    /\ UNCHANGED <<queueVars, timer, holders, fileVars, token, crashes>>

\* WriteJobMeta: WriteFile creates the directory again if it is gone.
WriteMeta(t) ==
    /\ pc[t] = "meta"
    /\ dirs' = dirs \union {JobOf(t)}
    /\ Goto(t, "done")
    /\ UNCHANGED <<queueVars, jobs, lock, listPos, submit, removal, faults, copy,
                   timer, holders, fileVars, token, told, crashes>>

SaveDone(t) ==
    /\ pc[t] = "done"
    /\ SaveCopy(t, WithStatus(t, "DONE"))
    /\ Goto(t, "pubDone")
    /\ UNCHANGED <<queueVars, timer, holders, fileVars, token, told, crashes>>

IncrementRetry(t) ==
    /\ pc[t] = "retry"
    /\ SaveCopy(t, [copy[t] EXCEPT !.retry = @ + 1])
    /\ Goto(t, "fail")
    /\ UNCHANGED <<queueVars, timer, holders, fileVars, token, told, crashes>>

\* SetFailed: MAX_RETRIES (no lock held), NO_PASSWORD or SIGN_ERROR.
SaveFailed(t) ==
    /\ pc[t] = "fail"
    /\ SaveCopy(t, WithStatus(t, "FAILED"))
    /\ Goto(t, "ackFailed")
    /\ UNCHANGED <<queueVars, timer, holders, fileVars, token, told, crashes>>

\* What follows the handler's body: the deferred calls, last deferred first.
Deferred(t) == IF t \in holders THEN "release" ELSE "cleanup"

\* Mutant of Publish: the failure is not published.
PublishSuccess(t) ==
    /\ \/ pc[t] = "pubDone" /\ Goto(t, "ackDone") /\ Tell(JobOf(t), copy[t].status)
       \/ pc[t] = "pubFail" /\ Goto(t, Deferred(t)) /\ UNCHANGED told
    /\ UNCHANGED <<queueVars, jobVars, faults, copy, timer, holders, fileVars,
                   token, crashes>>

\* PublishJobEvent of the outcome: before the Ack of a success, after the Ack
\* of a failure.
Publish(t) ==
    /\ \/ pc[t] = "pubDone" /\ Goto(t, "ackDone")
       \/ pc[t] = "pubFail" /\ Goto(t, Deferred(t))
    /\ \/ Tell(JobOf(t), copy[t].status) /\ UNCHANGED faults
       \/ Fault /\ UNCHANGED told
    /\ UNCHANGED <<queueVars, jobVars, copy, timer, holders, fileVars, token,
                   crashes>>

AckMessage(t) ==
    /\ \/ pc[t] = "ackDone" /\ Goto(t, Deferred(t))
       \/ pc[t] = "ackFailed" /\ Goto(t, "pubFail")
    /\ AckOrNot(JobOf(t))
    /\ UNCHANGED <<jobVars, copy, timer, holders, fileVars, token, told, crashes>>

ReleaseLock(t) ==
    /\ pc[t] = "release"
    /\ \/ DropLock(UserOf(t)) /\ UNCHANGED faults
       \/ Fault /\ UNCHANGED lock
    /\ holders' = holders \ {t}
    /\ Goto(t, "cleanup")
    /\ UNCHANGED <<queueVars, jobs, listPos, dirs, submit, removal, copy, timer,
                   fileVars, token, told, crashes>>

\* The clean-up deferred at worker.go:169, on whatever path the task returns.
RemoveDylibs(t) ==
    /\ pc[t] = "cleanup"
    /\ dylibs' = dylibs \ {JobOf(t)}
    /\ Return(t)
    /\ UNCHANGED <<queueVars, jobVars, faults, holders, signed, token, told,
                   crashes>>

-----------------------------------------------------------------------------
(* The process ends and is started again; Redis and the files stay.        *)

\* Tasks past GetJob: their deferred dylib clean-up is registered.
At(commands) == {t \in Tasks : pc[t] \in commands}
Cleaning == {t \in Tasks : pc[t] \notin {"idle", "sem", "get"} /\ copy[t] # NoJob}

\* zsign dies with the process, part of its output written.  A crash runs
\* no deferred call.  On SIGTERM the cancelled context makes every later Redis
\* command fail, and the tasks go on to their return: the pooled ones, which
\* Run waits for, have done so when the process exits, the recovered ones may
\* have; they write meta.json if it is still to come and remove their dylibs.
Stop ==
    /\ crashes < MaxCrashes
    /\ crashes' = crashes + 1
    /\ signed' \in {left \in [Jobs -> Contents] : \A j \in Jobs :
                      IF j \in {JobOf(t) : t \in At({"sign"})}
                      THEN left[j] \in Unfinished(j) ELSE left[j] = signed[j]}
    /\ \/ UNCHANGED <<dylibs, dirs>>
       \/ \E returned \in SUBSET Cleaning :
            /\ {t \in Cleaning : t[2] = Pool} \subseteq returned
            /\ dylibs' = dylibs \ {JobOf(t) : t \in returned}
            /\ dirs' = dirs \union
                         {JobOf(t) : t \in returned \intersect At({"publishing", "meta"})}
    /\ pc' = [t \in Tasks |-> "idle"]
    /\ copy' = [t \in Tasks |-> NoJob]
    /\ timer' = [t \in Tasks |-> 0]
    /\ holders' = {}
    /\ CutRequests
    /\ UNCHANGED <<queueVars, jobs, lock, listPos, faults, token, told>>

-----------------------------------------------------------------------------
(* Time                                                                    *)

\* Time passes while a task stays within its bound; a goroutine whose
\* semaphore slot is free starts, and local clean-up ends, within a tick.
MayWait(t) ==
    \/ pc[t] = "idle"
    \/ pc[t] = "sem" /\ PoolSize >= WorkerConcurrency
    \/ t \in holders /\ timer[t] < HoldBound
    \/ pc[t] \in Starting \union Failing \union {"drop"} /\ t \notin holders
       /\ timer[t] < StartBound

Tick ==
    /\ \A t \in Tasks : MayWait(t)
    /\ QueueTick
    /\ LockTick
    /\ timer' = [t \in Tasks |-> IF Active(t) THEN timer[t] + 1 ELSE 0]
    /\ UNCHANGED <<jobs, listPos, dirs, submit, removal, faults, pc, copy,
                   holders, fileVars, token, told, crashes>>

-----------------------------------------------------------------------------
(* The callers: the bot and the web server                                 *)

\* handleJobConfirm, after CreateAndEnqueue returned: without a MASTER_KEY the
\* password is stored for the worker.  A job created on the web gets none.
GiveToken(j) ==
    /\ ~HasMasterKey
    /\ submit[j] = "accepted"
    /\ submit' = [submit EXCEPT ![j] = "answered"]
    /\ \/ token' = token \union {j} /\ UNCHANGED faults
       \/ Fault /\ UNCHANGED token
    /\ UNCHANGED <<queueVars, jobs, lock, listPos, dirs, removal, taskVars,
                   fileVars, told, crashes>>

\* The 10 minutes of the token are over.
TokenExpires(j) ==
    /\ j \in token
    /\ token' = token \ {j}
    /\ UNCHANGED <<queueVars, jobVars, faults, taskVars, fileVars, told, crashes>>

Submit(j) ==
    /\ \/ (CreateJob(j) \/ ListJob(j)) /\ UNCHANGED queueVars
       \/ EnqueueJob(j)
    /\ UNCHANGED <<taskVars, fileVars, token, told, crashes>>

Delete(j) ==
    /\ \/ StartDelete(j) \/ DeleteRecord(j) \/ UnlistJob(j)
       \/ RemoveFiles(j)
    /\ signed' = IF removal[j] = "files" THEN [signed EXCEPT ![j] = "absent"]
                 ELSE signed
    /\ UNCHANGED <<queueVars, taskVars, dylibs, token, told, crashes>>

Process(t) ==
    \/ StartPooled(t) \/ GetJob(t) \/ Drop(t) \/ AcquireLock(t)
    \/ SaveSigning(t) \/ GetToken(t) \/ DelToken(t) \/ Sign(t)
    \/ SavePublishing(t) \/ WriteMeta(t) \/ SaveDone(t)
    \/ IncrementRetry(t) \/ SaveFailed(t)
    \/ Publish(t) \/ AckMessage(t) \/ ReleaseLock(t) \/ RemoveDylibs(t)

Next ==
    \/ \E j \in Jobs : Submit(j) \/ Delete(j) \/ GiveToken(j) \/ TokenExpires(j)
    \/ \E j \in Jobs : ReadMessage(j)
    \/ RecoverStale
    \/ \E t \in Tasks : Process(t)
    \/ Tick
    \/ Stop

Spec == Init /\ [][Next]_vars

\* The goroutines are scheduled, the loops keep polling and time passes.
Fairness ==
    /\ WF_vars(\E j \in Jobs : ReadMessage(j))
    /\ WF_vars(RecoverStale)
    /\ \A t \in Tasks : WF_vars(Process(t))
    /\ WF_vars(Tick)

FairSpec == Spec /\ Fairness

-----------------------------------------------------------------------------
(* Correctness                                                             *)

\* Every variable has its type.
TypeOK == QueueTypeOK /\ JobTypeOK /\ WorkerTypeOK

\* The lock taken at worker.go:193-200 is unowned, expires by itself and is
\* released by an unconditional DEL; still no two goroutines process jobs of
\* one user at a time, as one that finds the key gone is not let in early.
UserExclusion ==
    \A t1, t2 \in holders : UserOf(t1) = UserOf(t2) => t1 = t2

\* While a goroutine signs, the key in Redis is its own: its TTL has run down
\* for exactly as long as the goroutine holds it, so it cannot have expired
\* and been set by another, and ReleaseUserLock deletes no one else's lock.
OwnLock ==
    \A t \in holders : lock[UserOf(t)] > 0 /\ lock[UserOf(t)] + timer[t] = LockTTL

\* A message is processed by one goroutine at a time: XAUTOCLAIM takes over
\* only from goroutines that are gone.
SoleProcessor ==
    \A t1, t2 \in Tasks :
        Active(t1) /\ Active(t2) /\ JobOf(t1) = JobOf(t2) => t1 = t2

\* SECURITY.md:46: a terminal job is not processed again.
TerminalIsFinal ==
    [][\A j \in Jobs : Ended(j) => jobs'[j] \in {jobs[j], NoJob}]_vars

\* Jobs whose message the group has forgotten although nobody decided them.
Lost == {j \in Jobs : Acked(j) /\ ~Ended(j) /\ ~Deleted(j)}

\* Ack "acknowledges a message as successfully processed" (streams.go:127): the
\* group forgets a message when its job has an outcome or was deleted.  Errors of
\* Redis are mostly ignored, GetJob's even leads to an Ack; still each of them
\* loses one job at most, and nothing else loses any.
AckedIsEnded == Cardinality(Lost) <= faults

\* The jobs no administrator deletes.
Lasting == Jobs \ Deletable

\* Of these, a job that is DONE has a signed.ipa, and it is whole unless the
\* process ended or two commands failed: the look at signer.go:119 cannot tell
\* the output of this run from what an earlier one left.
DoneHasIPA ==
    \A j \in Lasting : jobs[j].status = "DONE" =>
        /\ signed[j] # "absent"
        /\ crashes = 0 /\ faults < 2 => signed[j] = "whole"

\* While the process is not restarted and no command fails, the last event
\* published on signy:job:events for a job nobody works on any more is its
\* outcome: the user's message is not left at "SIGNING".
OutcomeIsTold ==
    crashes = 0 /\ faults = 0 =>
        \A j \in Jobs :
            Acked(j) /\ Ended(j) /\ (\A t \in Tasks : JobOf(t) = j => ~Active(t))
                => told[j] = jobs[j].status

\* A deleted job is forgotten by everyone but the goroutines that had read it
\* before: a message delivered later for it is acknowledged and dropped.
DeletedIsForgotten ==
    [][\A j \in Jobs :
          Deleted(j) /\ (\A t \in Tasks : JobOf(t) = j => copy[t] = NoJob)
              => jobs'[j] = NoJob]_vars

\* The dylibs a user uploaded are there when zsign is told to inject them.
DylibsAtSigning ==
    \A t \in Tasks : pc[t] = "sign" /\ JobOf(t) \in DylibJobs => JobOf(t) \in dylibs

\* The password of a job is "one-time use" (worker.go:223): while no command
\* fails, it has left Redis before zsign sees it, and no restart or second
\* delivery finds it again.
OneTimeToken ==
    faults = 0 /\ ~HasMasterKey =>
        \A t \in Tasks : pc[t] = "sign" => JobOf(t) \notin token

\* A job whose enqueueing succeeded gets an outcome.
EveryJobEnds == \A j \in Jobs : InStream(j) ~> (Ended(j) \/ Deleted(j))

\* The worker implements the abstract life of the jobs nobody deletes.
Life == INSTANCE Lifecycle WITH
    Jobs <- Lasting,
    status <- [j \in Lasting |-> jobs[j].status],
    accepted <- {j \in Lasting : InStream(j)}

\* Whatever goroutines and restarts do to the records, jobs go through the
\* abstract life cycle and no other way.
ImplementsLife == Life!LifeSpec

\* What the worker makes of the stream.
Use == INSTANCE Handling WITH
    Messages <- Jobs, sent <- stream, handed <- Handed, settled <- Handed \ pel,
    held <- {JobOf(t) : t \in {u \in Tasks : Active(u)}}

\* With any timeouts, restarts, failing commands and deletions: goroutines start
\* for new messages in order and for pending ones, never for an acknowledged
\* one, and only a goroutine that was given a message acknowledges it.
HandlesInOrder == Use!HandlingSpec
=============================================================================
