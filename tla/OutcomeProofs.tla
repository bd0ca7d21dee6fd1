---------------------------- MODULE OutcomeProofs ----------------------------
(***************************************************************************)
(* Theorems about what the worker leaves behind: acknowledgements, signed  *)
(* IPAs, events, passwords and deleted jobs.  They rest on the invariants  *)
(* of WorkerProofs, of which Inv and FinalInv are the strongest.           *)
(***************************************************************************)
EXTENDS WorkerProofs

\* The types of what follows, in one place.
LEMMA Typed ==
  ASSUME TypeInv
  PROVE  /\ pc \in [Tasks -> Commands]
         /\ copy \in [Tasks -> Records]
         /\ jobs \in [Jobs -> Records]
         /\ submit \in [Jobs -> {"new", "list", "enqueue", "accepted",
                                 "answered", "rejected", "lost"}]
         /\ told \in [Jobs -> Statuses \union {"NONE"}]
         /\ pel \subseteq Jobs /\ signed \in [Jobs -> Contents] /\ token \subseteq Jobs
         /\ \A t \in Tasks : JobOf(t) \in Jobs
  BY TaskFacts DEF TypeInv, TypeOK, QueueTypeOK, JobTypeOK, WorkerTypeOK

\* Failing commands and ends of the process are counted one by one.
LEMMA Counters ==
  ASSUME TypeInv, [Next]_vars
  PROVE  /\ faults \in Nat /\ crashes \in Nat
         /\ faults' \in {faults, faults + 1} /\ crashes' \in {crashes, crashes + 1}
         /\ crashes' = crashes => ~Stop
         /\ faults' = faults => ~Fault
<1>1. faults \in Nat /\ crashes \in Nat
  BY JobAssumption, WorkerAssumption
     DEF JobAssumption, WorkerAssumption, TypeInv, TypeOK, JobTypeOK, WorkerTypeOK
<1>2. ASSUME NEW j \in Jobs, Submit(j) \/ Delete(j) \/ GiveToken(j)
                             \/ TokenExpires(j) \/ ReadMessage(j)
      PROVE  faults' \in {faults, faults + 1} /\ crashes' = crashes
  BY <1>2 DEF Submit, CreateJob, ListJob, EnqueueJob, Delete, StartDelete,
     DeleteRecord, SaveJob, UnlistJob, RemoveFiles, GiveToken, TokenExpires,
     ReadMessage, Fault
<1>3. ASSUME NEW t \in Tasks, Process(t)
      PROVE  faults' \in {faults, faults + 1} /\ crashes' = crashes
  <2>1. CASE StartPooled(t) \/ GetJob(t) \/ Drop(t) \/ AcquireLock(t) \/ ReleaseLock(t)
             \/ RemoveDylibs(t)
    BY <2>1 DEF StartPooled, GetJob, ReadAndChoose, Drop, AckOrNot, AcquireLock, AcquireOr,
       ReleaseLock, RemoveDylibs, Fault
  <2>2. CASE GetToken(t) \/ DelToken(t) \/ Sign(t) \/ WriteMeta(t) \/ Publish(t)
             \/ AckMessage(t)
    BY <2>2 DEF GetToken, DelToken, Sign, SignLeaving, WriteMeta, Publish, AckMessage,
       AckOrNot, Fault
  <2>3. CASE SaveSigning(t) \/ SavePublishing(t) \/ SaveDone(t) \/ IncrementRetry(t)
             \/ SaveFailed(t)
    BY <2>3 DEF SaveSigning, SavePublishing, SaveDone, IncrementRetry, SaveFailed,
       SaveCopy, SaveJob, Fault
  <2> QED BY <1>3, <2>1, <2>2, <2>3 DEF Process
<1>4. ASSUME RecoverStale \/ Tick \/ UNCHANGED vars
      PROVE  faults' \in {faults, faults + 1} /\ crashes' = crashes
  BY <1>4 DEF RecoverStale, Tick, vars, Fault
<1>5. ASSUME Stop PROVE faults' = faults /\ crashes' = crashes + 1
  BY <1>5 DEF Stop
<1>6. faults' \in {faults, faults + 1} /\ crashes' \in {crashes, crashes + 1}
  BY <1>2, <1>3, <1>4, <1>5 DEF Next
<1>7. (crashes' = crashes => ~Stop) /\ (faults' = faults => ~Fault)
  BY <1>1 DEF Stop, Fault
<1> QED BY <1>1, <1>6, <1>7

\* A command that fails is counted, and failures are not forgotten.
LEMMA Obeyed ==
  ASSUME TypeInv, [Next]_vars, faults' = 0 PROVE faults = 0 /\ ~Fault
BY Counters

\* Without a fault budget no command fails.
LEMMA NoFault == ASSUME MaxFaults = 0, TypeInv PROVE ~Fault
  BY DEF TypeInv, TypeOK, JobTypeOK, Fault

\* A task saves no other job than its own, and only while it may still decide.
LEMMA SavesOwnJob ==
  ASSUME TypeInv, NEW t \in Tasks, Process(t)
  PROVE  /\ \A j \in Jobs : j # JobOf(t) => jobs'[j] = jobs[j]
         /\ \A u \in Tasks : u # t => copy'[u] = copy[u]
         /\ pc[t] \notin Working => UNCHANGED jobs
<1> USE Typed DEF Working, jobVars
<1>1. CASE StartPooled(t) \/ Drop(t) \/ AcquireLock(t) \/ ReleaseLock(t) \/ RemoveDylibs(t)
  BY <1>1 DEF StartPooled, Drop, AcquireLock, AcquireOr, ReleaseLock,
     RemoveDylibs, Return
<1>2. CASE GetJob(t)
  BY <1>2 DEF GetJob, ReadAndChoose
<1>3. CASE GetToken(t) \/ DelToken(t) \/ Sign(t) \/ WriteMeta(t)
  BY <1>3 DEF GetToken, DelToken, Sign, SignLeaving, WriteMeta
<1>4. CASE Publish(t) \/ AckMessage(t)
  BY <1>4 DEF Publish, AckMessage
<1>5. CASE SaveSigning(t) \/ SavePublishing(t) \/ SaveDone(t)
  BY <1>5 DEF SaveSigning, SavePublishing, SaveDone, SaveCopy, SaveJob
<1>6. CASE IncrementRetry(t) \/ SaveFailed(t)
  BY <1>6 DEF IncrementRetry, SaveFailed, SaveCopy, SaveJob
<1> QED
  BY <1>1, <1>2, <1>3, <1>4, <1>5, <1>6 DEF Process

-----------------------------------------------------------------------------
(* The lock's key                                                          *)

\* worker.go:199 and 200: the key that ReleaseUserLock deletes is the one the
\* goroutine set itself, as it is there for as long as the goroutine holds it.
THEOREM OwnKey == Spec => []OwnLock
<1>1. UserExclusion /\ OwnLock => OwnLock
  OBVIOUS
<1> QED
  BY Exclusion, <1>1, PTL

-----------------------------------------------------------------------------
(* Deleted jobs                                                            *)

\* A task that may still save its job has read a record, not an absent key.
HasRead == \A t \in Tasks : pc[t] \in Working => copy[t] # NoJob

LEMMA HasReadStep == ASSUME TypeInv, HasRead, [Next]_vars PROVE HasRead'
<1> USE Typed DEF HasRead
\* Steps that move no task into Working and leave the copies alone.
<1>a. ASSUME UNCHANGED copy, \A t \in Tasks : pc'[t] \in Working => pc'[t] = pc[t]
      PROVE  HasRead'
  BY <1>a
<1>1. ASSUME NEW j \in Jobs, Submit(j) \/ Delete(j) \/ GiveToken(j) \/ TokenExpires(j)
      PROVE  HasRead'
  BY <1>1 DEF Submit, Delete, GiveToken, TokenExpires, taskVars
<1>2. ASSUME NEW j \in Jobs, ReadMessage(j) PROVE HasRead'
  BY <1>2, <1>a, TaskFacts DEF ReadMessage, Goto, Working
<1>3. CASE RecoverStale
  BY <1>3, <1>a DEF RecoverStale, Working
<1>4. ASSUME NEW t \in Tasks, Process(t) PROVE HasRead'
  <2>1. \A u \in Tasks : u # t => pc'[u] = pc[u] /\ copy'[u] = copy[u]
    BY <1>4, ProcessFrame, SavesOwnJob
  <2>s. ASSUME NEW s \in Statuses PROVE WithStatus(t, s) # NoJob
    BY RecordFacts DEF WithStatus, NoJob, Statuses, Terminal
  <2>2. CASE StartPooled(t) \/ Drop(t) \/ AcquireLock(t) \/ ReleaseLock(t) \/ RemoveDylibs(t)
    BY <2>1, <2>2 DEF StartPooled, Drop, AcquireLock, AcquireOr, ReleaseLock,
       RemoveDylibs, Return, Goto, Working
  <2>3. CASE GetJob(t)
    BY <2>1, <2>3 DEF GetJob, ReadAndChoose, Goto, Working
  <2>4. CASE GetToken(t) \/ DelToken(t) \/ Sign(t) \/ WriteMeta(t) \/ Publish(t) \/ AckMessage(t)
    BY <2>1, <2>4 DEF GetToken, DelToken, Sign, SignLeaving, WriteMeta, Publish, AckMessage,
       Deferred, Goto, Working
  <2>5. CASE SaveSigning(t) \/ SavePublishing(t) \/ SaveDone(t) \/ SaveFailed(t)
    <3>1. PICK s \in Statuses : SaveCopy(t, WithStatus(t, s))
      BY <2>5 DEF SaveSigning, SavePublishing, SaveDone, SaveFailed, Statuses, Terminal
    <3>2. copy'[t] # NoJob
      BY <3>1, <2>s DEF SaveCopy
    <3> QED BY <2>1, <3>2
  <2>6. CASE IncrementRetry(t)
    <3>1. copy'[t].retry = copy[t].retry + 1 /\ copy[t].retry \in Nat
      BY <2>6, RecordFacts DEF IncrementRetry, SaveCopy, Records
    <3>2. copy'[t] # NoJob
      BY <3>1 DEF NoJob
    <3> QED BY <2>1, <3>2
  <2> QED
    BY <1>4, <2>2, <2>3, <2>4, <2>5, <2>6 DEF Process
<1>5. CASE Tick
  BY <1>5, <1>a DEF Tick
<1>6. CASE Stop
  BY <1>6 DEF Stop, Working
<1>7. CASE UNCHANGED vars
  BY <1>7 DEF vars, taskVars
<1> QED
  BY <1>1, <1>2, <1>3, <1>4, <1>5, <1>6, <1>7 DEF Next

LEMMA ForgottenStep ==
  ASSUME TypeInv, HasRead, [Next]_vars, NEW j \in Jobs, Deleted(j),
         \A t \in Tasks : JobOf(t) = j => copy[t] = NoJob
  PROVE  jobs'[j] = NoJob
<1> USE Typed DEF Deleted
<1>1. ASSUME NEW k \in Jobs, Submit(k) PROVE jobs'[j] = NoJob
  BY <1>1 DEF Submit, CreateJob, ListJob, EnqueueJob
<1>2. ASSUME NEW k \in Jobs, Delete(k) PROVE jobs'[j] = NoJob
  BY <1>2 DEF Delete, StartDelete, DeleteRecord, UnlistJob, RemoveFiles, SaveJob
<1>3. ASSUME NEW t \in Tasks, Process(t) PROVE jobs'[j] = NoJob
  BY <1>3, SavesOwnJob DEF HasRead
<1>4. CASE RecoverStale \/ Tick \/ Stop \/ UNCHANGED vars
  BY <1>4 DEF RecoverStale, Tick, Stop, vars, jobVars
<1>5. ASSUME NEW k \in Jobs, ReadMessage(k) \/ GiveToken(k) \/ TokenExpires(k)
      PROVE  jobs'[j] = NoJob
  BY <1>5 DEF ReadMessage, GiveToken, TokenExpires, jobVars
<1> QED
  BY <1>1, <1>2, <1>3, <1>4, <1>5 DEF Next

\* manager.go:264: whatever is redelivered after the deletion of a job, only a
\* goroutine that had read the job before can bring it back.
THEOREM Forgotten == Spec => DeletedIsForgotten
<1>1. Init => TypeInv /\ HasRead
  <2>1. Init => HasRead
    BY DEF Init, HasRead, Working
  <2> QED BY <2>1, TypeInit
<1>2. TypeInv /\ HasRead /\ [Next]_vars => (TypeInv /\ HasRead)'
  BY TypeStep, HasReadStep
<1>3. TypeInv /\ HasRead /\ [Next]_vars
        => [\A j \in Jobs :
              Deleted(j) /\ (\A t \in Tasks : JobOf(t) = j => copy[t] = NoJob)
                => jobs'[j] = NoJob]_vars
  BY ForgottenStep
<1> QED
  BY <1>1, <1>2, <1>3, PTL DEF Spec, DeletedIsForgotten

-----------------------------------------------------------------------------
(* One-time passwords                                                      *)

\* A password is stored after the answer to the submission; a goroutine that
\* found one has been told so, and signs when it is gone.
TokenInv ==
    /\ \A j \in token : submit[j] = "answered"
    /\ ~HasMasterKey =>
          \A t \in Tasks : pc[t] \in {"delToken", "sign"} =>
              submit[JobOf(t)] = "answered"
    /\ ~HasMasterKey => \A t \in Tasks : pc[t] = "sign" => JobOf(t) \notin token

LEMMA TokenStep ==
  ASSUME TypeInv, TokenInv, [Next]_vars, faults' = 0
  PROVE  TokenInv'
<1>f. ~Fault
  BY Obeyed
<1> USE Typed, <1>f DEF TokenInv
\* Steps that bring no task to the password and store none.
<1>a. ASSUME token' \subseteq token,
             \A j \in Jobs : submit[j] = "answered" => submit'[j] = "answered",
             \A t \in Tasks : pc'[t] \in {"delToken", "sign"} => pc'[t] = pc[t]
      PROVE  TokenInv'
  BY <1>a
<1>1. ASSUME NEW j \in Jobs, Submit(j) PROVE TokenInv'
  <2>1. /\ UNCHANGED <<token, pc>> /\ submit[j] \in {"new", "list", "enqueue"}
        /\ \A k \in Jobs : k # j => submit'[k] = submit[k]
    BY <1>1 DEF Submit, CreateJob, ListJob, EnqueueJob, taskVars
  <2> QED BY <2>1, <1>a
<1>2. ASSUME NEW j \in Jobs, Delete(j) \/ TokenExpires(j) PROVE TokenInv'
  BY <1>2, <1>a DEF Delete, StartDelete, DeleteRecord, UnlistJob, RemoveFiles,
     TokenExpires, taskVars, jobVars
<1>3. ASSUME NEW j \in Jobs, GiveToken(j) PROVE TokenInv'
  <2>1. /\ token' = token \union {j} /\ submit[j] = "accepted"
        /\ submit' = [submit EXCEPT ![j] = "answered"]
        /\ UNCHANGED pc
    BY <1>3 DEF GiveToken, taskVars
  <2>2. ~HasMasterKey => \A t \in Tasks : pc[t] = "sign" => JobOf(t) # j
    BY <2>1
  <2> QED BY <2>1, <2>2
<1>4. ASSUME NEW j \in Jobs, ReadMessage(j) PROVE TokenInv'
  BY <1>4, <1>a, TaskFacts DEF ReadMessage, Goto, jobVars
<1>5. CASE RecoverStale
  BY <1>5, <1>a DEF RecoverStale, jobVars
<1>6. ASSUME NEW t \in Tasks, Process(t) PROVE TokenInv'
  <2>1. UNCHANGED submit /\ \A u \in Tasks : u # t => pc'[u] = pc[u]
    BY <1>6, ProcessFrame
  <2>2. CASE SaveSigning(t)
    <3>1. UNCHANGED token /\ Goto(t, IF HasMasterKey THEN "sign" ELSE "token")
      BY <2>2 DEF SaveSigning
    <3>2. CASE HasMasterKey
      BY <2>1, <3>1, <3>2
    <3>3. CASE ~HasMasterKey
      BY <1>a, <2>1, <3>1, <3>3 DEF Goto
    <3> QED BY <3>2, <3>3
  <2>3. CASE GetToken(t)
    <3>1. UNCHANGED token /\ ((Goto(t, "delToken") /\ JobOf(t) \in token) \/ Goto(t, "fail"))
      BY <2>3 DEF GetToken
    <3> QED BY <2>1, <3>1 DEF Goto
  <2>4. CASE DelToken(t)
    <3>1. token' = token \ {JobOf(t)} /\ Goto(t, "sign") /\ pc[t] = "delToken"
      BY <2>4 DEF DelToken
    <3> QED BY <2>1, <3>1 DEF Goto
  <2>5. CASE Sign(t) \/ SavePublishing(t) \/ WriteMeta(t) \/ SaveDone(t)
             \/ IncrementRetry(t) \/ SaveFailed(t)
    BY <1>a, <2>1, <2>5 DEF Sign, SignLeaving, SavePublishing, WriteMeta, SaveDone,
       IncrementRetry, SaveFailed, Goto
  <2>6. CASE Publish(t) \/ AckMessage(t) \/ ReleaseLock(t) \/ RemoveDylibs(t)
    BY <1>a, <2>1, <2>6 DEF Publish, AckMessage, ReleaseLock, RemoveDylibs,
       Return, Deferred, Goto
  <2>7. CASE StartPooled(t) \/ GetJob(t) \/ Drop(t) \/ AcquireLock(t)
    BY <1>a, <2>1, <2>7 DEF StartPooled, GetJob, ReadAndChoose, Drop,
       AcquireLock, AcquireOr, Return, Goto
  <2> QED
    BY <1>6, <2>2, <2>3, <2>4, <2>5, <2>6, <2>7 DEF Process
<1>7. CASE Tick
  BY <1>7, <1>a DEF Tick
<1>8. CASE Stop
  BY <1>8, <1>a DEF Stop, CutRequests
<1>9. CASE UNCHANGED vars
  BY <1>9, <1>a DEF vars, jobVars, taskVars
<1> QED
  BY <1>1, <1>2, <1>3, <1>4, <1>5, <1>6, <1>7, <1>8, <1>9 DEF Next

\* worker.go:223, "one-time use": as long as no command has failed, the password
\* has left Redis before zsign sees it, however deliveries, restarts and the late
\* write of the token by the bot interleave.
THEOREM TokenOnce == Spec => []OneTimeToken
<1> DEFINE TInv == faults = 0 => TokenInv
<1>1. Init => TypeInv /\ TInv
  <2>1. Init => TokenInv
    BY DEF Init, TokenInv
  <2> QED BY <2>1, TypeInit
<1>2. TypeInv /\ TInv /\ [Next]_vars => (TypeInv /\ TInv)'
  BY TypeStep, TokenStep, Obeyed
<1>3. TypeInv /\ TInv => OneTimeToken
  BY DEF TokenInv, OneTimeToken
<1> HIDE DEF TInv
<1> QED
  BY <1>1, <1>2, <1>3, PTL DEF Spec

-----------------------------------------------------------------------------
(* Acknowledgements                                                        *)

\* The commands up to the Ack, and those that lead to it with no more changes.
Unacked == Working \union {"sem", "get", "drop", "pubDone", "ackDone", "ackFailed"}
Deciding == {"drop", "pubDone", "ackDone", "ackFailed"}

Settled(j) == Ended(j) \/ Deleted(j)

\* A message stays pending as long as its task may work on it.
Holding == \A t \in Tasks : pc[t] \in Unacked => JobOf(t) \in pel

LEMMA HoldingStep ==
  ASSUME Inv, Holding, [Next]_vars
  PROVE  Holding'
<1>t. /\ pc \in [Tasks -> Commands] /\ \A t \in Tasks : JobOf(t) \in Jobs
      /\ TypeInv /\ Fresh /\ SoleProcessor
  BY Typed DEF Inv, PaceInv
\* Steps that start no task and acknowledge nothing.
<1>a. ASSUME \A t \in Tasks : pc'[t] \in {pc[t], "idle"}, UNCHANGED pel
      PROVE  Holding'
  BY <1>a DEF Holding, Unacked, Working
<1>1. ASSUME NEW j \in Jobs, Submit(j) PROVE Holding'
  <2>1. UNCHANGED <<pc, pel>>
    BY <1>1 DEF Submit, EnqueueJob, Enqueue, taskVars, queueVars
  <2> QED BY <1>a, <2>1
<1>2. ASSUME NEW j \in Jobs, Delete(j) \/ GiveToken(j) \/ TokenExpires(j) PROVE Holding'
  <2>1. UNCHANGED <<pc, pel>>
    BY <1>2 DEF Delete, GiveToken, TokenExpires, taskVars, queueVars
  <2> QED BY <1>a, <2>1
<1>3. ASSUME NEW j \in Jobs, ReadMessage(j) PROVE Holding'
  <2>1. /\ pel' = pel \union {j}
        /\ \A t \in Tasks : t # <<j, Pool>> => pc'[t] = pc[t]
    BY <1>3, <1>t DEF ReadMessage, ReadNew, Goto
  <2>2. JobOf(<<j, Pool>>) = j
    BY DEF JobOf
  <2> QED BY <2>1, <2>2 DEF Holding
<1>4. CASE RecoverStale
  <2>1. PICK claimed \in SUBSET Stale, s \in [Jobs -> Recovered] :
          /\ ClaimStale(claimed)
          /\ \/ pc' = [t \in Tasks |->
                        IF JobOf(t) \in claimed /\ t[2] = s[JobOf(t)]
                        THEN "get" ELSE pc[t]]
             \/ UNCHANGED pc
    BY <1>4 DEF RecoverStale
  <2>2. UNCHANGED pel /\ claimed \subseteq pel
    BY <2>1 DEF ClaimStale, Stale
  <2>3. \A t \in Tasks : pc'[t] = pc[t] \/ JobOf(t) \in claimed
    BY <2>1
  <2> QED BY <2>2, <2>3 DEF Holding
<1>5. ASSUME NEW t \in Tasks, Process(t) PROVE Holding'
  <2> DEFINE own == JobOf(t)
  <2>1. Active(t) /\ \A u \in Tasks : u # t => pc'[u] = pc[u]
    BY <1>5, <1>t, ProcessFrame
  <2>2. \A u \in Tasks : u # t /\ Active(u) => JobOf(u) # own
    BY <1>t, <2>1 DEF SoleProcessor
  \* What is left to show of the task itself.
  <2>b. ASSUME pel' \in {pel, pel \ {own}}, pc'[t] \in Unacked => own \in pel'
        PROVE  Holding'
    BY <2>1, <2>2, <2>b DEF Holding, Active, Unacked, Working
  <2>3. CASE Drop(t) \/ AckMessage(t)
    <3>1. pel' \in {pel, pel \ {own}}
      BY <2>3 DEF Drop, AckMessage, AckOrNot, Ack, queueVars
    <3>2. pc'[t] \in {"idle", "cleanup", "release", "pubFail"}
      BY <1>t, <2>3 DEF Drop, AckMessage, Deferred, Goto, Return
    <3> QED BY <2>b, <3>1, <3>2 DEF Unacked, Working
  <2>4. CASE GetJob(t) \/ AcquireLock(t) \/ StartPooled(t)
    <3>1. UNCHANGED pel /\ pc[t] \in Unacked
      BY <2>4 DEF GetJob, ReadAndChoose, AcquireLock, AcquireOr, StartPooled, queueVars,
         Unacked, Working
    <3> QED BY <2>b, <3>1 DEF Holding
  <2>5. CASE SaveSigning(t) \/ GetToken(t) \/ DelToken(t) \/ Sign(t)
             \/ SavePublishing(t) \/ WriteMeta(t)
    <3>1. UNCHANGED pel /\ pc[t] \in Unacked
      BY <2>5 DEF SaveSigning, GetToken, DelToken, Sign, SignLeaving, SavePublishing,
         WriteMeta, queueVars, Unacked, Working
    <3> QED BY <2>b, <3>1 DEF Holding
  <2>6. CASE SaveDone(t) \/ IncrementRetry(t) \/ SaveFailed(t)
    <3>1. UNCHANGED pel /\ pc[t] \in Unacked
      BY <2>6 DEF SaveDone, IncrementRetry, SaveFailed, queueVars, Unacked, Working
    <3> QED BY <2>b, <3>1 DEF Holding
  <2>7. CASE Publish(t)
    <3>1. UNCHANGED pel /\ (pc[t] \in Unacked \/ pc'[t] \in {"release", "cleanup"})
      BY <1>t, <2>7 DEF Publish, Deferred, Goto, queueVars, Unacked
    <3> QED BY <2>b, <3>1 DEF Holding, Unacked, Working
  <2>8. CASE ReleaseLock(t) \/ RemoveDylibs(t)
    <3>1. UNCHANGED pel /\ pc'[t] \in {"idle", "cleanup"}
      BY <1>t, <2>8 DEF ReleaseLock, RemoveDylibs, Return, Goto, queueVars
    <3> QED BY <2>b, <3>1 DEF Unacked, Working
  <2> QED
    BY <1>5, <2>3, <2>4, <2>5, <2>6, <2>7, <2>8 DEF Process
<1>6. CASE Tick
  BY <1>6, <1>a DEF Tick, QueueTick
<1>7. CASE Stop
  BY <1>7, <1>a DEF Stop, queueVars
<1>8. CASE UNCHANGED vars
  BY <1>8, <1>a DEF vars, taskVars, queueVars
<1> QED
  BY <1>1, <1>2, <1>3, <1>4, <1>5, <1>6, <1>7, <1>8 DEF Next

\* Lost jobs, and those that will be: their task is about to acknowledge.
InDeciding(j) == \E t \in Tasks : JobOf(t) = j /\ pc[t] \in Deciding
Gone == {j \in Jobs : ~Settled(j) /\ (Acked(j) \/ InDeciding(j))}

\* What the stream delivered was submitted with success.
LEMMA DeliveredFacts ==
  ASSUME TypeInv, Fresh, NEW j, WasDelivered(j)
  PROVE  submit[j] \in {"accepted", "answered"} /\ j \in Jobs
BY DEF Fresh, WasDelivered, Positions, TypeInv, TypeOK, QueueTypeOK

\* A step loses no job, or one by a command that fails.
LEMMA GoneStep ==
  ASSUME Inv, FinalInv, Holding, [Next]_vars
  PROVE  \/ Gone' \subseteq Gone
         \/ faults' = faults + 1 /\ \E j \in Jobs : Gone' \subseteq Gone \union {j}
<1>t. /\ pc \in [Tasks -> Commands]
      /\ jobs \in [Jobs -> Records]
      /\ submit \in [Jobs -> {"new", "list", "enqueue", "accepted",
                              "answered", "rejected", "lost"}]
      /\ \A t \in Tasks : JobOf(t) \in Jobs
      /\ TypeInv /\ Fresh /\ SoleProcessor
  BY Typed DEF Inv, PaceInv
<1>k. \A j \in Jobs : Ended(j) => jobs'[j] \in {jobs[j], NoJob}
  BY FinalStep
<1>d. \A t \in Tasks : pc[t] \in Deciding => WasDelivered(JobOf(t))
  BY <1>t DEF Fresh, Active, Deciding
\* Steps that decide nothing, acknowledge nothing and deliver nothing.
<1>a. ASSUME \A j \in Jobs : WasDelivered(j) => submit'[j] \in {"accepted", "answered"},
             \A j \in Jobs : WasDelivered(j) => jobs'[j] \in {jobs[j], NoJob},
             \A t \in Tasks : pc'[t] \in Deciding => pc[t] \in Deciding,
             \A j \in Jobs : Acked(j)' => Acked(j)
      PROVE  Gone' \subseteq Gone
  <2>1. ASSUME NEW j \in Jobs, WasDelivered(j), Settled(j) PROVE Settled(j)'
    BY <1>a, <2>1 DEF Settled, Ended, Deleted, NoJob
  <2>2. ASSUME NEW j \in Jobs, Acked(j)' \/ InDeciding(j)'
        PROVE  WasDelivered(j) /\ (Acked(j) \/ InDeciding(j))
    BY <1>a, <1>d, <2>2 DEF Acked, InDeciding
  <2> QED BY <2>1, <2>2 DEF Gone
<1>1. ASSUME NEW j \in Jobs, Submit(j) PROVE Gone' \subseteq Gone
  <2>1. /\ submit[j] \in {"new", "list", "enqueue"}
        /\ \A k \in Jobs : k # j => submit'[k] = submit[k] /\ jobs'[k] = jobs[k]
        /\ UNCHANGED <<pc, pel, delivered>>
        /\ UNCHANGED stream \/ stream' = Append(stream, j)
    <3>1. CASE CreateJob(j)
      <4>1. submit[j] = "new"
        BY <3>1 DEF CreateJob
      <4>2. UNCHANGED queueVars
        BY <1>1, <4>1 DEF Submit, EnqueueJob
      <4> QED BY <1>1, <1>t, <3>1, <4>1, <4>2 DEF Submit, CreateJob, taskVars, queueVars
    <3>2. CASE ListJob(j)
      <4>1. submit[j] = "list" /\ submit' = [submit EXCEPT ![j] = "enqueue"] /\ UNCHANGED jobs
        BY <3>2 DEF ListJob
      <4>2. UNCHANGED queueVars
        BY <1>1, <4>1 DEF Submit, EnqueueJob
      <4> QED BY <1>1, <1>t, <4>1, <4>2 DEF Submit, taskVars, queueVars
    <3>3. CASE EnqueueJob(j)
      BY <1>1, <1>t, <3>3 DEF Submit, EnqueueJob, Enqueue, taskVars, queueVars
    <3> QED BY <1>1, <3>1, <3>2, <3>3 DEF Submit
  <2>2. \A m \in 1..delivered : stream'[m] = stream[m]
    <3>1. stream \in Seq(Jobs) /\ delivered \in 0..Len(stream)
      BY <1>t DEF TypeInv, TypeOK, QueueTypeOK
    <3>2. \A m \in 1..Len(stream) : Append(stream, j)[m] = stream[m]
      BY <3>1
    <3> QED BY <2>1, <3>1, <3>2
  <2>3. \A k \in Jobs : WasDelivered(k)' <=> WasDelivered(k)
    BY <2>1, <2>2 DEF WasDelivered
  <2>4. \A k \in Jobs : WasDelivered(k) => k # j /\ submit[k] \in {"accepted", "answered"}
    BY <1>t, <2>1, DeliveredFacts
  <2> QED BY <1>a, <2>1, <2>3, <2>4 DEF Acked
<1>2. ASSUME NEW j \in Jobs, Delete(j) PROVE Gone' \subseteq Gone
  <2>1. /\ UNCHANGED <<pc, pel, delivered, stream, submit>>
        /\ \A k \in Jobs : jobs'[k] \in {jobs[k], NoJob}
    BY <1>2, <1>t DEF Delete, StartDelete, DeleteRecord, UnlistJob, RemoveFiles, SaveJob,
       taskVars, queueVars
  <2> QED BY <1>a, <1>t, <2>1, DeliveredFacts DEF Acked, WasDelivered
<1>3. ASSUME NEW j \in Jobs, GiveToken(j) \/ TokenExpires(j) PROVE Gone' \subseteq Gone
  <2>1. /\ UNCHANGED <<pc, pel, delivered, stream, jobs>>
        /\ \A k \in Jobs : submit[k] \in {"accepted", "answered"}
                              => submit'[k] \in {"accepted", "answered"}
    BY <1>3, <1>t DEF GiveToken, TokenExpires, taskVars, queueVars, jobVars
  <2> QED BY <1>a, <1>t, <2>1, DeliveredFacts DEF Acked, WasDelivered
<1>4. ASSUME NEW j \in Jobs, ReadMessage(j) PROVE Gone' \subseteq Gone
  <2>1. /\ UNCHANGED <<jobs, submit, stream>> /\ pel' = pel \union {j}
        /\ \A t \in Tasks : t # <<j, Pool>> => pc'[t] = pc[t]
        /\ pc'[<<j, Pool>>] \in {pc[<<j, Pool>>], "sem"}
        /\ \A k \in Jobs : WasDelivered(k)' => WasDelivered(k) \/ k = j
    BY <1>4, <1>t, TaskFacts DEF ReadMessage, ReadNew, jobVars, Goto, WasDelivered,
       TypeInv, TypeOK, QueueTypeOK
  <2>2. \A t \in Tasks : pc'[t] \in Deciding => pc[t] \in Deciding
    BY <2>1 DEF Deciding
  <2>3. \A k \in Jobs : Acked(k)' => Acked(k)
    BY <2>1 DEF Acked
  <2> QED BY <1>a, <1>t, <2>1, <2>2, <2>3, DeliveredFacts
<1>5. CASE RecoverStale
  <2>1. PICK claimed \in SUBSET Stale, s \in [Jobs -> Recovered] :
          /\ ClaimStale(claimed)
          /\ \/ pc' = [t \in Tasks |->
                        IF JobOf(t) \in claimed /\ t[2] = s[JobOf(t)]
                        THEN "get" ELSE pc[t]]
             \/ UNCHANGED pc
          /\ UNCHANGED jobVars
    BY <1>5 DEF RecoverStale
  <2>2. UNCHANGED <<jobs, submit, pel, stream, delivered>>
    BY <2>1 DEF ClaimStale, jobVars
  <2>3. \A t \in Tasks : pc'[t] \in Deciding => pc[t] \in Deciding
    BY <2>1 DEF Deciding
  <2> QED BY <1>a, <1>t, <2>2, <2>3, DeliveredFacts DEF Acked, WasDelivered
<1>6. ASSUME NEW t \in Tasks, Process(t)
      PROVE  \/ Gone' \subseteq Gone
             \/ faults' = faults + 1 /\ \E j \in Jobs : Gone' \subseteq Gone \union {j}
  <2> DEFINE own == JobOf(t)
  <2>1. /\ Active(t) /\ UNCHANGED <<stream, delivered, submit>>
        /\ \A u \in Tasks : u # t => pc'[u] = pc[u]
    BY <1>6, <1>t, ProcessFrame
  <2>2. \A u \in Tasks : u # t /\ Active(u) => JobOf(u) # own
    BY <1>t, <2>1 DEF SoleProcessor
  <2>3. \A j \in Jobs : j # own => jobs'[j] = jobs[j]
    BY <1>6, <1>t, SavesOwnJob
  <2>4. /\ submit[own] \in {"accepted", "answered"}
        /\ own \in Jobs
    BY <1>t, <2>1, DeliveredFacts DEF Fresh
  \* What is left to show of the task's own job.
  <2>a. ASSUME pel' \in {pel, pel \ {own}} PROVE Gone' \subseteq Gone \union {own}
    <3>1. ASSUME NEW j \in Jobs, j # own, ~Settled(j)' PROVE ~Settled(j)
      BY <2>1, <2>3, <3>1 DEF Settled, Ended, Deleted
    <3>2. ASSUME NEW j \in Jobs, j # own, Acked(j)' PROVE Acked(j)
      BY <2>1, <2>a, <3>2 DEF Acked, WasDelivered
    <3>3. ASSUME NEW j \in Jobs, j # own, InDeciding(j)' PROVE InDeciding(j)
      BY <2>1, <3>3 DEF InDeciding
    <3> QED BY <3>1, <3>2, <3>3 DEF Gone
  <2>b. ASSUME pel' \in {pel, pel \ {own}},
               faults' = faults =>
                  \/ Settled(own)'
                  \/ own \in pel' /\ pc'[t] \notin Deciding
                  \/ own \in Gone
        PROVE  \/ Gone' \subseteq Gone
               \/ faults' = faults + 1 /\ \E j \in Jobs : Gone' \subseteq Gone \union {j}
    <3>1. faults' \in {faults, faults + 1}
      BY <1>t, Counters
    <3>2. CASE faults' = faults
      <4>1. ASSUME own \in pel', pc'[t] \notin Deciding PROVE own \notin Gone'
        <5>1. ~Acked(own)'
          BY <4>1 DEF Acked
        <5>2. ~InDeciding(own)'
          BY <2>1, <2>2, <4>1 DEF InDeciding, Active, Deciding
        <5> QED BY <5>1, <5>2 DEF Gone
      <4>2. ASSUME Settled(own)' PROVE own \notin Gone'
        BY <4>2 DEF Gone
      <4> QED BY <2>a, <2>b, <3>2, <4>1, <4>2
    <3>3. CASE faults' = faults + 1
      BY <2>4, <2>a, <2>b, <3>3
    <3> QED BY <3>1, <3>2, <3>3
  \* Once the fate of the job is to be acknowledged, or is, and nothing is saved.
  <2>c. ASSUME pc[t] \in Deciding, UNCHANGED jobs PROVE Settled(own)' \/ own \in Gone
    <3>1. Settled(own)' <=> Settled(own)
      BY <2>1, <2>c DEF Settled, Ended, Deleted
    <3> QED BY <2>4, <2>c, <3>1 DEF Gone, InDeciding
  <2>f. ASSUME faults' = faults PROVE ~Fault
    BY <1>t, <2>f, Counters
  <2>5. CASE GetJob(t)
    <3>1. UNCHANGED <<jobs, pel>> /\ own \in pel
      BY <2>5 DEF Holding, GetJob, ReadAndChoose, Unacked, jobVars, queueVars
    <3>2. ASSUME ~Fault PROVE /\ pc'[t] \in {"drop", "fail", "lock"}
                              /\ pc'[t] = "drop" => jobs[own] = NoJob \/ Ended(own)
      BY <1>t, <2>5, <3>2 DEF GetJob, ReadAndChoose, Goto
    <3>3. jobs[own] = NoJob \/ Ended(own) => Settled(own)'
      BY <2>1, <2>4, <3>1 DEF Settled, Ended, Deleted
    <3> QED BY <2>b, <2>f, <3>1, <3>2, <3>3 DEF Deciding
  <2>6. CASE Drop(t) \/ AckMessage(t)
    <3>1. UNCHANGED jobs /\ pel' \in {pel, pel \ {own}} /\ pc[t] \in Deciding
      BY <2>6 DEF Drop, AckMessage, AckOrNot, Ack, Deciding, jobVars, queueVars
    <3> QED BY <2>b, <2>c, <3>1
  <2>7. CASE SaveSigning(t) \/ GetToken(t) \/ DelToken(t) \/ Sign(t)
             \/ SavePublishing(t) \/ WriteMeta(t) \/ IncrementRetry(t)
    <3>1. UNCHANGED pel /\ pc[t] \in Working
      BY <2>7 DEF SaveSigning, GetToken, DelToken, Sign, SignLeaving, SavePublishing,
         WriteMeta, IncrementRetry, queueVars, Working
    <3>2. pc'[t] \notin Deciding
      BY <1>t, <2>7 DEF SaveSigning, GetToken, DelToken, Sign, SignLeaving, SavePublishing,
         WriteMeta, IncrementRetry, Goto, Deciding
    <3> QED BY <2>b, <3>1, <3>2 DEF Holding, Unacked
  <2>8. CASE SaveDone(t) \/ SaveFailed(t)
    <3>1. PICK s \in Terminal : SaveCopy(t, WithStatus(t, s))
      BY <2>8 DEF SaveDone, SaveFailed, Terminal
    <3>2. ASSUME ~Fault PROVE jobs'[own].status = s
      <4>1. WithStatus(t, s).status = s
        BY RecordFacts, Typed, <1>t DEF WithStatus, Statuses
      <4>2. jobs' = [jobs EXCEPT ![own] = WithStatus(t, s)]
        BY <3>1, <3>2 DEF SaveCopy, SaveJob
      <4> QED BY <1>t, <2>4, <4>1, <4>2
    <3>3. UNCHANGED pel
      BY <2>8 DEF SaveDone, SaveFailed, queueVars
    <3> QED BY <2>b, <2>f, <3>2, <3>3 DEF Settled, Ended
  <2>9. CASE AcquireLock(t) \/ StartPooled(t)
    <3>1. UNCHANGED pel /\ pc[t] \in {"lock", "sem"}
          /\ pc'[t] \in {"signing", "cleanup", "get"}
      BY <1>t, <2>9 DEF AcquireLock, AcquireOr, StartPooled, Goto, queueVars
    <3> QED BY <2>b, <3>1 DEF Holding, Unacked, Working, Deciding
  <2>10. CASE Publish(t)
    <3>1. UNCHANGED <<jobs, pel>> /\ (pc[t] = "pubDone" \/ pc[t] = "pubFail")
      BY <2>10 DEF Publish, queueVars, jobVars
    <3>2. CASE pc[t] = "pubDone"
      BY <2>b, <2>c, <3>1, <3>2 DEF Deciding
    <3>3. CASE pc[t] = "pubFail"
      <4>1. pc'[t] \notin Deciding
        BY <1>t, <2>10, <3>3 DEF Publish, Deferred, Goto, Deciding
      <4>2. Settled(own)' <=> Settled(own)
        BY <2>1, <3>1 DEF Settled, Ended, Deleted
      <4>3. own \in pel' \/ Acked(own)
        BY <1>t, <2>1, <3>1 DEF Fresh, Acked
      <4> QED BY <2>4, <2>b, <3>1, <4>1, <4>2, <4>3 DEF Gone
    <3> QED BY <3>1, <3>2, <3>3
  <2>11. CASE ReleaseLock(t) \/ RemoveDylibs(t)
    <3>1. UNCHANGED <<jobs, pel>> /\ pc'[t] \in {"idle", "cleanup"}
      BY <1>t, <2>11 DEF ReleaseLock, RemoveDylibs, Return, Goto, queueVars, jobVars
    <3>2. Settled(own)' <=> Settled(own)
      BY <2>1, <3>1 DEF Settled, Ended, Deleted
    <3>3. own \in pel' \/ Acked(own)
      BY <1>t, <2>1, <3>1 DEF Fresh, Acked
    <3> QED BY <2>4, <2>b, <3>1, <3>2, <3>3 DEF Gone, Deciding
  <2> QED
    BY <1>6, <2>5, <2>6, <2>7, <2>8, <2>9, <2>10, <2>11 DEF Process
<1>7. CASE Tick
  <2>1. UNCHANGED <<pc, jobs, submit, pel, stream, delivered>>
    BY <1>7 DEF Tick, QueueTick
  <2> QED BY <1>a, <1>t, <2>1, DeliveredFacts DEF Acked, WasDelivered
<1>8. CASE Stop
  <2>1. /\ UNCHANGED <<jobs, pel, stream, delivered>> /\ \A t \in Tasks : pc'[t] = "idle"
    BY <1>8 DEF Stop, queueVars
  <2>2. \A k \in Jobs : submit[k] \in {"accepted", "answered"} => submit'[k] = submit[k]
    BY <1>8 DEF Stop, CutRequests
  <2>3. \A k \in Jobs : WasDelivered(k) => submit'[k] \in {"accepted", "answered"}
    BY <1>t, <2>2, DeliveredFacts
  <2> QED BY <1>a, <2>1, <2>3 DEF Acked, WasDelivered, Deciding
<1>9. CASE UNCHANGED vars
  <2>1. UNCHANGED <<pc, jobs, submit, pel, stream, delivered>>
    BY <1>9 DEF vars, taskVars, jobVars, queueVars
  <2> QED BY <1>a, <1>t, <2>1, DeliveredFacts DEF Acked, WasDelivered
<1> QED
  BY <1>1, <1>2, <1>3, <1>4, <1>5, <1>6, <1>7, <1>8, <1>9 DEF Next

\* No more jobs are gone than commands have failed.
LossInv == Holding /\ Cardinality(Gone) <= faults

LEMMA LossStep ==
  ASSUME Inv, FinalInv, LossInv, [Next]_vars
  PROVE  LossInv'
<1>1. Holding'
  BY HoldingStep DEF LossInv
<1> DEFINE G == Gone
           H == Gone'
<1>2. IsFiniteSet(G) /\ Cardinality(G) \in Nat
  <2>1. G \in SUBSET Jobs /\ IsFiniteSet(Jobs)
    BY QueueAssumption DEF Gone
  <2> HIDE DEF G
  <2> QED BY <2>1, FS_Subset, FS_CardinalityType
<1>3. faults \in Nat /\ faults' \in {faults, faults + 1}
  BY Counters DEF Inv
<1>4. Cardinality(G) <= faults
  BY DEF LossInv
<1>5. H \subseteq G \/ (faults' = faults + 1 /\ \E j \in Jobs : H \subseteq G \union {j})
  BY GoneStep DEF LossInv
<1> HIDE DEF G, H
<1>6. CASE H \subseteq G
  <2>1. Cardinality(H) <= Cardinality(G) /\ Cardinality(H) \in Nat
    BY <1>2, <1>6, FS_Subset, FS_CardinalityType
  <2> QED BY <1>1, <1>2, <1>3, <1>4, <2>1 DEF LossInv, H
<1>7. ASSUME faults' = faults + 1, NEW j \in Jobs, H \subseteq G \union {j}
      PROVE  LossInv'
  <2>1. /\ IsFiniteSet(G \union {j})
        /\ Cardinality(G \union {j}) \in {Cardinality(G), Cardinality(G) + 1}
    BY <1>2, FS_AddElement
  <2>2. Cardinality(H) <= Cardinality(G \union {j}) /\ Cardinality(H) \in Nat
    BY <1>7, <2>1, FS_Subset, FS_CardinalityType
  <2>3. Cardinality(H) <= faults'
    BY <1>2, <1>3, <1>4, <1>7, <2>1, <2>2
  <2> QED BY <1>1, <2>3 DEF LossInv, H
<1> QED BY <1>5, <1>6, <1>7

LEMMA LossInit == Init => Inv /\ FinalInv /\ LossInv
<1> SUFFICES ASSUME Init PROVE Inv /\ FinalInv /\ LossInv
  OBVIOUS
<1>1. Inv
  BY TypeInit, FreshInit, LockInit, PaceInit DEF Inv
<1>2. FinalInv /\ Holding
  BY DEF Init, JobInit, FinalInv, Working, Holding, Unacked
<1>3. Gone = {} /\ faults = 0
  BY DEF Init, QueueInit, JobInit, Gone, Acked, WasDelivered, InDeciding, Deciding
<1>4. Cardinality(Gone) <= faults
  BY <1>3, FS_EmptySet
<1> QED BY <1>1, <1>2, <1>4 DEF LossInv

\* The invariants together.
LEMMA LossAlways ==
  ASSUME Paced PROVE Spec => [](Inv /\ FinalInv /\ LossInv)
<1>1. Inv /\ FinalInv /\ LossInv /\ [Next]_vars => (Inv /\ FinalInv /\ LossInv)'
  BY TypeStep, FreshStep, LockStep, PaceStep, FinalStep, LossStep DEF Inv
<1> QED
  BY LossInit, <1>1, PTL DEF Spec

\* streams.go:127, "acknowledges a message as successfully processed": however
\* many commands fail and restarts there are, the group forgets no more messages
\* of undecided jobs than commands have failed; without a failure none.
THEOREM AckAfterOutcome ==
  ASSUME Paced PROVE Spec => []AckedIsEnded
<1>1. Inv /\ FinalInv /\ LossInv => AckedIsEnded
  <2> SUFFICES ASSUME Inv, LossInv PROVE Cardinality(Lost) <= faults
    BY DEF AckedIsEnded
  <2>1. Lost \subseteq Gone
    BY DEF Lost, Gone, Settled
  <2>2. IsFiniteSet(Gone)
    <3>1. Gone \in SUBSET Jobs /\ IsFiniteSet(Jobs)
      BY QueueAssumption DEF Gone
    <3> QED BY <3>1, FS_Subset
  <2>3. /\ Cardinality(Lost) <= Cardinality(Gone)
        /\ Cardinality(Lost) \in Nat /\ Cardinality(Gone) \in Nat
    BY <2>1, <2>2, FS_Subset, FS_CardinalityType
  <2>4. faults \in Nat /\ Cardinality(Gone) <= faults
    BY JobAssumption DEF JobAssumption, Inv, LossInv, TypeInv, TypeOK, JobTypeOK
  <2> QED BY <2>3, <2>4
<1> QED
  BY <1>1, LossAlways, PTL

-----------------------------------------------------------------------------
(* A signed IPA for every DONE job                                         *)

\* No end of the process and one failing command at most.
Calm == crashes = 0 /\ faults < 2

\* What the success of a job promises of its signed.ipa.
Promised(j) == signed[j] # "absent" /\ (Calm => signed[j] = "whole")

\* A job nobody will sign any more.
GivenUp(j) ==
    \/ jobs[j].status = "FAILED"
    \/ \E t \in Tasks : JobOf(t) = j /\ pc[t] \in {"retry", "fail"}
    \/ faults > 0 /\ Acked(j)
    \/ faults > 0 /\ \E t \in Tasks : JobOf(t) = j /\ pc[t] = "ackFailed"

AfterSign == {"publishing", "meta", "done"}

\* Between zsign's success and the outcome the IPA is there, and no one is
\* under way to remove it; a spoilt one is that of a job that is given up.
SignedInv ==
    /\ \A j \in Jobs \ Deletable : removal[j] = "no"
    /\ \A t \in Tasks :
          pc[t] \in AfterSign /\ JobOf(t) \notin Deletable => Promised(JobOf(t))
    /\ \A j \in Jobs \ Deletable : jobs[j].status = "DONE" => Promised(j)
    /\ Calm => \A j \in Jobs \ Deletable : signed[j] = "spoilt" => GivenUp(j)

\* Time runs one way.
LEMMA CalmBefore ==
  ASSUME TypeInv, [Next]_vars, Calm'
  PROVE  Calm /\ ~Stop /\ faults' >= faults /\ faults \in Nat
BY Counters DEF Calm

\* An acknowledged message stays so.
LEMMA AckedStays ==
  ASSUME Inv, [Next]_vars, NEW j \in Jobs, Acked(j)
  PROVE  Acked(j)'
<1>t. /\ TypeInv /\ Fresh /\ stream \in Seq(Jobs) /\ delivered \in 0..Len(stream)
      /\ \E i \in 1..delivered : stream[i] = j
  BY DEF Inv, TypeInv, TypeOK, QueueTypeOK, Acked, WasDelivered
<1>a. ASSUME delivered' >= delivered, delivered' \in Nat,
             \A i \in 1..delivered : stream'[i] = stream[i], j \notin pel'
      PROVE  Acked(j)'
  BY <1>a, <1>t DEF Acked, WasDelivered
<1>b. ASSUME UNCHANGED <<stream, delivered>>, pel' \subseteq pel PROVE Acked(j)'
  BY <1>b DEF Acked, WasDelivered
<1>1. ASSUME NEW k \in Jobs, Submit(k) PROVE Acked(j)'
  <2>1. UNCHANGED <<delivered, pel>> /\ (UNCHANGED stream \/ stream' = Append(stream, k))
    BY <1>1 DEF Submit, EnqueueJob, Enqueue, queueVars
  <2>2. \A i \in 1..Len(stream) : Append(stream, k)[i] = stream[i]
    BY <1>t
  <2> QED BY <1>a, <1>t, <2>1, <2>2 DEF Acked
<1>2. ASSUME NEW k \in Jobs, Delete(k) \/ GiveToken(k) \/ TokenExpires(k) PROVE Acked(j)'
  <2>1. UNCHANGED queueVars
    BY <1>2 DEF Delete, GiveToken, TokenExpires
  <2> QED BY <1>b, <2>1 DEF queueVars
<1>3. ASSUME NEW k \in Jobs, ReadMessage(k) PROVE Acked(j)'
  <2>1. /\ delivered < Len(stream) /\ k = stream[delivered + 1]
        /\ delivered' = delivered + 1 /\ pel' = pel \union {k} /\ UNCHANGED stream
    BY <1>3 DEF ReadMessage, ReadNew
  <2>2. k # j
    BY <1>t, <2>1 DEF Fresh, Positions
  <2> QED BY <1>a, <1>t, <2>1, <2>2 DEF Acked
<1>4. CASE RecoverStale
  BY <1>4, <1>b DEF RecoverStale, ClaimStale
<1>5. ASSUME NEW t \in Tasks, Process(t) PROVE Acked(j)'
  BY <1>5, <1>b, <1>t, ProcessFrame
<1>6. CASE Tick
  BY <1>6, <1>b DEF Tick, QueueTick
<1>7. CASE Stop \/ UNCHANGED vars
  BY <1>7, <1>b DEF Stop, vars, queueVars
<1> QED
  BY <1>1, <1>2, <1>3, <1>4, <1>5, <1>6, <1>7 DEF Next

\* What a task's step means for the files: only Sign touches its job's IPA.
LEMMA SignedFrame ==
  ASSUME TypeInv, NEW t \in Tasks, Process(t), ~Sign(t)
  PROVE  UNCHANGED <<signed, removal>>
<1>1. CASE StartPooled(t) \/ GetJob(t) \/ Drop(t) \/ AcquireLock(t)
  BY <1>1 DEF StartPooled, GetJob, ReadAndChoose, Drop, AcquireLock, AcquireOr,
     fileVars, jobVars
<1>2. CASE SaveSigning(t) \/ SavePublishing(t) \/ SaveDone(t)
           \/ IncrementRetry(t) \/ SaveFailed(t)
  BY <1>2 DEF SaveSigning, SavePublishing, SaveDone, IncrementRetry, SaveFailed,
     SaveCopy, fileVars
<1>3. CASE GetToken(t) \/ DelToken(t) \/ WriteMeta(t)
  BY <1>3 DEF GetToken, DelToken, WriteMeta, fileVars, jobVars
<1>4. CASE Publish(t) \/ AckMessage(t) \/ ReleaseLock(t) \/ RemoveDylibs(t)
  BY <1>4 DEF Publish, AckMessage, ReleaseLock, RemoveDylibs, fileVars, jobVars
<1> QED BY <1>1, <1>2, <1>3, <1>4 DEF Process

\* A job that is given up stays so.
LEMMA GivenUpStays ==
  ASSUME Inv, FinalInv, SignedInv, [Next]_vars, Calm',
         NEW j \in Jobs \ Deletable, GivenUp(j)
  PROVE  GivenUp(j)'
<1>t. /\ pc \in [Tasks -> Commands] /\ jobs \in [Jobs -> Records]
      /\ copy \in [Tasks -> Records]
      /\ \A t \in Tasks : JobOf(t) \in Jobs
      /\ TypeInv /\ Fresh /\ SoleProcessor
  BY Typed DEF Inv, PaceInv
<1>c. Calm /\ ~Stop /\ faults' >= faults /\ faults \in Nat /\ faults' \in {faults, faults + 1}
  BY <1>t, CalmBefore, Counters
<1>1. CASE faults > 0 /\ Acked(j)
  <2>1. faults' > 0
    BY <1>1, <1>c
  <2> QED BY <1>1, <2>1, AckedStays DEF GivenUp
\* The task of a job that is given up, or the record: other steps leave both.
<1>a. ASSUME ~(faults > 0 /\ Acked(j)),
             \A t \in Tasks : JobOf(t) = j /\ Active(t) => pc'[t] = pc[t],
             jobs[j].status = "FAILED" => jobs'[j].status = "FAILED"
      PROVE  GivenUp(j)'
  <2>1. \A t \in Tasks : JobOf(t) = j /\ pc[t] \in {"retry", "fail", "ackFailed"}
                            => pc'[t] = pc[t]
    BY <1>a DEF Active
  <2> QED BY <1>a, <1>c, <2>1 DEF GivenUp
<1>2. ASSUME NEW k \in Jobs, Submit(k), ~(faults > 0 /\ Acked(j)) PROVE GivenUp(j)'
  <2>1. UNCHANGED pc
    BY <1>2 DEF Submit, taskVars
  <2>2. jobs[j].status = "FAILED" => jobs'[j] = jobs[j]
    BY <1>2, <1>t DEF Submit, CreateJob, ListJob, EnqueueJob, FinalInv, NoJob
  <2> QED BY <1>a, <1>2, <2>1, <2>2
<1>3. ASSUME NEW k \in Jobs, Delete(k), ~(faults > 0 /\ Acked(j)) PROVE GivenUp(j)'
  <2>1. UNCHANGED pc
    BY <1>3 DEF Delete, taskVars
  <2>2. jobs'[j] = jobs[j]
    BY <1>3, <1>t DEF Delete, StartDelete, DeleteRecord, UnlistJob, RemoveFiles, SaveJob,
       SignedInv
  <2> QED BY <1>a, <1>3, <2>1, <2>2
<1>4. ASSUME NEW k \in Jobs, GiveToken(k) \/ TokenExpires(k), ~(faults > 0 /\ Acked(j))
      PROVE  GivenUp(j)'
  BY <1>4, <1>a DEF GiveToken, TokenExpires, taskVars, jobVars
<1>5. ASSUME NEW k \in Jobs, ReadMessage(k), ~(faults > 0 /\ Acked(j)) PROVE GivenUp(j)'
  <2>1. UNCHANGED jobs /\ \A t \in Tasks : t # <<k, Pool>> => pc'[t] = pc[t]
    BY <1>5, <1>t DEF ReadMessage, Goto, jobVars
  <2>2. ASSUME Active(<<k, Pool>>) PROVE FALSE
    <3>1. WasDelivered(k)
      BY <1>t, <2>2, TaskFacts DEF Fresh, JobOf
    <3>2. delivered < Len(stream) /\ k = stream[delivered + 1]
          /\ stream \in Seq(Jobs) /\ delivered \in 0..Len(stream)
      BY <1>5, <1>t DEF ReadMessage, ReadNew, TypeInv, TypeOK, QueueTypeOK
    <3> QED BY <1>t, <3>1, <3>2 DEF Fresh, WasDelivered, Positions
  <2> QED BY <1>a, <1>5, <2>1, <2>2
<1>6. ASSUME RecoverStale, ~(faults > 0 /\ Acked(j)) PROVE GivenUp(j)'
  <2>1. PICK claimed \in SUBSET Stale, s \in [Jobs -> Recovered] :
          /\ \A k \in claimed : ~Active(<<k, s[k]>>)
          /\ \/ pc' = [t \in Tasks |->
                        IF JobOf(t) \in claimed /\ t[2] = s[JobOf(t)]
                        THEN "get" ELSE pc[t]]
             \/ UNCHANGED pc
          /\ UNCHANGED jobVars
    BY <1>6 DEF RecoverStale
  <2>2. \A t \in Tasks : Active(t) => pc'[t] = pc[t]
    <3>1. \A t \in Tasks : t = <<JobOf(t), t[2]>>
      BY TaskFacts DEF Tasks, JobOf
    <3> QED BY <2>1, <3>1
  <2> QED BY <1>a, <1>6, <2>1, <2>2 DEF jobVars
<1>7. ASSUME NEW t \in Tasks, Process(t), ~(faults > 0 /\ Acked(j)) PROVE GivenUp(j)'
  <2>1. Active(t) /\ \A u \in Tasks : u # t => pc'[u] = pc[u]
    BY <1>7, <1>t, ProcessFrame
  <2>2. \A k \in Jobs : k # JobOf(t) => jobs'[k] = jobs[k]
    BY <1>7, <1>t, SavesOwnJob
  <2>3. CASE JobOf(t) # j
    BY <1>a, <1>7, <2>1, <2>2, <2>3
  <2>4. CASE JobOf(t) = j
    <3>1. \A u \in Tasks : JobOf(u) = j /\ Active(u) => u = t
      BY <1>t, <2>1, <2>4 DEF SoleProcessor
    <3>2. CASE jobs[j].status = "FAILED"
      <4>1. pc[t] \notin Working
        BY <2>4, <3>2 DEF FinalInv, Undecided, Ended, Terminal
      <4>2. UNCHANGED jobs
        BY <1>7, <1>t, <4>1, SavesOwnJob
      <4> QED BY <3>2, <4>2 DEF GivenUp
    <3>3. CASE pc[t] = "retry"
      <4>1. IncrementRetry(t)
        BY <1>7, <3>3 DEF Process, StartPooled, GetJob, ReadAndChoose, Drop, AcquireLock,
           AcquireOr, SaveSigning, GetToken, DelToken, Sign, SignLeaving, SavePublishing,
           WriteMeta, SaveDone, SaveFailed, Publish, AckMessage, ReleaseLock, RemoveDylibs
      <4>2. pc'[t] = "fail"
        BY <1>t, <4>1 DEF IncrementRetry, Goto
      <4> QED BY <2>4, <4>2 DEF GivenUp
    <3>4. CASE pc[t] = "fail"
      <4>1. SaveFailed(t)
        BY <1>7, <3>4 DEF Process, StartPooled, GetJob, ReadAndChoose, Drop, AcquireLock,
           AcquireOr, SaveSigning, GetToken, DelToken, Sign, SignLeaving, SavePublishing,
           WriteMeta, SaveDone, IncrementRetry, Publish, AckMessage, ReleaseLock,
           RemoveDylibs
      <4>2. pc'[t] = "ackFailed" /\ SaveJob(j, WithStatus(t, "FAILED"))
        BY <1>t, <2>4, <4>1 DEF SaveFailed, SaveCopy, Goto
      <4>3. WithStatus(t, "FAILED").status = "FAILED"
        BY <1>t, RecordFacts DEF WithStatus, Statuses, Terminal
      <4>4. jobs'[j].status = "FAILED" \/ faults' = faults + 1
        BY <1>t, <4>2, <4>3 DEF SaveJob, Fault
      <4> QED BY <1>c, <2>4, <4>2, <4>4 DEF GivenUp
    <3>5. CASE faults > 0 /\ pc[t] = "ackFailed"
      <4>1. AckMessage(t)
        BY <1>7, <3>5 DEF Process, StartPooled, GetJob, ReadAndChoose, Drop, AcquireLock,
           AcquireOr, SaveSigning, GetToken, DelToken, Sign, SignLeaving, SavePublishing,
           WriteMeta, SaveDone, SaveFailed, IncrementRetry, Publish, ReleaseLock,
           RemoveDylibs
      <4>2. Ack(j) \/ Fault
        BY <2>4, <4>1 DEF AckMessage, AckOrNot
      <4>3. ~Fault
        BY <1>c, <3>5 DEF Fault, Calm
      <4>4. j \notin pel' /\ UNCHANGED <<stream, delivered>>
        BY <4>2, <4>3 DEF Ack
      <4>5. Acked(j)'
        BY <1>t, <2>1, <2>4, <4>4 DEF Fresh, Acked, WasDelivered
      <4> QED BY <1>c, <3>5, <4>5 DEF GivenUp
    <3>6. \/ jobs[j].status = "FAILED" \/ pc[t] = "retry" \/ pc[t] = "fail"
          \/ faults > 0 /\ pc[t] = "ackFailed"
      BY <1>7, <3>1 DEF GivenUp, Active
    <3> QED BY <3>2, <3>3, <3>4, <3>5, <3>6
  <2> QED BY <2>3, <2>4
<1>8. ASSUME Tick \/ UNCHANGED vars, ~(faults > 0 /\ Acked(j)) PROVE GivenUp(j)'
  BY <1>8, <1>a DEF Tick, vars, taskVars, jobVars
<1> QED
  BY <1>c, <1>1, <1>2, <1>3, <1>4, <1>5, <1>6, <1>7, <1>8 DEF Next

\* Nobody signs a job that is given up.
LEMMA SigningIsWanted ==
  ASSUME Inv, FinalInv, Holding, NEW t \in Tasks, pc[t] = "sign"
  PROVE  ~GivenUp(JobOf(t))
<1>1. \A u \in Tasks : JobOf(u) = JobOf(t) /\ Active(u) => u = t
  BY DEF Inv, PaceInv, SoleProcessor, Active
<1>2. JobOf(t) \in pel
  BY DEF Holding, Unacked, Working
<1>3. jobs[JobOf(t)].status # "FAILED"
  BY DEF FinalInv, Undecided, Working, Ended, Terminal
<1>4. \A u \in Tasks : JobOf(u) = JobOf(t) => pc[u] \notin {"retry", "fail", "ackFailed"}
  BY <1>1 DEF Active
<1> QED BY <1>2, <1>3, <1>4 DEF GivenUp, Acked

LEMMA SignedStep ==
  ASSUME Inv, FinalInv, Holding, SignedInv, [Next]_vars
  PROVE  SignedInv'
<1>t. /\ pc \in [Tasks -> Commands] /\ copy \in [Tasks -> Records]
      /\ jobs \in [Jobs -> Records] /\ signed \in [Jobs -> Contents]
      /\ \A t \in Tasks : JobOf(t) \in Jobs
      /\ TypeInv /\ SoleProcessor
  BY Typed DEF Inv, PaceInv
<1>c. Calm' => Calm /\ ~Stop
  BY <1>t, CalmBefore
<1>g. ASSUME Calm', NEW j \in Jobs \ Deletable, GivenUp(j) PROVE GivenUp(j)'
  BY <1>g, GivenUpStays
\* Steps that touch no IPA of a lasting job and make no job DONE.
<1>a. ASSUME \A j \in Jobs \ Deletable : signed'[j] = signed[j],
             \A j \in Jobs : jobs'[j].status = "DONE" => jobs[j].status = "DONE",
             \A t \in Tasks : pc'[t] \in AfterSign => pc[t] \in AfterSign,
             \A j \in Jobs \ Deletable : removal'[j] = "no"
      PROVE  SignedInv'
  <2>1. \A j \in Jobs \ Deletable : Promised(j) => Promised(j)'
    BY <1>a, <1>c DEF Promised
  <2>2. Calm' => \A j \in Jobs \ Deletable : signed'[j] = "spoilt" => GivenUp(j)'
    BY <1>a, <1>c, <1>g DEF SignedInv
  <2> QED BY <1>a, <1>t, <2>1, <2>2 DEF SignedInv
<1>1. ASSUME NEW j \in Jobs, Submit(j) PROVE SignedInv'
  <2>1. UNCHANGED <<pc, signed, removal>>
    BY <1>1 DEF Submit, CreateJob, ListJob, EnqueueJob, taskVars, fileVars
  <2>2. \A k \in Jobs : jobs'[k].status = "DONE" => jobs[k].status = "DONE"
    BY <1>1, <1>t DEF Submit, CreateJob, ListJob, EnqueueJob
  <2> QED BY <1>a, <2>1, <2>2 DEF SignedInv
<1>2. ASSUME NEW j \in Jobs, Delete(j) PROVE SignedInv'
  <2>1. /\ j \in Deletable /\ UNCHANGED pc
        /\ \A k \in Jobs : k # j => removal'[k] = removal[k] /\ signed'[k] = signed[k]
    <3>1. DOMAIN removal = Jobs
      BY <1>t DEF TypeInv, TypeOK, JobTypeOK
    <3>2. UNCHANGED pc /\ \A k \in Jobs : k # j => signed'[k] = signed[k]
      BY <1>2, <1>t DEF Delete, taskVars
    <3>3. CASE StartDelete(j)
      BY <3>1, <3>2, <3>3 DEF StartDelete
    <3>4. CASE DeleteRecord(j) \/ UnlistJob(j) \/ RemoveFiles(j)
      <4>1. removal[j] # "no" /\ \A k \in Jobs : k # j => removal'[k] = removal[k]
        BY <3>1, <3>4 DEF DeleteRecord, UnlistJob, RemoveFiles
      <4> QED BY <3>2, <4>1 DEF SignedInv
    <3> QED BY <1>2, <3>3, <3>4 DEF Delete
  <2>2. \A k \in Jobs : jobs'[k].status = "DONE" => jobs[k].status = "DONE"
    <3>1. CASE DeleteRecord(j)
      BY <1>t, <3>1 DEF DeleteRecord, SaveJob, NoJob
    <3>2. CASE StartDelete(j) \/ UnlistJob(j) \/ RemoveFiles(j)
      BY <3>2 DEF StartDelete, UnlistJob, RemoveFiles
    <3> QED BY <1>2, <3>1, <3>2 DEF Delete
  <2> QED BY <1>a, <2>1, <2>2 DEF SignedInv
<1>3. ASSUME NEW j \in Jobs, GiveToken(j) \/ TokenExpires(j) PROVE SignedInv'
  BY <1>3, <1>a DEF GiveToken, TokenExpires, taskVars, fileVars, jobVars, SignedInv
<1>4. ASSUME NEW j \in Jobs, ReadMessage(j) PROVE SignedInv'
  <2>1. UNCHANGED <<jobs, signed, removal>>
    BY <1>4 DEF ReadMessage, jobVars, fileVars
  <2>2. \A t \in Tasks : pc'[t] \in {pc[t], "sem"}
    BY <1>4, <1>t DEF ReadMessage, Goto
  <2> QED BY <1>a, <2>1, <2>2 DEF SignedInv, AfterSign
<1>5. CASE RecoverStale
  <2>1. UNCHANGED <<jobs, signed, removal>>
    BY <1>5 DEF RecoverStale, jobVars, fileVars
  <2>2. \A t \in Tasks : pc'[t] \in {pc[t], "get"}
    BY <1>5 DEF RecoverStale
  <2> QED BY <1>a, <2>1, <2>2 DEF SignedInv, AfterSign
<1>6. ASSUME NEW t \in Tasks, Process(t) PROVE SignedInv'
  <2> DEFINE own == JobOf(t)
  <2>1. Active(t) /\ \A u \in Tasks : u # t => pc'[u] = pc[u]
    BY <1>6, <1>t, ProcessFrame
  <2>2. \A u \in Tasks : u # t /\ Active(u) => JobOf(u) # own
    BY <1>t, <2>1 DEF SoleProcessor
  <2>3. pc[t] \in Working => ~Ended(own) /\ copy[t].status \notin Terminal
    BY DEF FinalInv, Undecided
  <2>4. \A j \in Jobs : j # own => jobs'[j] = jobs[j]
    BY <1>6, <1>t, SavesOwnJob
  <2>5. CASE Sign(t)
    <3>1. /\ UNCHANGED <<jobs, removal, faults, crashes>> /\ pc[t] = "sign"
          /\ \A j \in Jobs : j # own => signed'[j] = signed[j]
      BY <1>t, <2>5 DEF Sign, SignLeaving, jobVars
    <3>2. jobs[own].status # "DONE"
      BY <2>3, <3>1 DEF Working, Ended, Terminal
    <3>3. Calm' <=> Calm
      BY <3>1 DEF Calm
    <3>4. \/ pc'[t] = "publishing" /\ signed'[own] \in {"whole", signed[own]} \ {"absent"}
          \/ pc'[t] = "retry"
      BY <1>t, <2>5 DEF Sign, SignLeaving, Finished, Goto
    <3>5. Calm /\ own \notin Deletable => signed[own] # "spoilt"
      BY <1>t, <3>1, SigningIsWanted DEF SignedInv
    <3>6. ASSUME own \notin Deletable, pc'[t] = "publishing" PROVE Promised(own)'
      BY <1>t, <3>3, <3>4, <3>5, <3>6 DEF Promised, Contents
    <3>7. \A j \in Jobs \ Deletable : j # own => (Promised(j)' <=> Promised(j))
      BY <3>1, <3>3 DEF Promised
    <3>8. \A u \in Tasks :
             pc'[u] \in AfterSign /\ JobOf(u) \notin Deletable => Promised(JobOf(u))'
      <4>1. ASSUME NEW u \in Tasks, u # t, pc'[u] \in AfterSign, JobOf(u) \notin Deletable
            PROVE  Promised(JobOf(u))'
        BY <1>t, <2>1, <2>2, <3>7, <4>1 DEF SignedInv, Active, AfterSign
      <4> QED BY <3>4, <3>6, <4>1 DEF AfterSign
    <3>9. \A j \in Jobs \ Deletable : jobs'[j].status = "DONE" => Promised(j)'
      BY <3>1, <3>2, <3>7 DEF SignedInv
    <3>10. ASSUME Calm', NEW j \in Jobs \ Deletable, signed'[j] = "spoilt" PROVE GivenUp(j)'
      <4>1. CASE j # own
        BY <1>c, <1>g, <3>1, <3>10, <4>1 DEF SignedInv
      <4>2. CASE j = own
        <5>1. pc'[t] = "retry"
          BY <3>3, <3>4, <3>5, <3>10, <4>2
        <5> QED BY <4>2, <5>1 DEF GivenUp
      <4> QED BY <4>1, <4>2
    <3> QED BY <3>1, <3>8, <3>9, <3>10 DEF SignedInv
  <2>6. CASE SavePublishing(t) \/ WriteMeta(t) \/ SaveDone(t)
    <3>1. pc[t] \in AfterSign
      BY <2>6 DEF SavePublishing, WriteMeta, SaveDone, AfterSign
    <3>2. ~Sign(t)
      BY <3>1 DEF Sign, SignLeaving, AfterSign
    <3>3. UNCHANGED <<signed, removal>>
      BY <1>6, <1>t, <3>2, SignedFrame
    <3>4. \A j \in Jobs \ Deletable : Promised(j) => Promised(j)'
      BY <1>c, <3>3 DEF Promised
    <3>5. \A j \in Jobs \ Deletable : jobs'[j].status = "DONE" => Promised(j)'
      BY <2>4, <3>1, <3>4 DEF SignedInv
    <3>6. \A u \in Tasks :
             pc'[u] \in AfterSign /\ JobOf(u) \notin Deletable => Promised(JobOf(u))'
      BY <1>t, <2>1, <3>1, <3>4 DEF SignedInv
    <3>7. Calm' => \A j \in Jobs \ Deletable : signed'[j] = "spoilt" => GivenUp(j)'
      BY <1>c, <1>g, <3>3 DEF SignedInv
    <3> QED BY <3>3, <3>5, <3>6, <3>7 DEF SignedInv
  <2>7. CASE SaveSigning(t) \/ SaveFailed(t) \/ IncrementRetry(t)
    <3>1. PICK r \in Records : SaveCopy(t, r) /\ r.status # "DONE"
      <4>1. CASE SaveSigning(t) \/ SaveFailed(t)
        <5>1. PICK s \in Statuses \ {"DONE"} : SaveCopy(t, WithStatus(t, s))
          BY <4>1 DEF SaveSigning, SaveFailed, Statuses, Terminal
        <5>2. WithStatus(t, s) \in Records /\ WithStatus(t, s).status = s
          BY <1>t, RecordFacts DEF WithStatus
        <5> QED BY <5>1, <5>2
      <4>2. CASE IncrementRetry(t)
        <5>1. /\ copy[t].retry < MaxRetries /\ pc[t] = "retry"
              /\ SaveCopy(t, [copy[t] EXCEPT !.retry = @ + 1])
          BY <1>t, <4>2 DEF IncrementRetry, TypeInv, RetryLeft, RetryPCs
        <5>2. [copy[t] EXCEPT !.retry = @ + 1] \in Records
          BY <1>t, <5>1, RecordFacts
        <5>3. [copy[t] EXCEPT !.retry = @ + 1].status # "DONE"
          BY <1>t, <2>3, <5>1 DEF Working, Terminal, Records
        <5> QED BY <5>1, <5>2, <5>3
      <4> QED BY <2>7, <4>1, <4>2
    <3>2. \A j \in Jobs : jobs'[j].status = "DONE" => jobs[j].status = "DONE"
      BY <1>t, <3>1 DEF SaveCopy, SaveJob
    <3>3. UNCHANGED <<signed, removal>> /\ pc'[t] \notin AfterSign
      BY <1>t, <2>7 DEF SaveSigning, SaveFailed, IncrementRetry, SaveCopy, Goto, fileVars,
         AfterSign
    <3> QED BY <1>a, <2>1, <3>2, <3>3 DEF SignedInv
  <2>8. CASE GetToken(t) \/ DelToken(t) \/ Publish(t) \/ AckMessage(t)
             \/ ReleaseLock(t) \/ RemoveDylibs(t)
    <3>1. UNCHANGED <<jobs, signed, removal>> /\ pc'[t] \notin AfterSign
      BY <1>t, <2>8 DEF GetToken, DelToken, Publish, AckMessage, ReleaseLock,
         RemoveDylibs, Return, Deferred, Goto, fileVars, jobVars, AfterSign
    <3> QED BY <1>a, <2>1, <3>1 DEF SignedInv
  <2>9. CASE StartPooled(t) \/ GetJob(t) \/ Drop(t) \/ AcquireLock(t)
    <3>1. UNCHANGED <<jobs, signed, removal>> /\ pc'[t] \notin AfterSign
      BY <1>t, <2>9 DEF StartPooled, GetJob, ReadAndChoose, Drop,
         AcquireLock, AcquireOr, Return, Goto, fileVars, jobVars, AfterSign
    <3> QED BY <1>a, <2>1, <3>1 DEF SignedInv
  <2> QED
    BY <1>6, <2>5, <2>6, <2>7, <2>8, <2>9 DEF Process
<1>7. CASE Tick
  BY <1>7, <1>a DEF Tick, fileVars, SignedInv
<1>8. CASE Stop
  <2>1. /\ UNCHANGED jobs /\ \A t \in Tasks : pc'[t] = "idle"
        /\ \A j \in Jobs \ Deletable : removal'[j] = "no"
    BY <1>8 DEF Stop, CutRequests
  <2>2. ~Calm'
    BY <1>8, <1>c
  \* zsign dies with the process, on a job that is undecided.
  <2>3. ASSUME NEW j \in Jobs, jobs[j].status = "DONE" PROVE signed'[j] = signed[j]
    <3>1. j \notin {JobOf(t) : t \in At({"sign"})}
      BY <2>3 DEF At, FinalInv, Undecided, Working, Ended, Terminal
    <3> QED BY <1>8, <3>1 DEF Stop
  <2>4. \A j \in Jobs \ Deletable : jobs[j].status = "DONE" => Promised(j)'
    BY <2>2, <2>3 DEF SignedInv, Promised
  <2> QED BY <2>1, <2>2, <2>4 DEF SignedInv, AfterSign
<1>9. CASE UNCHANGED vars
  BY <1>9, <1>a DEF vars, jobVars, taskVars, fileVars, SignedInv
<1> QED
  BY <1>1, <1>2, <1>3, <1>4, <1>5, <1>6, <1>7, <1>8, <1>9 DEF Next

\* signer.go:114-121: a job that is DONE has a signed.ipa, and the file stays: no
\* other run of the job, no end of the process and no deletion of another job
\* removes it.  It is the whole one that zsign wrote for this job as long as no
\* run was cut off by the end of the process, even if one command failed.
THEOREM DoneIsSigned ==
  ASSUME Paced PROVE Spec => []DoneHasIPA
<1>1. Init => SignedInv
  BY DEF Init, JobInit, SignedInv, AfterSign, NoJob
<1>2. Inv /\ FinalInv /\ LossInv /\ SignedInv /\ [Next]_vars => SignedInv'
  BY SignedStep DEF LossInv
<1>3. SignedInv => DoneHasIPA
  BY DEF SignedInv, Promised, Calm, DoneHasIPA, Lasting
<1> QED
  BY <1>1, <1>2, <1>3, LossAlways, PTL DEF Spec

-----------------------------------------------------------------------------
(* The last event                                                          *)

\* The commands between the save of an outcome and its event.
Telling == {"pubDone", "ackFailed", "pubFail"}

\* An outcome has been published, or a task that knows it is about to.
ToldInv ==
    crashes = 0 /\ faults = 0 =>
        /\ \A j \in Jobs : Ended(j) =>
              \/ told[j] = jobs[j].status
              \/ \E t \in Tasks : JobOf(t) = j /\ pc[t] \in Telling
        /\ \A t \in Tasks : pc[t] \in Telling /\ Ended(JobOf(t)) =>
              copy[t].status = jobs[JobOf(t)].status

\* The end of the process is counted.
LEMMA Counted ==
  ASSUME TypeInv, [Next]_vars, crashes' = 0, faults' = 0
  PROVE  crashes = 0 /\ faults = 0 /\ ~Fault /\ ~Stop
BY Counters

LEMMA ToldStep ==
  ASSUME Inv, FinalInv, ToldInv, [Next]_vars
  PROVE  ToldInv'
<1> SUFFICES ASSUME crashes' = 0, faults' = 0
             PROVE  /\ \A j \in Jobs : Ended(j)' =>
                          \/ told'[j] = jobs'[j].status
                          \/ \E t \in Tasks : JobOf(t) = j /\ pc'[t] \in Telling
                    /\ \A t \in Tasks : pc'[t] \in Telling /\ Ended(JobOf(t))' =>
                          copy'[t].status = jobs'[JobOf(t)].status
  BY DEF ToldInv
<1> DEFINE Goal == /\ \A j \in Jobs : Ended(j)' =>
                          \/ told'[j] = jobs'[j].status
                          \/ \E t \in Tasks : JobOf(t) = j /\ pc'[t] \in Telling
                   /\ \A t \in Tasks : pc'[t] \in Telling /\ Ended(JobOf(t))' =>
                          copy'[t].status = jobs'[JobOf(t)].status
<1>t. /\ pc \in [Tasks -> Commands] /\ jobs \in [Jobs -> Records]
      /\ copy \in [Tasks -> Records]
      /\ told \in [Jobs -> Statuses \union {"NONE"}]
      /\ \A t \in Tasks : JobOf(t) \in Jobs
      /\ TypeInv /\ Fresh /\ SoleProcessor
  BY Typed DEF Inv, PaceInv
<1>f. crashes = 0 /\ faults = 0 /\ ~Fault /\ ~Stop
  BY <1>t, Counted
<1>i. /\ \A j \in Jobs : Ended(j) =>
            \/ told[j] = jobs[j].status
            \/ \E t \in Tasks : JobOf(t) = j /\ pc[t] \in Telling
      /\ \A t \in Tasks : pc[t] \in Telling /\ Ended(JobOf(t)) =>
            copy[t].status = jobs[JobOf(t)].status
  BY <1>f DEF ToldInv
\* Steps that say nothing, decide nothing and move no task that is to tell.
<1>a. ASSUME UNCHANGED <<told, copy>>,
             \A j \in Jobs : Ended(j)' => jobs'[j] = jobs[j],
             \A t \in Tasks : pc'[t] \in Telling <=> pc[t] \in Telling
      PROVE  Goal
  BY <1>a, <1>i, <1>t DEF Ended
<1>1. ASSUME NEW j \in Jobs, Submit(j) PROVE Goal
  <2>1. UNCHANGED <<told, copy, pc>>
    BY <1>1 DEF Submit, taskVars
  <2>2. \A k \in Jobs : jobs'[k] = jobs[k] \/ jobs'[k].status = "QUEUED"
    BY <1>1, <1>t DEF Submit, CreateJob, ListJob, EnqueueJob
  <2> QED BY <1>a, <2>1, <2>2 DEF Ended, Terminal
<1>2. ASSUME NEW j \in Jobs, Delete(j) PROVE Goal
  <2>1. UNCHANGED <<told, copy, pc>>
    BY <1>2 DEF Delete, taskVars
  <2>2. \A k \in Jobs : jobs'[k] \in {jobs[k], NoJob}
    BY <1>2, <1>t DEF Delete, StartDelete, DeleteRecord, SaveJob, UnlistJob, RemoveFiles
  <2> QED BY <1>a, <2>1, <2>2 DEF Ended, Terminal, NoJob
<1>3. ASSUME NEW j \in Jobs, GiveToken(j) \/ TokenExpires(j) PROVE Goal
  BY <1>3, <1>a DEF GiveToken, TokenExpires, taskVars, jobVars
<1>4. ASSUME NEW j \in Jobs, ReadMessage(j) PROVE Goal
  <2>1. UNCHANGED <<told, copy, jobs>> /\ Goto(<<j, Pool>>, "sem")
    BY <1>4, <1>f DEF ReadMessage, jobVars
  <2>2. pc[<<j, Pool>>] = "idle"
    <3>1. /\ delivered + 1 \in Positions /\ stream[delivered + 1] = j
          /\ delivered \in 0..Len(stream)
      BY <1>4, <1>t DEF ReadMessage, ReadNew, Positions, TypeInv, TypeOK, QueueTypeOK
    <3>2. ~WasDelivered(j)
      BY <1>t, <3>1 DEF WasDelivered, Fresh, Positions
    <3> QED BY <1>t, <3>2, TaskFacts DEF Fresh, Active
  <2> QED BY <1>a, <1>t, <2>1, <2>2, TaskFacts DEF Goto, Telling
<1>5. CASE RecoverStale
  <2>1. UNCHANGED <<told, copy, jobs>>
    BY <1>5 DEF RecoverStale, jobVars
  <2>2. \A t \in Tasks : pc'[t] = pc[t] \/ (pc'[t] = "get" /\ ~Active(t))
    BY <1>5, <1>f, <1>t DEF RecoverStale, Tasks, JobOf
  <2> QED BY <1>a, <2>1, <2>2 DEF Active, Telling
<1>6. ASSUME NEW t \in Tasks, Process(t) PROVE Goal
  <2> DEFINE own == JobOf(t)
  <2>1. Active(t) /\ \A u \in Tasks : u # t => pc'[u] = pc[u]
    BY <1>6, <1>t, ProcessFrame
  <2>2. \A u \in Tasks : u # t /\ Active(u) => JobOf(u) # own
    BY <1>t, <2>1 DEF SoleProcessor
  <2>3. /\ \A j \in Jobs : j # own => jobs'[j] = jobs[j]
        /\ \A u \in Tasks : u # t => copy'[u] = copy[u]
    BY <1>6, <1>t, SavesOwnJob
  <2>4. pc[t] \in Working => ~Ended(own) /\ copy[t].status \notin Terminal
    BY DEF FinalInv, Undecided
  \* What is left to show of the task's own job.
  <2>b. ASSUME \A j \in Jobs : j # own => told'[j] = told[j],
               Ended(own)' => told'[own] = jobs'[own].status \/ pc'[t] \in Telling,
               pc'[t] \in Telling /\ Ended(own)' => copy'[t].status = jobs'[own].status
        PROVE  Goal
    <3>1. ASSUME NEW j \in Jobs, Ended(j)', j # own
          PROVE  \/ told'[j] = jobs'[j].status
                 \/ \E u \in Tasks : JobOf(u) = j /\ pc'[u] \in Telling
      BY <1>i, <2>1, <2>3, <2>b, <3>1 DEF Ended
    <3>2. ASSUME NEW u \in Tasks, u # t, pc'[u] \in Telling, Ended(JobOf(u))'
          PROVE  copy'[u].status = jobs'[JobOf(u)].status
      BY <1>i, <1>t, <2>1, <2>2, <2>3, <3>2 DEF Ended, Active, Telling
    <3> QED BY <2>b, <3>1, <3>2
  <2>5. CASE SaveSigning(t) \/ SavePublishing(t)
    <3>1. PICK s \in {"SIGNING", "PUBLISHING"} :
            SaveCopy(t, WithStatus(t, s)) /\ \A j \in Jobs : j # own => told'[j] = told[j]
      BY <2>5, <1>t DEF SaveSigning, SavePublishing, Tell
    <3>2. ~Ended(own)'
      <4>1. WithStatus(t, s).status = s
        BY <1>t, RecordFacts DEF WithStatus, Statuses
      <4>2. jobs' = [jobs EXCEPT ![own] = WithStatus(t, s)]
        BY <1>f, <3>1 DEF SaveCopy, SaveJob
      <4> QED BY <1>t, <4>1, <4>2 DEF Ended, Terminal
    <3> QED BY <2>b, <3>1, <3>2
  <2>6. CASE SaveDone(t) \/ SaveFailed(t)
    <3>1. PICK s \in Terminal : SaveCopy(t, WithStatus(t, s))
      BY <2>6 DEF SaveDone, SaveFailed, Terminal
    <3>2. copy'[t] = WithStatus(t, s) /\ jobs'[own] = WithStatus(t, s)
      BY <1>f, <1>t, <3>1 DEF SaveCopy, SaveJob
    <3>3. UNCHANGED told /\ pc'[t] \in Telling
      BY <2>6, <1>t DEF SaveDone, SaveFailed, Goto, Telling
    <3> QED BY <2>b, <3>2, <3>3
  <2>7. CASE IncrementRetry(t)
    <3>1. /\ copy[t].status \notin Terminal /\ UNCHANGED told
          /\ jobs' = [jobs EXCEPT ![own] = [copy[t] EXCEPT !.retry = @ + 1]]
      BY <1>f, <2>4, <2>7 DEF IncrementRetry, SaveCopy, SaveJob, Working
    <3>2. [copy[t] EXCEPT !.retry = @ + 1].status = copy[t].status
      BY <1>t DEF Records
    <3>3. ~Ended(own)'
      BY <1>t, <3>1, <3>2 DEF Ended
    <3> QED BY <2>b, <3>1, <3>3
  <2>8. CASE Publish(t)
    <3>1. /\ pc[t] \in Telling /\ pc'[t] \notin Telling /\ UNCHANGED <<jobs, copy>>
          /\ told' = [told EXCEPT ![own] = copy[t].status]
      BY <1>f, <1>t, <2>8 DEF Publish, Deferred, Goto, Telling, Tell, jobVars
    <3>2. Ended(own) => copy[t].status = jobs[own].status
      BY <1>i, <3>1
    <3> QED BY <1>t, <2>b, <3>1, <3>2 DEF Ended
  \* The other commands leave records, copy and events alone.
  <2>c. ASSUME UNCHANGED <<jobs, told>>,
               \/ pc[t] \notin Telling /\ pc'[t] \notin Telling
               \/ pc[t] \in Telling /\ pc'[t] \in Telling /\ UNCHANGED copy
        PROVE  Goal
    <3>1. \A u \in Tasks : pc'[u] \in Telling <=> pc[u] \in Telling
      BY <2>1, <2>c
    <3>2. Ended(own)' => told'[own] = jobs'[own].status \/ pc'[t] \in Telling
      <4>1. \A u \in Tasks : JobOf(u) = own /\ pc[u] \in Telling => u = t
        BY <2>2 DEF Active, Telling
      <4> QED BY <1>i, <1>t, <2>c, <3>1, <4>1 DEF Ended
    <3>3. pc'[t] \in Telling /\ Ended(own)' => copy'[t].status = jobs'[own].status
      BY <1>i, <2>c DEF Ended
    <3> QED BY <2>b, <2>c, <3>2, <3>3
  <2>9. CASE GetToken(t) \/ DelToken(t) \/ Sign(t) \/ WriteMeta(t) \/ GetJob(t)
    BY <1>t, <2>9, <2>c DEF GetToken, DelToken, Sign, SignLeaving, WriteMeta, GetJob, ReadAndChoose,
       Goto, Telling, jobVars
  <2>10. CASE StartPooled(t) \/ Drop(t) \/ AcquireLock(t)
    BY <1>t, <2>10, <2>c DEF StartPooled, Drop, AcquireLock, AcquireOr, Return,
       Goto, Telling, jobVars
  <2>11. CASE ReleaseLock(t) \/ RemoveDylibs(t) \/ AckMessage(t)
    BY <1>t, <2>11, <2>c DEF ReleaseLock, RemoveDylibs, AckMessage, Deferred, Return,
       Goto, Telling, jobVars
  <2> QED
    BY <1>6, <2>5, <2>6, <2>7, <2>8, <2>9, <2>10, <2>11 DEF Process
<1>7. CASE Tick
  BY <1>7, <1>a DEF Tick
<1>8. CASE UNCHANGED vars
  BY <1>8, <1>a DEF vars, jobVars, taskVars
<1> QED
  BY <1>1, <1>2, <1>3, <1>4, <1>5, <1>6, <1>7, <1>8, <1>f DEF Next

\* worker.go:244-258: while nothing fails and the process lives, the last event
\* published for a job that no one works on any more is its outcome.
THEOREM LastEvent == ASSUME Paced PROVE Spec => []OutcomeIsTold
<1>1. Init => Inv /\ FinalInv /\ ToldInv
  <2>1. Init => Inv
    BY TypeInit, FreshInit, LockInit, PaceInit DEF Inv
  <2>2. Init => FinalInv /\ ToldInv
    BY DEF Init, JobInit, FinalInv, Working, ToldInv, Telling, Ended, NoJob, Terminal
  <2> QED BY <2>1, <2>2
<1>2. Inv /\ FinalInv /\ ToldInv /\ [Next]_vars => (Inv /\ FinalInv /\ ToldInv)'
  BY TypeStep, FreshStep, LockStep, PaceStep, FinalStep, ToldStep DEF Inv
<1>3. Inv /\ FinalInv /\ ToldInv => OutcomeIsTold
  BY DEF ToldInv, OutcomeIsTold, Active, Telling
<1> QED
  BY <1>1, <1>2, <1>3, PTL DEF Spec

-----------------------------------------------------------------------------
(* The worker implements the life of a job                                 *)

\* Where the copy and the record of a task's job stand at each of its commands.
Trying == {"lock", "signing", "token", "delToken", "sign", "publishing", "meta", "done"}

InStep(t) ==
    /\ pc[t] \in Working => copy[t] = jobs[JobOf(t)]
    /\ pc[t] \in {"token", "delToken", "sign", "publishing", "retry", "fail"} =>
          jobs[JobOf(t)].status = "SIGNING"
    /\ pc[t] \in {"meta", "done"} => jobs[JobOf(t)].status = "PUBLISHING"
    /\ pc[t] \in Trying => jobs[JobOf(t)].retry < MaxRetries

\* What the stages of the submission and the retry count say of a record.
RecordInv(j) ==
    /\ removal[j] = "no"
    /\ submit[j] \in {"list", "enqueue"} => jobs[j].status = "QUEUED"
    /\ submit[j] \in {"accepted", "answered"} => jobs[j].status # "NONE"
    /\ jobs[j].retry >= MaxRetries => jobs[j].status \in {"SIGNING", "FAILED"}

LifeInv ==
    /\ \A t \in Tasks : JobOf(t) \in Lasting => InStep(t)
    /\ \A j \in Lasting : RecordInv(j)

\* A task's steps keep the invariant and are steps of its job's life, if that
\* is one nobody deletes.
LEMMA LifeProcess ==
  ASSUME MaxFaults = 0, Inv, FinalInv, LifeInv, NEW t \in Tasks, Process(t),
         JobOf(t) \in Lasting
  PROVE  LifeInv' /\ (UNCHANGED Life!lifeVars \/ Life!LifeNext)
<1> DEFINE own == JobOf(t)
           Step == LifeInv' /\ (UNCHANGED Life!lifeVars \/ Life!LifeNext)
<1>t. /\ pc \in [Tasks -> Commands] /\ jobs \in [Jobs -> Records]
      /\ copy \in [Tasks -> Records] /\ own \in Jobs /\ own \in Lasting
      /\ \A u \in Tasks : JobOf(u) \in Jobs
      /\ TypeInv /\ Fresh /\ SoleProcessor /\ MaxRetries \in Nat
      /\ Lasting \subseteq Jobs
  BY Typed, JobAssumption DEF Inv, PaceInv, JobAssumption, Lasting
<1>f. ~Fault
  BY <1>t, NoFault
<1>1. /\ Active(t) /\ UNCHANGED <<stream, delivered, submit>>
      /\ \A u \in Tasks : u # t => pc'[u] = pc[u]
  BY <1>t, ProcessFrame
<1>2. \A u \in Tasks : u # t /\ Active(u) => JobOf(u) # own
  BY <1>t, <1>1 DEF SoleProcessor
<1>3. /\ \A j \in Jobs : j # own => jobs'[j] = jobs[j]
      /\ \A u \in Tasks : u # t => copy'[u] = copy[u]
  BY <1>t, SavesOwnJob
<1>4. submit[own] \in {"accepted", "answered"} /\ InStream(own)
  BY <1>t, <1>1
     DEF Fresh, WasDelivered, InStream, Positions, TypeInv, TypeOK, QueueTypeOK
<1>5. UNCHANGED removal
  BY DEF Process, StartPooled, GetJob, ReadAndChoose, Drop, AcquireLock, AcquireOr,
     SaveSigning, GetToken, DelToken, Sign, SignLeaving, SavePublishing, WriteMeta, SaveDone,
     IncrementRetry, SaveFailed, SaveCopy, Publish, AckMessage, ReleaseLock,
     RemoveDylibs, jobVars
<1>6. InStep(t) /\ RecordInv(own)
  BY <1>t DEF LifeInv
\* It is enough to look at the task and its job.
<1>b. ASSUME InStep(t)', RecordInv(own)' PROVE LifeInv'
  <2>1. ASSUME NEW u \in Tasks, u # t, JobOf(u) \in Lasting
        PROVE  InStep(u)'
    <3>1. CASE Active(u)
      BY <1>1, <1>2, <1>3, <1>t, <2>1, <3>1 DEF LifeInv, InStep
    <3>2. CASE ~Active(u)
      BY <1>1, <2>1, <3>2 DEF InStep, Active, Working, Trying
    <3> QED BY <3>1, <3>2
  <2>2. ASSUME NEW j \in Lasting, j # own PROVE RecordInv(j)'
    BY <1>1, <1>3, <1>5, <1>t, <2>2 DEF LifeInv, RecordInv
  <2> QED BY <1>b, <2>1, <2>2 DEF LifeInv
\* Commands that leave the records alone.
<1>c. ASSUME UNCHANGED jobs, InStep(t)' PROVE Step
  <2>1. RecordInv(own)'
    BY <1>1, <1>5, <1>6, <1>c DEF RecordInv
  <2>2. UNCHANGED Life!lifeVars
    BY <1>1, <1>c DEF Life!lifeVars, InStream, Positions
  <2> QED BY <1>b, <1>c, <2>1, <2>2
\* Commands that save a record: what the record must be.
<1>d. ASSUME NEW r \in Records, jobs' = [jobs EXCEPT ![own] = r], InStep(t)',
             r.status # "NONE",
             r.retry >= MaxRetries => r.status \in {"SIGNING", "FAILED"},
             \/ r.status = jobs[own].status
             \/ r.status = "SIGNING" /\ jobs[own].status \in {"QUEUED", "SIGNING", "PUBLISHING"}
             \/ r.status = "PUBLISHING" /\ jobs[own].status = "SIGNING"
             \/ r.status = "FAILED" /\ jobs[own].status = "SIGNING"
             \/ r.status = "DONE" /\ jobs[own].status = "PUBLISHING"
      PROVE  Step
  <2>1. jobs'[own] = r
    BY <1>d, <1>t
  <2>2. RecordInv(own)'
    BY <1>1, <1>4, <1>5, <1>6, <1>d, <2>1 DEF RecordInv
  <2> DEFINE st == [j \in Lasting |-> jobs[j].status]
             acc == {j \in Lasting : InStream(j)}
  <2>3. st' = [st EXCEPT ![own] = r.status] /\ acc' = acc /\ own \in acc
    BY <1>1, <1>4, <1>d, <1>t DEF InStream, Positions
  <2>4. st[own] = jobs[own].status
    BY <1>t
  <2>5. CASE r.status = jobs[own].status
    <3>1. st' = st
      BY <2>3, <2>4, <2>5
    <3> QED BY <1>b, <1>d, <2>2, <2>3, <3>1 DEF Life!lifeVars
  <2>6. CASE r.status = "SIGNING" /\ jobs[own].status \in {"QUEUED", "SIGNING", "PUBLISHING"}
    <3>1. Life!Work(own)
      BY <2>3, <2>4, <2>6 DEF Life!Work, Life!Become
    <3> QED BY <1>b, <1>d, <1>t, <2>2, <3>1 DEF Life!LifeNext
  <2>7. CASE \/ r.status = "PUBLISHING" /\ jobs[own].status = "SIGNING"
             \/ r.status = "FAILED" /\ jobs[own].status = "SIGNING"
             \/ r.status = "DONE" /\ jobs[own].status = "PUBLISHING"
    <3>1. Life!Advance(own)
      BY <2>3, <2>4, <2>7 DEF Life!Advance, Life!Become
    <3> QED BY <1>b, <1>d, <1>t, <2>2, <3>1 DEF Life!LifeNext
  <2> QED BY <1>d, <2>5, <2>6, <2>7
\* The copy is the record, so a save of the copy changes only what it means to.
<1>7. pc[t] \in Working => copy[t] = jobs[own] /\ ~Ended(own) /\ jobs[own].status # "NONE"
  BY <1>4, <1>6 DEF InStep, RecordInv, FinalInv, Undecided
<1>e. ASSUME NEW s \in Statuses, SaveCopy(t, WithStatus(t, s)), pc[t] \in Working
      PROVE  /\ jobs' = [jobs EXCEPT ![own] = WithStatus(t, s)]
             /\ copy'[t] = WithStatus(t, s) /\ jobs'[own] = WithStatus(t, s)
             /\ WithStatus(t, s) \in Records
             /\ WithStatus(t, s).status = s /\ WithStatus(t, s).retry = jobs[own].retry
  <2>1. /\ WithStatus(t, s) \in Records
        /\ WithStatus(t, s).status = s /\ WithStatus(t, s).retry = copy[t].retry
    BY <1>t, RecordFacts DEF WithStatus
  <2>2. jobs' = [jobs EXCEPT ![own] = WithStatus(t, s)] /\ copy' = [copy EXCEPT ![t] = WithStatus(t, s)]
    BY <1>e, <1>f DEF SaveCopy, SaveJob
  <2> QED BY <1>7, <1>e, <1>t, <2>1, <2>2
<1>8. CASE GetJob(t)
  <2>1. /\ UNCHANGED jobs /\ copy'[t] = jobs[own]
        /\ pc'[t] = IF jobs[own] = NoJob \/ Ended(own) THEN "drop"
                    ELSE IF Exhausted(own) THEN "fail" ELSE "lock"
    BY <1>8, <1>f, <1>t DEF GetJob, ReadAndChoose, Goto, jobVars
  <2>2. pc'[t] = "fail" => jobs[own].status = "SIGNING"
    BY <1>6, <2>1 DEF Exhausted, RecordInv, Ended, Terminal
  <2>3. pc'[t] = "lock" => jobs[own].retry < MaxRetries
    BY <1>t, <2>1 DEF Exhausted, Records
  <2> QED
    BY <1>c, <2>1, <2>2, <2>3 DEF InStep, Trying
<1>9. CASE SaveSigning(t)
  <2>1. /\ SaveCopy(t, WithStatus(t, "SIGNING")) /\ pc[t] = "signing"
        /\ pc'[t] \in {"sign", "token"}
    BY <1>9, <1>t DEF SaveSigning, Goto
  <2>2. /\ jobs' = [jobs EXCEPT ![own] = WithStatus(t, "SIGNING")]
        /\ copy'[t] = jobs'[own] /\ jobs'[own] = WithStatus(t, "SIGNING")
        /\ WithStatus(t, "SIGNING") \in Records
        /\ WithStatus(t, "SIGNING").status = "SIGNING"
        /\ WithStatus(t, "SIGNING").retry = jobs[own].retry
    BY <1>e, <2>1 DEF Working, Statuses
  <2>3. InStep(t)'
    BY <1>6, <2>1, <2>2 DEF InStep, Trying
  <2>4. jobs[own].status \in {"QUEUED", "SIGNING", "PUBLISHING"}
    BY <1>7, <1>t, <2>1, RecordFacts DEF Working, Ended, Statuses
  <2> QED BY <1>d, <2>2, <2>3, <2>4
<1>10. CASE SavePublishing(t)
  <2>1. /\ SaveCopy(t, WithStatus(t, "PUBLISHING")) /\ pc[t] = "publishing"
        /\ pc'[t] = "meta"
    BY <1>10, <1>t DEF SavePublishing, Goto
  <2>2. /\ jobs' = [jobs EXCEPT ![own] = WithStatus(t, "PUBLISHING")]
        /\ copy'[t] = jobs'[own] /\ jobs'[own] = WithStatus(t, "PUBLISHING")
        /\ WithStatus(t, "PUBLISHING") \in Records
        /\ WithStatus(t, "PUBLISHING").status = "PUBLISHING"
        /\ WithStatus(t, "PUBLISHING").retry = jobs[own].retry
    BY <1>e, <2>1 DEF Working, Statuses
  <2>3. /\ InStep(t)' /\ jobs[own].status = "SIGNING"
        /\ ~(WithStatus(t, "PUBLISHING").retry >= MaxRetries)
    BY <1>6, <1>t, <2>1, <2>2, RecordFacts DEF InStep, Trying, Records
  <2> QED BY <1>d, <2>2, <2>3
<1>11. CASE SaveDone(t)
  <2>1. /\ SaveCopy(t, WithStatus(t, "DONE")) /\ pc[t] = "done"
        /\ pc'[t] = "pubDone"
    BY <1>11, <1>t DEF SaveDone, Goto
  <2>2. /\ jobs' = [jobs EXCEPT ![own] = WithStatus(t, "DONE")]
        /\ WithStatus(t, "DONE") \in Records
        /\ WithStatus(t, "DONE").status = "DONE"
        /\ WithStatus(t, "DONE").retry = jobs[own].retry
    BY <1>e, <2>1 DEF Working, Statuses, Terminal
  <2>3. /\ InStep(t)' /\ jobs[own].status = "PUBLISHING"
        /\ ~(WithStatus(t, "DONE").retry >= MaxRetries)
    BY <1>6, <1>t, <2>1, <2>2, RecordFacts DEF InStep, Trying, Working, Records
  <2> QED BY <1>d, <2>2, <2>3
<1>12. CASE SaveFailed(t)
  <2>1. /\ SaveCopy(t, WithStatus(t, "FAILED")) /\ pc[t] = "fail"
        /\ pc'[t] = "ackFailed"
    BY <1>12, <1>t DEF SaveFailed, Goto
  <2>2. /\ jobs' = [jobs EXCEPT ![own] = WithStatus(t, "FAILED")]
        /\ WithStatus(t, "FAILED") \in Records
        /\ WithStatus(t, "FAILED").status = "FAILED"
    BY <1>e, <2>1 DEF Working, Statuses, Terminal
  <2>3. InStep(t)' /\ jobs[own].status = "SIGNING"
    BY <1>6, <2>1 DEF InStep, Trying, Working
  <2> QED BY <1>d, <2>2, <2>3
<1>13. CASE IncrementRetry(t)
  <2> DEFINE r == [copy[t] EXCEPT !.retry = @ + 1]
  <2>1. /\ SaveCopy(t, r) /\ pc[t] = "retry" /\ pc'[t] = "fail"
    BY <1>13, <1>t DEF IncrementRetry, Goto
  <2>2. copy[t].retry < MaxRetries
    BY <1>t, <2>1 DEF TypeInv, RetryLeft, RetryPCs
  <2>3. r \in Records /\ r.status = copy[t].status
    BY <1>t, <2>2, RecordFacts DEF Records
  <2> HIDE DEF r
  <2>4. jobs' = [jobs EXCEPT ![own] = r] /\ copy'[t] = r /\ jobs'[own] = r
    BY <1>f, <1>t, <2>1 DEF SaveCopy, SaveJob
  <2>5. r.status = "SIGNING" /\ jobs[own].status = "SIGNING"
    BY <1>6, <1>7, <2>1, <2>3 DEF InStep, Working
  <2>6. InStep(t)'
    BY <2>1, <2>4, <2>5 DEF InStep, Trying
  <2> QED BY <1>d, <2>3, <2>4, <2>5, <2>6
<1>14. CASE GetToken(t) \/ DelToken(t) \/ Sign(t) \/ WriteMeta(t)
  BY <1>6, <1>c, <1>t, <1>14 DEF GetToken, DelToken, Sign, SignLeaving, WriteMeta, Goto, InStep,
     Working, Trying, jobVars
<1>15. CASE AcquireLock(t) \/ StartPooled(t)
  BY <1>6, <1>c, <1>t, <1>15 DEF AcquireLock, AcquireOr, StartPooled, Goto, InStep,
     Working, Trying, jobVars
<1>16. CASE Drop(t) \/ RemoveDylibs(t) \/ ReleaseLock(t)
  BY <1>c, <1>t, <1>16 DEF Drop, RemoveDylibs, ReleaseLock, Return, Goto, InStep,
     Working, Trying, jobVars
<1>17. CASE Publish(t) \/ AckMessage(t)
  BY <1>c, <1>t, <1>17 DEF Publish, AckMessage, Deferred, Goto, InStep,
     Working, Trying, jobVars
<1> QED
  BY <1>8, <1>9, <1>10, <1>11, <1>12, <1>13, <1>14, <1>15, <1>16, <1>17 DEF Process

\* The steps of a task whose job may be deleted are none of the others'.
LEMMA LifeElsewhere ==
  ASSUME Inv, FinalInv, LifeInv, NEW t \in Tasks, Process(t), JobOf(t) \notin Lasting
  PROVE  LifeInv' /\ UNCHANGED Life!lifeVars
<1>1. /\ UNCHANGED <<stream, submit>>
      /\ \A u \in Tasks : u # t => pc'[u] = pc[u] /\ copy'[u] = copy[u]
      /\ \A j \in Lasting : jobs'[j] = jobs[j]
  BY ProcessFrame, SavesOwnJob DEF Inv, Lasting
<1>2. UNCHANGED removal
  BY DEF Process, StartPooled, GetJob, ReadAndChoose, Drop, AcquireLock, AcquireOr,
     SaveSigning, GetToken, DelToken, Sign, SignLeaving, SavePublishing, WriteMeta, SaveDone,
     IncrementRetry, SaveFailed, SaveCopy, Publish, AckMessage, ReleaseLock,
     RemoveDylibs, jobVars
<1>3. ASSUME NEW u \in Tasks, JobOf(u) \in Lasting PROVE InStep(u)'
  BY <1>1, <1>3 DEF LifeInv, InStep
<1>4. ASSUME NEW j \in Lasting PROVE RecordInv(j)'
  BY <1>1, <1>2 DEF LifeInv, RecordInv
<1>5. UNCHANGED Life!lifeVars
  BY <1>1 DEF Life!lifeVars, InStream, Positions
<1> QED
  BY <1>3, <1>4, <1>5 DEF LifeInv

LEMMA LifeStep ==
  ASSUME MaxFaults = 0, MaxRetries > 0, Inv, FinalInv, LifeInv, [Next]_vars
  PROVE  LifeInv' /\ (UNCHANGED Life!lifeVars \/ Life!LifeNext)
<1> DEFINE Step == LifeInv' /\ (UNCHANGED Life!lifeVars \/ Life!LifeNext)
<1>t. /\ pc \in [Tasks -> Commands] /\ jobs \in [Jobs -> Records]
      /\ submit \in [Jobs -> {"new", "list", "enqueue", "accepted",
                              "answered", "rejected", "lost"}]
      /\ \A t \in Tasks : JobOf(t) \in Jobs
      /\ TypeInv /\ Fresh /\ MaxRetries \in Nat \ {0}
      /\ stream \in Seq(Jobs) /\ delivered \in 0..Len(stream)
      /\ Lasting \subseteq Jobs
  BY Typed, JobAssumption
     DEF Inv, JobAssumption, TypeInv, TypeOK, QueueTypeOK, Lasting
<1>f. ~Fault
  BY <1>t, NoFault
\* Steps that leave the lasting jobs' records and entries alone and bring none of
\* their tasks to Working.
<1>g. ASSUME UNCHANGED copy,
             \A j \in Lasting : /\ jobs'[j] = jobs[j] /\ removal'[j] = removal[j]
                                /\ InStream(j)' <=> InStream(j),
             \A j \in Lasting : \/ submit'[j] \in {submit[j], "lost"}
                                \/ submit[j] = "list" /\ submit'[j] = "enqueue"
                                \/ submit[j] = "accepted" /\ submit'[j] = "answered",
             \A t \in Tasks : pc'[t] = pc[t] \/ pc'[t] \in {"idle", "sem", "get"}
      PROVE  Step
  <2>1. \A t \in Tasks : JobOf(t) \in Lasting => InStep(t)'
    BY <1>g DEF LifeInv, InStep, Working, Trying
  <2>2. \A j \in Lasting : RecordInv(j)'
    BY <1>g DEF LifeInv, RecordInv
  <2>3. UNCHANGED Life!lifeVars
    BY <1>g DEF Life!lifeVars
  <2> QED BY <2>1, <2>2, <2>3 DEF LifeInv
<1>a. ASSUME UNCHANGED <<jobs, copy, stream, removal>>,
             \A j \in Jobs : \/ submit'[j] \in {submit[j], "lost"}
                             \/ submit[j] = "list" /\ submit'[j] = "enqueue"
                             \/ submit[j] = "accepted" /\ submit'[j] = "answered",
             \A t \in Tasks : pc'[t] = pc[t] \/ pc'[t] \in {"idle", "sem", "get"}
      PROVE  Step
  <2>1. \A j \in Lasting : InStream(j)' <=> InStream(j)
    BY <1>a DEF InStream, Positions
  <2> QED BY <1>a, <1>g, <1>t, <2>1
<1> DEFINE st == [j \in Lasting |-> jobs[j].status]
           acc == {j \in Lasting : InStream(j)}
\* No task works on a job whose submission is not over.
<1>n. \A j \in Jobs : submit[j] \notin {"accepted", "answered"} =>
          ~InStream(j) /\ \A t \in Tasks : JobOf(t) = j => ~Active(t)
  BY <1>t DEF Fresh, InStream, WasDelivered, Positions
\* What is done for a job that may be deleted.
<1>e. ASSUME NEW j \in Jobs \ Lasting, UNCHANGED <<pc, copy>>,
             stream' \in {stream, Append(stream, j)},
             \A k \in Jobs : k # j => /\ jobs'[k] = jobs[k]
                                      /\ removal'[k] = removal[k]
                                      /\ submit'[k] = submit[k]
      PROVE  Step
  <2>1. \A k \in Jobs : k # j => (InStream(k)' <=> InStream(k))
    <3>1. CASE stream' = stream
      BY <3>1 DEF InStream, Positions
    <3>2. CASE stream' = Append(stream, j)
      <4>1. /\ Len(stream') = Len(stream) + 1 /\ Len(stream) \in Nat
            /\ \A m \in 1..Len(stream) : stream'[m] = stream[m]
            /\ stream'[Len(stream) + 1] = j
        BY <1>t, <3>2
      <4> QED BY <4>1 DEF InStream, Positions
    <3> QED BY <1>e, <3>1, <3>2
  <2> QED BY <1>e, <1>g, <1>t, <2>1
<1>1. ASSUME NEW j \in Jobs, Submit(j), j \in Lasting PROVE Step
  <2>1. CASE CreateJob(j)
    <3> DEFINE r == [status |-> "QUEUED", retry |-> 0]
    <3>1. /\ submit[j] = "new" /\ jobs[j] = NoJob /\ UNCHANGED <<pc, copy, stream, removal>>
          /\ jobs' = [jobs EXCEPT ![j] = r] /\ submit' = [submit EXCEPT ![j] = "list"]
      BY <1>1, <1>f, <2>1
         DEF Submit, CreateJob, EnqueueJob, FinalInv, taskVars, queueVars
    <3>2. r \in Records /\ r.status = "QUEUED" /\ r.retry = 0
      BY RecordFacts
    <3> HIDE DEF r
    <3>3. jobs'[j] = r /\ \A k \in Jobs : k # j => jobs'[k] = jobs[k]
      BY <1>t, <3>1
    <3>4. \A t \in Tasks : JobOf(t) \in Lasting => InStep(t)'
      BY <1>n, <1>t, <3>1, <3>3 DEF LifeInv, InStep, Active, Working, Trying
    <3>5. RecordInv(j)'
      BY <1>1, <1>t, <3>1, <3>2, <3>3 DEF LifeInv, RecordInv
    <3>6. \A k \in Lasting : k # j => RecordInv(k)'
      BY <1>t, <3>1, <3>3 DEF LifeInv, RecordInv
    <3>7. Life!Record(j)
      <4>1. st[j] = "NONE" /\ st' = [st EXCEPT ![j] = "QUEUED"] /\ acc' = acc
        <5>1. jobs[j].status = "NONE"
          BY <3>1 DEF NoJob
        <5>2. st' = [st EXCEPT ![j] = "QUEUED"]
          BY <1>1, <1>t, <3>2, <3>3
        <5>3. acc' = acc
          BY <3>1 DEF InStream, Positions
        <5> QED BY <1>1, <5>1, <5>2, <5>3
      <4> QED BY <4>1 DEF Life!Record, Life!Become
    <3> QED BY <1>1, <3>4, <3>5, <3>6, <3>7 DEF LifeInv, Life!LifeNext
  <2>2. CASE ListJob(j)
    <3>1. UNCHANGED <<pc, copy, jobs, removal>> /\ submit[j] = "list"
          /\ submit' = [submit EXCEPT ![j] = "enqueue"]
      BY <1>1, <2>2 DEF Submit, ListJob, taskVars
    <3>2. UNCHANGED stream
      BY <1>1, <3>1 DEF Submit, EnqueueJob, queueVars
    <3> QED BY <1>a, <1>t, <3>1, <3>2
  <2>3. CASE EnqueueJob(j)
    <3>1. /\ UNCHANGED <<pc, copy, jobs, removal>> /\ submit[j] = "enqueue"
          /\ submit' = [submit EXCEPT ![j] = "accepted"]
          /\ stream' = Append(stream, j)
      BY <1>1, <1>f, <2>3 DEF Submit, EnqueueJob, Enqueue, taskVars
    <3>2. jobs[j].status = "QUEUED" /\ j \notin acc
      BY <1>1, <1>n, <3>1 DEF LifeInv, RecordInv
    <3>3. \A t \in Tasks : JobOf(t) \in Lasting => InStep(t)'
      BY <3>1 DEF LifeInv, InStep
    <3>4. \A k \in Lasting : RecordInv(k)'
      BY <1>t, <3>1, <3>2 DEF LifeInv, RecordInv
    <3>5. acc' = acc \union {j}
      <4>1. /\ Len(stream') = Len(stream) + 1 /\ Len(stream) \in Nat
            /\ \A m \in 1..Len(stream) : stream'[m] = stream[m]
            /\ stream'[Len(stream) + 1] = j
        BY <1>t, <3>1
      <4>2. \A k \in Jobs : InStream(k)' <=> InStream(k) \/ k = j
        BY <4>1 DEF InStream, Positions
      <4> QED BY <1>1, <1>t, <4>2
    <3>6. Life!Accept(j)
      <4>1. st[j] = "QUEUED" /\ st' = st
        BY <1>1, <1>t, <3>1, <3>2
      <4> QED BY <3>2, <3>5, <4>1 DEF Life!Accept
    <3> QED BY <1>1, <3>3, <3>4, <3>6 DEF LifeInv, Life!LifeNext
  <2> QED BY <1>1, <2>1, <2>2, <2>3 DEF Submit
<1>1e. ASSUME NEW j \in Jobs, Submit(j), j \notin Lasting PROVE Step
  <2>1. /\ UNCHANGED <<pc, copy, removal>>
        /\ stream' \in {stream, Append(stream, j)}
    BY <1>1e DEF Submit, CreateJob, ListJob, EnqueueJob, Enqueue, taskVars, queueVars
  <2>2. \A k \in Jobs : k # j => jobs'[k] = jobs[k] /\ submit'[k] = submit[k]
    BY <1>1e, <1>f, <1>t DEF Submit, CreateJob, ListJob, EnqueueJob
  <2> QED BY <1>1e, <1>e, <2>1, <2>2
<1>2. ASSUME NEW j \in Jobs, Delete(j) PROVE Step
  <2>1. UNCHANGED <<pc, copy, stream, submit>>
    BY <1>2 DEF Delete, StartDelete, DeleteRecord, UnlistJob, RemoveFiles, taskVars, queueVars
  <2>2. \A k \in Jobs : k # j => jobs'[k] = jobs[k]
    BY <1>2, <1>f, <1>t
       DEF Delete, StartDelete, DeleteRecord, SaveJob, UnlistJob, RemoveFiles
  <2>3. \A k \in Jobs : k # j => removal'[k] = removal[k]
    <3>1. DOMAIN removal = Jobs
      BY <1>t DEF TypeInv, TypeOK, JobTypeOK
    <3> QED
      BY <1>2, <3>1 DEF Delete, StartDelete, DeleteRecord, UnlistJob, RemoveFiles
  <2>4. j \notin Lasting
    <3>1. j \in Lasting => removal[j] = "no"
      BY DEF LifeInv, RecordInv
    <3> QED
      BY <1>2, <3>1 DEF Delete, StartDelete, DeleteRecord, UnlistJob, RemoveFiles, Lasting
  <2> QED BY <1>e, <2>1, <2>2, <2>3, <2>4
<1>3. ASSUME NEW j \in Jobs, GiveToken(j) PROVE Step
  BY <1>3, <1>a, <1>t DEF GiveToken, taskVars, queueVars
<1>4. ASSUME NEW j \in Jobs, TokenExpires(j) PROVE Step
  BY <1>4, <1>a DEF TokenExpires, taskVars, queueVars, jobVars
<1>5. ASSUME NEW j \in Jobs, ReadMessage(j) PROVE Step
  BY <1>5, <1>a, <1>t, TaskFacts DEF ReadMessage, ReadNew, jobVars, Goto
<1>6. CASE RecoverStale
  BY <1>6, <1>a DEF RecoverStale, ClaimStale, jobVars
<1>7. ASSUME NEW t \in Tasks, Process(t) PROVE Step
  BY <1>7, LifeProcess, LifeElsewhere
<1>8. CASE Tick
  BY <1>8, <1>a DEF Tick, QueueTick
<1>9. CASE Stop
  <2>1. UNCHANGED <<jobs, stream>> /\ \A t \in Tasks : pc'[t] = "idle"
    BY <1>9 DEF Stop, queueVars
  <2>2. \A t \in Tasks : JobOf(t) \in Lasting => InStep(t)'
    BY <2>1 DEF InStep, Working, Trying
  <2>3. \A j \in Lasting : RecordInv(j)'
    BY <1>9, <1>t, <2>1 DEF Stop, CutRequests, LifeInv, RecordInv
  <2>4. UNCHANGED Life!lifeVars
    BY <2>1 DEF Life!lifeVars, InStream, Positions
  <2> QED BY <2>2, <2>3, <2>4 DEF LifeInv
<1>10. CASE UNCHANGED vars
  BY <1>10, <1>a DEF vars, jobVars, taskVars, queueVars
<1> QED
  BY <1>1, <1>1e, <1>2, <1>3, <1>4, <1>5, <1>6, <1>7, <1>8, <1>9, <1>10 DEF Next

\* What the worker does to the records, whatever is redelivered or restarted, is
\* the abstract life of a job: recorded, accepted once, worked on once or more,
\* decided once, while other jobs may be deleted at any moment.  The condition on
\* MaxRetries is met by the code's 3; with 0 a job would fail unsigned.
THEOREM LifeImplemented ==
  ASSUME Paced, MaxFaults = 0, MaxRetries > 0
  PROVE  Spec => ImplementsLife
<1>1. Init => Inv /\ FinalInv /\ LifeInv /\ Life!LifeInit
  <2>1. Init => Inv
    BY TypeInit, FreshInit, LockInit, PaceInit DEF Inv
  <2>2. Init => FinalInv /\ LifeInv
    BY JobAssumption DEF JobAssumption, Init, JobInit, FinalInv, LifeInv, InStep,
       RecordInv, Working, Trying, NoJob, Lasting
  <2>3. Init => Life!LifeInit
    BY DEF Init, QueueInit, JobInit, NoJob, Life!LifeInit, InStream, Positions, Lasting
  <2> QED BY <2>1, <2>2, <2>3
<1>2. Inv /\ FinalInv /\ LifeInv /\ [Next]_vars => (Inv /\ FinalInv /\ LifeInv)'
  BY TypeStep, FreshStep, LockStep, PaceStep, FinalStep, LifeStep DEF Inv
<1>3. Inv /\ FinalInv /\ LifeInv /\ [Next]_vars => [Life!LifeNext]_(Life!lifeVars)
  BY LifeStep
<1> QED
  BY <1>1, <1>2, <1>3, PTL DEF Spec, ImplementsLife, Life!LifeSpec

-----------------------------------------------------------------------------
(* The worker's use of the stream                                          *)

HeldJobs == {JobOf(t) : t \in {u \in Tasks : Active(u)}}

\* A task's step is an Ack of the message it holds, or lets go of it, or is
\* nothing to the stream.
LEMMA UseProcess ==
  ASSUME TypeInv, Fresh, NEW t \in Tasks, Process(t)
  PROVE  Use!Settle(JobOf(t)) \/ Use!LetGo
<1> DEFINE own == JobOf(t)
<1>1. /\ Active(t) /\ UNCHANGED <<stream, delivered>>
      /\ \A u \in Tasks : u # t => pc'[u] = pc[u]
  BY ProcessFrame
<1>2. own \in HeldJobs /\ own \in Handed
  <2>1. WasDelivered(own)
    BY <1>1 DEF Fresh
  <2> QED BY <1>1, <2>1 DEF HeldJobs, Handed, WasDelivered
<1>3. Handed' = Handed
  BY <1>1 DEF Handed
<1>4. HeldJobs' \in SUBSET HeldJobs /\ HeldJobs \ HeldJobs' \subseteq {own}
  <2>1. \A u \in Tasks : Active(u)' => Active(u)
    BY <1>1 DEF Active
  <2>2. \A u \in Tasks : u # t => (Active(u)' <=> Active(u))
    BY <1>1 DEF Active
  <2> QED BY <2>1, <2>2 DEF HeldJobs
<1>5. pel' \in {pel, pel \ {own}}
  <2>1. CASE Drop(t) \/ AckMessage(t)
    BY <2>1 DEF Drop, AckMessage, AckOrNot, Ack, queueVars
  <2>2. CASE StartPooled(t) \/ GetJob(t) \/ AcquireLock(t) \/ ReleaseLock(t)
             \/ RemoveDylibs(t) \/ Publish(t) \/ Sign(t) \/ WriteMeta(t)
    BY <2>2 DEF StartPooled, GetJob, ReadAndChoose, AcquireLock, AcquireOr,
       ReleaseLock, RemoveDylibs, Publish, Sign, SignLeaving, WriteMeta, queueVars
  <2>3. CASE SaveSigning(t) \/ GetToken(t) \/ DelToken(t) \/ SavePublishing(t)
             \/ SaveDone(t) \/ IncrementRetry(t) \/ SaveFailed(t)
    BY <2>3 DEF SaveSigning, GetToken, DelToken, SavePublishing, SaveDone,
       IncrementRetry, SaveFailed, queueVars
  <2> QED BY <2>1, <2>2, <2>3 DEF Process
<1>6. CASE pel' = pel
  BY <1>1, <1>3, <1>4, <1>6 DEF Use!LetGo, HeldJobs
<1>7. CASE pel' = pel \ {own}
  <2>1. (Handed \ pel)' = (Handed \ pel) \union {own}
    BY <1>2, <1>3, <1>7
  <2>2. HeldJobs' \in {HeldJobs, HeldJobs \ {own}}
    BY <1>4
  <2> QED BY <1>1, <1>2, <1>3, <2>1, <2>2 DEF Use!Settle, HeldJobs
<1> QED
  BY <1>5, <1>6, <1>7

LEMMA UseStep ==
  ASSUME TypeInv, Fresh, [Next]_vars
  PROVE  [Use!HandlingNext]_(Use!handlingVars)
<1> SUFFICES Use!HandlingNext \/ UNCHANGED Use!handlingVars
  BY DEF Use!handlingVars
<1>0. /\ stream \in Seq(Jobs) /\ Len(stream) \in Nat /\ delivered \in 0..Len(stream)
      /\ pel \subseteq Handed
      /\ \A t \in Tasks : JobOf(t) \in Jobs
  BY TaskFacts DEF TypeInv, TypeOK, QueueTypeOK, Fresh, WasDelivered, Handed
\* Steps that start no task and leave the stream alone.
<1>a. ASSUME UNCHANGED <<stream, delivered, pel>>,
             \A t \in Tasks : pc'[t] \in {pc[t], "idle"}
      PROVE  Use!HandlingNext
  <2>1. HeldJobs' \in SUBSET HeldJobs
    BY <1>a DEF HeldJobs, Active
  <2>2. Handed' = Handed
    BY <1>a DEF Handed
  <2> QED BY <1>a, <2>1, <2>2 DEF Use!HandlingNext, Use!LetGo, HeldJobs
<1>1. ASSUME NEW j \in Jobs, Submit(j) PROVE Use!HandlingNext
  <2>1. UNCHANGED <<pc, delivered, pel>>
    BY <1>1 DEF Submit, EnqueueJob, Enqueue, queueVars, taskVars
  <2>2. CASE UNCHANGED stream
    BY <1>a, <2>1, <2>2
  <2>3. CASE stream' # stream
    <3>1. submit[j] = "enqueue" /\ stream' = Append(stream, j)
      BY <1>1, <2>3 DEF Submit, EnqueueJob, Enqueue, queueVars
    <3>2. j \notin Use!Sent
      BY <3>1 DEF Fresh, Positions, Use!Sent
    <3>3. Handed' = Handed
      <4>1. \A i \in 1..delivered : stream'[i] = stream[i]
        BY <1>0, <3>1
      <4> QED BY <2>1, <4>1 DEF Handed
    <3>4. HeldJobs' = HeldJobs
      BY <2>1 DEF HeldJobs, Active
    <3>5. Use!Send(j)
      BY <2>1, <3>1, <3>2, <3>3, <3>4 DEF Use!Send, HeldJobs
    <3> QED BY <3>5 DEF Use!HandlingNext
  <2> QED BY <2>2, <2>3
<1>2. ASSUME NEW j \in Jobs, Delete(j) \/ GiveToken(j) \/ TokenExpires(j)
      PROVE  Use!HandlingNext
  BY <1>2, <1>a DEF Delete, GiveToken, TokenExpires, taskVars, queueVars
<1>3. ASSUME NEW j \in Jobs, ReadMessage(j) PROVE Use!HandlingNext
  <2>1. /\ delivered < Len(stream) /\ j = stream[delivered + 1]
        /\ delivered' = delivered + 1 /\ stream' = stream /\ pel' = pel \union {j}
    BY <1>3 DEF ReadMessage, ReadNew
  <2>2. delivered + 1 \in 1..Len(stream) /\ j \notin Handed
    BY <1>0, <2>1 DEF Fresh, Positions, Handed
  <2>3. Handed' = Handed \union {j}
    BY <1>0, <2>1 DEF Handed
  <2>4. (Handed \ pel)' = Handed \ pel
    BY <2>1, <2>2, <2>3
  <2>5. \A k \in 1..((delivered + 1) - 1) : stream[k] \in Handed
    BY <1>0 DEF Handed
  <2>6. HeldJobs' \in {HeldJobs, HeldJobs \union {j}}
    <3>1. CASE Goto(<<j, Pool>>, "sem")
      <4>1. /\ <<j, Pool>> \in Tasks /\ JobOf(<<j, Pool>>) = j
            /\ pc \in [Tasks -> Commands]
        BY TaskFacts DEF TypeInv, TypeOK, WorkerTypeOK
      <4>2. /\ pc'[<<j, Pool>>] = "sem"
            /\ \A t \in Tasks : t # <<j, Pool>> => pc'[t] = pc[t]
        BY <3>1, <4>1 DEF Goto
      <4>3. HeldJobs' = HeldJobs \union {j}
        <5>1. ASSUME NEW k \in HeldJobs PROVE k \in HeldJobs'
          BY <4>2 DEF HeldJobs, Active
        <5>2. j \in HeldJobs'
          BY <4>1, <4>2 DEF HeldJobs, Active
        <5>3. ASSUME NEW k \in HeldJobs', k # j PROVE k \in HeldJobs
          BY <4>1, <4>2, <5>3 DEF HeldJobs, Active
        <5> QED BY <5>1, <5>2, <5>3
      <4> QED BY <4>3
    <3>2. CASE UNCHANGED pc
      BY <3>2 DEF HeldJobs, Active
    <3> QED BY <1>3, <3>1, <3>2 DEF ReadMessage
  <2>7. Use!Take
    BY <2>1, <2>2, <2>3, <2>4, <2>5, <2>6 DEF Use!Take, HeldJobs
  <2> QED BY <2>7 DEF Use!HandlingNext
<1>4. CASE RecoverStale
  <2>1. PICK claimed \in SUBSET Stale, s \in [Jobs -> Recovered] :
          /\ ClaimStale(claimed)
          /\ \/ pc' = [t \in Tasks |->
                        IF JobOf(t) \in claimed /\ t[2] = s[JobOf(t)]
                        THEN "get" ELSE pc[t]]
             \/ UNCHANGED pc
    BY <1>4 DEF RecoverStale
  <2>2. UNCHANGED <<stream, delivered, pel>> /\ claimed \subseteq pel
    BY <2>1 DEF ClaimStale, Stale
  <2>3. Handed' = Handed
    BY <2>2 DEF Handed
  <2>4. PICK some \in SUBSET claimed : HeldJobs' = HeldJobs \union some
    <3>1. CASE UNCHANGED pc
      <4>1. HeldJobs' = HeldJobs \union {}
        BY <3>1 DEF HeldJobs, Active
      <4> QED BY <4>1
    <3>2. CASE pc' = [t \in Tasks |->
                        IF JobOf(t) \in claimed /\ t[2] = s[JobOf(t)]
                        THEN "get" ELSE pc[t]]
      <4> DEFINE some == {k \in claimed : k \in HeldJobs'}
      <4>1. ASSUME NEW k \in HeldJobs PROVE k \in HeldJobs'
        BY <3>2 DEF HeldJobs, Active
      <4>2. ASSUME NEW k \in HeldJobs' PROVE k \in HeldJobs \union some
        BY <3>2 DEF HeldJobs, Active
      <4> QED BY <4>1, <4>2
    <3> QED BY <2>1, <3>1, <3>2
  <2>5. some \in SUBSET (Handed \ (Handed \ pel))
    BY <1>0, <2>2
  <2>6. Use!TakeAgain
    BY <2>2, <2>3, <2>4, <2>5 DEF Use!TakeAgain, HeldJobs
  <2> QED BY <2>6 DEF Use!HandlingNext
<1>5. ASSUME NEW t \in Tasks, Process(t) PROVE Use!HandlingNext
  BY <1>0, <1>5, UseProcess DEF Use!HandlingNext
<1>6. CASE Tick
  BY <1>6, <1>a DEF Tick, QueueTick
<1>7. CASE Stop
  BY <1>7, <1>a DEF Stop, queueVars
<1>8. CASE UNCHANGED vars
  BY <1>8, <1>a DEF vars, queueVars, taskVars
<1> QED
  BY <1>1, <1>2, <1>3, <1>4, <1>5, <1>6, <1>7, <1>8 DEF Next

\* Whatever the timeouts, restarts, failing commands and deletions, overlapping
\* goroutines included: what the goroutines do to the stream is in-order,
\* at-least-once handling, acknowledged only by who holds the message
\* (worker.go: Run, processMessage, recoverStaleLoop).
THEOREM StreamHandled == Spec => HandlesInOrder
<1>1. Init => TypeInv /\ Fresh /\ Use!HandlingInit
  <2>1. Init => Use!HandlingInit
    BY DEF Init, QueueInit, Active, Handed, Use!HandlingInit
  <2> QED BY <2>1, TypeInit, FreshInit
<1>2. TypeInv /\ Fresh /\ [Next]_vars => (TypeInv /\ Fresh)'
  BY TypeStep, FreshStep
<1>3. TypeInv /\ Fresh /\ [Next]_vars => [Use!HandlingNext]_(Use!handlingVars)
  BY UseStep
<1> QED
  BY <1>1, <1>2, <1>3, PTL DEF Spec, HandlesInOrder, Use!HandlingSpec
=============================================================================
