---------------------------- MODULE WorkerProofs ----------------------------
(***************************************************************************)
(* Theorems about Worker, for every value of its constants.                *)
(***************************************************************************)
EXTENDS Worker, FiniteSetTheorems, TLAPS

-----------------------------------------------------------------------------
(* Types                                                                   *)

\* The commands of a task that may still increment the retry count.
RetryPCs == {"lock", "signing", "token", "delToken", "sign", "retry"}

\* Such a task found the count below the limit.
RetryLeft == \A t \in Tasks : pc[t] \in RetryPCs => copy[t].retry < MaxRetries

TypeInv == TypeOK /\ RetryLeft

\* Tasks, their jobs and their users.
LEMMA TaskFacts ==
    /\ \A t \in Tasks : JobOf(t) \in Jobs /\ UserOf(t) \in Users
    /\ \A j \in Jobs : <<j, Pool>> \in Tasks /\ JobOf(<<j, Pool>>) = j
  BY JobAssumption DEF JobAssumption, Tasks, Slots, JobOf, UserOf

\* Records and what the worker makes of them.
LEMMA RecordFacts ==
    /\ NoJob \in Records
    /\ [status |-> "QUEUED", retry |-> 0] \in Records
    /\ \A r \in Records : r.retry \in 0..MaxRetries /\ r.status \in Statuses \union {"NONE"}
    /\ \A r \in Records, s \in Statuses :
          /\ [r EXCEPT !.status = s] \in Records
          /\ [r EXCEPT !.status = s].retry = r.retry
          /\ [r EXCEPT !.status = s].status = s
    /\ \A r \in Records : r.retry < MaxRetries => [r EXCEPT !.retry = @ + 1] \in Records
  BY JobAssumption DEF JobAssumption, NoJob, Records, Statuses, Terminal

\* What a failed command and a save leave of the types.
LEMMA FaultType == faults \in 0..MaxFaults /\ Fault => faults' \in 0..MaxFaults
  BY JobAssumption DEF JobAssumption, Fault

LEMMA SaveType ==
  ASSUME JobTypeOK, NEW j \in Jobs, NEW r \in Records, SaveJob(j, r)
  PROVE  jobs' \in [Jobs -> Records] /\ faults' \in 0..MaxFaults
  BY FaultType DEF SaveJob, JobTypeOK

LEMMA EnqueueType ==
  ASSUME QueueTypeOK, NEW j \in Jobs, Enqueue(j)
  PROVE  QueueTypeOK'
  BY DEF QueueTypeOK, Enqueue

\* The record an action of a task saves is a record.
LEMMA CopyType ==
  ASSUME WorkerTypeOK, NEW t \in Tasks, NEW s \in Statuses
  PROVE  WithStatus(t, s) \in Records /\ WithStatus(t, s).retry = copy[t].retry
  BY RecordFacts DEF WorkerTypeOK, WithStatus

LEMMA TypeInit == Init => TypeInv
<1> SUFFICES ASSUME Init PROVE TypeInv
  OBVIOUS
<1>1. QueueTypeOK
  BY QueueAssumption DEF QueueAssumption, Init, QueueInit, QueueTypeOK
<1>2. JobTypeOK
  BY JobAssumption, RecordFacts DEF JobAssumption, Init, JobInit, JobTypeOK
<1>3. WorkerTypeOK
  BY WorkerAssumption, RecordFacts
     DEF WorkerAssumption, Init, WorkerTypeOK, Commands, Statuses, Contents
<1>4. RetryLeft
  BY DEF Init, RetryLeft, RetryPCs
<1> QED
  BY <1>1, <1>2, <1>3, <1>4 DEF TypeInv, TypeOK

\* Every step keeps the types and the retries within their limit.
LEMMA TypeStep == TypeInv /\ [Next]_vars => TypeInv'
<1> SUFFICES ASSUME TypeInv, [Next]_vars PROVE TypeInv'
  OBVIOUS
<1> USE DEF TypeInv, TypeOK
<1>1. ASSUME NEW j \in Jobs, Submit(j) PROVE TypeInv'
  <2>1. QueueTypeOK'
    BY <1>1, EnqueueType DEF QueueTypeOK, Submit, EnqueueJob, queueVars
  <2>2. JobTypeOK'
    BY <1>1, RecordFacts, JobAssumption, FaultType DEF JobAssumption,
       JobTypeOK, Submit, CreateJob, ListJob, EnqueueJob, Pushed
  <2>3. WorkerTypeOK'
    BY <1>1 DEF WorkerTypeOK, Submit, taskVars, fileVars
  <2>4. RetryLeft'
    BY <1>1 DEF RetryLeft, Submit, taskVars
  <2> QED BY <2>1, <2>2, <2>3, <2>4
<1>2. ASSUME NEW j \in Jobs, Delete(j) PROVE TypeInv'
  <2>1. QueueTypeOK'
    BY <1>2 DEF QueueTypeOK, queueVars, Delete
  <2>2. JobTypeOK'
    BY <1>2, RecordFacts, JobAssumption, FaultType, SaveType DEF
       JobAssumption, JobTypeOK, Delete, StartDelete, DeleteRecord, UnlistJob,
       RemoveFiles, Removed
  <2>3. WorkerTypeOK'
    <3>1. signed' \in [Jobs -> Contents]
      BY <1>2 DEF WorkerTypeOK, Delete, Contents
    <3> QED BY <1>2, <3>1 DEF WorkerTypeOK, Delete, taskVars
  <2>4. RetryLeft'
    BY <1>2 DEF RetryLeft, Delete, taskVars
  <2> QED BY <2>1, <2>2, <2>3, <2>4
<1>3. ASSUME NEW j \in Jobs, GiveToken(j) PROVE TypeInv'
  <2>1. QueueTypeOK'
    BY <1>3 DEF QueueTypeOK, queueVars, GiveToken
  <2>2. JobTypeOK'
    BY <1>3, FaultType DEF JobTypeOK, GiveToken
  <2>3. WorkerTypeOK'
    BY <1>3 DEF WorkerTypeOK, GiveToken, taskVars, fileVars
  <2>4. RetryLeft'
    BY <1>3 DEF RetryLeft, GiveToken, taskVars
  <2> QED BY <2>1, <2>2, <2>3, <2>4
<1>4. ASSUME NEW j \in Jobs, TokenExpires(j) PROVE TypeInv'
  <2>1. QueueTypeOK'
    BY <1>4 DEF QueueTypeOK, queueVars, TokenExpires
  <2>2. JobTypeOK'
    BY <1>4 DEF JobTypeOK, TokenExpires, jobVars
  <2>3. WorkerTypeOK'
    BY <1>4 DEF WorkerTypeOK, TokenExpires, taskVars, fileVars
  <2>4. RetryLeft'
    BY <1>4 DEF RetryLeft, TokenExpires, taskVars
  <2> QED BY <2>1, <2>2, <2>3, <2>4
<1>5. ASSUME NEW j \in Jobs, ReadMessage(j) PROVE TypeInv'
  <2>1. QueueTypeOK'
    BY <1>5, QueueAssumption DEF QueueAssumption, QueueTypeOK, ReadMessage,
       ReadNew
  <2>2. JobTypeOK'
    BY <1>5, FaultType DEF JobTypeOK, ReadMessage, jobVars
  <2>3. WorkerTypeOK'
    BY <1>5, TaskFacts DEF WorkerTypeOK, ReadMessage, fileVars, Goto,
       Commands, Early
  <2>4. RetryLeft'
    BY <1>5, TaskFacts DEF RetryLeft, RetryPCs, WorkerTypeOK, ReadMessage,
       Goto
  <2> QED BY <2>1, <2>2, <2>3, <2>4
<1>6. ASSUME RecoverStale PROVE TypeInv'
  <2>1. QueueTypeOK'
    BY <1>6, QueueAssumption DEF QueueAssumption, QueueTypeOK, RecoverStale,
       ClaimStale
  <2>2. JobTypeOK'
    BY <1>6, FaultType DEF JobTypeOK, RecoverStale, jobVars
  <2>3. WorkerTypeOK'
    BY <1>6 DEF WorkerTypeOK, RecoverStale, fileVars, Commands, Early,
       Starting
  <2>4. RetryLeft'
    BY <1>6 DEF RetryLeft, RetryPCs, RecoverStale
  <2> QED BY <2>1, <2>2, <2>3, <2>4
<1>7. ASSUME NEW t \in Tasks, StartPooled(t) PROVE TypeInv'
  <2>1. QueueTypeOK'
    BY <1>7 DEF QueueTypeOK, queueVars, StartPooled
  <2>2. JobTypeOK'
    BY <1>7 DEF JobTypeOK, StartPooled, jobVars
  <2>3. WorkerTypeOK'
    BY <1>7, TaskFacts DEF WorkerTypeOK, StartPooled, fileVars, Goto,
       Commands, Early, Starting, Signing, Failing
  <2>4. RetryLeft'
    BY <1>7 DEF RetryLeft, RetryPCs, WorkerTypeOK, StartPooled, Goto
  <2> QED BY <2>1, <2>2, <2>3, <2>4
<1>8. ASSUME NEW t \in Tasks, GetJob(t) PROVE TypeInv'
  <2>1. QueueTypeOK'
    BY <1>8 DEF QueueTypeOK, queueVars, GetJob, ReadAndChoose
  <2>2. JobTypeOK'
    BY <1>8, FaultType DEF JobTypeOK, GetJob, ReadAndChoose, jobVars
  <2>3. WorkerTypeOK'
    <3>1. copy' \in [Tasks -> Records]
      BY <1>8, TaskFacts DEF WorkerTypeOK, JobTypeOK, GetJob, ReadAndChoose
    <3>2. PICK next \in {"drop", "fail", "lock"} : Goto(t, next)
      BY <1>8 DEF GetJob, ReadAndChoose
    <3>3. pc' \in [Tasks -> Commands]
      BY <3>2 DEF WorkerTypeOK, Goto, Commands, Early, Starting, Failing
    <3> QED
      BY <1>8, <3>1, <3>3 DEF WorkerTypeOK, GetJob, ReadAndChoose, fileVars
  <2>4. RetryLeft'
    BY <1>8, TaskFacts, RecordFacts, JobAssumption DEF RetryLeft, RetryPCs,
       WorkerTypeOK, GetJob, ReadAndChoose, Exhausted, JobTypeOK,
       JobAssumption, Goto
  <2> QED BY <2>1, <2>2, <2>3, <2>4
<1>9. ASSUME NEW t \in Tasks, Drop(t) PROVE TypeInv'
  <2>1. QueueTypeOK'
    BY <1>9, TaskFacts, QueueAssumption DEF QueueAssumption, QueueTypeOK,
       queueVars, Drop, AckOrNot, Ack
  <2>2. JobTypeOK'
    BY <1>9, FaultType DEF JobTypeOK, Drop, jobVars, AckOrNot
  <2>3. WorkerTypeOK'
    BY <1>9, TaskFacts, RecordFacts DEF WorkerTypeOK, Drop, Return, fileVars,
       Goto, Commands, Early, Starting, Signing, Failing
  <2>4. RetryLeft'
    BY <1>9 DEF RetryLeft, RetryPCs, WorkerTypeOK, Drop, Return, Goto
  <2> QED BY <2>1, <2>2, <2>3, <2>4
<1>10. ASSUME NEW t \in Tasks, AcquireLock(t) PROVE TypeInv'
  <2>1. QueueTypeOK'
    BY <1>10 DEF QueueTypeOK, queueVars, AcquireLock, AcquireOr
  <2>2. JobTypeOK'
    BY <1>10, FaultType, TaskFacts, JobAssumption DEF JobAssumption,
       JobTypeOK, AcquireLock, AcquireOr, TakeLock
  <2>3. WorkerTypeOK'
    BY <1>10, TaskFacts DEF WorkerTypeOK, AcquireLock, AcquireOr, fileVars,
       Goto, Commands, Early, Starting, Signing, Failing
  <2>4. RetryLeft'
    BY <1>10 DEF RetryLeft, RetryPCs, WorkerTypeOK, AcquireLock, AcquireOr,
       Goto
  <2> QED BY <2>1, <2>2, <2>3, <2>4
<1>11. ASSUME NEW t \in Tasks, SaveSigning(t) PROVE TypeInv'
  <2>1. QueueTypeOK'
    BY <1>11 DEF QueueTypeOK, queueVars, SaveSigning
  <2>2. JobTypeOK'
    BY <1>11, TaskFacts, CopyType, SaveType DEF JobTypeOK, SaveSigning,
       SaveCopy, Statuses, Terminal
  <2>3. WorkerTypeOK'
    BY <1>11, TaskFacts, RecordFacts DEF WorkerTypeOK, SaveSigning, SaveCopy,
       WithStatus, Tell, Statuses, Terminal, fileVars, Goto, Commands, Early,
       Starting, Signing, Failing
  <2>4. RetryLeft'
    BY <1>11, RecordFacts DEF RetryLeft, RetryPCs, WorkerTypeOK, SaveSigning,
       SaveCopy, WithStatus, Statuses, Goto
  <2> QED BY <2>1, <2>2, <2>3, <2>4
<1>12. ASSUME NEW t \in Tasks, GetToken(t) PROVE TypeInv'
  <2>1. QueueTypeOK'
    BY <1>12 DEF QueueTypeOK, queueVars, GetToken
  <2>2. JobTypeOK'
    BY <1>12, FaultType DEF JobTypeOK, GetToken, jobVars
  <2>3. WorkerTypeOK'
    BY <1>12, TaskFacts DEF WorkerTypeOK, GetToken, fileVars, Goto, Commands,
       Early, Starting, Signing, Failing
  <2>4. RetryLeft'
    BY <1>12 DEF RetryLeft, RetryPCs, WorkerTypeOK, GetToken, Goto
  <2> QED BY <2>1, <2>2, <2>3, <2>4
<1>13. ASSUME NEW t \in Tasks, DelToken(t) PROVE TypeInv'
  <2>1. QueueTypeOK'
    BY <1>13 DEF QueueTypeOK, queueVars, DelToken
  <2>2. JobTypeOK'
    BY <1>13, FaultType DEF JobTypeOK, DelToken, jobVars
  <2>3. WorkerTypeOK'
    BY <1>13, TaskFacts DEF WorkerTypeOK, DelToken, fileVars, Goto, Commands,
       Early, Starting, Signing, Failing
  <2>4. RetryLeft'
    BY <1>13 DEF RetryLeft, RetryPCs, WorkerTypeOK, DelToken, Goto
  <2> QED BY <2>1, <2>2, <2>3, <2>4
<1>14. ASSUME NEW t \in Tasks, Sign(t) PROVE TypeInv'
  <2>1. QueueTypeOK'
    BY <1>14 DEF QueueTypeOK, queueVars, Sign, SignLeaving
  <2>2. JobTypeOK'
    BY <1>14 DEF JobTypeOK, Sign, SignLeaving, jobVars
  <2>3. WorkerTypeOK'
    <3>1. signed' \in [Jobs -> Contents]
      BY <1>14, TaskFacts DEF WorkerTypeOK, Sign, SignLeaving, Finished, Unfinished, Contents
    <3> QED BY <1>14, <3>1, TaskFacts DEF WorkerTypeOK, Sign, SignLeaving, Goto, Commands,
            Early, Starting, Signing, Failing
  <2>4. RetryLeft'
    BY <1>14 DEF RetryLeft, RetryPCs, WorkerTypeOK, Sign, SignLeaving, Goto
  <2> QED BY <2>1, <2>2, <2>3, <2>4
<1>15. ASSUME NEW t \in Tasks, SavePublishing(t) PROVE TypeInv'
  <2>1. QueueTypeOK'
    BY <1>15 DEF QueueTypeOK, queueVars, SavePublishing
  <2>2. JobTypeOK'
    BY <1>15, TaskFacts, CopyType, SaveType DEF JobTypeOK, SavePublishing,
       SaveCopy, Statuses, Terminal
  <2>3. WorkerTypeOK'
    BY <1>15, TaskFacts, RecordFacts DEF WorkerTypeOK, SavePublishing,
       SaveCopy, WithStatus, Tell, Statuses, Terminal, fileVars, Goto,
       Commands, Early, Starting, Signing, Failing
  <2>4. RetryLeft'
    BY <1>15 DEF RetryLeft, RetryPCs, WorkerTypeOK, SavePublishing, SaveCopy,
       Goto
  <2> QED BY <2>1, <2>2, <2>3, <2>4
<1>16. ASSUME NEW t \in Tasks, WriteMeta(t) PROVE TypeInv'
  <2>1. QueueTypeOK'
    BY <1>16 DEF QueueTypeOK, queueVars, WriteMeta
  <2>2. JobTypeOK'
    BY <1>16, TaskFacts, JobAssumption DEF JobAssumption, JobTypeOK, WriteMeta
  <2>3. WorkerTypeOK'
    BY <1>16, TaskFacts DEF WorkerTypeOK, WriteMeta, fileVars, Goto, Commands,
       Early, Starting, Signing, Failing
  <2>4. RetryLeft'
    BY <1>16 DEF RetryLeft, RetryPCs, WorkerTypeOK, WriteMeta, Goto
  <2> QED BY <2>1, <2>2, <2>3, <2>4
<1>17. ASSUME NEW t \in Tasks, SaveDone(t) PROVE TypeInv'
  <2>1. QueueTypeOK'
    BY <1>17 DEF QueueTypeOK, queueVars, SaveDone
  <2>2. JobTypeOK'
    BY <1>17, TaskFacts, CopyType, SaveType DEF JobTypeOK, SaveDone, SaveCopy,
       Statuses, Terminal
  <2>3. WorkerTypeOK'
    BY <1>17, TaskFacts, RecordFacts DEF WorkerTypeOK, SaveDone, SaveCopy,
       WithStatus, Tell, Statuses, Terminal, fileVars, Goto, Commands, Early,
       Starting, Signing, Failing
  <2>4. RetryLeft'
    BY <1>17 DEF RetryLeft, RetryPCs, WorkerTypeOK, SaveDone, SaveCopy, Goto
  <2> QED BY <2>1, <2>2, <2>3, <2>4
<1>18. ASSUME NEW t \in Tasks, IncrementRetry(t) PROVE TypeInv'
  <2>1. QueueTypeOK'
    BY <1>18 DEF QueueTypeOK, queueVars, IncrementRetry
  <2>2. JobTypeOK'
    BY <1>18, TaskFacts, RecordFacts, SaveType DEF JobTypeOK, IncrementRetry,
       SaveCopy, WorkerTypeOK, RetryLeft, RetryPCs
  <2>3. WorkerTypeOK'
    BY <1>18, TaskFacts, RecordFacts DEF WorkerTypeOK, IncrementRetry,
       SaveCopy, Tell, Statuses, Terminal, fileVars, Goto, Commands, Early,
       Starting, Signing, Failing, RetryLeft, RetryPCs
  <2>4. RetryLeft'
    BY <1>18 DEF RetryLeft, RetryPCs, WorkerTypeOK, IncrementRetry, SaveCopy,
       Goto
  <2> QED BY <2>1, <2>2, <2>3, <2>4
<1>19. ASSUME NEW t \in Tasks, SaveFailed(t) PROVE TypeInv'
  <2>1. QueueTypeOK'
    BY <1>19 DEF QueueTypeOK, queueVars, SaveFailed
  <2>2. JobTypeOK'
    BY <1>19, TaskFacts, CopyType, SaveType DEF JobTypeOK, SaveFailed,
       SaveCopy, Statuses, Terminal
  <2>3. WorkerTypeOK'
    BY <1>19, TaskFacts, RecordFacts DEF WorkerTypeOK, SaveFailed, SaveCopy,
       WithStatus, Tell, Statuses, Terminal, fileVars, Goto, Commands, Early,
       Starting, Signing, Failing
  <2>4. RetryLeft'
    BY <1>19 DEF RetryLeft, RetryPCs, WorkerTypeOK, SaveFailed, SaveCopy, Goto
  <2> QED BY <2>1, <2>2, <2>3, <2>4
<1>20. ASSUME NEW t \in Tasks, Publish(t) PROVE TypeInv'
  <2>1. QueueTypeOK'
    BY <1>20 DEF QueueTypeOK, queueVars, Publish
  <2>2. JobTypeOK'
    BY <1>20, FaultType DEF JobTypeOK, Publish, jobVars
  <2>3. WorkerTypeOK'
    BY <1>20, TaskFacts, RecordFacts DEF WorkerTypeOK, Publish, Tell,
       Deferred, fileVars, Goto, Commands, Early, Starting, Signing, Failing
  <2>4. RetryLeft'
    BY <1>20 DEF RetryLeft, RetryPCs, WorkerTypeOK, Publish, Deferred, Goto
  <2> QED BY <2>1, <2>2, <2>3, <2>4
<1>21. ASSUME NEW t \in Tasks, AckMessage(t) PROVE TypeInv'
  <2>1. QueueTypeOK'
    BY <1>21, TaskFacts, QueueAssumption DEF QueueAssumption, QueueTypeOK,
       queueVars, AckMessage, AckOrNot, Ack
  <2>2. JobTypeOK'
    BY <1>21, FaultType DEF JobTypeOK, AckMessage, jobVars, AckOrNot
  <2>3. WorkerTypeOK'
    BY <1>21, TaskFacts DEF WorkerTypeOK, AckMessage, Deferred, fileVars,
       Goto, Commands, Early, Starting, Signing, Failing
  <2>4. RetryLeft'
    BY <1>21 DEF RetryLeft, RetryPCs, WorkerTypeOK, AckMessage, Deferred, Goto
  <2> QED BY <2>1, <2>2, <2>3, <2>4
<1>22. ASSUME NEW t \in Tasks, ReleaseLock(t) PROVE TypeInv'
  <2>1. QueueTypeOK'
    BY <1>22 DEF QueueTypeOK, queueVars, ReleaseLock
  <2>2. JobTypeOK'
    BY <1>22, FaultType, TaskFacts, JobAssumption DEF JobAssumption,
       JobTypeOK, ReleaseLock, DropLock
  <2>3. WorkerTypeOK'
    BY <1>22, TaskFacts DEF WorkerTypeOK, ReleaseLock, fileVars, Goto,
       Commands, Early, Starting, Signing, Failing
  <2>4. RetryLeft'
    BY <1>22 DEF RetryLeft, RetryPCs, WorkerTypeOK, ReleaseLock, Goto
  <2> QED BY <2>1, <2>2, <2>3, <2>4
<1>23. ASSUME NEW t \in Tasks, RemoveDylibs(t) PROVE TypeInv'
  <2>1. QueueTypeOK'
    BY <1>23 DEF QueueTypeOK, queueVars, RemoveDylibs
  <2>2. JobTypeOK'
    BY <1>23 DEF JobTypeOK, RemoveDylibs, jobVars
  <2>3. WorkerTypeOK'
    BY <1>23, TaskFacts, RecordFacts DEF WorkerTypeOK, RemoveDylibs, Return,
       fileVars, Goto, Commands, Early, Starting, Signing, Failing
  <2>4. RetryLeft'
    BY <1>23 DEF RetryLeft, RetryPCs, WorkerTypeOK, RemoveDylibs, Return, Goto
  <2> QED BY <2>1, <2>2, <2>3, <2>4
<1>24. ASSUME Tick PROVE TypeInv'
  <2>1. QueueTypeOK'
    BY <1>24, QueueAssumption DEF QueueAssumption, QueueTypeOK, Tick,
       QueueTick
  <2>2. JobTypeOK'
    BY <1>24, JobAssumption DEF JobAssumption, JobTypeOK, Tick, LockTick
  <2>3. WorkerTypeOK'
    BY <1>24 DEF WorkerTypeOK, Tick, fileVars
  <2>4. RetryLeft'
    BY <1>24 DEF RetryLeft, Tick
  <2> QED BY <2>1, <2>2, <2>3, <2>4
<1>25. ASSUME Stop PROVE TypeInv'
  <2>1. QueueTypeOK'
    BY <1>25 DEF QueueTypeOK, queueVars, Stop
  <2>2. JobTypeOK'
    BY <1>25, TaskFacts DEF JobTypeOK, Stop, CutRequests, At
  <2>3. WorkerTypeOK'
    <3>1. signed' \in [Jobs -> Contents]
      BY <1>25 DEF Stop
    <3> QED BY <1>25, <3>1, RecordFacts, WorkerAssumption DEF WorkerAssumption,
            WorkerTypeOK, Stop, Commands
  <2>4. RetryLeft'
    BY <1>25 DEF RetryLeft, RetryPCs, Stop
  <2> QED BY <2>1, <2>2, <2>3, <2>4
<1>26. CASE UNCHANGED vars
  <2>1. QueueTypeOK'
    BY <1>26 DEF QueueTypeOK, queueVars, vars
  <2>2. JobTypeOK'
    BY <1>26 DEF JobTypeOK, vars, jobVars
  <2>3. WorkerTypeOK'
    BY <1>26 DEF WorkerTypeOK, vars, taskVars, fileVars
  <2>4. RetryLeft'
    BY <1>26 DEF RetryLeft, vars, taskVars
  <2> QED BY <2>1, <2>2, <2>3, <2>4
<1> QED
  BY <1>1, <1>2, <1>3, <1>4, <1>5, <1>6, <1>7, <1>8, <1>9, <1>10, <1>11,
     <1>12, <1>13, <1>14, <1>15, <1>16, <1>17, <1>18, <1>19, <1>20, <1>21,
     <1>22, <1>23, <1>24, <1>25, <1>26 DEF Next, Process

\* Every reachable state is well typed, and no job is retried beyond the limit:
\* the retry counts in Redis and in the copies stay within 0..MaxRetries.
THEOREM TypeCorrect == Spec => []TypeOK
<1>1. TypeInv => TypeOK
  BY DEF TypeInv
<1> QED
  BY TypeInit, TypeStep, <1>1, PTL DEF Spec

-----------------------------------------------------------------------------
(* Steps of one task                                                       *)

\* The actions of a task that neither take nor give back a lock nor end it.
Quiet(t) ==
    \/ GetJob(t) \/ SaveSigning(t) \/ GetToken(t) \/ DelToken(t) \/ Sign(t)
    \/ SavePublishing(t) \/ WriteMeta(t) \/ SaveDone(t) \/ IncrementRetry(t)
    \/ SaveFailed(t) \/ Publish(t) \/ AckMessage(t)

\* Where they lead.
After(t) ==
    IF t \in holders THEN Signing \union Failing
    ELSE {"drop", "lock", "cleanup"} \union Failing

\* Holders and only holders run the commands under the lock.
Placed ==
    /\ \A t \in holders : pc[t] \in Signing \union Failing
    /\ \A t \in Tasks : pc[t] \in Signing => t \in holders

\* A quiet action moves its task on among the commands its side of the lock
\* allows and leaves the clocks and the lock alone.
LEMMA QuietMoves ==
  ASSUME TypeInv, Placed, NEW t \in Tasks, Quiet(t)
  PROVE  /\ \E c \in After(t) : Goto(t, c)
         /\ UNCHANGED <<holders, lock, timer>>
         /\ pc[t] \in {"get"} \union Signing \union Failing
         /\ pc[t] # "release"
<1> USE DEF Placed, After, Goto, Signing, Failing, jobVars
<1>1. CASE GetJob(t)
  BY <1>1 DEF GetJob, ReadAndChoose
<1>2. CASE SaveSigning(t)
  BY <1>2 DEF SaveSigning, SaveCopy
<1>3. CASE GetToken(t)
  BY <1>3 DEF GetToken
<1>4. CASE DelToken(t)
  BY <1>4 DEF DelToken
<1>5. CASE Sign(t)
  BY <1>5 DEF Sign, SignLeaving
<1>6. CASE SavePublishing(t)
  BY <1>6 DEF SavePublishing, SaveCopy
<1>7. CASE WriteMeta(t)
  BY <1>7 DEF WriteMeta
<1>8. CASE SaveDone(t)
  BY <1>8 DEF SaveDone, SaveCopy
<1>9. CASE IncrementRetry(t)
  BY <1>9 DEF IncrementRetry, SaveCopy
<1>10. CASE SaveFailed(t)
  BY <1>10 DEF SaveFailed, SaveCopy
<1>11. CASE Publish(t)
  BY <1>11 DEF Publish, Deferred
<1>12. CASE AckMessage(t)
  BY <1>12 DEF AckMessage, Deferred
<1> QED
  BY <1>1, <1>2, <1>3, <1>4, <1>5, <1>6, <1>7, <1>8, <1>9, <1>10, <1>11,
     <1>12 DEF Quiet

\* Whatever a task does, it moves only itself, sends nothing, reads nothing new
\* from the stream and makes no pending entry older.
LEMMA ProcessFrame ==
  ASSUME TypeInv, NEW t \in Tasks, Process(t)
  PROVE  /\ Active(t)
         /\ \A u \in Tasks : u # t => pc'[u] = pc[u] /\ timer'[u] = timer[u]
         /\ UNCHANGED <<stream, delivered, submit>>
         /\ pel' \subseteq pel
         /\ \A j \in Jobs : idle'[j] \in {0, idle[j]}
<1> USE DEF TypeInv, TypeOK, WorkerTypeOK, Active, Goto, queueVars, jobVars
<1>1. CASE StartPooled(t)
  BY <1>1 DEF StartPooled
<1>2. CASE GetJob(t)
  BY <1>2 DEF GetJob, ReadAndChoose
<1>3. CASE Drop(t)
  BY <1>3, TaskFacts DEF Drop, AckOrNot, Ack, Return, QueueTypeOK
<1>4. CASE AcquireLock(t)
  BY <1>4 DEF AcquireLock, AcquireOr
<1>5. CASE SaveSigning(t)
  BY <1>5 DEF SaveSigning, SaveCopy
<1>6. CASE GetToken(t)
  BY <1>6 DEF GetToken
<1>7. CASE DelToken(t)
  BY <1>7 DEF DelToken
<1>8. CASE Sign(t)
  BY <1>8 DEF Sign, SignLeaving
<1>9. CASE SavePublishing(t)
  BY <1>9 DEF SavePublishing, SaveCopy
<1>10. CASE WriteMeta(t)
  BY <1>10 DEF WriteMeta
<1>11. CASE SaveDone(t)
  BY <1>11 DEF SaveDone, SaveCopy
<1>12. CASE IncrementRetry(t)
  BY <1>12 DEF IncrementRetry, SaveCopy
<1>13. CASE SaveFailed(t)
  BY <1>13 DEF SaveFailed, SaveCopy
<1>14. CASE Publish(t)
  BY <1>14 DEF Publish
<1>15. CASE AckMessage(t)
  BY <1>15, TaskFacts DEF AckMessage, AckOrNot, Ack, QueueTypeOK
<1>16. CASE ReleaseLock(t)
  BY <1>16 DEF ReleaseLock
<1>17. CASE RemoveDylibs(t)
  BY <1>17 DEF RemoveDylibs, Return
<1> QED
  BY <1>1, <1>2, <1>3, <1>4, <1>5, <1>6, <1>7, <1>8, <1>9, <1>10, <1>11,
     <1>12, <1>13, <1>14, <1>15, <1>16, <1>17 DEF Process

-----------------------------------------------------------------------------
(* Deliveries                                                              *)

\* A job is enqueued once, by a request that came to its end, and a goroutine
\* works only on what the stream delivered.
Fresh ==
    /\ \A m, n \in Positions : stream[m] = stream[n] => m = n
    /\ \A m \in Positions : submit[stream[m]] \in {"accepted", "answered"}
    /\ \A t \in Tasks : Active(t) => WasDelivered(JobOf(t))
    /\ \A j \in pel : WasDelivered(j)

LEMMA FreshStep == TypeInv /\ Fresh /\ [Next]_vars => Fresh'
<1> SUFFICES ASSUME TypeInv, Fresh, [Next]_vars PROVE Fresh'
  OBVIOUS
<1> USE DEF TypeInv, TypeOK, QueueTypeOK, Fresh, Positions, WasDelivered
<1>1. ASSUME NEW j \in Jobs, Submit(j) PROVE Fresh'
  <2>1. /\ submit[j] \in {"new", "list", "enqueue"}
        /\ \A k \in Jobs : k # j => submit'[k] = submit[k]
        /\ UNCHANGED <<pc, delivered, pel>>
    BY <1>1 DEF Submit, CreateJob, ListJob, EnqueueJob, Enqueue, JobTypeOK,
       queueVars, taskVars
  <2>2. \A m \in Positions : stream[m] \in Jobs /\ stream[m] # j
    BY <2>1
  <2>3. CASE EnqueueJob(j) /\ Enqueue(j) /\ submit'[j] = "accepted"
    <3>1. /\ Len(stream') = Len(stream) + 1
          /\ stream'[Len(stream) + 1] = j
          /\ \A m \in Positions : stream'[m] = stream[m]
      BY <2>3 DEF Enqueue
    <3>2. \A m, n \in 1..Len(stream') : stream'[m] = stream'[n] => m = n
      BY <2>2, <3>1
    <3>3. \A m \in 1..Len(stream') : submit'[stream'[m]] \in {"accepted", "answered"}
      BY <2>1, <2>2, <2>3, <3>1
    <3>4. \A k \in Jobs : WasDelivered(k) => WasDelivered(k)'
      BY <2>1, <3>1
    <3>5. pel \subseteq Jobs /\ \A t \in Tasks : JobOf(t) \in Jobs
      BY TaskFacts
    <3> QED BY <2>1, <3>2, <3>3, <3>4, <3>5 DEF Active
  <2>4. CASE UNCHANGED queueVars
    BY <2>1, <2>2, <2>4 DEF queueVars, Active
  <2> QED
    BY <1>1, <2>3, <2>4 DEF Submit, EnqueueJob, JobTypeOK
<1>2. ASSUME NEW j \in Jobs, Delete(j) PROVE Fresh'
  BY <1>2 DEF Delete, StartDelete, DeleteRecord, UnlistJob, RemoveFiles,
     queueVars, Active, taskVars
<1>3. ASSUME NEW j \in Jobs, GiveToken(j) PROVE Fresh'
  BY <1>3 DEF GiveToken, JobTypeOK, queueVars, Active, taskVars
<1>4. ASSUME NEW j \in Jobs, TokenExpires(j) PROVE Fresh'
  BY <1>4 DEF TokenExpires, jobVars, queueVars, Active, taskVars
<1>5. ASSUME NEW j \in Jobs, ReadMessage(j) PROVE Fresh'
  <2>1. /\ delivered + 1 \in 1..Len(stream) /\ stream[delivered + 1] = j
        /\ UNCHANGED <<stream, submit>>
        /\ delivered' = delivered + 1
        /\ pel' = pel \union {j}
        /\ \A t \in Tasks : Active(t)' => Active(t) \/ JobOf(t) = j
    BY <1>5, TaskFacts DEF ReadMessage, ReadNew, jobVars, Active, Goto, WorkerTypeOK
  <2>2. WasDelivered(j)' /\ \A k \in Jobs : WasDelivered(k) => WasDelivered(k)'
    BY <2>1
  <2> QED BY <2>1, <2>2, TaskFacts
<1>6. CASE RecoverStale
  <2>1. PICK claimed \in SUBSET Stale, s \in [Jobs -> Recovered] :
          /\ ClaimStale(claimed)
          /\ \/ pc' = [t \in Tasks |->
                        IF JobOf(t) \in claimed /\ t[2] = s[JobOf(t)]
                        THEN "get" ELSE pc[t]]
             \/ UNCHANGED pc
          /\ UNCHANGED jobVars
    BY <1>6 DEF RecoverStale
  <2>2. UNCHANGED <<stream, delivered, pel, submit>>
    BY <2>1 DEF ClaimStale, jobVars
  <2>3. \A t \in Tasks : Active(t)' => Active(t) \/ JobOf(t) \in pel
    BY <2>1 DEF Stale, Active
  <2> QED BY <2>2, <2>3
<1>7. ASSUME NEW t \in Tasks, Process(t) PROVE Fresh'
  <2>1. /\ UNCHANGED <<stream, delivered, submit>>
        /\ pel' \subseteq pel
        /\ \A u \in Tasks : Active(u)' => Active(u)
    BY <1>7, ProcessFrame DEF Active
  <2> QED BY <2>1
<1>8. CASE Tick
  BY <1>8 DEF Tick, QueueTick, Active
<1>9. CASE Stop
  <2>1. UNCHANGED <<stream, delivered, pel>> /\ \A t \in Tasks : pc'[t] = "idle"
    BY <1>9 DEF Stop, queueVars
  <2>2. submit' = [j \in Jobs |->
                     IF submit[j] \in {"list", "enqueue"} THEN "lost" ELSE submit[j]]
    BY <1>9 DEF Stop, CutRequests
  <2>3. \A m \in Positions : stream[m] \in Jobs /\ submit[stream[m]] \in {"accepted", "answered"}
    OBVIOUS
  <2>4. \A m \in Positions : submit'[stream[m]] = submit[stream[m]]
    BY <2>2, <2>3
  <2>5. \A t \in Tasks : ~Active(t)'
    BY <2>1 DEF Active
  <2>6. \A j : WasDelivered(j) => WasDelivered(j)'
    BY <2>1
  <2> HIDE DEF WasDelivered
  <2> QED BY <2>1, <2>3, <2>4, <2>5, <2>6
<1>10. CASE UNCHANGED vars
  BY <1>10 DEF vars, queueVars, jobVars, taskVars, Active
<1> QED
  BY <1>1, <1>2, <1>3, <1>4, <1>5, <1>6, <1>7, <1>8, <1>9, <1>10 DEF Next

-----------------------------------------------------------------------------
(* The user lock                                                           *)

\* Each holder is within its time, which its key in Redis runs down with.
LockInv ==
    /\ Placed
    /\ \A t \in holders : timer[t] <= HoldBound /\ lock[UserOf(t)] + timer[t] = LockTTL
    /\ UserExclusion

\* The key of a user whose job is being processed is there.
LEMMA LockIsSet ==
  ASSUME TypeInv, LockInv, NEW t \in holders
  PROVE  lock[UserOf(t)] > 0 /\ t \in Tasks /\ UserOf(t) \in Users
  BY WorkerAssumption, JobAssumption, TaskFacts
     DEF WorkerAssumption, JobAssumption, TypeInv, TypeOK, LockInv, JobTypeOK, WorkerTypeOK

LEMMA LockInit == Init => LockInv
  BY DEF Init, LockInv, Placed, UserExclusion, Signing

LEMMA LockStep == TypeInv /\ Fresh /\ LockInv /\ [Next]_vars => LockInv'
<1> SUFFICES ASSUME TypeInv, Fresh, LockInv, [Next]_vars PROVE LockInv'
  OBVIOUS
<1>t. /\ pc \in [Tasks -> Commands]
      /\ timer \in [Tasks -> Nat]
      /\ holders \subseteq Tasks
      /\ lock \in [Users -> 0..LockTTL]
  BY DEF TypeInv, TypeOK, WorkerTypeOK, JobTypeOK
\* Steps that leave the clocks, the lock and the holders alone.
<1>a. ASSUME UNCHANGED <<lock, timer, holders>>, Placed' PROVE LockInv'
  BY <1>a DEF LockInv, UserExclusion
<1>b. ASSUME UNCHANGED <<lock, pc, timer, holders>> PROVE LockInv'
  BY <1>a, <1>b DEF LockInv, Placed
<1>1. ASSUME NEW j \in Jobs, Submit(j) PROVE LockInv'
  BY <1>1, <1>b DEF Submit, CreateJob, ListJob, EnqueueJob, taskVars
<1>2. ASSUME NEW j \in Jobs, Delete(j) PROVE LockInv'
  BY <1>2, <1>b DEF Delete, StartDelete, DeleteRecord, UnlistJob, RemoveFiles, taskVars
<1>3. ASSUME NEW j \in Jobs, GiveToken(j) PROVE LockInv'
  BY <1>3, <1>b DEF GiveToken, taskVars
<1>4. ASSUME NEW j \in Jobs, TokenExpires(j) PROVE LockInv'
  BY <1>4, <1>b DEF TokenExpires, jobVars, taskVars
<1>5. ASSUME NEW j \in Jobs, ReadMessage(j) PROVE LockInv'
  <2>1. pc[<<j, Pool>>] = "idle"
    BY <1>5, TaskFacts
       DEF ReadMessage, ReadNew, Fresh, Active, WasDelivered, Positions, TypeInv,
           TypeOK, QueueTypeOK
  <2>2. Placed'
    BY <1>5, <1>t, <2>1, TaskFacts
       DEF ReadMessage, Goto, LockInv, Placed, Signing, Failing
  <2> QED
    BY <1>5, <1>a, <2>2 DEF ReadMessage, jobVars
<1>6. CASE RecoverStale
  <2>1. Placed'
    BY <1>6, <1>t, TaskFacts
       DEF RecoverStale, Active, Tasks, JobOf, LockInv, Placed, Signing, Failing
  <2> QED
    BY <1>6, <1>a, <2>1 DEF RecoverStale, jobVars
<1>7. ASSUME NEW t \in Tasks, StartPooled(t) PROVE LockInv'
  <2>1. t \notin holders /\ pc[t] = "sem"
    BY <1>7 DEF StartPooled, LockInv, Placed, Signing, Failing
  <2> QED
    BY <1>7, <1>t, <2>1
       DEF StartPooled, Goto, LockInv, Placed, UserExclusion, jobVars, Signing, Failing
<1>8. ASSUME NEW t \in Tasks, Drop(t) \/ RemoveDylibs(t) PROVE LockInv'
  <2>1. t \notin holders
    BY <1>8 DEF Drop, RemoveDylibs, LockInv, Placed, Signing, Failing
  <2>2. /\ UNCHANGED <<lock, holders>>
        /\ \E c \in {"idle", "cleanup"} : Goto(t, c)
        /\ \A u \in Tasks : u # t => timer'[u] = timer[u]
    BY <1>8, <1>t DEF Drop, RemoveDylibs, Return, Goto, jobVars
  <2> QED
    BY <1>t, <2>1, <2>2 DEF Goto, LockInv, Placed, UserExclusion, Signing, Failing
<1>9. ASSUME NEW t \in Tasks, AcquireLock(t) PROVE LockInv'
  <2>1. pc[t] = "lock" /\ t \notin holders
    BY <1>9 DEF AcquireLock, AcquireOr, LockInv, Placed, Signing, Failing
  <2>2. CASE TakeLock(UserOf(t))
    \* No one else holds the lock of this user: its key would be there.
    <3>1. \A u \in holders : UserOf(u) # UserOf(t)
      BY <2>2, LockIsSet DEF TakeLock
    <3>2. \A u \in Users : u # UserOf(t) => lock'[u] = lock[u]
      BY <1>t, <2>2 DEF TakeLock
    <3>3. lock'[UserOf(t)] = LockTTL
      BY <1>t, <2>2, TaskFacts DEF TakeLock
    <3>4. CASE Goto(t, "signing") /\ holders' = holders \union {t} /\ timer' = [timer EXCEPT ![t] = 0]
      <4>1. \A u \in holders : timer'[u] = timer[u] /\ lock'[UserOf(u)] = lock[UserOf(u)]
        BY <1>t, <2>1, <3>1, <3>2, <3>4, TaskFacts
      <4>2. timer'[t] = 0
        BY <1>t, <3>4
      <4>3. Placed'
        BY <1>t, <3>4 DEF Goto, LockInv, Placed, Signing, Failing
      <4>4. UserExclusion'
        BY <3>1, <3>4 DEF LockInv, UserExclusion
      <4> QED
        BY <3>3, <3>4, <4>1, <4>2, <4>3, <4>4, JobAssumption, WorkerAssumption
           DEF LockInv, JobAssumption, WorkerAssumption
    <3>5. CASE Goto(t, "cleanup") /\ UNCHANGED <<holders, timer>>
      <4>1. \A u \in holders : lock'[UserOf(u)] = lock[UserOf(u)]
        BY <1>t, <3>1, <3>2, TaskFacts
      <4> QED
        BY <1>t, <2>1, <3>5, <4>1
           DEF Goto, LockInv, Placed, UserExclusion, Signing, Failing
    <3> QED
      BY <1>9, <3>4, <3>5 DEF AcquireLock, AcquireOr
  <2>3. CASE UNCHANGED lock /\ Goto(t, "cleanup") /\ UNCHANGED <<holders, timer>>
    BY <1>t, <2>1, <2>3 DEF Goto, LockInv, Placed, UserExclusion, Signing, Failing
  <2> QED
    BY <1>9, <2>2, <2>3 DEF AcquireLock, AcquireOr
<1>10. ASSUME NEW t \in Tasks, ReleaseLock(t) PROVE LockInv'
  <2>1. pc[t] = "release" /\ t \in holders
    BY <1>10 DEF ReleaseLock, LockInv, Placed, Signing
  <2>2. \A u \in holders : u # t => UserOf(u) # UserOf(t)
    BY <2>1 DEF LockInv, UserExclusion
  <2>3. \A u \in holders : u # t => lock'[UserOf(u)] = lock[UserOf(u)]
    BY <1>10, <1>t, <2>2, TaskFacts DEF ReleaseLock, DropLock
  <2> QED
    BY <1>10, <1>t, <2>3
       DEF ReleaseLock, Goto, LockInv, Placed, UserExclusion, Signing, Failing
<1>11. ASSUME NEW t \in Tasks, Quiet(t) PROVE LockInv'
  <2>1. /\ UNCHANGED <<lock, timer, holders>>
        /\ \E c \in After(t) : Goto(t, c)
    BY <1>11, QuietMoves DEF LockInv
  <2>2. Placed'
    BY <1>t, <2>1 DEF After, Goto, LockInv, Placed, Signing, Failing
  <2> QED
    BY <1>a, <2>1, <2>2
<1>12. CASE Tick
  <2>1. ASSUME NEW t \in holders
        PROVE  /\ timer'[t] = timer[t] + 1
               /\ timer[t] < HoldBound
               /\ lock'[UserOf(t)] = lock[UserOf(t)] - 1
    <3>1. t \in Tasks /\ MayWait(t) /\ lock[UserOf(t)] > 0 /\ UserOf(t) \in Users
      BY <1>12, <2>1, LockIsSet DEF Tick
    <3>2. Active(t) /\ pc[t] # "sem"
      BY <2>1, <3>1 DEF LockInv, Placed, Signing, Failing, Active
    <3> QED
      BY <1>12, <1>t, <3>1, <3>2 DEF Tick, LockTick, MayWait, Active
  <2>2. UNCHANGED <<pc, holders>>
    BY <1>12 DEF Tick
  <2>3. \A t \in holders : timer'[t] <= HoldBound /\ lock'[UserOf(t)] + timer'[t] = LockTTL
    BY <1>t, <2>1, TaskFacts, WorkerAssumption, JobAssumption
       DEF LockInv, WorkerAssumption, JobAssumption
  <2> QED
    BY <2>2, <2>3 DEF LockInv, Placed, UserExclusion
<1>13. CASE Stop
  BY <1>13, <1>t DEF Stop, LockInv, Placed, UserExclusion, Signing
<1>14. CASE UNCHANGED vars
  BY <1>14, <1>b DEF vars, jobVars, taskVars
<1> QED
  BY <1>1, <1>2, <1>3, <1>4, <1>5, <1>6, <1>7, <1>8, <1>9, <1>10, <1>11, <1>12,
     <1>13, <1>14 DEF Next, Process, Quiet

LEMMA FreshInit == Init => Fresh
  BY DEF Init, QueueInit, Fresh, Positions, Active

\* However goroutines, restarts, failing commands and the clock interleave, a
\* user's jobs are processed one at a time, and ReleaseUserLock only ever
\* deletes the key its own goroutine set: HoldBound < LockTTL is all it takes.
THEOREM Exclusion == Spec => [](UserExclusion /\ OwnLock)
<1>1. Init => TypeInv /\ Fresh /\ LockInv
  BY TypeInit, FreshInit, LockInit
<1>2. TypeInv /\ Fresh /\ LockInv /\ [Next]_vars => (TypeInv /\ Fresh /\ LockInv)'
  BY TypeStep, FreshStep, LockStep
<1>3. TypeInv /\ Fresh /\ LockInv => UserExclusion /\ OwnLock
  BY LockIsSet DEF LockInv, OwnLock
<1> QED
  BY <1>1, <1>2, <1>3, PTL DEF Spec

-----------------------------------------------------------------------------
(* One goroutine per message, when redelivery is slower than processing    *)

\* A message may wait in the read loop's hand for a whole processing of the
\* one before it, and is then processed itself.
Paced == VisibilityTimeout > 2 * (StartBound + HoldBound)

\* The commands outside the lock that are bounded by StartBound.
Outside == Starting \union Failing \union {"drop"}

\* How long ago the message of an active task was last handed out, at most.
Age(t) ==
    IF pc[t] = "sem" THEN timer[t]
    ELSE IF t \in holders THEN 2 * StartBound + HoldBound + timer[t]
    ELSE IF pc[t] = "cleanup" THEN 2 * (StartBound + HoldBound)
    ELSE StartBound + HoldBound + timer[t]

\* Clocks of the tasks outside the lock.
Timely ==
    /\ \A t \in Tasks : pc[t] = "idle" => timer[t] = 0
    /\ \A t \in Tasks : pc[t] \in Outside /\ t \notin holders => timer[t] <= StartBound

\* One message waits for the semaphore at most, for no longer than one
\* processing, and every goroutine in the pool was started before it came.
Waiting ==
    \A s \in Tasks : pc[s] = "sem" =>
        /\ \A u \in Tasks : pc[u] = "sem" => u = s
        /\ timer[s] <= StartBound + HoldBound
        /\ \A r \in Tasks : InPool(r) /\ pc[r] # "cleanup" =>
               timer[s] <= timer[r] + (IF r \in holders THEN StartBound ELSE 0)

Young == \A t \in Tasks : Active(t) => idle[JobOf(t)] <= Age(t)

PaceInv == Timely /\ Waiting /\ Young /\ SoleProcessor

\* The invariants a step may rely on.
Inv == TypeInv /\ Fresh /\ LockInv /\ PaceInv

\* No message someone works on is ever stale.
LEMMA NotStale ==
  ASSUME Paced, Inv, NEW t \in Tasks, Active(t)
  PROVE  JobOf(t) \notin Stale
<1>1. /\ StartBound \in Nat /\ HoldBound \in Nat /\ VisibilityTimeout \in Nat
      /\ timer[t] \in Nat /\ idle[JobOf(t)] \in Nat
  BY TaskFacts, QueueAssumption, WorkerAssumption
     DEF QueueAssumption, WorkerAssumption, Inv, TypeInv, TypeOK, QueueTypeOK, WorkerTypeOK
<1>2. pc[t] = "sem" => timer[t] <= StartBound + HoldBound
  BY DEF Inv, PaceInv, Waiting
<1>3. t \in holders => timer[t] <= HoldBound
  BY DEF Inv, LockInv
<1>4. pc[t] \in Outside /\ t \notin holders => timer[t] <= StartBound
  BY DEF Inv, PaceInv, Timely
<1>5. t \notin holders => pc[t] \in Outside \union {"idle", "sem", "cleanup"}
  BY DEF Inv, TypeInv, TypeOK, WorkerTypeOK, LockInv, Placed, Outside, Commands, Early
<1>6. Age(t) <= 2 * (StartBound + HoldBound)
  BY <1>1, <1>2, <1>3, <1>4, <1>5 DEF Age, Active
<1>7. idle[JobOf(t)] <= Age(t)
  BY DEF Inv, PaceInv, Young
<1>8. Age(t) \in Nat
  BY <1>1 DEF Age
<1>9. idle[JobOf(t)] < VisibilityTimeout
  BY <1>1, <1>6, <1>7, <1>8 DEF Paced
<1> QED
  BY <1>1, <1>9 DEF Stale

LEMMA PaceInit == Init => PaceInv
  BY DEF Init, PaceInv, Timely, Waiting, Young, SoleProcessor, Active, Outside,
         Starting, Failing

\* Steps that touch neither tasks nor clocks.
LEMMA PaceFrame ==
  ASSUME PaceInv, UNCHANGED <<pc, timer, holders, idle>>
  PROVE  PaceInv'
  BY DEF PaceInv, Timely, Waiting, Young, SoleProcessor, Active, Age, InPool

\* A task already running that moves on, ends, takes or gives back the lock.
LEMMA PaceProcess ==
  ASSUME Inv, NEW t \in Tasks, Process(t)
  PROVE  PaceInv'
<1>t. /\ pc \in [Tasks -> Commands] /\ timer \in [Tasks -> Nat] /\ holders \subseteq Tasks
      /\ StartBound \in Nat /\ HoldBound \in Nat
      /\ idle \in [Jobs -> 0..VisibilityTimeout] /\ VisibilityTimeout \in Nat
      /\ \A u \in Tasks : JobOf(u) \in Jobs /\ idle[JobOf(u)] \in Nat
  BY WorkerAssumption, QueueAssumption, TaskFacts
     DEF WorkerAssumption, QueueAssumption, Inv, TypeInv, TypeOK, WorkerTypeOK, QueueTypeOK
<1>f. /\ Active(t)
      /\ \A u \in Tasks : u # t => pc'[u] = pc[u] /\ timer'[u] = timer[u]
      /\ \A j \in Jobs : idle'[j] \in {0, idle[j]}
  BY ProcessFrame DEF Inv
<1>g. /\ timer[t] \in Nat
      /\ t \in holders => timer[t] <= HoldBound /\ pc[t] \in Signing \union Failing
      /\ pc[t] \in Outside /\ t \notin holders => timer[t] <= StartBound
      /\ idle[JobOf(t)] <= Age(t)
  BY <1>t, <1>f DEF Inv, LockInv, Placed, PaceInv, Timely, Young
\* Enough to look at where the step leaves t.
<1>h. ASSUME \A u \in Tasks : u # t => (u \in holders' <=> u \in holders),
             pc'[t] # "sem",
             pc'[t] = "idle" => timer'[t] = 0,
             pc'[t] \in Outside /\ t \notin holders' => timer'[t] <= StartBound,
             Active(t)' => idle[JobOf(t)] <= Age(t)',
             Active(t)' => Age(t)' \in Nat,
             pc[t] # "sem" /\ InPool(t)' /\ pc'[t] # "cleanup" =>
                 \A s \in Tasks : pc[s] = "sem" =>
                     timer[s] <= timer'[t] + (IF t \in holders' THEN StartBound ELSE 0)
      PROVE  PaceInv'
  <2>1. Timely'
    BY <1>f, <1>h DEF Inv, PaceInv, Timely, Outside
  <2>2. Waiting'
    <3> SUFFICES ASSUME NEW s \in Tasks, pc'[s] = "sem"
                 PROVE  /\ \A u \in Tasks : pc'[u] = "sem" => u = s
                        /\ timer'[s] <= StartBound + HoldBound
                        /\ \A r \in Tasks : InPool(r)' /\ pc'[r] # "cleanup" =>
                              timer'[s] <= timer'[r] + (IF r \in holders' THEN StartBound ELSE 0)
      BY DEF Waiting
    <3>1. s # t /\ pc[s] = "sem" /\ timer'[s] = timer[s]
      BY <1>f, <1>h
    <3>2. pc[t] # "sem"
      BY <3>1 DEF Inv, PaceInv, Waiting
    <3>3. \A u \in Tasks : pc'[u] = "sem" => u = s
      BY <1>f, <1>h, <3>1 DEF Inv, PaceInv, Waiting
    <3>4. ASSUME NEW r \in Tasks, InPool(r)', pc'[r] # "cleanup"
          PROVE  timer'[s] <= timer'[r] + (IF r \in holders' THEN StartBound ELSE 0)
      <4>1. CASE r = t
        BY <1>h, <3>1, <3>2, <3>4, <4>1
      <4>2. CASE r # t
        BY <1>f, <1>h, <3>1, <3>4, <4>2 DEF Inv, PaceInv, Waiting, InPool
      <4> QED BY <4>1, <4>2
    <3> QED
      BY <3>1, <3>3, <3>4 DEF Inv, PaceInv, Waiting
  <2>3. Young'
    <3> SUFFICES ASSUME NEW u \in Tasks, Active(u)'
                 PROVE  idle'[JobOf(u)] <= Age(u)'
      BY DEF Young
    <3>1. CASE u = t
      BY <1>f, <1>h, <1>t, <3>1
    <3>2. CASE u # t
      <4>1. Age(u)' = Age(u) /\ Active(u)
        BY <1>f, <1>h, <3>2 DEF Age, Active
      <4>2. idle[JobOf(u)] <= Age(u) /\ Age(u) \in Nat
        BY <1>t, <4>1 DEF Inv, PaceInv, Young, Age
      <4> QED BY <1>f, <1>t, <4>1, <4>2
    <3> QED BY <3>1, <3>2
  <2>4. SoleProcessor'
    BY <1>f DEF Inv, PaceInv, SoleProcessor, Active
  <2> QED BY <2>1, <2>2, <2>3, <2>4 DEF PaceInv
<1>1. CASE StartPooled(t)
  <2>1. pc[t] = "sem" /\ pc'[t] = "get" /\ timer'[t] = 0 /\ holders' = holders
    BY <1>1, <1>t DEF StartPooled, Goto
  <2>2. t \notin holders /\ timer[t] <= StartBound + HoldBound
    BY <2>1 DEF Inv, LockInv, Placed, PaceInv, Waiting, Signing, Failing
  <2>3. idle[JobOf(t)] <= StartBound + HoldBound
    BY <1>g, <1>t, <2>1, <2>2 DEF Age
  <2> QED
    BY <1>h, <1>t, <2>1, <2>2, <2>3 DEF Age, Outside, Starting
<1>2. CASE Drop(t) \/ RemoveDylibs(t)
  <2>1. /\ pc[t] \in {"drop", "cleanup"} /\ holders' = holders
        /\ \/ pc'[t] = "idle" /\ timer'[t] = 0
           \/ pc[t] = "drop" /\ pc'[t] = "cleanup" /\ timer'[t] = timer[t]
    BY <1>2, <1>t DEF Drop, RemoveDylibs, Return, Goto
  <2>2. t \notin holders
    BY <2>1 DEF Inv, LockInv, Placed, Signing, Failing
  <2> QED
    BY <1>g, <1>h, <1>t, <2>1, <2>2
       DEF Age, Active, InPool, Outside, Starting, Failing
<1>3. CASE AcquireLock(t)
  <2>1. /\ pc[t] = "lock"
        /\ \/ pc'[t] = "signing" /\ timer'[t] = 0 /\ holders' = holders \union {t}
           \/ pc'[t] = "cleanup" /\ timer' = timer /\ holders' = holders
    BY <1>3, <1>t DEF AcquireLock, AcquireOr, Goto
  <2>2. t \notin holders /\ timer[t] <= StartBound
    BY <1>g, <2>1 DEF Outside, Starting, Inv, LockInv, Placed, Signing, Failing
  <2>3. idle[JobOf(t)] <= 2 * StartBound + HoldBound
    BY <1>g, <1>t, <2>1, <2>2 DEF Age
  <2>4. t[2] = Pool => \A s \in Tasks : pc[s] = "sem" => timer[s] <= StartBound
    BY <1>t, <2>1, <2>2 DEF Inv, PaceInv, Waiting, InPool
  <2> QED
    BY <1>h, <1>t, <2>1, <2>2, <2>3, <2>4
       DEF Age, Active, InPool, Outside, Starting, Failing
<1>4. CASE ReleaseLock(t)
  <2>1. /\ pc[t] = "release" /\ t \in holders
        /\ pc'[t] = "cleanup" /\ timer' = timer /\ holders' = holders \ {t}
    BY <1>4, <1>t DEF ReleaseLock, Goto, Inv, LockInv, Placed, Signing
  <2>2. idle[JobOf(t)] <= 2 * (StartBound + HoldBound)
    BY <1>g, <1>t, <2>1 DEF Age
  <2> QED
    BY <1>h, <1>t, <2>1, <2>2 DEF Age, Active, InPool, Outside, Starting, Failing
<1>5. CASE Quiet(t)
  <2>1. /\ UNCHANGED <<holders, timer>>
        /\ pc'[t] \in After(t)
        /\ pc[t] \in {"get"} \union Signing \union Failing
    BY <1>5, <1>t, QuietMoves DEF Inv, LockInv, Goto
  <2>2. CASE t \in holders
    <3>1. pc'[t] \notin {"idle", "sem", "cleanup"} /\ pc[t] \notin {"idle", "sem", "cleanup"}
      BY <1>g, <2>1, <2>2 DEF After, Signing, Failing
    <3>2. Age(t)' = Age(t) /\ Age(t) \in Nat
      BY <1>t, <2>1, <2>2, <3>1 DEF Age
    <3>3. t[2] = Pool =>
            \A s \in Tasks : pc[s] = "sem" => timer[s] <= timer[t] + StartBound
      BY <2>2, <3>1 DEF Inv, PaceInv, Waiting, InPool
    <3> QED
      BY <1>g, <1>h, <2>1, <2>2, <3>1, <3>2, <3>3 DEF InPool
  <2>3. CASE t \notin holders
    <3>1. /\ pc[t] \in Outside /\ timer[t] <= StartBound
          /\ pc'[t] \in Outside \union {"cleanup"}
          /\ pc'[t] \notin {"idle", "sem"} /\ pc[t] \notin {"idle", "sem", "cleanup"}
      BY <1>g, <2>1, <2>3
         DEF After, Outside, Starting, Failing, Signing, Inv, LockInv, Placed
    <3>2. Age(t)' \in Nat /\ Age(t) <= Age(t)' /\ Age(t) \in Nat
      BY <1>t, <2>1, <2>3, <3>1 DEF Age
    <3>3. t[2] = Pool =>
            \A s \in Tasks : pc[s] = "sem" => timer[s] <= timer[t]
      BY <1>t, <2>3, <3>1 DEF Inv, PaceInv, Waiting, InPool
    <3> QED
      BY <1>g, <1>h, <1>t, <2>1, <2>3, <3>1, <3>2, <3>3 DEF InPool
  <2> QED BY <2>2, <2>3
<1> QED
  BY <1>1, <1>2, <1>3, <1>4, <1>5 DEF Process, Quiet

\* A first delivery: the job is fresh, and no other message waits.
LEMMA PaceRead ==
  ASSUME Inv, NEW j \in Jobs, ReadMessage(j)
  PROVE  PaceInv'
<1> DEFINE n == <<j, Pool>>
<1>t. /\ pc \in [Tasks -> Commands] /\ timer \in [Tasks -> Nat] /\ holders \subseteq Tasks
      /\ StartBound \in Nat /\ HoldBound \in Nat
      /\ idle \in [Jobs -> 0..VisibilityTimeout]
      /\ n \in Tasks /\ JobOf(n) = j /\ \A u \in Tasks : JobOf(u) \in Jobs
  BY WorkerAssumption, TaskFacts
     DEF WorkerAssumption, Inv, TypeInv, TypeOK, WorkerTypeOK, QueueTypeOK
<1>1. \A u \in Tasks : Active(u) => JobOf(u) # j
  BY TaskFacts DEF ReadMessage, ReadNew, Inv, Fresh, WasDelivered, Positions, TypeInv,
     TypeOK, QueueTypeOK
<1>2. /\ UNCHANGED <<timer, holders>> /\ \A u \in Tasks : pc[u] # "sem"
      /\ idle'[j] = 0 /\ \A k \in Jobs : k # j => idle'[k] = idle[k]
      /\ pc'[n] \in {"sem", pc[n]} /\ \A u \in Tasks : u # n => pc'[u] = pc[u]
  BY <1>t DEF ReadMessage, ReadNew, Goto
<1>3. pc[n] = "idle" /\ timer[n] = 0 /\ n \notin holders
  BY <1>1, <1>t DEF Active, Inv, PaceInv, Timely, LockInv, Placed, Signing, Failing
<1>4. Timely'
  BY <1>2, <1>3, <1>t DEF Inv, PaceInv, Timely, Outside, Starting, Failing
<1>5. Waiting'
  <2> SUFFICES ASSUME NEW s \in Tasks, pc'[s] = "sem"
               PROVE  /\ \A u \in Tasks : pc'[u] = "sem" => u = s
                      /\ timer'[s] <= StartBound + HoldBound
                      /\ \A r \in Tasks : InPool(r)' /\ pc'[r] # "cleanup" =>
                            timer'[s] <= timer'[r] + (IF r \in holders' THEN StartBound ELSE 0)
    BY DEF Waiting
  <2>1. s = n /\ timer'[s] = 0
    BY <1>2, <1>3
  <2> QED BY <1>2, <1>t, <2>1
<1>6. Young'
  <2> SUFFICES ASSUME NEW u \in Tasks, Active(u)'
               PROVE  idle'[JobOf(u)] <= Age(u)'
    BY DEF Young
  <2>1. CASE u = n
    BY <1>2, <1>3, <1>t, <2>1 DEF Age, Active
  <2>2. CASE u # n
    <3>1. Active(u) /\ Age(u)' = Age(u) /\ JobOf(u) # j
      BY <1>1, <1>2, <2>2 DEF Age, Active
    <3> QED BY <1>2, <1>t, <3>1 DEF Inv, PaceInv, Young
  <2> QED BY <2>1, <2>2
<1>7. SoleProcessor'
  BY <1>1, <1>2, <1>t DEF Inv, PaceInv, SoleProcessor, Active
<1> QED BY <1>4, <1>5, <1>6, <1>7 DEF PaceInv

\* A recovery: what it claims is stale, so nobody works on it.
LEMMA PaceRecover ==
  ASSUME Paced, Inv, RecoverStale
  PROVE  PaceInv'
<1>t. /\ pc \in [Tasks -> Commands] /\ timer \in [Tasks -> Nat] /\ holders \subseteq Tasks
      /\ StartBound \in Nat /\ HoldBound \in Nat
      /\ idle \in [Jobs -> 0..VisibilityTimeout]
      /\ \A u \in Tasks : JobOf(u) \in Jobs
  BY WorkerAssumption, TaskFacts
     DEF WorkerAssumption, Inv, TypeInv, TypeOK, WorkerTypeOK, QueueTypeOK
<1> PICK claimed \in SUBSET Stale, slot \in [Jobs -> Recovered] :
      /\ ClaimStale(claimed)
      /\ UNCHANGED <<timer, holders>>
      /\ \/ pc' = [u \in Tasks |->
                     IF JobOf(u) \in claimed /\ u[2] = slot[JobOf(u)]
                     THEN "get" ELSE pc[u]]
         \/ UNCHANGED pc
  BY DEF RecoverStale
<1> DEFINE new(u) == JobOf(u) \in claimed /\ u[2] = slot[JobOf(u)]
<1>1. \A u \in Tasks : Active(u) => JobOf(u) \notin claimed
  BY NotStale
<1>2. \A u \in Tasks :
         /\ JobOf(u) \in claimed => pc[u] = "idle" /\ timer[u] = 0 /\ u \notin holders
         /\ pc'[u] = pc[u] \/ (new(u) /\ pc'[u] = "get")
  BY <1>1 DEF Active, Inv, PaceInv, Timely, LockInv, Placed, Signing, Failing
<1>3. \A j \in Jobs : idle'[j] = IF j \in claimed THEN 0 ELSE idle[j]
  BY DEF ClaimStale
<1>4. Timely'
  BY <1>2, <1>t DEF Inv, PaceInv, Timely, Outside, Starting, Failing
<1>5. Waiting'
  <2>1. \A u \in Tasks : /\ pc'[u] = "sem" => pc[u] = "sem"
                         /\ InPool(u)' => InPool(u) /\ pc'[u] = pc[u]
    BY <1>2, <1>t, WorkerAssumption DEF WorkerAssumption, InPool
  <2> QED BY <2>1 DEF Inv, PaceInv, Waiting
<1>6. Young'
  <2> SUFFICES ASSUME NEW u \in Tasks, Active(u)'
               PROVE  idle'[JobOf(u)] <= Age(u)'
    BY DEF Young
  <2>1. CASE new(u)
    BY <1>2, <1>3, <1>t, <2>1 DEF Age
  <2>2. CASE ~new(u)
    <3>1. Active(u) /\ Age(u)' = Age(u) /\ JobOf(u) \notin claimed
      BY <1>1, <1>2, <2>2 DEF Age, Active
    <3> QED BY <1>3, <1>t, <3>1 DEF Inv, PaceInv, Young
  <2> QED BY <2>1, <2>2
<1>7. SoleProcessor'
  <2> SUFFICES ASSUME NEW u \in Tasks, NEW v \in Tasks, Active(u)', Active(v)',
                      JobOf(u) = JobOf(v)
               PROVE  u = v
    BY DEF SoleProcessor
  <2>1. CASE JobOf(u) \in claimed
    <3>1. u[2] = v[2]
      BY <1>2, <2>1 DEF Active
    <3> QED BY <3>1 DEF Tasks, JobOf
  <2>2. CASE JobOf(u) \notin claimed
    BY <1>2, <2>2 DEF Active, Inv, PaceInv, SoleProcessor
  <2> QED BY <2>1, <2>2
<1> QED BY <1>4, <1>5, <1>6, <1>7 DEF PaceInv

\* A tick: whoever waits for the semaphore waits for a goroutine in the pool
\* that is itself within its time.
LEMMA PaceTick ==
  ASSUME Inv, Tick
  PROVE  PaceInv'
<1>t. /\ pc \in [Tasks -> Commands] /\ timer \in [Tasks -> Nat] /\ holders \subseteq Tasks
      /\ StartBound \in Nat /\ HoldBound \in Nat /\ VisibilityTimeout \in Nat
      /\ idle \in [Jobs -> 0..VisibilityTimeout]
      /\ \A u \in Tasks : JobOf(u) \in Jobs
  BY WorkerAssumption, QueueAssumption, TaskFacts
     DEF WorkerAssumption, QueueAssumption, Inv, TypeInv, TypeOK, WorkerTypeOK, QueueTypeOK
<1>1. /\ \A u \in Tasks : MayWait(u) /\ timer'[u] = IF Active(u) THEN timer[u] + 1 ELSE 0
      /\ UNCHANGED <<pc, holders>>
  BY DEF Tick
<1>2. \A j \in Jobs : idle'[j] <= idle[j] + 1
  BY <1>t DEF Tick, QueueTick
\* Who waits, and for how long so far.
<1>3. ASSUME NEW u \in Tasks, Active(u), pc[u] # "sem"
      PROVE  /\ pc[u] # "cleanup" /\ timer[u] \in Nat
             /\ u \in holders => timer[u] < HoldBound
             /\ u \notin holders => timer[u] < StartBound
  BY <1>1, <1>3, <1>t
     DEF MayWait, Active, Inv, LockInv, Placed, Signing, Failing, Starting
<1>4. Timely'
  <2>1. \A u \in Tasks : pc'[u] = "idle" => timer'[u] = 0
    BY <1>1 DEF Active
  <2>2. ASSUME NEW u \in Tasks, pc'[u] \in Outside, u \notin holders'
        PROVE  timer'[u] <= StartBound
    <3>1. Active(u) /\ pc[u] # "sem"
      BY <1>1, <2>2 DEF Active, Outside, Starting, Failing
    <3> QED BY <1>1, <1>3, <1>t, <2>2, <3>1
  <2> QED BY <2>1, <2>2 DEF Timely
<1>5. Waiting'
  <2> SUFFICES ASSUME NEW s \in Tasks, pc'[s] = "sem"
               PROVE  /\ \A u \in Tasks : pc'[u] = "sem" => u = s
                      /\ timer'[s] <= StartBound + HoldBound
                      /\ \A r \in Tasks : InPool(r)' /\ pc'[r] # "cleanup" =>
                            timer'[s] <= timer'[r] + (IF r \in holders' THEN StartBound ELSE 0)
    BY DEF Waiting
  <2>1. /\ pc[s] = "sem" /\ timer'[s] = timer[s] + 1 /\ timer[s] \in Nat
        /\ PoolSize >= WorkerConcurrency
    <3>1. pc[s] = "sem" /\ Active(s) /\ s \notin holders
      BY <1>1 DEF Active, Inv, LockInv, Placed, Signing, Failing
    <3> QED BY <1>1, <1>t, <3>1 DEF MayWait, Starting, Failing
  <2>2. \A r \in Tasks : InPool(r) /\ pc[r] # "cleanup" =>
           timer[s] <= timer[r] + (IF r \in holders THEN StartBound ELSE 0)
    BY <2>1 DEF Inv, PaceInv, Waiting
  <2>3. PICK r \in Tasks : InPool(r)
    <3>1. {t \in Tasks : InPool(t)} # {}
      <4> SUFFICES ASSUME {t \in Tasks : InPool(t)} = {} PROVE FALSE
        OBVIOUS
      <4>1. PoolSize = 0
        BY FS_EmptySet DEF PoolSize
      <4> QED BY <2>1, <4>1, WorkerAssumption DEF WorkerAssumption
    <3> QED BY <3>1
  <2>4. timer[s] < StartBound + HoldBound
    <3>1. Active(r) /\ pc[r] # "sem"
      BY <2>3 DEF InPool, Active
    <3>2. pc[r] # "cleanup" /\ timer[r] \in Nat
      BY <1>3, <3>1
    <3>3. timer[s] <= timer[r] + (IF r \in holders THEN StartBound ELSE 0)
      BY <2>2, <2>3, <3>2
    <3>4. CASE r \in holders
      BY <1>3, <1>t, <2>1, <3>1, <3>3, <3>4
    <3>5. CASE r \notin holders
      BY <1>3, <1>t, <2>1, <3>1, <3>3, <3>5
    <3> QED BY <3>4, <3>5
  <2>5. \A u \in Tasks : pc'[u] = "sem" => u = s
    BY <1>1, <2>1 DEF Inv, PaceInv, Waiting
  <2>6. ASSUME NEW q \in Tasks, InPool(q)', pc'[q] # "cleanup"
        PROVE  timer'[s] <= timer'[q] + (IF q \in holders' THEN StartBound ELSE 0)
    <3>1. InPool(q) /\ Active(q) /\ pc[q] # "cleanup"
      BY <1>1, <2>6 DEF InPool, Active
    <3>2. timer[s] <= timer[q] + (IF q \in holders THEN StartBound ELSE 0)
      BY <2>2, <3>1
    <3>3. timer'[q] = timer[q] + 1 /\ timer[q] \in Nat
      BY <1>1, <1>t, <3>1
    <3> QED BY <1>1, <1>t, <2>1, <3>2, <3>3
  <2> QED BY <1>t, <2>1, <2>4, <2>5, <2>6
<1>6. Young'
  <2> SUFFICES ASSUME NEW u \in Tasks, Active(u)'
               PROVE  idle'[JobOf(u)] <= Age(u)'
    BY DEF Young
  <2>1. Active(u) /\ timer'[u] = timer[u] + 1 /\ timer[u] \in Nat
    BY <1>1, <1>t DEF Active
  <2>2. pc[u] # "cleanup"
    BY <1>3, <2>1
  <2>3. Age(u)' = Age(u) + 1
    BY <1>1, <1>t, <2>1, <2>2 DEF Age
  <2>4. Age(u) \in Nat /\ idle[JobOf(u)] <= Age(u)
    BY <1>t, <2>1 DEF Age, Inv, PaceInv, Young
  <2>5. idle'[JobOf(u)] <= idle[JobOf(u)] + 1 /\ idle[JobOf(u)] \in Nat
    BY <1>2, <1>t
  <2>6. idle'[JobOf(u)] \in Nat
    BY <1>t DEF Tick, QueueTick
  <2> QED BY <2>3, <2>4, <2>5, <2>6
<1>7. SoleProcessor'
  BY <1>1 DEF Inv, PaceInv, SoleProcessor, Active
<1> QED BY <1>4, <1>5, <1>6, <1>7 DEF PaceInv

LEMMA PaceStep ==
  ASSUME Paced, Inv, [Next]_vars
  PROVE  PaceInv'
<1>i. PaceInv
  BY DEF Inv
<1>1. ASSUME NEW j \in Jobs, Submit(j) PROVE PaceInv'
  BY <1>1, <1>i, PaceFrame DEF Submit, EnqueueJob, Enqueue, queueVars, taskVars
<1>2. ASSUME NEW j \in Jobs, Delete(j) PROVE PaceInv'
  BY <1>2, <1>i, PaceFrame DEF Delete, queueVars, taskVars
<1>3. ASSUME NEW j \in Jobs, GiveToken(j) PROVE PaceInv'
  BY <1>3, <1>i, PaceFrame DEF GiveToken, queueVars, taskVars
<1>4. ASSUME NEW j \in Jobs, TokenExpires(j) PROVE PaceInv'
  BY <1>4, <1>i, PaceFrame DEF TokenExpires, queueVars, taskVars
<1>5. CASE Stop
  <2>1. /\ \A t \in Tasks : pc'[t] = "idle" /\ timer'[t] = 0
        /\ UNCHANGED idle
    BY <1>5 DEF Stop, queueVars
  <2> QED
    BY <2>1 DEF PaceInv, Timely, Waiting, Young, SoleProcessor, Active, Outside,
       Starting, Failing
<1>6. CASE UNCHANGED vars
  BY <1>6, <1>i, PaceFrame DEF vars, queueVars, taskVars
<1> QED
  BY <1>1, <1>2, <1>3, <1>4, <1>5, <1>6, PaceRead, PaceRecover, PaceProcess,
     PaceTick DEF Next

\* As long as a message is redelivered only after two bounded runs (its own and
\* that of the message it waited behind), XAUTOCLAIM never takes a message from
\* a goroutine that is still on it, and a job has one processor at a time.
THEOREM Pacing == ASSUME Paced PROVE Spec => []SoleProcessor
<1>1. Init => Inv
  BY TypeInit, FreshInit, LockInit, PaceInit DEF Inv
<1>2. Inv /\ [Next]_vars => Inv'
  BY TypeStep, FreshStep, LockStep, PaceStep DEF Inv
<1>3. Inv => SoleProcessor
  BY DEF Inv, PaceInv
<1> QED
  BY <1>1, <1>2, <1>3, PTL DEF Spec

-----------------------------------------------------------------------------
(* A job has one outcome                                                   *)

\* The commands of a task that may still save its job.
Working == {"lock", "signing", "token", "delToken", "sign", "publishing", "meta",
            "done", "retry", "fail"}

\* Neither Redis nor the task's copy has an outcome for its job.
Undecided(t) == ~Ended(JobOf(t)) /\ copy[t].status \notin Terminal

FinalInv ==
    /\ \A t \in Tasks : pc[t] \in Working => Undecided(t)
    /\ \A j \in Jobs : submit[j] = "new" => jobs[j] = NoJob

\* What the task of a message does to the records: it saves its own job only,
\* while Working, and is past Working once it has saved an outcome.
LEMMA ProcessRecord ==
  ASSUME TypeInv, NEW t \in Tasks, Process(t), pc[t] \in Working => Undecided(t)
  PROVE  /\ \A j \in Jobs : j # JobOf(t) => jobs'[j] = jobs[j]
         /\ \A u \in Tasks : u # t => copy'[u] = copy[u]
         /\ pc[t] \notin Working => UNCHANGED jobs
         /\ pc'[t] \in Working => Undecided(t)'
<1>t. /\ pc \in [Tasks -> Commands] /\ copy \in [Tasks -> Records]
      /\ jobs \in [Jobs -> Records] /\ JobOf(t) \in Jobs
  BY TaskFacts DEF TypeInv, TypeOK, JobTypeOK, WorkerTypeOK
\* Saving a record that is no outcome, or one after which the task is done.
<1>s. ASSUME NEW r \in Records, SaveCopy(t, r), pc[t] \in Working,
             pc'[t] \in Working => r.status \notin Terminal
      PROVE  /\ \A j \in Jobs : j # JobOf(t) => jobs'[j] = jobs[j]
             /\ \A u \in Tasks : u # t => copy'[u] = copy[u]
             /\ pc'[t] \in Working => Undecided(t)'
  BY <1>t, <1>s DEF SaveCopy, SaveJob, Undecided, Ended
<1>r. ASSUME NEW s \in Statuses
      PROVE  WithStatus(t, s) \in Records /\ WithStatus(t, s).status = s
  BY <1>t, RecordFacts DEF WithStatus
<1>1. CASE StartPooled(t) \/ Drop(t) \/ AcquireLock(t) \/ ReleaseLock(t) \/ RemoveDylibs(t)
  BY <1>1, <1>t
     DEF StartPooled, Drop, AcquireLock, AcquireOr, ReleaseLock, RemoveDylibs,
         Return, Goto, Working, Undecided, Ended, jobVars
<1>2. CASE GetJob(t)
  <2>1. UNCHANGED jobs /\ \A u \in Tasks : u # t => copy'[u] = copy[u]
    BY <1>2, <1>t DEF GetJob, ReadAndChoose, jobVars
  <2>2. pc'[t] \in Working => ~Ended(JobOf(t)) /\ copy'[t] = jobs[JobOf(t)]
    BY <1>2, <1>t DEF GetJob, ReadAndChoose, Goto, Working
  <2> QED
    BY <2>1, <2>2 DEF Undecided, Ended
<1>3. CASE GetToken(t) \/ DelToken(t) \/ Sign(t) \/ WriteMeta(t)
  <2>1. UNCHANGED <<jobs, copy>> /\ pc[t] \in Working
    BY <1>3 DEF GetToken, DelToken, Sign, SignLeaving, WriteMeta, Working, jobVars
  <2> QED
    BY <2>1 DEF Undecided, Ended
<1>4. CASE Publish(t) \/ AckMessage(t)
  BY <1>4, <1>t DEF Publish, AckMessage, Deferred, Goto, Working, jobVars
<1>5. CASE SaveSigning(t)
  BY <1>5, <1>r, <1>s DEF SaveSigning, Statuses, Terminal, Working
<1>6. CASE SavePublishing(t)
  BY <1>6, <1>r, <1>s DEF SavePublishing, Statuses, Terminal, Working
<1>7. CASE SaveDone(t)
  BY <1>7, <1>r, <1>s, <1>t DEF SaveDone, Goto, Statuses, Terminal, Working
<1>8. CASE SaveFailed(t)
  BY <1>8, <1>r, <1>s, <1>t DEF SaveFailed, Goto, Statuses, Terminal, Working
<1>9. CASE IncrementRetry(t)
  <2>1. pc[t] = "retry" /\ copy[t].status \notin Terminal /\ copy[t].retry < MaxRetries
    BY <1>9 DEF IncrementRetry, Working, Undecided, TypeInv, RetryLeft, RetryPCs
  <2>2. /\ [copy[t] EXCEPT !.retry = @ + 1] \in Records
        /\ [copy[t] EXCEPT !.retry = @ + 1].status = copy[t].status
    BY <1>t, <2>1, RecordFacts DEF Records
  <2> QED
    BY <1>9, <1>s, <2>1, <2>2 DEF IncrementRetry, Working
<1> QED
  BY <1>1, <1>2, <1>3, <1>4, <1>5, <1>6, <1>7, <1>8, <1>9 DEF Process

\* The action property's step and the invariant it needs, together.
LEMMA FinalStep ==
  ASSUME Inv, FinalInv, [Next]_vars
  PROVE  FinalInv' /\ \A j \in Jobs : Ended(j) => jobs'[j] \in {jobs[j], NoJob}
<1> DEFINE Kept == \A j \in Jobs : Ended(j) => jobs'[j] \in {jobs[j], NoJob}
<1> SUFFICES FinalInv' /\ Kept
  OBVIOUS
<1>t. /\ pc \in [Tasks -> Commands] /\ jobs \in [Jobs -> Records]
      /\ \A t \in Tasks : JobOf(t) \in Jobs
  BY TaskFacts DEF Inv, TypeInv, TypeOK, JobTypeOK, WorkerTypeOK
\* Steps that move no task and decide no job.
<1>a. ASSUME UNCHANGED <<pc, copy>>,
             \A j \in Jobs : /\ jobs'[j].status \in Terminal => jobs'[j] = jobs[j]
                             /\ Ended(j) => jobs'[j] \in {jobs[j], NoJob}
                             /\ submit'[j] = "new" => submit[j] = "new" /\ jobs'[j] = jobs[j]
      PROVE  FinalInv' /\ Kept
  BY <1>a, <1>t DEF FinalInv, Undecided, Ended
<1>1. ASSUME NEW k \in Jobs, Submit(k) PROVE FinalInv' /\ Kept
  <2>1. CASE CreateJob(k)
    <3>1. jobs[k] = NoJob
      BY <2>1 DEF CreateJob, FinalInv
    <3>2. /\ \A j \in Jobs : j # k => jobs'[j] = jobs[j] /\ submit'[j] = submit[j]
          /\ jobs'[k] \in {NoJob, [status |-> "QUEUED", retry |-> 0]}
          /\ submit'[k] # "new"
      BY <1>t, <2>1, <3>1 DEF CreateJob, Inv, TypeInv, TypeOK, JobTypeOK
    <3>3. UNCHANGED <<pc, copy>> /\ ~Ended(k)
      BY <1>1, <3>1 DEF Submit, taskVars, Ended, NoJob, Terminal
    <3>4. jobs'[k].status \notin Terminal
      BY <3>2 DEF NoJob, Terminal
    <3> QED BY <1>a, <3>2, <3>3, <3>4
  <2>2. CASE ListJob(k) \/ EnqueueJob(k)
    BY <1>1, <1>a, <2>2 DEF Submit, ListJob, EnqueueJob, taskVars, Inv, TypeInv,
       TypeOK, JobTypeOK
  <2> QED BY <1>1, <2>1, <2>2 DEF Submit
<1>2. ASSUME NEW k \in Jobs, Delete(k) PROVE FinalInv' /\ Kept
  <2>1. UNCHANGED <<pc, copy, submit>>
    BY <1>2 DEF Delete, StartDelete, DeleteRecord, UnlistJob, RemoveFiles, taskVars
  <2>2. \A j \in Jobs : jobs'[j] \in {jobs[j], NoJob}
    BY <1>2, <1>t DEF Delete, StartDelete, DeleteRecord, UnlistJob, RemoveFiles, SaveJob
  <2>3. \A j \in Jobs : submit[j] = "new" => jobs'[j] = jobs[j]
    BY <2>2 DEF FinalInv
  <2>4. NoJob.status \notin Terminal
    BY DEF NoJob, Terminal
  <2> QED BY <1>a, <2>1, <2>2, <2>3, <2>4
<1>3. ASSUME NEW k \in Jobs, GiveToken(k) PROVE FinalInv' /\ Kept
  BY <1>3, <1>a DEF GiveToken, taskVars, Inv, TypeInv, TypeOK, JobTypeOK
<1>4. ASSUME NEW k \in Jobs, TokenExpires(k) PROVE FinalInv' /\ Kept
  BY <1>4, <1>a DEF TokenExpires, taskVars, jobVars
\* New tasks have read nothing yet.
<1>b. ASSUME UNCHANGED <<jobs, submit, copy>>,
             \A t \in Tasks : pc'[t] \in Working => pc'[t] = pc[t]
      PROVE  FinalInv' /\ Kept
  BY <1>b DEF FinalInv, Undecided, Ended
<1>5. ASSUME NEW k \in Jobs, ReadMessage(k) PROVE FinalInv' /\ Kept
  BY <1>5, <1>b, <1>t, TaskFacts DEF ReadMessage, Goto, Working, jobVars
<1>6. CASE RecoverStale
  BY <1>6, <1>b, <1>t DEF RecoverStale, Working, jobVars
<1>7. ASSUME NEW t \in Tasks, Process(t) PROVE FinalInv' /\ Kept
  <2>1. /\ Active(t) /\ UNCHANGED submit
        /\ \A u \in Tasks : u # t => pc'[u] = pc[u]
    BY <1>7, ProcessFrame DEF Inv
  <2>2. /\ \A j \in Jobs : j # JobOf(t) => jobs'[j] = jobs[j]
        /\ \A u \in Tasks : u # t => copy'[u] = copy[u]
        /\ pc[t] \notin Working => UNCHANGED jobs
        /\ pc'[t] \in Working => Undecided(t)'
    BY <1>7, ProcessRecord DEF Inv, FinalInv
  \* No other task works on this job.
  <2>3. \A u \in Tasks : u # t /\ Active(u) => JobOf(u) # JobOf(t)
    BY <2>1 DEF Inv, PaceInv, SoleProcessor
  <2>4. submit[JobOf(t)] # "new"
    BY <2>1, <1>t DEF Inv, Fresh, WasDelivered, Positions, TypeInv, TypeOK, QueueTypeOK
  <2>5. ASSUME NEW u \in Tasks, pc'[u] \in Working
        PROVE  Undecided(u)'
    <3>1. CASE u = t
      BY <2>2, <2>5, <3>1
    <3>2. CASE u # t
      <4>1. pc[u] \in Working /\ Active(u)
        BY <2>1, <2>5, <3>2 DEF Active, Working
      <4> QED
        BY <1>t, <2>2, <2>3, <3>2, <4>1 DEF FinalInv, Undecided, Ended
    <3> QED BY <3>1, <3>2
  <2>6. \A j \in Jobs : submit'[j] = "new" => jobs'[j] = NoJob
    BY <2>1, <2>2, <2>4 DEF FinalInv
  <2>7. Kept
    BY <2>2 DEF FinalInv, Undecided
  <2> QED BY <2>5, <2>6, <2>7 DEF FinalInv
<1>8. CASE Tick
  BY <1>8, <1>b DEF Tick
<1>9. CASE Stop
  <2>1. /\ UNCHANGED jobs /\ \A t \in Tasks : pc'[t] = "idle"
        /\ \A j \in Jobs : submit'[j] = "new" => submit[j] = "new"
    BY <1>9 DEF Stop, CutRequests
  <2> QED BY <2>1 DEF FinalInv, Working
<1>10. CASE UNCHANGED vars
  BY <1>10, <1>b DEF vars, jobVars, taskVars
<1> QED
  BY <1>1, <1>2, <1>3, <1>4, <1>5, <1>6, <1>7, <1>8, <1>9, <1>10 DEF Next

\* SECURITY.md:46, for the deployments that are paced: a job that has an outcome
\* keeps it, whatever is redelivered, restarted, lost or deleted.
THEOREM OneOutcome == ASSUME Paced PROVE Spec => TerminalIsFinal
<1>1. Init => Inv /\ FinalInv
  <2>1. Init => Inv
    BY TypeInit, FreshInit, LockInit, PaceInit DEF Inv
  <2>2. Init => FinalInv
    BY DEF Init, JobInit, FinalInv, Working
  <2> QED BY <2>1, <2>2
<1>2. Inv /\ FinalInv /\ [Next]_vars => (Inv /\ FinalInv)'
  BY TypeStep, FreshStep, LockStep, PaceStep, FinalStep DEF Inv
<1>3. Inv /\ FinalInv /\ [Next]_vars
        => [\A j \in Jobs : Ended(j) => jobs'[j] \in {jobs[j], NoJob}]_vars
  BY FinalStep
<1> QED
  BY <1>1, <1>2, <1>3, PTL DEF Spec, TerminalIsFinal
=============================================================================
