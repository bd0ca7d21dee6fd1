----------------------------- MODULE Retention ------------------------------
(***************************************************************************)
(* internal/worker/cleanup.go and storage.CleanOldFiles beside the jobs    *)
(* whose files they remove: the uploaded IPA in users/<id>/incoming and    *)
(* the directory artifacts/<job>.  Only modification times decide: the     *)
(* cleaner knows nothing of jobs.  An entry is looked at (stat) and then   *)
(* removed, while the worker writes to it.                                 *)
(*                                                                         *)
(* A directory's modification time changes when an entry is added to it,   *)
(* not when signed.ipa, meta.json or events.jsonl is written again.        *)
(*                                                                         *)
(* Time is counted in ticks and passes while the process is down; a cycle  *)
(* of the cleaner takes less than a tick.  Nothing bounds how long an      *)
(* upload waits for its confirmation (sessions do not expire, and Confirm  *)
(* does not look at the file) or a job for its outcome.                    *)
(***************************************************************************)
EXTENDS Naturals, FiniteSets

CONSTANTS
    Jobs,
    Retention,  \* RETENTION_DAYS_DEFAULT
    Period,     \* the interval of RunCleanupLoop
    MaxStops    \* bound on the ends of the process

ASSUME RetentionAssumption ==
    /\ IsFiniteSet(Jobs)
    /\ Retention \in Nat
    /\ Period \in Nat \ {0}
    /\ MaxStops \in Nat

VARIABLES
    phase,       \* of a job: "new", "uploaded", "queued", "checked" (zsign has
                 \* ended and FileExists was true), "done", "failed"
    sinceUpload, \* ticks since the upload of a job's IPA
    sinceSubmit, \* ticks since a job was submitted
    exists,      \* entries on disk
    age,         \* ticks since the modification time of an entry
    signed,      \* jobs with a signed.ipa in their directory
    up,          \* the process runs
    timer,       \* ticks to the next cycle
    todo,        \* entries the cycle has yet to look at
    victim,      \* the entry found old and about to be removed, a singleton or {}
    stops

jobVars == <<phase, sinceUpload, sinceSubmit, signed>>
diskVars == <<exists, age>>
cleanerVars == <<timer, todo, victim>>
vars == <<jobVars, diskVars, cleanerVars, up, stops>>

Input(j) == <<"incoming", j>>
Dir(j) == <<"artifacts", j>>
Entries == {"incoming", "artifacts"} \X Jobs

Pending == {"queued", "checked"}
Ended == {"done", "failed"}

\* Ages beyond OldAge and waits beyond LongWait are not told apart.
OldAge == Retention + Period + 1
LongWait == Retention + 1
Later(n, cap) == IF n < cap THEN n + 1 ELSE n

RetentionTypeOK ==
    /\ phase \in [Jobs -> {"new", "uploaded"} \union Pending \union Ended]
    /\ sinceUpload \in [Jobs -> 0..LongWait]
    /\ sinceSubmit \in [Jobs -> 0..LongWait]
    /\ exists \in SUBSET Entries
    /\ age \in [Entries -> 0..OldAge]
    /\ signed \in SUBSET Jobs
    /\ up \in BOOLEAN
    /\ timer \in 0..Period
    /\ todo \in SUBSET Entries
    /\ victim \in SUBSET Entries
    /\ stops \in 0..MaxStops

RetentionInit ==
    /\ phase = [j \in Jobs |-> "new"]
    /\ sinceUpload = [j \in Jobs |-> 0]
    /\ sinceSubmit = [j \in Jobs |-> 0]
    /\ exists = {}
    /\ age = [e \in Entries |-> 0]
    /\ signed = {}
    /\ up = TRUE
    /\ timer = 0
    /\ todo = {} /\ victim = {}
    /\ stops = 0

-----------------------------------------------------------------------------
\* The files of a job.  CopyLocalFile writes the IPA to a path of its own.
Upload(j) ==
    /\ up
    /\ phase[j] = "new"
    /\ phase' = [phase EXCEPT ![j] = "uploaded"]
    /\ exists' = exists \union {Input(j)}
    /\ age' = [age EXCEPT ![Input(j)] = 0]
    /\ UNCHANGED <<sinceUpload, sinceSubmit, signed, cleanerVars, up, stops>>

\* The user confirms, however late: CreateAndEnqueue makes the directory and
\* does not look for the IPA.
Submit(j) ==
    /\ up
    /\ phase[j] = "uploaded"
    /\ phase' = [phase EXCEPT ![j] = "queued"]
    /\ exists' = exists \union {Dir(j)}
    /\ age' = [age EXCEPT ![Dir(j)] = 0]
    /\ UNCHANGED <<sinceUpload, sinceSubmit, signed, cleanerVars, up, stops>>

\* Writing a file of the directory: the file may or may not be new.
Touch(j) == age' = age \/ age' = [age EXCEPT ![Dir(j)] = 0]

\* zsign, once per attempt, needs the IPA and the directory.
Sign(j) ==
    /\ up
    /\ phase[j] = "queued"
    /\ phase' = [phase EXCEPT ![j] = "checked"]
    /\ Input(j) \in exists
    /\ Dir(j) \in exists
    /\ signed' = signed \union {j}
    /\ Touch(j)
    /\ UNCHANGED <<sinceUpload, sinceSubmit, exists, cleanerVars, up, stops>>

\* WriteJobMeta makes the directory if it is gone, and the job is DONE.
Publish(j) ==
    /\ up
    /\ phase[j] = "checked"
    /\ phase' = [phase EXCEPT ![j] = "done"]
    /\ exists' = exists \union {Dir(j)}
    /\ Touch(j)
    /\ UNCHANGED <<sinceUpload, sinceSubmit, signed, cleanerVars, up, stops>>

Fail(j) ==
    /\ up
    /\ phase[j] = "queued"
    /\ phase' = [phase EXCEPT ![j] = "failed"]
    /\ UNCHANGED <<sinceUpload, sinceSubmit, signed, diskVars, cleanerVars, up, stops>>

-----------------------------------------------------------------------------
\* The cleaner.  A cycle lists the directories, looks at each entry and
\* removes it if it is strictly older than the retention time.

\* Mutant of StartCycle: one tick late.
StartCycleLate ==
    /\ up
    /\ timer = 0
    /\ timer' = Period + 1
    /\ todo' = exists
    /\ UNCHANGED <<jobVars, diskVars, victim, up, stops>>

StartCycle ==
    /\ up
    /\ timer = 0
    /\ timer' = Period
    /\ todo' = exists
    /\ UNCHANGED <<jobVars, diskVars, victim, up, stops>>

\* Mutants of OldEnough: not strictly; a period early.
OldEnoughAlready(e) == age[e] >= Retention
OldEnoughEarly(e) == age[e] + Period > Retention

OldEnough(e) == age[e] > Retention

\* Mutant of Look: the loop does not go on after an entry it keeps.
LookAgain(e) ==
    /\ victim = {}
    /\ e \in todo
    /\ todo' = IF OldEnough(e) THEN todo \ {e} ELSE todo
    /\ victim' = IF e \in exists /\ OldEnough(e) THEN {e} ELSE {}
    /\ UNCHANGED <<jobVars, diskVars, timer, up, stops>>

Look(e) ==
    /\ victim = {}
    /\ e \in todo
    /\ todo' = todo \ {e}
    /\ victim' = IF e \in exists /\ OldEnough(e) THEN {e} ELSE {}
    /\ UNCHANGED <<jobVars, diskVars, timer, up, stops>>

Remove(e) ==
    /\ e \in victim
    /\ exists' = exists \ {e}
    /\ signed' = {j \in signed : Dir(j) # e}
    /\ victim' = {}
    /\ age' = [age EXCEPT ![e] = 0]
    /\ UNCHANGED <<phase, sinceUpload, sinceSubmit, timer, todo, up, stops>>

Cleaning == todo # {} \/ victim # {}

-----------------------------------------------------------------------------
\* The process ends, between any two steps, and starts again: a job that was
\* not published is signed again, and the loop cleans at once.
Stop ==
    /\ up
    /\ stops < MaxStops
    /\ stops' = stops + 1
    /\ up' = FALSE
    /\ todo' = {} /\ victim' = {}
    /\ phase' = [j \in Jobs |-> IF phase[j] = "checked" THEN "queued" ELSE phase[j]]
    /\ UNCHANGED <<sinceUpload, sinceSubmit, signed, diskVars, timer>>

\* Mutant of Boot: the loop waits for its first tick.
BootLazy ==
    /\ ~up
    /\ up' = TRUE
    /\ timer' = Period
    /\ UNCHANGED <<jobVars, diskVars, todo, victim, stops>>

Boot ==
    /\ ~up
    /\ up' = TRUE
    /\ timer' = 0
    /\ UNCHANGED <<jobVars, diskVars, todo, victim, stops>>

Tick ==
    /\ ~Cleaning
    /\ up => timer > 0
    /\ sinceUpload' = [j \in Jobs |->
          IF phase[j] = "new" THEN 0 ELSE Later(sinceUpload[j], LongWait)]
    /\ sinceSubmit' = [j \in Jobs |->
          IF phase[j] \in {"new", "uploaded"} THEN 0 ELSE Later(sinceSubmit[j], LongWait)]
    /\ age' = [e \in Entries |-> IF e \in exists THEN Later(age[e], OldAge) ELSE age[e]]
    /\ timer' = IF up THEN timer - 1 ELSE timer
    /\ UNCHANGED <<phase, signed, exists, up, todo, victim, stops>>

RetentionNext ==
    \/ \E j \in Jobs : Upload(j) \/ Submit(j) \/ Sign(j) \/ Publish(j) \/ Fail(j)
    \/ StartCycle
    \/ \E e \in Entries : Look(e) \/ Remove(e)
    \/ Stop \/ Boot \/ Tick

RetentionSpec == RetentionInit /\ [][RetentionNext]_vars

\* The ticker fires, a cycle goes on, time passes and a service that stopped
\* is started again.
FairRetentionSpec ==
    /\ RetentionSpec
    /\ WF_vars(StartCycle)
    /\ \A e \in Entries : WF_vars(Look(e)) /\ WF_vars(Remove(e))
    /\ WF_vars(Tick) /\ WF_vars(Boot)

-----------------------------------------------------------------------------
\* A job that waits for its outcome has its IPA until Retention after the
\* upload, and its directory until Retention after the submission: the cleaner,
\* which knows no jobs and may find them after a restart, takes neither before.
\* A confirmation later than that makes a job whose IPA may be gone.
InputsKept ==
    \A j \in Jobs : phase[j] \in Pending =>
        /\ sinceUpload[j] <= Retention => Input(j) \in exists
        /\ sinceSubmit[j] <= Retention => Dir(j) \in exists

\* A DONE job can be downloaded until Retention after its submission, however
\* late it was signed: a cycle that is under way when the result is written
\* does not hit it (docs/runbook.md, "kept per RETENTION_DAYS_DEFAULT").  For a
\* job signed later nothing is promised: its directory may already have been
\* found old, and goes with the fresh result.
Downloadable ==
    \A j \in Jobs : phase[j] = "done" /\ sinceSubmit[j] <= Retention => j \in signed

\* Between cycles nothing on disk is older than the retention time and one
\* period, in spite of stops of any length.
NoneTooOld ==
    up /\ ~Cleaning /\ timer > 0 => \A e \in exists : age[e] <= Retention + Period

\* An uploaded IPA is removed in the end, confirmed or not, and so is the
\* directory of a job that has ended.
EventuallyCleaned ==
    \A j \in Jobs :
        /\ Input(j) \in exists ~> Input(j) \notin exists
        /\ phase[j] \in Ended ~> Dir(j) \notin exists
=============================================================================
