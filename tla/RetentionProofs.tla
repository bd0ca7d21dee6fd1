--------------------------- MODULE RetentionProofs ---------------------------
(***************************************************************************)
(* Proofs about Retention for all jobs, retention times and periods.       *)
(*                                                                         *)
(* The argument: an IPA is no older than its upload and a directory no     *)
(* older than the submission, so that neither is found old before          *)
(* Retention has passed since, whatever the job does meanwhile.            *)
(* An entry the running cycle has dealt with was at most Retention old     *)
(* when the cycle began and grows no older than the time since.            *)
(***************************************************************************)
EXTENDS Retention, TLAPS

\* Entries exist only for jobs that got so far; only what exists is removed.
Submitted(j) == phase[j] \in Pending \union Ended
Disk ==
    /\ victim \subseteq exists
    /\ \A j \in Jobs : phase[j] = "new" => Input(j) \notin exists
    /\ \A j \in Jobs : ~Submitted(j) => Dir(j) \notin exists

\* Until what began its life, n ticks ago, is longer ago than Retention an
\* entry is as young as that, and neither condemned nor gone.
Kept(e, n) == n <= Retention => age[e] <= n /\ e \in exists /\ e \notin victim
Spared ==
    \A j \in Jobs :
        /\ phase[j] # "new" => Kept(Input(j), sinceUpload[j])
        /\ Submitted(j) => Kept(Dir(j), sinceSubmit[j])
        /\ phase[j] \in {"checked", "done"} /\ sinceSubmit[j] <= Retention => j \in signed

\* What the running cycle has dealt with; an entry that is gone has no age.
Swept ==
    /\ \A e \in Entries \ exists : age[e] = 0
    /\ \A x, y \in victim : x = y
    /\ Cleaning => up /\ timer = Period
    /\ up /\ timer > 0 =>
         \A e \in exists \ (todo \union victim) :
             age[e] + timer <= Retention + Period

RInv == RetentionTypeOK /\ Swept /\ Disk /\ Spared

-----------------------------------------------------------------------------
\* The two entries of a job are its own.
LEMMA EntriesDiffer ==
    /\ \A j \in Jobs : Input(j) \in Entries /\ Dir(j) \in Entries
    /\ \A j, k \in Jobs : Input(j) # Dir(k)
    /\ \A j, k \in Jobs : Input(j) = Input(k) => j = k
    /\ \A j, k \in Jobs : Dir(j) = Dir(k) => j = k
BY DEF Entries, Input, Dir

\* Ageing stays below its cap, keeps the order and what is beyond a limit there.
LEMMA LaterBounds ==
    ASSUME NEW cap \in Nat, NEW n \in 0..cap
    PROVE  /\ Later(n, cap) \in 0..cap
           /\ n <= Later(n, cap) /\ Later(n, cap) <= n + 1
           /\ n < cap => Later(n, cap) = n + 1
BY DEF Later

\* Times, the retention period and the caps are numbers.
LEMMA CapNat ==
    /\ OldAge \in Nat /\ LongWait \in Nat /\ Retention \in Nat /\ Period \in Nat
    /\ LongWait = Retention + 1 /\ LongWait < OldAge /\ 0 < Period
BY RetentionAssumption DEF OldAge, LongWait

-----------------------------------------------------------------------------
(* Type correctness                                                        *)

LEMMA TypeInit == RetentionInit => RetentionTypeOK
BY CapNat, RetentionAssumption DEF RetentionInit, RetentionTypeOK

LEMMA TypeStep == RetentionTypeOK /\ [RetentionNext]_vars => RetentionTypeOK'
<1> SUFFICES ASSUME RetentionTypeOK, [RetentionNext]_vars
             PROVE  RetentionTypeOK'
    OBVIOUS
<1> USE DEF RetentionTypeOK
<1>1. /\ \A n \in 0..OldAge : Later(n, OldAge) \in 0..OldAge
      /\ \A n \in 0..LongWait : Later(n, LongWait) \in 0..LongWait
    BY LaterBounds, CapNat
<1>2. 0 \in 0..OldAge /\ 0 \in 0..LongWait /\ 0 \in 0..Period /\ Period \in 0..Period
    BY CapNat
<1>3. ASSUME NEW j \in Jobs, Upload(j)
      PROVE  RetentionTypeOK'
    BY <1>2, <1>3, EntriesDiffer
       DEF Upload, Pending, Ended, jobVars, cleanerVars
<1>4. ASSUME NEW j \in Jobs, Submit(j)
      PROVE  RetentionTypeOK'
    BY <1>2, <1>4, EntriesDiffer
       DEF Submit, Pending, Ended, jobVars, cleanerVars
<1>5. ASSUME NEW j \in Jobs, Sign(j)
      PROVE  RetentionTypeOK'
    BY <1>2, <1>5, EntriesDiffer
       DEF Sign, Touch, Pending, Ended, cleanerVars
<1>6. ASSUME NEW j \in Jobs, Publish(j)
      PROVE  RetentionTypeOK'
    BY <1>2, <1>6, EntriesDiffer
       DEF Publish, Touch, Pending, Ended, cleanerVars
<1>7. ASSUME NEW j \in Jobs, Fail(j)
      PROVE  RetentionTypeOK'
    BY <1>2, <1>7 DEF Fail, Pending, Ended, diskVars, cleanerVars
<1>8. CASE StartCycle
    BY <1>2, <1>8 DEF StartCycle, jobVars, diskVars
<1>9. ASSUME NEW e \in Entries, Look(e)
      PROVE  RetentionTypeOK'
    BY <1>9 DEF Look, jobVars, diskVars
<1>10. ASSUME NEW e \in Entries, Remove(e)
       PROVE  RetentionTypeOK'
    BY <1>2, <1>10 DEF Remove
<1>11. CASE Stop
    <2>1. stops' \in 0..MaxStops
        BY <1>11, RetentionAssumption DEF Stop
    <2>2. up' \in BOOLEAN /\ todo' \in SUBSET Entries /\ victim' \in SUBSET Entries
        BY <1>11 DEF Stop
    <2>3. UNCHANGED <<sinceUpload, sinceSubmit, exists, age, signed, timer>>
        BY <1>11 DEF Stop, diskVars
    <2>4. phase' \in [Jobs -> {"new", "uploaded"} \union Pending \union Ended]
        BY <1>11 DEF Stop, Pending
    <2> QED
        BY <2>1, <2>2, <2>3, <2>4
<1>12. CASE Boot
    BY <1>2, <1>12 DEF Boot, jobVars, diskVars
<1>13. CASE Tick
    <2>1. /\ sinceUpload' \in [Jobs -> 0..LongWait]
          /\ sinceSubmit' \in [Jobs -> 0..LongWait]
        BY <1>1, <1>2, <1>13 DEF Tick
    <2>2. age' \in [Entries -> 0..OldAge]
        BY <1>1, <1>13 DEF Tick
    <2>3. timer' \in 0..Period
        BY <1>13, CapNat DEF Tick
    <2> QED
        BY <1>13, <2>1, <2>2, <2>3 DEF Tick
<1>14. CASE UNCHANGED vars
    BY <1>14 DEF vars, jobVars, diskVars, cleanerVars
<1> QED
    BY <1>3, <1>4, <1>5, <1>6, <1>7, <1>8, <1>9, <1>10, <1>11, <1>12, <1>13,
       <1>14 DEF RetentionNext

\* RetentionTypeOK: ages and waits stay below their caps, the timer within its
\* period, whatever uploads, cycles and restarts do.
THEOREM RetentionTypeCorrect == RetentionSpec => []RetentionTypeOK
<1>1. RetentionInit => RetentionTypeOK
    BY TypeInit
<1>2. RetentionTypeOK /\ [RetentionNext]_vars => RetentionTypeOK'
    BY TypeStep
<1> QED
    BY <1>1, <1>2, PTL DEF RetentionSpec

-----------------------------------------------------------------------------
(* What the cleaner does not leave behind                                  *)

SInv == RetentionTypeOK /\ Swept

LEMMA SweptInit == RetentionInit => Swept
BY DEF RetentionInit, Swept, Cleaning

\* A step that adds no entry, makes none older and touches no cleaner's state.
LEMMA SweptByJobs ==
    ASSUME SInv, RetentionTypeOK',
           UNCHANGED <<timer, todo, victim, up>>,
           exists \subseteq exists',
           \A e \in Entries : age'[e] = age[e] \/ age'[e] = 0
    PROVE  Swept'
<1>1. (\A x, y \in victim : x = y)'
      /\ (Cleaning => up /\ timer = Period)'
    BY DEF SInv, Swept, Cleaning
<1>2. ASSUME up', timer' > 0, NEW e \in exists' \ (todo \union victim)'
      PROVE  age'[e] + timer' <= Retention + Period
    <2>1. e \in Entries /\ timer <= Period
        BY <1>2, CapNat DEF SInv, RetentionTypeOK
    <2>2. CASE age'[e] = 0
        BY <2>1, <2>2, CapNat DEF SInv, RetentionTypeOK
    <2>3. CASE e \in exists /\ age'[e] = age[e]
        BY <1>2, <2>3 DEF SInv, Swept
    <2> QED
        BY <2>1, <2>2, <2>3 DEF SInv, Swept
<1>3. (\A e \in Entries \ exists : age[e] = 0)'
    BY DEF SInv, Swept
<1> QED
    BY <1>1, <1>2, <1>3 DEF Swept

LEMMA LookSweeps == ASSUME SInv, NEW e \in Entries, Look(e) PROVE Swept'
<1>1. up /\ up' /\ timer = Period /\ timer' = Period
    BY DEF Look, SInv, Swept, Cleaning
<1>2. ASSUME NEW x \in exists', x \notin todo', x \notin victim'
      PROVE  age'[x] + timer' <= Retention + Period
    <2>1. CASE x = e
        BY <1>1, <1>2, <2>1, CapNat
           DEF Look, OldEnough, SInv, RetentionTypeOK, diskVars
    <2>2. CASE x # e
        BY <1>1, <1>2, <2>2, CapNat
           DEF Look, SInv, Swept, RetentionTypeOK, diskVars
    <2> QED
        BY <2>1, <2>2
<1>3. \A x, y \in victim' : x = y
    BY DEF Look
<1>4. (\A x \in Entries \ exists : age[x] = 0)'
    BY DEF Look, SInv, Swept, RetentionTypeOK, diskVars
<1> QED
    BY <1>1, <1>2, <1>3, <1>4 DEF Swept, Cleaning

LEMMA RemoveSweeps == ASSUME SInv, NEW e \in Entries, Remove(e) PROVE Swept'
<1>1. up /\ up' /\ timer = Period /\ timer' = Period
    BY DEF Remove, SInv, Swept, Cleaning
<1>2. ASSUME NEW x \in exists', x \notin todo', x \notin victim'
      PROVE  age'[x] + timer' <= Retention + Period
    <2>1. x # e /\ x \in exists /\ x \notin todo /\ age'[x] = age[x]
        BY <1>2 DEF Remove, SInv, RetentionTypeOK
    <2>2. CASE x \in victim
        BY <2>1, <2>2 DEF Remove, SInv, Swept
    <2>3. CASE x \notin victim
        BY <1>1, <2>1, <2>3, CapNat DEF SInv, Swept, RetentionTypeOK
    <2> QED
        BY <2>2, <2>3
<1>3. \A x, y \in victim' : x = y
    BY DEF Remove
<1>4. (\A x \in Entries \ exists : age[x] = 0)'
    BY DEF Remove, SInv, Swept, RetentionTypeOK
<1> QED
    BY <1>1, <1>2, <1>3, <1>4 DEF Swept, Cleaning

LEMMA TickSweeps == ASSUME SInv, Tick PROVE Swept'
<1>1. ~Cleaning /\ todo' = {} /\ victim' = {} /\ exists' = exists
    BY DEF Tick, Cleaning
<1>2. ASSUME up', timer' > 0, NEW e \in exists'
      PROVE  age'[e] + timer' <= Retention + Period
    <2>1. up /\ timer > 0 /\ timer' = timer - 1 /\ e \in Entries
        BY <1>1, <1>2 DEF Tick, SInv, RetentionTypeOK
    <2>2. age[e] + timer <= Retention + Period
        BY <1>1, <1>2, <2>1 DEF SInv, Swept, Cleaning
    <2>3. age'[e] <= age[e] + 1 /\ age[e] \in Nat /\ age'[e] \in Nat
        BY <1>1, <1>2, <2>1, CapNat DEF Tick, SInv, RetentionTypeOK, Later
    <2> QED
        BY <2>1, <2>2, <2>3, CapNat DEF SInv, RetentionTypeOK
<1>3. (\A e \in Entries \ exists : age[e] = 0)'
    BY <1>1 DEF Tick, SInv, Swept, RetentionTypeOK
<1> QED
    BY <1>1, <1>2, <1>3 DEF Swept, Cleaning

LEMMA SweptStep == SInv /\ [RetentionNext]_vars => SInv'
<1> SUFFICES ASSUME SInv, [RetentionNext]_vars
             PROVE  Swept'
    BY TypeStep DEF SInv
<1>1. RetentionTypeOK'
    BY TypeStep DEF SInv
<1> USE DEF SInv, RetentionTypeOK
<1>2. ASSUME NEW j \in Jobs,
             Upload(j) \/ Submit(j) \/ Sign(j) \/ Publish(j) \/ Fail(j)
      PROVE  Swept'
    <2>1. UNCHANGED <<timer, todo, victim, up>>
        BY <1>2 DEF Upload, Submit, Sign, Publish, Fail, cleanerVars
    <2>2. \A e \in Entries : age'[e] = age[e] \/ age'[e] = 0
        BY <1>2, EntriesDiffer
           DEF Upload, Submit, Sign, Publish, Fail, Touch, diskVars
    <2>3. exists \subseteq exists'
        BY <1>2 DEF Upload, Submit, Sign, Publish, Fail, diskVars
    <2> QED
        BY <1>1, <2>1, <2>2, <2>3, SweptByJobs
<1>3. CASE StartCycle
    BY <1>3, CapNat DEF StartCycle, Swept, Cleaning, diskVars
<1>4. CASE Stop
    BY <1>4 DEF Stop, Swept, Cleaning, diskVars
<1>5. CASE Boot
    BY <1>5, CapNat DEF Boot, Swept, Cleaning, diskVars
<1>6. CASE UNCHANGED vars
    BY <1>6 DEF vars, Swept, Cleaning, jobVars, diskVars, cleanerVars
<1> QED
    BY <1>2, <1>3, <1>4, <1>5, <1>6, LookSweeps, RemoveSweeps, TickSweeps
       DEF RetentionNext

\* NoneTooOld: between cycles nothing on disk is older than Retention and one
\* period, however long the process was down before.
THEOREM DiskBounded == RetentionSpec => []NoneTooOld
<1>1. RetentionInit => SInv
    BY TypeInit, SweptInit DEF SInv
<1>2. SInv => NoneTooOld
    BY CapNat DEF SInv, Swept, RetentionTypeOK, NoneTooOld, Cleaning
<1> QED
    BY <1>1, <1>2, SweptStep, PTL DEF RetentionSpec

-----------------------------------------------------------------------------
(* What the cleaner spares                                                 *)

LEMMA SpareInit == RetentionInit => Disk /\ Spared
BY DEF RetentionInit, Disk, Spared, Submitted, Pending, Ended

\* The steps of a job.
LEMMA UploadSpares ==
    ASSUME RInv, NEW i \in Jobs, Upload(i)
    PROVE  Disk' /\ Spared'
<1> USE EntriesDiffer, CapNat DEF RInv, RetentionTypeOK, Upload, Submitted, Pending, Ended
<1>1. Disk'
    BY DEF Disk, cleanerVars
<1>2. ASSUME NEW j \in Jobs, j # i
      PROVE  /\ phase'[j] = phase[j] /\ UNCHANGED <<sinceUpload, sinceSubmit, signed, victim>>
             /\ \A e \in {Input(j), Dir(j)} :
                   age'[e] = age[e] /\ (e \in exists' <=> e \in exists)
    BY <1>2 DEF cleanerVars
<1>3. phase'[i] = "uploaded" /\ age'[Input(i)] = 0 /\ Input(i) \in exists'
      /\ sinceUpload'[i] \in Nat /\ Input(i) \notin victim'
    BY DEF Disk, cleanerVars
<1> QED
    BY <1>1, <1>2, <1>3 DEF Spared, Kept

LEMMA SubmitSpares ==
    ASSUME RInv, NEW i \in Jobs, Submit(i)
    PROVE  Disk' /\ Spared'
<1> USE EntriesDiffer, CapNat DEF RInv, RetentionTypeOK, Submit, Submitted, Pending, Ended
<1>1. Disk'
    BY DEF Disk, cleanerVars
<1>2. ASSUME NEW j \in Jobs, j # i
      PROVE  /\ phase'[j] = phase[j] /\ UNCHANGED <<sinceUpload, sinceSubmit, signed, victim>>
             /\ \A e \in {Input(j), Dir(j)} :
                   age'[e] = age[e] /\ (e \in exists' <=> e \in exists)
    BY <1>2 DEF cleanerVars
<1>3. /\ phase'[i] = "queued" /\ age'[Dir(i)] = 0 /\ Dir(i) \in exists'
      /\ sinceSubmit'[i] \in Nat /\ Dir(i) \notin victim'
    BY DEF Disk, cleanerVars
<1>4. Kept(Input(i), sinceUpload[i])'
    BY DEF Spared, Kept, cleanerVars
<1> QED
    BY <1>1, <1>2, <1>3, <1>4 DEF Spared, Kept

\* Sign, Publish and Fail, whose directories stay or grow younger.
LEMMA WorkSpares ==
    ASSUME RInv, NEW i \in Jobs, Sign(i) \/ Publish(i) \/ Fail(i)
    PROVE  Disk' /\ Spared'
<1> USE EntriesDiffer, CapNat DEF RInv, RetentionTypeOK, Submitted, Pending, Ended
<1>1. /\ UNCHANGED <<sinceUpload, sinceSubmit, victim>> /\ exists \subseteq exists'
      /\ \A e \in Entries : age'[e] = age[e] \/ age'[e] = 0
      /\ signed \subseteq signed'
      /\ \A j \in Jobs : j # i => phase'[j] = phase[j]
      /\ Submitted(i) /\ Submitted(i)'
      /\ \A e \in exists' : e \in exists \/ e = Dir(i)
    BY DEF Sign, Publish, Fail, Touch, cleanerVars, diskVars
<1>2. Disk'
    BY <1>1 DEF Disk
<1>3. \A e \in Entries, n \in 0..LongWait : Kept(e, n) => Kept(e, n)'
    BY <1>1 DEF Kept
<1>4. phase'[i] \in {"checked", "done"} => phase[i] = "checked" \/ i \in signed'
    BY DEF Sign, Publish, Fail
<1> QED
    BY <1>1, <1>2, <1>3, <1>4 DEF Spared

\* The cleaner's steps: only an entry older than Retention is condemned, and
\* what is removed was condemned.
LEMMA LookSpares ==
    ASSUME RInv, NEW e \in Entries, Look(e)
    PROVE  Disk' /\ Spared'
<1> USE EntriesDiffer, CapNat DEF RInv, RetentionTypeOK, Look, OldEnough
<1>1. Disk'
    BY DEF Disk, Submitted, jobVars, diskVars
<1>2. Spared'
    BY DEF Spared, Submitted, Kept, jobVars, diskVars
<1> QED
    BY <1>1, <1>2

LEMMA RemoveSpares ==
    ASSUME RInv, NEW e \in Entries, Remove(e)
    PROVE  Disk' /\ Spared'
<1> USE EntriesDiffer, CapNat DEF RInv, RetentionTypeOK, Remove
<1>1. Disk'
    BY DEF Disk, Submitted
<1>2. Spared'
    BY DEF Spared, Submitted, Kept
<1> QED
    BY <1>1, <1>2

LEMMA TickSpares ==
    ASSUME RInv, Tick
    PROVE  Disk' /\ Spared'
<1> USE EntriesDiffer, CapNat DEF RInv, RetentionTypeOK, Tick
<1>1. Disk'
    BY DEF Disk, Submitted, Cleaning
<1>2. \A n \in 0..LongWait : Later(n, LongWait) <= Retention => Later(n, LongWait) = n + 1
    BY DEF Later
<1>3. \A e \in Entries : age'[e] \in {age[e], age[e] + 1}
    BY DEF Later
<1>4. victim' = {} /\ exists' = exists
    BY DEF Cleaning
<1>5. \A e \in Entries, n \in 0..LongWait : Kept(e, n) =>
          (Later(n, LongWait) <= Retention =>
              age'[e] <= Later(n, LongWait) /\ e \in exists' /\ e \notin victim')
    BY <1>2, <1>3, <1>4 DEF Kept
<1>6. \A j \in Jobs :
          /\ phase[j] # "new" => sinceUpload'[j] = Later(sinceUpload[j], LongWait)
          /\ Submitted(j) => sinceSubmit'[j] = Later(sinceSubmit[j], LongWait)
          /\ phase'[j] = phase[j] /\ (j \in signed' <=> j \in signed)
    BY DEF Submitted, Pending, Ended
<1>7. Spared'
    <2> SUFFICES ASSUME NEW j \in Jobs
                 PROVE  /\ phase'[j] # "new" => Kept(Input(j), sinceUpload[j])'
                        /\ Submitted(j)' => Kept(Dir(j), sinceSubmit[j])'
                        /\ phase'[j] \in {"checked", "done"} /\ sinceSubmit'[j] <= Retention
                              => j \in signed'
        BY DEF Spared
    <2>1. phase'[j] # "new" => Kept(Input(j), sinceUpload[j])'
        BY <1>5, <1>6 DEF Spared, Kept
    <2>2. Submitted(j)' => Kept(Dir(j), sinceSubmit[j])'
        BY <1>5, <1>6 DEF Spared, Kept, Submitted
    <2>3. phase'[j] \in {"checked", "done"} /\ sinceSubmit'[j] <= Retention => j \in signed'
        BY <1>2, <1>6 DEF Spared, Submitted, Pending, Ended
    <2> QED
        BY <2>1, <2>2, <2>3
<1> QED
    BY <1>1, <1>7

LEMMA SpareStep == RInv /\ [RetentionNext]_vars => RInv'
<1> SUFFICES ASSUME RInv, [RetentionNext]_vars
             PROVE  Disk' /\ Spared'
    BY TypeStep, SweptStep DEF RInv, SInv
<1>1. CASE StartCycle
    BY <1>1 DEF StartCycle, RInv, Disk, Spared, Submitted, Kept, jobVars, diskVars
<1>2. CASE Stop
    BY <1>2 DEF Stop, RInv, RetentionTypeOK, Disk, Spared, Submitted, Kept, Pending, Ended,
                diskVars
<1>3. CASE Boot
    BY <1>3 DEF Boot, RInv, Disk, Spared, Submitted, Kept, jobVars, diskVars
<1>4. CASE UNCHANGED vars
    BY <1>4 DEF vars, RInv, Disk, Spared, Submitted, Kept, jobVars, diskVars, cleanerVars
<1> QED
    BY <1>1, <1>2, <1>3, <1>4, UploadSpares, SubmitSpares, WorkSpares, LookSpares,
       RemoveSpares, TickSpares DEF RetentionNext

LEMMA SpareAlways == RetentionSpec => []RInv
<1>1. RetentionInit => RInv
    BY TypeInit, SweptInit, SpareInit DEF RInv
<1> QED
    BY <1>1, SpareStep, PTL DEF RetentionSpec

\* InputsKept: no cycle of the cleaner, whenever it starts and wherever a stop
\* cuts it, takes the IPA or the directory of a job without an outcome before
\* Retention has passed since the upload or the submission.
THEOREM InputsSafe == RetentionSpec => []InputsKept
<1>1. RInv => InputsKept
    BY DEF RInv, Spared, Submitted, Kept, InputsKept, Pending
<1> QED
    BY <1>1, SpareAlways, PTL

\* Downloadable: a DONE job keeps its signed IPA until Retention after its
\* submission, whatever the cleaner's period and phase.
THEOREM DownloadSafe == RetentionSpec => []Downloadable
<1>1. RInv => Downloadable
    BY DEF RInv, Spared, Downloadable
<1> QED
    BY <1>1, SpareAlways, PTL
=============================================================================
