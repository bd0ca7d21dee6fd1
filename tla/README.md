# Signy: specifications, checks and proofs

Signy lets Telegram users (and an administrator, on the web) sign iOS apps. One
Go process holds a bot, a web server and a signing worker; Redis holds the job
queue, the job records, locks and tokens; a storage volume holds certificates,
uploads and artifacts. This directory has TLA+ models of what is hard to test in
it, with TLC runs and TLAPS proofs about them: the way of a job from its
submission to its outcome, the dialogues that make a job, the certificate sets
on disk, the cleaner, and the bot's limiters.

## The system

| Part | State | Operations | What makes it correct |
|---|---|---|---|
| Job queue, `internal/queue/streams.go` | a Redis stream with one consumer group: entries, cursor, pending list, idle times | `Enqueue`, `EnsureGroup`, `ReadNew`, `ClaimStale`, `Ack` | at-least-once delivery: first deliveries in order, nothing delivered after its Ack, nothing unacknowledged forgotten |
| Job manager, `internal/job/manager.go` | a hash per job, a list per user, a lock per user, an artifact directory per job | `CreateAndEnqueue`, `GetJob`, `UpdateStatus`, `SetFailed`, `IncrementRetry`, `TryAcquireUserLock`, `ReleaseUserLock`, `WriteJobMeta`, `DeleteJob`, `CheckDedupe`, `ListUserJobs` | one outcome per job, which stays; one job of a user at a time; a deleted job stays deleted |
| Worker, `internal/worker/worker.go` | goroutines, the semaphore, each goroutine's copy of its job | the read loop, `recoverStaleLoop`, `processMessage`, shutdown | one goroutine per message, an Ack only for a decided job, every job gets an outcome, crashes and failing commands included |
| Signer, `internal/worker/signer.go` | `signed.ipa`, the dylibs to inject, a temporary P12 | `Sign`, `resolveP12`, `mockSign` | DONE means that there is a signed IPA, whole as far as the code can tell; the inputs are there when zsign runs |
| Bot handlers and sessions, `internal/bot/handlers.go`, `fsm/fsm.go` | a session per user, password tokens in Redis | dialogues for certificates and jobs, `handleJobConfirm`, `SubscribeJobEvents` | a confirmed job is made of what its own dialogue collected; a password is used once; the user sees the outcome |
| Middleware, `internal/bot/middleware.go` | callbacks seen, requests in the window | `ShouldProcess`, `Allow` | no more than the limit per window, no callback twice in the interval |
| Certificate sets, `internal/certset/manager.go` | a directory per set | `Create`, `Delete`, `CheckStatus`, `UpdateLastUsed`, `List` | the limit but for concurrent calls, no half-written set listed, nothing left of a failed creation, a set stays until it is deleted |
| Cleaner, `internal/worker/cleanup.go` | files and their ages | `cleanup` every six hours | what a job needs is kept, a result can be downloaded, and everything goes in the end |
| Web server, `internal/web/server.go` | sessions of the administrator | pages, `handleJobCreate`, `handleJobDelete`, event streams | as for the job manager |
| Storage, crypto, config, manifest, health, metrics | none of their own | helpers | functional correctness, unit-tested |

The bot and the web server call the job manager, which writes the record and
sends the stream entry. The worker's read loop hands each entry to a goroutine;
`processMessage` reads the record, takes the user lock, signs, saves, publishes
on `signy:job:events` and acknowledges. The bot listens to those events and
edits the user's message. What is hard about it: every step is a Redis command
that may fail, the goroutines work on copies of a record they read once,
redelivery is driven by a timeout that cannot see whether a goroutine is alive,
the lock has no owner and expires, and the process may end at any command.
The bot's handlers run as one goroutine per update on session objects that no
lock protects; the buttons of old messages stay in the chat. The bot, the web
server and the worker write the same certificate sets with plain system calls,
and the cleaner removes files by their age, without a look at the jobs.
`PROJECT.json` lists these hazards line by line.

## The modules

| Module | Models |
|---|---|
| `JobQueue` | the stream and its group: `Enqueue`, `ReadNew`, `ClaimStale`, `Ack`, and a tick of idle time. An entry is identified with its job, as job ids are fresh UUIDs. |
| `JobManager` (extends `JobQueue`) | records, lock, lists and directories. `CreateAndEnqueue` is `CreateJob`, `ListJob`, `EnqueueJob`; `DeleteJob` is `StartDelete`, `DeleteRecord`, `UnlistJob`, `RemoveFiles`. |
| `Worker` (extends `JobManager`) | the goroutines, by the command they are about to issue (`pc`), with the copy of the job each works on; semaphore, stale loop, deferred calls, the end of the process, time, and the callers' steps that meet the worker. |
| `Lifecycle` | the abstract life of a job: recorded, accepted, worked on once or more, one final outcome. |
| `Delivery` | the abstract contract of the queue: at-least-once, in order for first deliveries. |
| `Handling` | what the producers rely on, whoever consumes the stream: messages taken up in order, again until they are settled, and settled only by who holds them. |
| `RecoveryLoop` (extends `JobQueue`) | the queue between arbitrary producers and the two loops, one tick a period of the stale loop's ticker, with a record of what was pending before a message (`ahead`) and of the claims in a row that left it out (`passed`, counted as far as the timeout). |
| `BotSession` | the dialogues of one user: session objects, handlers that hold pointers to them, downloads, passwords, the confirmation with its dedupe key, and what the worker makes of the password. |
| `CertSets` | the certificate sets of a user as directories of files, and the calls on them as series of system calls. |
| `Retention` | the cleaner beside the jobs whose files it removes, over days. |
| `Middleware` | the rate limiter and the debouncer. |
| `SlidingWindow` | what either promises. |
| `MCWorker`, `MCBotSession`, `MCCertSets` | instances for TLC: who owns which job, what the documents really are, symmetry. |
| `WorkerProofs`, `OutcomeProofs` | the theorems about `Worker`. |
| `RecoveryLoopProofs`, `CertSetsProofs`, `RetentionProofs`, `BotSessionProofs`, `MiddlewareProofs` | the theorems about the modules they are named after. |
| `OrderLemmas` | lemmas on least elements and orders, for two of them. |

### State and code

**Worker.** A task `<<j, s>>` is a goroutine processing a delivery of job `j`.
Slot `Pool` is the first delivery, which the read loop makes and the semaphore
counts; it is at `"sem"` while the read loop holds the message and waits for
room. The other slots are deliveries claimed by `recoverStaleLoop`, which starts
a goroutine for each, beside the semaphore. A job id is enqueued once and the
group's cursor passes it once, so the pool needs one slot per job; `Recovered`
bounds how many claimed deliveries of one job overlap.

`copy[t]` is Go's `j *models.Job`: read by `GetJob`, changed by `UpdateStatus`,
`SetFailed` and `IncrementRetry`, which save it whole (`SaveJob`, the HSET of
`saveJob`) and keep the change if the save fails. `holders` is not in the code:
it is the set of goroutines whose `TryAcquireUserLock` returned true and that
have not called `ReleaseUserLock`; `lock[u]` is the remaining TTL of the key.
Every Redis command may fail while `faults < MaxFaults`: the disjunct with
`Fault` says what the code does then, which is mostly nothing. A lost reply of
XREADGROUP or XAUTOCLAIM leaves the message pending with no goroutine; a lost
reply of the lock's SET may leave the key set. The event published with
`SIGNING` and `PUBLISHING` is taken with the save before it. `Stop` is a crash
or a SIGTERM at any command.

`Sign` is one step with any of its results. `signed[j]` is what lies at
`signed.ipa`: nothing, a whole file, or a spoilt one, which is what a zsign
leaves that failed or was cut off with the process. The code takes exit code 0
and an existing file for success, so a zsign that ends well and writes nothing
succeeds with whatever an earlier run left (`Finished`).

Time is counted in ticks, and a tick is possible only while every goroutine is
within its bound (`MayWait`): `StartBound` from the start of a goroutine, or
from its failure, to the next state change outside the lock, `HoldBound` from
the lock to its release. `HoldBound < LockTTL` is the margin of 60 s that
worker.go:193 adds to the signing timeout, and is assumed (`WorkerAssumption`):
should the Redis commands around the signing take longer than that, nothing in
the code would protect the lock.

**JobQueue.** XAUTOCLAIM with COUNT n looks at 10 * n pending entries at most,
those that are not stale among them, and `ClaimStale` drops the cursor it
returns. `ScanFactor` is the 10, `Scanned` the entries looked at, and
`Claimable` the first `ClaimCount` stale ones of them.

**BotSession.** `fsm.Store.Get` returns the stored pointer, so the sessions are
a `heap` of objects, `store` says which one the store has, and `handler[t].ptr`
which one a goroutine got; a blank session that `Get` makes up is an object
nobody else has yet. A handler is cut where another one can change what it uses:
after the look at the state that picks it, after the download, between the field
and the state it writes. Objects without a reference are blanked, so that
`Cardinality(Handlers) + 1` are enough. A file is a document with the suffix
under which a dialogue stored it; a P12 opens with one password, named like it.
A button can be pressed in every state, as old messages keep theirs.
`handleJobConfirm` ignores the error of `CheckDedupe` and goes on without a
claim (`ConfirmUnchecked`, at most `MaxFaults` times), whether Redis has set the
key or not. Two ghosts say when a property needs it: `disturbed` (two handlers
have overlapped, or the bot was restarted) and the claim recorded with each job:
the key and the window of time it was set in, or the number of the failure. A
password that Redis kept over a restart without MASTER_KEY is `Unreadable`.

**CertSets.** A task is a call of the manager, `pc` the system call it is about
to make. A file is absent, `"cut"` (truncated), `"whole"` or `"mixed"` (two
writers, or a write that failed half-way). `Get` reads meta.json whole or fails,
which is what `List` shows, too. The order of the writes of `Create`, the error
path through `cleanupOnError` and the entry-by-entry removal are kept; removals
do not fail. `spoiled` marks sets whose meta.json had two writers at once or a
write cut off: the code then promises nothing, see Observations.

**Retention.** Only modification times decide, so a file is an `age` in ticks.
The cleaner's cycle looks at each entry and removes it in a second step, beside
the jobs that write it. Time passes while the process is down; a cycle takes less
than a tick. Nothing bounds the wait for a confirmation (sessions do not expire,
and `handleJobConfirm` does not look at the file) or for an outcome, so
`sinceUpload` and `sinceSubmit` count as far as the properties tell apart, and a
job may be confirmed, signed or failed at any age. `"checked"` is a job whose
zsign has ended with the file in place, before it is DONE: the directory can be
removed in between.

**Middleware.** Time stamps are ages, cut where no comparison tells them apart.
The limiter's in-place filter is modelled with what it leaves in the old slice:
a refusal keeps `Overwritten`, in which valid entries could appear twice. They
never do: a slice is never longer than the limit, so a refusal is one of a slice
that lost nothing. `SlidingWindow` has no time stamps but, for each age, how many
events were let through since; the limiter's slice and the debouncer's map are
mapped to these counts.

## The runs

| Run | Checks | Bounds |
|---|---|---|
| `worker_faults` | `TypeOK`, `SoleProcessor`, `DoneHasIPA`, `AckedIsEnded`, `TerminalIsFinal`, `HandlesInOrder` | visibility timeout 5 > 2 * (1 + 1), one fault, one restart |
| `worker_nokey` | `OutcomeIsTold`, `OneTimeToken`, `ImplementsLife`, and `EveryJobEnds` under `FairSpec` | the same, no `MASTER_KEY`, no fault, no dylibs |
| `worker_overlap` | `UserExclusion`, `OwnLock`, `DeletedIsForgotten` | visibility timeout 1, shorter than a signing; pool of 2; one fault; one job deleted at any moment; no dylibs |
| `queue_recovery` | `LoopTypeOK`, `AtLeastOnce`, `PassedOverRarely`, and `NoMessageForgotten` under `LoopFairSpec` | three messages, claims that take one and look at two, timeout of three periods |
| `bot_session` | `BotTypeOK`, `OneJobPerKey`, `PromptsMakeSense`, `JobInputsUploaded`, `UsedP12Removed` | two handlers, four documents, five updates, two jobs, two passwords, one restart, one failing `CheckDedupe`, no `MASTER_KEY` |
| `certsets` | `CertTypeOK`, `ListedIsWhole`, `FailedLeavesNothing`, `KeptUntilDeleted`, `BoundedOvershoot` | two tasks, three identifiers, a limit of one set, five calls, one crash, writes that fail |
| `retention` | `RetentionTypeOK`, `InputsKept`, `Downloadable`, `NoneTooOld`, and `EventuallyCleaned` under `FairRetentionSpec` | two jobs, retention 1, period 2, one stop of any length, waits of any length |
| `middleware` | `MiddlewareTypeOK`, `LimiterIsWindow`, `DebouncerIsWindow` | limit 3 in a window of 3 ticks; three keys, interval 3, entries kept for 4, a map that is full with one |

**Why the bounds are enough.** The worker's runs have two jobs of one user, in
competition for the lock, one slot for recovered deliveries and
`MaxRetries = 1`: a second retry, or a third job, repeats what the first ones do.
The visibility timeout of 5 is tight: with 4 = 2 * (StartBound + HoldBound) TLC
finds two goroutines for one message. The factor two is the time a message may
spend in the read loop's hand while the semaphore is full, during which it is
already pending and its idle time runs. In `queue_recovery` the reach of the
claims is the scan: `Capacity` is `ClaimCount * min(VisibilityTimeout,
ScanFactor)`, here 1 * min(3, 2) = 2, and with three messages one can be handed
out beyond it. In the code it is 5 * min(600 s / 30 s, 10) = 50 pending messages.
A scan of `ClaimCount` entries fails the run, because every XAUTOCLAIM starts
from the oldest entry. In `bot_session` five updates are
a P12, its password, a profile and two buttons, or an upload, a choice and two
confirmations: a dialogue and what disturbs it; without `MASTER_KEY` the handlers
take their longer paths. Two tasks and a limit of one set are the smallest
instance in which the limit is passed and one call's clean-up meets another
call's writes; the theorems hold for all numbers. In `retention` the entry of
one job can be looked at, and removed, while the other job writes; a stop of any
length covers every phase of ticker and job, and a period longer than the retention
time gives the cleaner entries of every age. In `middleware` the ages reach past
every threshold, so that the state space is that of an unbounded run.

`AckedIsEnded` counts: no more messages are forgotten without an outcome than
commands have failed. `DoneHasIPA` promises a file always, and a whole one until
the process ends or a second command fails; then the existence check can be met
by a spoilt file (Observations). `OneTimeToken` speaks of the time until a
command fails, as a failing DEL leaves the token. `DoneHasIPA` and
`ImplementsLife` speak of the jobs that nobody deletes (`Lasting`). `InputsKept`
and `Downloadable` promise what the retention time does, counted from the upload
or the submission: whoever confirms later, or a job that is signed later, has no
such promise. `OutcomeIsTold` is stated for a process that is neither restarted
nor met by a fault: a crash between the Ack of a failure and its event, or
between the event and the outcome's save, loses the event for good.

`CHECK_DEADLOCK` is on for the worker, the queue, the cleaner and the
middleware, where time can always pass, and off in the runs of `BotSession` and
`CertSets`, where updates and calls may stop coming.

### Disagreements

Four runs expect a violation, each of a statement of the repository:

- `default_reprocess`: with the default timeouts (visibility 600 s, signing
  900 s, in ticks of 300 s) a DONE job is signed again; SECURITY.md:46 says
  terminal jobs are not re-processed.
- `postponed_dylibs`: a job postponed for its user's lock loses its dylibs
  (worker.go:168 and 196-197).
- `blank_job`: the Confirm button of an earlier summary, pressed when there is
  no session, enqueues a job of no certificate and no IPA (handlers.go:713-742
  against the help text, handlers.go:274-276).
- `password_key`: without MASTER_KEY the worker cannot decrypt what the bot
  encrypted, and the signer gets the cipher text as password (bot.go:82 and
  worker.go:75 against worker.go:64).

### Observations

Met while modelling, and explained by the models without a run of their own:

- Claimed messages are processed outside the semaphore (worker.go:288): with
  jobs of several users more of them are signed at once than
  WORKER_CONCURRENCY, "Parallel signing jobs" (README.md:51). `RecoverStale`
  starts its tasks without `Pool`'s guard; only the user lock is left to bound them.
- One failing HGETALL is taken for an absent job, and the message of a job
  nobody processed is acknowledged (worker.go:161-166). Each failing command
  loses one job at most (`AckedIsEnded`).
- A DONE job may have a spoilt IPA: a run is cut off with the process and leaves
  part of `signed.ipa`, the next zsign exits with success and no output, and the
  file is found (signer.go:119). Removing an old `signed.ipa` before zsign runs
  would exclude it.
- With more than 50 pending messages that are claimed again and again and never
  acknowledged, XAUTOCLAIM never looks at the younger ones (streams.go:104-111).
  With at most 49 ahead of it a message is claimed in time.
- While Redis fails, `CheckDedupe` lets every confirmation through
  (manager.go:194-196, handlers.go:718): a repeated press creates a second job,
  one for each failure (`OneJobPerKey`).
- A session never expires and Confirm does not look for the IPA: one pressed
  after the retention time creates a job whose IPA is gone, and which fails. The
  result of a job signed later than the retention time after its submission may
  go at once, with its old directory.
- An administrator who deletes a job while a goroutine processes it gets it
  back: the goroutine saves its copy whole (manager.go:255 ff.). What remains
  true is `DeletedIsForgotten`.
- A job keeps one password key per user (`signy:job_pass`): two dialogues
  without MASTER_KEY can hand the later password to the earlier job.
- After an option the session's state is `StateJobUploadIPA`: a document sent
  then replaces the IPA of the job (handlers.go:808, "holding state").
- `MAX_CERTSETS_PER_USER` can be passed by concurrent creations, and a set is
  missing from every list while its meta.json is rewritten; two overlapping
  rewrites, or one cut off, can lose the set or its time of last use
  (`KeptUntilDeleted` excepts `spoiled` sets).
- A worker's event that comes before `handleJobConfirm` stored the message id is
  sent as a message of its own, and may show an old status for ever
  (handlers.go:769 and 1014).

### Fairness

`FairSpec` assumes that the read loop and the stale loop keep polling (both are
`for` loops that continue after an error), that every goroutine is scheduled,
and that time passes. It assumes nothing of the callers, of the restart, of the
token's expiry or of who gets the lock: weak fairness of each goroutine is all
the Go scheduler gives. `LoopFairSpec` has both loops and the clock;
acknowledging a message is not fair. `FairRetentionSpec` assumes that the ticker
fires, that a cycle that began goes on, that time passes and that a service that
stopped is started again (the container's restart policy); nobody has to upload,
submit, sign or end a job.

## The proofs

For every value of the constants that satisfies the assumptions, whatever the
number of jobs, users, slots, handlers, tasks, calls, crashes and faults:

| Theorem | States | Assumes besides |
|---|---|---|
| `TypeCorrect` | `Spec => []TypeOK` | |
| `Exclusion`, `OwnKey` | `Spec => [](UserExclusion /\ OwnLock)` | |
| `Pacing` | `Spec => []SoleProcessor` | `Paced` |
| `OneOutcome` | `Spec => TerminalIsFinal` | `Paced` |
| `Forgotten` | `Spec => DeletedIsForgotten` | |
| `StreamHandled` | `Spec => HandlesInOrder` | |
| `TokenOnce` | `Spec => []OneTimeToken` | |
| `DoneIsSigned` | `Spec => []DoneHasIPA` | `Paced` |
| `AckAfterOutcome` | `Spec => []AckedIsEnded` | `Paced` |
| `LastEvent` | `Spec => []OutcomeIsTold` | `Paced` |
| `LifeImplemented` | `Spec => ImplementsLife` | `Paced`, `MaxFaults = 0`, `MaxRetries > 0` |
| `LoopTypeCorrect`, `DeliveryContract` | `LoopSpec => []LoopTypeOK`, `LoopSpec => AtLeastOnce` | |
| `StaleSoonClaimed`, `ClaimedInTime` | `LoopSpec => []PassedOverRarely`, and `passed[j] < Rounds` for every message handed out with fewer than `Capacity` others pending | |
| `CertTypeCorrect`, `ListedComplete`, `FailureClean`, `LimitRoughly`, `KeptSafely` | `CertSpec => []P` for each invariant of `certsets` | |
| `BotTypeCorrect`, `JobInputsAreUploaded`, `PromptsAlwaysMakeSense`, `OneJobPerClaim`, `UsedP12IsRemoved` | `BotSpec => []P` for each invariant of `bot_session` | |
| `MiddlewareTypeCorrect`, `LimiterCorrect`, `DebouncerCorrect` | `MiddlewareSpec => []MiddlewareTypeOK`, `MiddlewareSpec => LimiterIsWindow`, `MiddlewareSpec => DebouncerIsWindow` | |
| `RetentionTypeCorrect`, `InputsSafe`, `DownloadSafe`, `DiskBounded` | `RetentionSpec => []P` for each invariant of `retention` | |

The assumptions of the modules ask nothing the code does not give: sets of jobs,
users and buttons are finite, `HoldBound < LockTTL`, and `KeepFor >= Interval`
(the debouncer keeps ten intervals).

`Paced` is `VisibilityTimeout > 2 * (StartBound + HoldBound)`. The default
configuration does not satisfy it, and `default_reprocess` is what happens then.

### The worker (`WorkerProofs`)

- **Types.** `TypeOK` is not inductive: the retry count of a copy grows at
  `IncrementRetry`, so `RetryLeft` adds that a task that can still get there
  found the count below the limit.
- **Deliveries** (`Fresh`). The stream has no job twice, and a goroutine works
  only on what was delivered: hence a first delivery finds no other goroutine,
  in particular none under the lock, in its slot.
- **The lock** (`LockInv`). `Placed`: the holders are the tasks at the commands
  under the lock. The key of a holder was set with `LockTTL` when its clock was
  0, and both count ticks, so `lock + timer = LockTTL`; with
  `timer <= HoldBound < LockTTL` the key is there, so SET NX lets no other in,
  and DEL removes the goroutine's own key. Neither pacing nor the visibility
  timeout is used: goroutines of one message may overlap, and are serialised.
- **Pacing** (`PaceInv`). `Young` bounds the idle time of an active task's
  message by `Age`, what the task's clock says about the time since delivery;
  `Waiting` bounds the time a message waits for the semaphore by the clocks of
  the goroutines in the pool, all of them started before it came. Together no
  message of an active task is stale (`NotStale`), so XAUTOCLAIM starts no
  second goroutine.
- **Outcomes** (`FinalInv`). A task that may still save (`Working`) has an
  undecided job, in Redis and in its copy. A task of the same job that decided
  it meanwhile would break this; `SoleProcessor` says there is none.

`TypeInv`, `Fresh`, `LockInv`, `PaceInv` and `FinalInv` are inductive together;
`*Step` lemmas prove each, one step per action, with `ProcessFrame` and
`QuietMoves` for what the commands of a goroutine have in common.

### Outcomes (`OutcomeProofs`)

Each builds on the invariants above with one of its own:

- `Forgotten` (`HasRead`): a task past `GetJob` has a copy, and only such a
  task saves. It holds without `Paced`.
- `TokenOnce` (`TokenInv`): a token is stored at most once, after the
  submission was answered, and a task that found one deletes it before it
  signs. With a failing DEL the token stays, so the invariant is one of the time
  until a command fails (`Obeyed`: then it is a step in which none does).
- `DoneIsSigned` (`SignedInv`): from a successful signing to its DONE nothing
  touches the job's directory. Deleting the job does, and so would a second
  goroutine that signs in it: hence `Lasting` in the property, and `Paced`. That
  the file is whole needs more: as long as the process lives and one command
  has failed at most (`Calm`), a spoilt file belongs to a job that nobody will
  sign again (`GivenUp`): it failed, is about to, or its failure could not be
  saved and its message was acknowledged all the same.
- `AckAfterOutcome` (`LossInv`): a message stays pending as long as its task may
  work on it (`Holding`), which needs `Paced`. `Gone` are the jobs lost and those
  about to be, whose task is at one of the commands that lead to an Ack
  (`Deciding`) with the job undecided. A step adds none, or one by a command that
  fails (`GoneStep`), so they are no more than the failures, by the theorems on
  cardinalities.
- `LastEvent` (`ToldInv`): the outcome of an ended job was published, or a task
  is about to and its copy has that outcome.
- `LifeImplemented` (`LifeInv`): `InStep` relates what a task is about to do to
  the record, `RecordInv` the record to the submission; every action is then a
  step of `Lifecycle` or leaves its variables alone; `LifeElsewhere` says so of
  every step for a job that somebody may delete. `MaxRetries > 0` because
  with 0 a job fails before it was ever worked on, which `Lifecycle` excludes.

- `StreamHandled` (`Fresh`): a first delivery is the entry after the cursor and
  was never handed out; a goroutine started by XAUTOCLAIM has a pending message,
  and only an active task acknowledges. With overlapping goroutines a message
  stays held when one of them ends, which `Handling` leaves open. No timeout
  matters: this is what producers have in every configuration.

### Queue, certificate sets, cleaner

- `RecoveryLoopProofs`: the stream has no job twice (`Once`) and what is pending
  was handed out (`PendingHanded`); each action is a step of `Delivery`.
- `StaleSoonClaimed` is the reason why such a message does not starve although
  XAUTOCLAIM always starts from the oldest entry. `Seniors`: the pending
  messages before `j` were so when `j` was handed out, as later ones come behind
  it. So with fewer than `Capacity` of them the scan reaches `j` (`ScanReaches`,
  by `Rounds <= ScanFactor`), and a claim that leaves the stale `j` out takes
  `ClaimCount` of them (`ClaimsBefore`). `Turns`: these are different ones each
  time, because a message claimed while `j` waited has since been idle for fewer
  periods than `j` was passed over (`HadTurn`), and is not stale again before
  `j` was passed over `VisibilityTimeout` times; after `Rounds` of them, which
  are no more, there would be `Capacity` such messages. With `Capacity` or more
  ahead the oldest come round again, or fill the scan, and `j` may starve: the
  hypothesis is necessary.
- `CertSetsProofs`: `Calls` says what each system call is for, `History` that
  an identifier has one creator, who is the only one to write its files until the
  creation has ended, `Progress` which files it has filled, `Contents` that meta.json
  is whole only for created sets with all their files. The limit needs `Room`:
  the sets listed or about to be, counted against the calls in progress, with
  the theorems on cardinalities. `KeptUntilDeleted` needs `KeptInv`: the one
  rewriter of a set that is not spoiled has truncated the file it fills and
  carries the time of last use.
- `RetentionProofs`: until `Retention` has passed since what began its life, an
  entry is no older than that, is there and is not condemned (`Kept`); `Spared`
  says so of the IPA from its upload and of the directory from the submission,
  and that a job whose file was found has it. The cleaner condemns only what
  is older than `Retention`, and a write makes an entry younger, never older.
  Entries exist only for jobs that got so far (`Disk`); `Swept` says what the
  running cycle has dealt with, so that at its end nothing is older than a period
  more than `Retention`.

### The dialogues (`BotSessionProofs`)

Handlers write into the object they got, whether the store still holds it or
not. So an invariant of sessions is stated for every object of the heap, and for
what each handler is about to write into the one it holds:

- **Types.** A new object is one that no handler holds (`NewIsFree`: there is
  one more than handlers, by the theorems on cardinalities). `Stage` says what a
  handler holds at each step, `Changed` what any step may do to an object: a
  handler writes the one it holds, or it becomes blank or that of a new dialogue,
  and then no handler holds it.
- `JobInputsAreUploaded` (`UploadInv`): an object refers to uploads on disk only,
  and so does a handler about to write one; `UploadsStay` says that the bot
  removes none of them.
- `PromptsAlwaysMakeSense` (`PromptInv`): what a handler found in its object when
  it chose the next state is there when it sets it (`HeldFieldsStay`).
- `OneJobPerClaim` (`ClaimInv`): a claim is a key and the window it was set in,
  or the number of a failure. SET NX makes the claim new, and so does the count
  of failures (`ClaimIsNew`); it is spent ever after (`SpentStays`), and it is
  passed from one handler to one job (`ClaimingStep`, `JobsStep`). So jobs without
  a claim have different numbers and are no more than the failures
  (`UnclaimedFew`). `AloneInv` adds, as long as handlers do not overlap
  (`OneRuns`), that the session submitted is the one claimed.
- `UsedP12IsRemoved` (`TidyInv`): until handlers overlap a P12 in incoming/ came
  once, and that of a certificate set is there only while the handler that made
  the set has yet to remove it.

### The limiters (`MiddlewareProofs`)

Times are appended as they come, so the slice is sorted, oldest first (`MInv`),
and in a sorted slice the entries younger than an age are those after a cut
(`CutExists`). `FilterSorted`: the loop of `Allow` drops what is before the cut of
the window. A refusal found as many valid entries as the limit, which is as
long as the slice can be: nothing was dropped, and the filter in place has
written the slice over itself. The counts of `SlidingWindow` are lengths of
suffixes (`CutCount`), to which a tick and an admitted message do what they do to
the window (`TickCounts`, `AllowCounts`). For the debouncer an entry that the
clean-up drops is older than `KeepFor >= Interval` (`PressEntries`).

What a loop computes needs induction, which the prover cannot do over a table of
results. `OrderLemmas` replaces it: a set of numbers has a least element
(`LeastElement`, from the library's well-foundedness of finite subsets), so two
different tables would differ at a first entry, and there the loop's step makes
them equal. `FirstOnes`, the first elements of a finite set in an order, and
`CancelFactor` are for the queue.

### Only model-checked

- The liveness properties `EveryJobEnds`, `NoMessageForgotten` and
  `EventuallyCleaned`: fairness and ENABLED are beyond the prover. What each
  rests on is proved: a decided job stays decided and, until a command fails, an
  acknowledged one is decided (`OneOutcome`, `AckAfterOutcome`), a stale message
  is claimed in time (`ClaimedInTime`), nothing is old after a cycle
  (`DiskBounded`).
- The statements of the four runs that expect a violation are false, so there is
  nothing to prove.

## Not modelled

- `SubscribeJobEvents` and the messages it edits: only the event published is
  (`told` in `Worker`).
- The web server's pages, login and event streams; its calls of the job and
  certificate managers are the same actions as the bot's. Health, metrics,
  manifest, keyboards, logging, `events.jsonl`.
- Parsing, formatting and cryptography: a document is what it is, a password
  opens a P12 or does not, a key decrypts or does not.
- Torn words: the unlocked writes of a session are data races in Go; they are
  modelled field by field, a string as one word.
- Errors of the GET, SET and DEL with which `handleJobConfirm` hands the password
  to the job (handlers.go:747-750), ignored there: in `BotSession` only CheckDedupe
  and EXISTS fail. An expired password has the
  same effect as an error of the GET.
- Removals that fail, and a cleaner's cycle that takes longer than a tick.
- The 30-day expiry of records and lists: far beyond the time in which a job is
  processed.
- Two worker processes: the image runs one (single binary, embedded Redis). The
  consumer group would allow more; `Recovered` slots behave as goroutines of
  another process would, except that a crash ends them all.
- Malformed stream entries: only `EncodeJobPayload` writes the stream.
- Loss of data in Redis.

## Plan

`Chat`: `SubscribeJobEvents` against `handleJobConfirm` and the worker's events,
with the stored message id: what the user's messages show.
