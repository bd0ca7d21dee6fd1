----------------------------- MODULE BotSession -----------------------------
(***************************************************************************)
(* internal/bot: the dialogue with one Telegram user.  bot.go starts a     *)
(* goroutine per update, so several handlers of handlers.go run at once on *)
(* one session.  fsm.Store hands out a POINTER to the session: Get returns *)
(* the stored object itself, handlers write its fields without the store's *)
(* lock and Set puts the pointer back, even when another handler cleared   *)
(* or replaced the session in between.  Hence a heap of session objects    *)
(* and, per handler, the pointer it got.                                   *)
(*                                                                         *)
(* Every key is per user (session, signy:session_pass, signy:job_pass,     *)
(* dedupe), so users do not interact here and one is enough.  The buttons  *)
(* of earlier messages stay in the chat and outlive the bot's process:     *)
(* any of them can be pressed in any state.                                *)
(***************************************************************************)
EXTENDS Naturals, Sequences, FiniteSets

CONSTANTS
    HasMasterKey,   \* config.HasMasterKey()
    Handlers,       \* goroutines that run HandleUpdate
    Docs,           \* files the user sends, each once
    KindOf,         \* what a file really is: "ipa", "dylib", "p12", "prov"
    Passwords,      \* what the user types; a P12 opens with its own name
    CertSets,       \* certificate sets the user has from the start
    None,           \* the empty path or password, a missing Redis key
    MaxUpdates,     \* bound on the updates Telegram delivers
    MaxJobs,        \* bound on the jobs created
    MaxRestarts,    \* bound on the restarts of the bot
    MaxFaults       \* bound on the CheckDedupe that fail

ASSUME BotAssumption ==
    /\ HasMasterKey \in BOOLEAN
    /\ IsFiniteSet(Handlers)
    /\ KindOf \in [Docs -> {"ipa", "dylib", "p12", "prov"}]
    /\ None \notin Docs \union Passwords \union CertSets
    /\ MaxUpdates \in Nat
    /\ MaxJobs \in Nat
    /\ MaxRestarts \in Nat
    /\ MaxFaults \in Nat

VARIABLES
    store,       \* the object the store holds for the user, 0 if none
    heap,        \* the session objects
    handler,     \* what each goroutine is doing
    files,       \* whole files in incoming/: <<document, suffix of the path>>
    jobPass,     \* signy:job_pass:<user>
    sessionPass, \* signy:session_pass:<user>
    dedupe,      \* dedupe keys that exist
    lapsed,      \* dedupe keys that expired, each at most once
    jobs,        \* jobs created, in order
    certs,       \* certificate sets created
    sent,        \* documents sent
    updates,     \* number of updates that changed something
    restarts,
    faults,      \* number of CheckDedupe that failed
    disturbed    \* two handlers have overlapped, or the bot has restarted

redisVars == <<jobPass, sessionPass, dedupe, lapsed>>
otherVars == <<jobs, certs, sent, restarts, faults>>
updateVars == <<updates, disturbed>>
vars == <<store, heap, handler, files, redisVars, otherVars, updateVars>>

Objects == 1..(Cardinality(Handlers) + 1)

States == {"idle", "certP12", "certPassword", "certProvision", "selectCert",
           "uploadIPA", "setOption", "uploadDylib", "jobConfirm", "passwordPrompt"}

\* A password encrypted by a process that has ended.
Unreadable == "unreadable"

\* models.UserSession, the zero value that Get returns without a session
Blank == [state |-> "idle", p12 |-> None, cert |-> None, ipa |-> None, dylibs |-> {}]

\* arg is the handler's input, file and pass what it read, ptr its session.
Waiting == [op |-> "none", pc |-> "", arg |-> None, file |-> None,
            pass |-> None, ptr |-> 0]

BotTypeOK ==
    /\ store \in Objects \union {0}
    /\ heap \in [Objects -> [state : States, p12 : Docs \union {None},
                             cert : CertSets \union {None},
                             ipa : Docs \union {None}, dylibs : SUBSET Docs]]
    /\ \A t \in Handlers : handler[t].ptr \in Objects \union {0}
    /\ files \in SUBSET (Docs \X {"p12", "prov", "ipa", "dylib"})
    /\ {jobPass, sessionPass} \subseteq Passwords \union {None, Unreadable}
    /\ lapsed \subseteq (CertSets \union {None}) \X (Docs \union {None})
    /\ dedupe \subseteq (CertSets \union {None}) \X (Docs \union {None})
    /\ Len(jobs) <= MaxJobs
    /\ certs \subseteq [p12 : Docs, prov : Docs, pass : Passwords]
    /\ sent \in SUBSET Docs
    /\ updates <= MaxUpdates
    /\ restarts <= MaxRestarts
    /\ faults <= MaxFaults
    /\ disturbed \in BOOLEAN

BotInit ==
    /\ store = 0
    /\ heap = [p \in Objects |-> Blank]
    /\ handler = [t \in Handlers |-> Waiting]
    /\ files = {} /\ sent = {}
    /\ jobPass = None /\ sessionPass = None
    /\ dedupe = {} /\ lapsed = {}
    /\ jobs = <<>> /\ certs = {}
    /\ restarts = 0 /\ faults = 0
    /\ updates = 0
    /\ disturbed = FALSE

-----------------------------------------------------------------------------
\* The store.  An object nobody refers to any more is blanked in the heap.
Running == {t \in Handlers : handler[t].op # "none"}
Held == {handler[t].ptr : t \in Handlers}
New == CHOOSE p \in Objects : p \notin Held
Get == IF store = 0 THEN New ELSE store
StateOf == IF store = 0 THEN "idle" ELSE heap[store].state

Collected(h) == [p \in Objects |->
    IF p = store' \/ \E t \in Handlers : handler'[t].ptr = p THEN h[p] ELSE Blank]

\* An update arrives; a handler starts; it moves on; it returns.
Update ==
    /\ updates < MaxUpdates
    /\ updates' = updates + 1
    /\ disturbed' = (disturbed \/ Running # {})
Begin(t, h) ==
    /\ Update
    /\ handler[t] = Waiting
    /\ handler' = [handler EXCEPT ![t] = h]
MoveTo(t, c) == handler' = [handler EXCEPT ![t].pc = c]
Return(t) == handler' = [handler EXCEPT ![t] = Waiting]
ClearAndReturn(t) == store' = 0 /\ Return(t) /\ heap' = Collected(heap)

At(t, op, c) == handler[t].op = op /\ handler[t].pc = c
Session(t) == heap[handler[t].ptr]

-----------------------------------------------------------------------------
\* Handlers that touch the store once: /start, Back, Cancel; New Job, /sign;
\* Add Cert Set.
Quick == Update /\ handler' = handler

Clear ==
    /\ store # 0
    /\ store' = 0
    /\ Quick
    /\ heap' = Collected(heap)
    /\ UNCHANGED <<files, redisVars, otherVars>>

StartDialogue(s) ==
    /\ store' = New
    /\ Quick
    /\ heap' = Collected([heap EXCEPT ![New] = [Blank EXCEPT !.state = s]])
    /\ UNCHANGED <<files, redisVars, otherVars>>

NewJob == CertSets # {} /\ StartDialogue("selectCert")
StartCertCreate == StartDialogue("certP12")

\* Buttons that get the session, write it and set it.
PressCert(t, c) ==
    /\ Begin(t, [Waiting EXCEPT !.op = "select", !.pc = "got", !.arg = c, !.ptr = Get])
    /\ UNCHANGED <<store, heap, files, redisVars, otherVars>>

PressOption(t, s) ==
    /\ StateOf # "idle"
    /\ Begin(t, [Waiting EXCEPT !.op = "option", !.pc = "got", !.arg = s, !.ptr = store])
    /\ UNCHANGED <<store, heap, files, redisVars, otherVars>>

\* handleMessage looks at the state and picks the handler; a document or a
\* text that no handler of this state takes changes nothing.
TakesDoc == [s \in {"certP12", "certProvision", "uploadIPA", "uploadDylib"} |->
    CASE s = "certP12" -> "p12"
      [] s = "certProvision" -> "prov"
      [] s = "uploadIPA" -> "ipa"
      [] OTHER -> "dylib"]

SendDoc(t, d) ==
    /\ d \notin sent
    /\ StateOf \in DOMAIN TakesDoc
    /\ StateOf = "uploadDylib" => KindOf[d] = "dylib"
    /\ Begin(t, [Waiting EXCEPT !.op = TakesDoc[StateOf], !.pc = "download", !.arg = d])
    /\ sent' = sent \union {d}
    /\ UNCHANGED <<store, heap, files, redisVars, jobs, certs, restarts, faults>>

SendOption(t) ==
    /\ StateOf = "setOption"
    /\ Begin(t, [Waiting EXCEPT !.op = "text", !.pc = "get"])
    /\ UNCHANGED <<store, heap, files, redisVars, otherVars>>

SendPassword(t, w) ==
    /\ \/ /\ StateOf = "certPassword"
          /\ Begin(t, [Waiting EXCEPT !.op = "certpass", !.pc = "read", !.pass = w])
       \/ /\ StateOf = "passwordPrompt"
          /\ Begin(t, [Waiting EXCEPT !.op = "jobpass", !.pc = "keep", !.pass = w])
    /\ UNCHANGED <<store, heap, files, redisVars, otherVars>>

-----------------------------------------------------------------------------
\* Mutant of DownloadFails: the handler goes on in spite of the error.
DownloadFailsUnseen(t) ==
    /\ handler[t].pc = "download"
    /\ handler' = [handler EXCEPT ![t].pc = "got", ![t].ptr = Get]
    /\ UNCHANGED <<store, heap, files, redisVars, otherVars, updateVars>>

\* downloadTelegramFile copies the document to a path of its own; only then
\* does the handler get the session.
DownloadFails(t) ==
    /\ handler[t].pc = "download"
    /\ Return(t)
    /\ UNCHANGED <<store, heap, files, redisVars, otherVars, updateVars>>

Download(t) ==
    LET h == handler[t] IN
    /\ h.pc = "download"
    /\ files' = files \union {<<h.arg, h.op>>}
    /\ handler' = [handler EXCEPT ![t] = [h EXCEPT !.pc = "got", !.ptr = Get]]
    /\ UNCHANGED <<store, heap, redisVars, otherVars, updateVars>>

GetSession(t) ==
    /\ handler[t].pc = "get"
    /\ handler' = [handler EXCEPT ![t].pc = "got", ![t].ptr = Get]
    /\ UNCHANGED <<store, heap, files, redisVars, otherVars, updateVars>>

\* Mutant of WithCert: the certificate goes to the wrong field.
WithCertAsIPA(h, s) == [s EXCEPT !.ipa = h.arg]

\* What a handler writes before the state, in the object it got: the upload of
\* a P12, of an IPA, of a dylib, the choice of a certificate set.
WithP12(h, s) == [s EXCEPT !.p12 = h.arg]
WithIPA(h, s) == [s EXCEPT !.ipa = h.arg]
WithDylib(h, s) == [s EXCEPT !.dylibs = @ \union {h.arg}]
WithCert(h, s) == [s EXCEPT !.cert = h.arg]

Written(h, s) ==
    CASE h.op = "p12"    -> WithP12(h, s)
      [] h.op = "ipa"    -> WithIPA(h, s)
      [] h.op = "dylib"  -> WithDylib(h, s)
      [] h.op = "select" -> WithCert(h, s)

WriteField(t) ==
    /\ handler[t].op \in {"p12", "ipa", "dylib", "select"}
    /\ handler[t].pc = "got"
    /\ heap' = [heap EXCEPT ![handler[t].ptr] = Written(handler[t], @)]
    /\ MoveTo(t, "wrote")
    /\ UNCHANGED <<store, files, redisVars, otherVars, updateVars>>

\* The state it leaves the session in.
NextState(h, s) ==
    CASE h.op = "p12"      -> "certPassword"
      [] h.op = "certpass" -> "certProvision"
      [] h.op = "jobpass"  -> "jobConfirm"
      [] h.op = "option"   -> h.arg
      [] h.op = "ipa"      -> IF HasMasterKey THEN s ELSE "passwordPrompt"
      [] OTHER             -> "uploadIPA"

SetSession(t) ==
    LET p == handler[t].ptr IN
    /\ \/ handler[t].pc = "wrote"
       \/ handler[t].op \in {"option", "text", "certpass", "jobpass"}
          /\ handler[t].pc = "got"
    /\ store' = p
    /\ Return(t)
    /\ heap' = Collected([heap EXCEPT ![p].state = NextState(handler[t], @)])
    /\ UNCHANGED <<files, redisVars, otherVars, updateVars>>

-----------------------------------------------------------------------------
\* handleCertPassword reads the P12 of the session it gets (an empty path or
\* an I/O error ends the dialogue) before it keeps the password.
ReadP12Fails(t) ==
    /\ At(t, "certpass", "read")
    /\ ClearAndReturn(t)
    /\ UNCHANGED <<files, redisVars, otherVars, updateVars>>

HasP12(s) == <<s.p12, "p12">> \in files

\* Mutant of KeepSessionPassword: the P12 is not read.
KeepSessionPasswordBlind(t) ==
    /\ At(t, "certpass", "read")
    /\ store # 0
    /\ sessionPass' = handler[t].pass
    /\ handler' = [handler EXCEPT ![t].pc = "got", ![t].ptr = store]
    /\ UNCHANGED <<store, heap, files, jobPass, dedupe, lapsed, otherVars, updateVars>>

KeepSessionPassword(t) ==
    /\ At(t, "certpass", "read")
    /\ store # 0 /\ HasP12(heap[store])
    /\ sessionPass' = handler[t].pass
    /\ handler' = [handler EXCEPT ![t].pc = "got", ![t].ptr = store]
    /\ UNCHANGED <<store, heap, files, jobPass, dedupe, lapsed, otherVars, updateVars>>

KeepJobPassword(t) ==
    /\ At(t, "jobpass", "keep")
    /\ jobPass' = handler[t].pass
    /\ MoveTo(t, "get")
    /\ UNCHANGED <<store, heap, files, sessionPass, dedupe, lapsed, otherVars, updateVars>>

\* handleCertProvisionUpload, after the download and Get: read the P12, GET
\* the password; DEL it and create the set; remove the two files and clear.
ReadForCreate(t) ==
    /\ At(t, "prov", "got")
    /\ HasP12(Session(t)) /\ sessionPass # None
    /\ handler' = [handler EXCEPT ![t].pc = "create", ![t].file = Session(t).p12,
                                  ![t].pass = sessionPass]
    /\ UNCHANGED <<store, heap, files, redisVars, otherVars, updateVars>>

ReadForCreateFails(t) ==
    /\ At(t, "prov", "got")
    /\ ClearAndReturn(t)
    /\ UNCHANGED <<files, redisVars, otherVars, updateVars>>

\* ValidateP12 opens the P12 with the password, ValidateProvision parses the
\* profile; certset.Manager.Create fails before it writes when one does.
Opens(p12, w) == KindOf[p12] = "p12" /\ w = p12
Validates(h) == Opens(h.file, h.pass) /\ KindOf[h.arg] = "prov"

CreateCert(t) ==
    LET h == handler[t] IN
    /\ At(t, "prov", "create")
    /\ h.pass # Unreadable
    /\ Validates(h)
    /\ sessionPass' = None
    /\ certs' = certs \union {[p12 |-> h.file, prov |-> h.arg, pass |-> h.pass]}
    /\ MoveTo(t, "tidy")
    /\ UNCHANGED <<store, heap, files, jobPass, dedupe, lapsed, jobs, sent, restarts,
                   faults, updateVars>>

CreateCertFails(t) ==
    /\ At(t, "prov", "create")
    /\ sessionPass' = None
    /\ ClearAndReturn(t)
    /\ UNCHANGED <<files, jobPass, dedupe, lapsed, otherVars, updateVars>>

\* Mutant of Tidy: only the profile is removed.
TidyProfile(t) ==
    /\ At(t, "prov", "tidy")
    /\ files' = files \ {<<handler[t].arg, "prov">>}
    /\ ClearAndReturn(t)
    /\ UNCHANGED <<redisVars, otherVars, updateVars>>

Tidy(t) ==
    /\ At(t, "prov", "tidy")
    /\ files' = files \ {<<Session(t).p12, "p12">>, <<handler[t].arg, "prov">>}
    /\ ClearAndReturn(t)
    /\ UNCHANGED <<redisVars, otherVars, updateVars>>

-----------------------------------------------------------------------------
\* handleJobConfirm.  The dedupe key is claimed with one SET NX; claim is what
\* the job to be made rests on: the key and the window of time it was set in, or
\* the number of the CheckDedupe that failed.
KeyOf(s) == <<s.cert, s.ipa>>
Claim(k) == [key |-> k, window |-> IF k \in lapsed THEN 2 ELSE 1, failure |-> 0]
NoClaim(n) == [key |-> <<None, None>>, window |-> 0, failure |-> n]

StartConfirm(t, claim) ==
    /\ Begin(t, [Waiting EXCEPT !.op = "confirm", !.ptr = Get, !.arg = claim,
                 !.pc = IF HasMasterKey THEN "enqueue" ELSE "exists"])
    /\ UNCHANGED <<store, heap, files, jobPass, sessionPass, lapsed, jobs, certs, sent,
                   restarts>>

\* Mutant of Confirm: the key is looked up and not set.
ConfirmUnclaimed(t) ==
    LET k == KeyOf(heap[Get]) IN
    /\ k \notin dedupe
    /\ StartConfirm(t, Claim(k))
    /\ UNCHANGED <<dedupe, faults>>

Confirm(t) ==
    LET k == KeyOf(heap[Get]) IN
    /\ k \notin dedupe
    /\ StartConfirm(t, Claim(k))
    /\ dedupe' = dedupe \union {k}
    /\ UNCHANGED faults

\* An error of Redis is ignored and the job made all the same, whether the key
\* was there, was set (the reply is lost) or was not.
ConfirmUnchecked(t) ==
    /\ faults < MaxFaults
    /\ faults' = faults + 1
    /\ StartConfirm(t, NoClaim(faults + 1))
    /\ dedupe' \in {dedupe, dedupe \union {KeyOf(heap[Get])}}

ConfirmDuplicate(t) ==
    /\ KeyOf(heap[Get]) \in dedupe
    /\ handler[t] = Waiting
    /\ Clear

\* A failing EXISTS counts as a password that is gone.
CheckPassword(t) ==
    /\ At(t, "confirm", "exists")
    /\ \/ jobPass # None /\ MoveTo(t, "enqueue") /\ UNCHANGED <<store, heap>>
       \/ ClearAndReturn(t)
    /\ UNCHANGED <<files, redisVars, otherVars, updateVars>>

\* CreateAndEnqueue copies what the session holds now.  given is the P12
\* password the worker passes to the signer, "unset" until it does.
Enqueue(t) ==
    LET s == Session(t) IN
    /\ At(t, "confirm", "enqueue")
    /\ Len(jobs) < MaxJobs
    /\ jobs' = Append(jobs, [cert |-> s.cert, ipa |-> s.ipa, dylibs |-> s.dylibs,
                             claim |-> handler[t].arg, token |-> "unset", given |-> "unset"])
    /\ handler' = [handler EXCEPT ![t].pc = IF HasMasterKey THEN "clear" ELSE "get token",
                                  ![t].arg = Len(jobs) + 1]
    /\ UNCHANGED <<store, heap, files, redisVars, certs, sent, restarts, faults, updateVars>>

EnqueueFails(t) ==
    /\ At(t, "confirm", "enqueue")
    /\ ClearAndReturn(t)
    /\ UNCHANGED <<files, redisVars, otherVars, updateVars>>

TakePassword(t) ==
    /\ At(t, "confirm", "get token")
    /\ handler' = [handler EXCEPT ![t].pc = "token", ![t].pass = jobPass]
    /\ UNCHANGED <<store, heap, files, redisVars, otherVars, updateVars>>

HandOver(t) ==
    /\ At(t, "confirm", "token")
    /\ jobs' = [jobs EXCEPT ![handler[t].arg].token = handler[t].pass]
    /\ jobPass' = None
    /\ MoveTo(t, "clear")
    /\ UNCHANGED <<store, heap, files, sessionPass, dedupe, lapsed, certs, sent, restarts,
                   faults, updateVars>>

EndConfirm(t) ==
    /\ At(t, "confirm", "clear")
    /\ ClearAndReturn(t)
    /\ UNCHANGED <<files, redisVars, otherVars, updateVars>>

-----------------------------------------------------------------------------
\* Keys expire: a dedupe key after 5 minutes, a password after 10.
DedupeLapses(k) ==
    /\ k \in dedupe \ lapsed
    /\ dedupe' = dedupe \ {k}
    /\ lapsed' = lapsed \union {k}
    /\ UNCHANGED <<store, heap, handler, files, jobPass, sessionPass, otherVars, updateVars>>

PasswordLapses ==
    /\ \/ jobPass # None /\ jobPass' = None /\ UNCHANGED sessionPass
       \/ sessionPass # None /\ sessionPass' = None /\ UNCHANGED jobPass
    /\ UNCHANGED <<store, heap, handler, files, dedupe, lapsed, otherVars, updateVars>>

\* Sessions and goroutines are lost with the process; Redis and files stay, but
\* without MASTER_KEY the key that decrypts a kept password is a new one.
AfterRestart(w) == IF HasMasterKey \/ w = None THEN w ELSE Unreadable

Restart ==
    /\ restarts < MaxRestarts
    /\ restarts' = restarts + 1
    /\ store' = 0
    /\ handler' = [t \in Handlers |-> Waiting]
    /\ heap' = [p \in Objects |-> Blank]
    /\ disturbed' = TRUE
    /\ jobPass' = AfterRestart(jobPass)
    /\ sessionPass' = AfterRestart(sessionPass)
    /\ UNCHANGED <<files, dedupe, lapsed, jobs, certs, sent, faults, updates>>

\* The worker takes the token of a job (worker.go) and decrypts it with its
\* own process key; a token it cannot decrypt is used as the password.
ProcessKey(process) == IF HasMasterKey THEN "derived" ELSE process

WorkerOpens(i) ==
    LET token == jobs[i].token
        fits == ProcessKey("bot") = ProcessKey("worker")
    IN
    /\ ~HasMasterKey
    /\ jobs[i].given = "unset"
    /\ jobs' = [jobs EXCEPT ![i].token = "unset", ![i].given =
          CASE token = "unset" -> "missing"
            [] token # "unset" /\ fits /\ token # None -> token
            [] OTHER -> "ciphertext"]
    /\ UNCHANGED <<store, heap, handler, files, redisVars, certs, sent, restarts, faults,
                   updateVars>>

-----------------------------------------------------------------------------
Step(t) ==
    \/ DownloadFails(t) \/ Download(t) \/ GetSession(t) \/ WriteField(t) \/ SetSession(t)
    \/ ReadP12Fails(t) \/ KeepSessionPassword(t) \/ KeepJobPassword(t)
    \/ ReadForCreate(t) \/ ReadForCreateFails(t)
    \/ CreateCert(t) \/ CreateCertFails(t) \/ Tidy(t)
    \/ CheckPassword(t) \/ Enqueue(t) \/ EnqueueFails(t)
    \/ TakePassword(t) \/ HandOver(t) \/ EndConfirm(t)

Dispatch(t) ==
    \/ \E c \in CertSets : PressCert(t, c)
    \/ \E s \in {"setOption", "uploadDylib"} : PressOption(t, s)
    \/ \E d \in Docs : SendDoc(t, d)
    \/ \E w \in Passwords : SendPassword(t, w)
    \/ SendOption(t)
    \/ Confirm(t) \/ ConfirmUnchecked(t) \/ ConfirmDuplicate(t)

BotNext ==
    \/ Clear \/ NewJob \/ StartCertCreate
    \/ \E t \in Handlers : Dispatch(t) \/ Step(t)
    \/ \E k \in dedupe : DedupeLapses(k)
    \/ PasswordLapses
    \/ Restart
    \/ \E i \in 1..Len(jobs) : WorkerOpens(i)

BotSpec == BotInit /\ [][BotNext]_vars

-----------------------------------------------------------------------------
\* A dedupe key that is claimed creates one job until it expires, and as long
\* as handlers have not overlapped the job is one of the claimed certificate
\* and IPA, so that these are not signed twice (handlers.go, handleJobConfirm;
\* manager.go, CheckDedupe).  The condition is needed: an upload that ends
\* between the claim and CreateAndEnqueue changes the session it points to.
\* Each failing CheckDedupe lets one job through that nothing was claimed for,
\* and no more than one.
Claimed(job) == job.claim.failure = 0
OneJobPerKey ==
    /\ \A i, j \in 1..Len(jobs) :
          i # j => /\ jobs[i].claim # jobs[j].claim
                   /\ Claimed(jobs[i]) /\ Claimed(jobs[j]) /\ ~disturbed =>
                         \/ KeyOf(jobs[i]) # KeyOf(jobs[j])
                         \/ jobs[i].claim.window # jobs[j].claim.window
    /\ Cardinality({i \in 1..Len(jobs) : ~Claimed(jobs[i])}) <= faults

\* The bot asks for the P12 password or the profile only in a session that
\* holds a P12, and for the job's password only in one that holds an IPA,
\* though a handler may write a session that replaced the one it was chosen by.
PromptsMakeSense ==
    store # 0 =>
        /\ heap[store].state \in {"certPassword", "certProvision"} => heap[store].p12 # None
        /\ heap[store].state = "passwordPrompt" => heap[store].ipa # None

\* A job refers only to files that were downloaded whole: a failed or running
\* download never becomes a job's IPA or dylib.
JobInputsUploaded ==
    \A i \in 1..Len(jobs) :
        /\ jobs[i].ipa # None => <<jobs[i].ipa, "ipa">> \in files
        /\ \A d \in jobs[i].dylibs : <<d, "dylib">> \in files

\* As long as handlers have not overlapped, a P12 that became a certificate
\* set is no longer in incoming/ once its handler has returned.
UsedP12Removed ==
    ~disturbed /\ Running = {} => \A c \in certs : <<c.p12, "p12">> \notin files

\* handlers.go, "How to sign an IPA": a job is made of a certificate the user
\* picked and an IPA the user uploaded.
JobHasInputs == \A i \in 1..Len(jobs) : jobs[i].cert # None /\ jobs[i].ipa # None

\* worker.go: the password typed for a job is the one the signer gets.
TypedPasswordIsUsed ==
    \A i \in 1..Len(jobs) : jobs[i].given \in {"unset", "missing"} \union Passwords
=============================================================================
