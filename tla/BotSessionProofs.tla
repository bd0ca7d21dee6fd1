--------------------------- MODULE BotSessionProofs ---------------------------
(***************************************************************************)
(* Proofs about the dialogues of BotSession, for all numbers of handlers,  *)
(* documents, updates, jobs and restarts.                                  *)
(*                                                                         *)
(* The argument: handlers write into whatever object they got, so what a   *)
(* session must satisfy is stated for every object of the heap, stored or  *)
(* not, and what a handler is about to write for the object it holds.  An  *)
(* object that a handler holds is neither collected nor handed out as new. *)
(***************************************************************************)
EXTENDS BotSession, FiniteSetTheorems, TLAPS

Sessions == [state : States, p12 : Docs \union {None}, cert : CertSets \union {None},
             ipa : Docs \union {None}, dylibs : SUBSET Docs]
Secrets == Passwords \union {None, Unreadable}
SessionKeys == (CertSets \union {None}) \X (Docs \union {None})
Claims == [key : SessionKeys, window : 0..2, failure : Nat]

Uploads == {"p12", "prov", "ipa", "dylib"}
HandlerStates ==
    [op : Uploads \union {"none", "select", "option", "text", "certpass", "jobpass", "confirm"},
     pc : {"", "download", "get", "got", "wrote", "read", "keep", "create", "tidy",
           "exists", "enqueue", "get token", "token", "clear"},
     arg : Docs \union CertSets \union States \union Claims \union Nat \union {None},
     file : Docs \union {None},
     pass : Secrets,
     ptr : Objects \union {0}]

JobRecords ==
    [cert : CertSets \union {None}, ipa : Docs \union {None}, dylibs : SUBSET Docs,
     claim : Claims, token : Secrets \union {"unset"},
     given : Secrets \union {"unset", "missing", "ciphertext"}]

\* What a handler holds at the step it is about to make.
Stage(h) ==
    /\ h.op \in Uploads => h.arg \in Docs
    /\ h.op = "select" => h.arg \in CertSets
    /\ h.op = "option" => h.arg \in {"setOption", "uploadDylib"}
    /\ h.op \in {"certpass", "jobpass"} => h.pass \in Passwords
    /\ h.pc = "download" => h.op \in Uploads
    /\ h.pc = "get" => h.op \in {"text", "jobpass"}
    /\ h.pc = "wrote" => h.op \in {"p12", "ipa", "dylib", "select"}
    /\ h.pc \in {"got", "wrote", "create", "tidy", "exists", "enqueue"} => h.ptr \in Objects
    /\ h.pc = "create" => h.file \in Docs
    /\ h.pc \in {"exists", "enqueue"} => h.op = "confirm" /\ h.arg \in Claims
    /\ h.pc \in {"get token", "token"} => h.op = "confirm" /\ h.arg \in Nat

HeapTypes == store \in Objects \union {0} /\ heap \in [Objects -> Sessions]
HandlerTypes ==
    /\ handler \in [Handlers -> HandlerStates]
    /\ \A t \in Handlers : Stage(handler[t])
RestTypes ==
    /\ files \subseteq Docs \X Uploads /\ sent \subseteq Docs
    /\ jobPass \in Secrets /\ sessionPass \in Secrets
    /\ dedupe \subseteq SessionKeys /\ lapsed \subseteq SessionKeys
    /\ jobs \in Seq(JobRecords) /\ Len(jobs) <= MaxJobs
    /\ certs \subseteq [p12 : Docs, prov : Docs, pass : Passwords]
    /\ updates \in Nat /\ updates <= MaxUpdates
    /\ restarts \in Nat /\ restarts <= MaxRestarts
    /\ faults \in Nat /\ faults <= MaxFaults
    /\ disturbed \in BOOLEAN
Types == HeapTypes /\ HandlerTypes /\ RestTypes

\* Every object, stored or only held, refers to whole uploads.
Refers(s) ==
    /\ s.ipa # None => <<s.ipa, "ipa">> \in files
    /\ \A d \in s.dylibs : <<d, "dylib">> \in files
UploadInv ==
    /\ \A p \in Objects : Refers(heap[p])
    /\ \A t \in Handlers :
          handler[t].op \in {"ipa", "dylib"} /\ handler[t].pc \in {"got", "wrote"} =>
              <<handler[t].arg, handler[t].op>> \in files
    /\ JobInputsUploaded

\* Every object asks for what it can use, and so will the handlers' writes.
Asks(s) ==
    /\ s.state \in {"certPassword", "certProvision"} => s.p12 # None
    /\ s.state = "passwordPrompt" => s.ipa # None
PromptInv ==
    /\ \A p \in Objects : Asks(heap[p])
    /\ \A t \in Handlers :
          /\ At(t, "p12", "wrote") \/ At(t, "certpass", "got") => Session(t).p12 # None
          /\ At(t, "ipa", "wrote") => Session(t).ipa # None

\* A claim stands for a key that was set with SET NX, the second for one that
\* had expired before, or for a CheckDedupe that failed.
Claiming(t) == handler[t].op = "confirm" /\ handler[t].pc \in {"exists", "enqueue"}
Spent(c, live, gone, n) ==
    IF c.failure # 0 THEN c = NoClaim(c.failure) /\ c.failure \in 1..n
    ELSE IF c.window = 1 THEN c.key \in live \union gone ELSE c.key \in live \intersect gone
Starts(t, c) ==
    /\ StartConfirm(t, c)
    /\ \/ Confirm(t) /\ c = Claim(KeyOf(heap[Get]))
       \/ ConfirmUnchecked(t) /\ c = NoClaim(faults + 1)
ClaimInv ==
    /\ \A t \in Handlers : Claiming(t) => Spent(handler[t].arg, dedupe, lapsed, faults)
    /\ \A i \in 1..Len(jobs) : Spent(jobs[i].claim, dedupe, lapsed, faults)
    /\ \A t, u \in Handlers :
          Claiming(t) /\ Claiming(u) /\ handler[t].arg = handler[u].arg => t = u
    /\ \A t \in Handlers, i \in 1..Len(jobs) : Claiming(t) => handler[t].arg # jobs[i].claim
    /\ \A i, j \in 1..Len(jobs) : i # j => jobs[i].claim # jobs[j].claim

\* Until handlers overlap there is one of them, and the session it claimed is
\* the one it submits.
AloneInv ==
    ~disturbed =>
        /\ \A t, u \in Running : t = u
        /\ \A t \in Handlers : Claiming(t) /\ handler[t].arg.failure = 0 =>
              KeyOf(Session(t)) = handler[t].arg.key
        /\ \A i \in 1..Len(jobs) : Claimed(jobs[i]) => jobs[i].claim.key = KeyOf(jobs[i])

\* Until then, too, a P12 in incoming/ came once, and that of a certificate set
\* is there only while the handler that made the set has yet to remove it.
TidyInv ==
    /\ \A t \in Handlers : handler[t].op \in Uploads => handler[t].arg \in sent
    /\ \A t \in Handlers : handler[t].pc = "create" => handler[t].file \in sent
    /\ \A f \in files : f[1] \in sent
    /\ \A c \in certs : c.p12 \in sent
    /\ ~disturbed =>
        /\ \A t \in Handlers : handler[t].pc = "download" =>
              /\ \A f \in files : f[1] # handler[t].arg
              /\ \A c \in certs : c.p12 # handler[t].arg
        /\ \A t \in Handlers : At(t, "prov", "create") => handler[t].file = Session(t).p12
        /\ \A c \in certs : <<c.p12, "p12">> \in files =>
              \E t \in Handlers : At(t, "prov", "tidy") /\ Session(t).p12 = c.p12

-----------------------------------------------------------------------------
(* Types                                                                   *)

\* There are more objects than handlers to hold one.
LEMMA NewIsFree ==
    ASSUME Types
    PROVE  New \in Objects /\ \A t \in Handlers : handler[t].ptr # New
<1> DEFINE f == [t \in Handlers |-> handler[t].ptr]
<1>1. f \in Surjection(Handlers, Held)
    BY DEF Surjection, Held
<1>2. IsFiniteSet(Held) /\ Cardinality(Held) <= Cardinality(Handlers)
    BY <1>1, FS_Surjection, BotAssumption
<1>3. Cardinality(Handlers) \in Nat
    BY BotAssumption, FS_CardinalityType
<1>4. IsFiniteSet(Objects) /\ Cardinality(Objects) = Cardinality(Handlers) + 1
    BY <1>3, FS_Interval DEF Objects
<1>5. ~(Objects \subseteq Held)
    <2>1. Cardinality(Held) \in Nat
        BY <1>2, FS_CardinalityType
    <2>2. Objects \subseteq Held => Cardinality(Objects) <= Cardinality(Held)
        BY <1>2, FS_Subset
    <2> QED
        BY <1>2, <1>3, <1>4, <2>1, <2>2
<1>6. New \in Objects /\ New \notin Held
    BY <1>5 DEF New
<1> QED
    BY <1>6 DEF Held

LEMMA BlankTypes == Blank \in Sessions /\ Waiting \in HandlerStates /\ Stage(Waiting)
BY BotAssumption DEF Blank, Sessions, States, Waiting, HandlerStates, Stage, Secrets,
   Objects, Uploads

\* Collecting keeps what is stored or held and blanks the rest.
LEMMA Collecting ==
    ASSUME NEW h, h \in [Objects -> Sessions]
    PROVE  /\ Collected(h) \in [Objects -> Sessions]
           /\ \A p \in Objects :
                 Collected(h)[p] # h[p] =>
                    Collected(h)[p] = Blank /\ \A t \in Handlers : handler'[t].ptr # p
           /\ \A p \in Objects : p = store' => Collected(h)[p] = h[p]
           /\ \A t \in Handlers : handler'[t].ptr \in Objects =>
                 Collected(h)[handler'[t].ptr] = h[handler'[t].ptr]
BY BlankTypes DEF Collected

LEMMA HandlerMoves ==
    ASSUME HandlerTypes, NEW t \in Handlers, NEW h \in HandlerStates, Stage(h),
           handler' = [handler EXCEPT ![t] = h]
    PROVE  HandlerTypes'
<1>1. \A u \in Handlers : handler'[u] = IF u = t THEN h ELSE handler[u]
    BY DEF HandlerTypes
<1> QED
    BY <1>1 DEF HandlerTypes

\* The fields of a handler that other actions than its own look at.
LEMMA HandlerFields ==
    ASSUME HandlerTypes, NEW t \in Handlers
    PROVE  /\ handler[t] \in HandlerStates /\ Stage(handler[t])
           /\ handler[t].ptr \in Objects \union {0}
BY DEF HandlerTypes, HandlerStates

LEMMA GetTypes == ASSUME Types PROVE Get \in Objects
BY NewIsFree DEF Get, Types, HeapTypes

\* A confirmation that goes on, checked or not, starts with a claim.
LEMMA ConfirmStarts ==
    ASSUME Types, NEW t \in Handlers, Confirm(t) \/ ConfirmUnchecked(t)
    PROVE  \E c \in Claims : Starts(t, c)
<1> DEFINE k == KeyOf(heap[Get])
<1>1. k \in SessionKeys /\ <<None, None>> \in SessionKeys
    BY GetTypes DEF KeyOf, SessionKeys, Sessions, Types, HeapTypes
<1>2. faults + 1 \in Nat
    BY DEF Types, RestTypes
<1>3. Claim(k) \in Claims /\ NoClaim(faults + 1) \in Claims
    BY <1>1, <1>2 DEF Claim, NoClaim, Claims
<1>4. CASE Confirm(t)
    BY <1>3, <1>4 DEF Confirm, Starts
<1>5. CASE ConfirmUnchecked(t)
    BY <1>3, <1>5 DEF ConfirmUnchecked, Starts
<1> QED
    BY <1>4, <1>5

LEMMA TypesOK == Types => BotTypeOK
<1> SUFFICES ASSUME Types PROVE BotTypeOK
    OBVIOUS
<1>1. store \in Objects \union {0} /\ heap \in [Objects -> Sessions]
    BY DEF Types, HeapTypes
<1>2. \A t \in Handlers : handler[t].ptr \in Objects \union {0}
    BY HandlerFields DEF Types
<1>3. RestTypes
    BY DEF Types
<1> QED
    BY <1>1, <1>2, <1>3 DEF BotTypeOK, Sessions, RestTypes, Secrets, SessionKeys, Uploads

LEMMA TypesInit == BotInit => Types
<1> SUFFICES ASSUME BotInit PROVE Types
    OBVIOUS
<1>1. HeapTypes
    BY BlankTypes DEF BotInit, HeapTypes
<1>2. HandlerTypes
    BY BlankTypes DEF BotInit, HandlerTypes
<1>3. jobs \in Seq(JobRecords) /\ Len(jobs) = 0
    BY DEF BotInit
<1>4. RestTypes
    <2>1. updates = 0 /\ restarts = 0 /\ faults = 0 /\ Len(jobs) <= MaxJobs
          /\ updates <= MaxUpdates /\ restarts <= MaxRestarts /\ faults <= MaxFaults
        BY <1>3, BotAssumption DEF BotInit
    <2>2. /\ files = {} /\ lapsed = {} /\ dedupe = {} /\ certs = {} /\ sent = {}
          /\ jobPass = None /\ sessionPass = None /\ disturbed = FALSE
        BY DEF BotInit
    <2> QED
        BY <1>3, <2>1, <2>2 DEF RestTypes, Secrets
<1> QED
    BY <1>1, <1>2, <1>4 DEF Types

-----------------------------------------------------------------------------
(* The heap                                                                *)

\* What a step may do to an object: a handler writes the one it holds, and one
\* that no handler holds becomes blank or the session of a new dialogue.
Changed(p) ==
    \/ heap'[p] = heap[p]
    \/ /\ \E s \in {"idle", "selectCert", "certP12"} : heap'[p] = [Blank EXCEPT !.state = s]
       /\ \A t \in Handlers : handler'[t].ptr # p
    \/ \E t \in Handlers : /\ handler[t].ptr = p /\ WriteField(t)
                           /\ heap'[p] = Written(handler[t], heap[p])
    \/ \E t \in Handlers :
          /\ handler[t].ptr = p /\ SetSession(t)
          /\ heap'[p] = [heap[p] EXCEPT !.state = NextState(handler[t], @)]

LEMMA WrittenTypes ==
    ASSUME NEW h \in HandlerStates, Stage(h), NEW s \in Sessions,
           h.op \in {"p12", "ipa", "dylib", "select"}
    PROVE  Written(h, s) \in Sessions
<1>1. CASE h.op = "p12"
    BY <1>1 DEF Written, WithP12, Sessions, Stage, Uploads
<1>2. CASE h.op = "ipa"
    BY <1>2 DEF Written, WithIPA, Sessions, Stage, Uploads
<1>3. CASE h.op = "dylib"
    BY <1>3 DEF Written, WithDylib, Sessions, Stage, Uploads
<1>4. CASE h.op = "select"
    BY <1>4 DEF Written, WithCert, Sessions, Stage, Uploads
<1> QED
    BY <1>1, <1>2, <1>3, <1>4

LEMMA WrittenFields ==
    ASSUME NEW h \in HandlerStates, NEW s \in Sessions,
           h.op \in {"p12", "ipa", "dylib", "select"}
    PROVE  /\ Written(h, s).state = s.state
           /\ Written(h, s).p12 = (IF h.op = "p12" THEN h.arg ELSE s.p12)
           /\ Written(h, s).ipa = (IF h.op = "ipa" THEN h.arg ELSE s.ipa)
           /\ Written(h, s).cert = (IF h.op = "select" THEN h.arg ELSE s.cert)
           /\ Written(h, s).dylibs = (IF h.op = "dylib" THEN s.dylibs \union {h.arg} ELSE s.dylibs)
<1>1. CASE h.op = "p12"
    BY <1>1 DEF Written, WithP12, Sessions
<1>2. CASE h.op = "ipa"
    BY <1>2 DEF Written, WithIPA, Sessions
<1>3. CASE h.op = "dylib"
    BY <1>3 DEF Written, WithDylib, Sessions
<1>4. CASE h.op = "select"
    BY <1>4 DEF Written, WithCert, Sessions
<1> QED
    BY <1>1, <1>2, <1>3, <1>4

LEMMA NextStateTypes ==
    ASSUME NEW h \in HandlerStates, Stage(h), NEW s \in States
    PROVE  NextState(h, s) \in States
BY DEF NextState, Stage, States

LEMMA HeapStep ==
    ASSUME Types, [BotNext]_vars
    PROVE  HeapTypes' /\ \A p \in Objects : Changed(p)
<1>t. /\ store \in Objects \union {0} /\ heap \in [Objects -> Sessions]
      /\ HandlerTypes
    BY DEF Types, HeapTypes
<1>b. Blank = [Blank EXCEPT !.state = "idle"]
    BY DEF Blank
\* Steps that leave the objects as they are or only forget the stored one.
<1>a. ASSUME store' \in Objects \union {0},
             heap' = heap \/ heap' = Collected(heap)
      PROVE  HeapTypes' /\ \A p \in Objects : Changed(p)
    BY <1>a, <1>b, <1>t, Collecting DEF HeapTypes, Changed
<1>1. ASSUME Clear PROVE HeapTypes' /\ \A p \in Objects : Changed(p)
    BY <1>1, <1>a DEF Clear
<1>2. ASSUME NEW s \in {"selectCert", "certP12"}, StartDialogue(s)
      PROVE  HeapTypes' /\ \A p \in Objects : Changed(p)
    <2> DEFINE h == [heap EXCEPT ![New] = [Blank EXCEPT !.state = s]]
    <2>1. New \in Objects /\ \A t \in Handlers : handler[t].ptr # New
        BY NewIsFree
    <2>2. [Blank EXCEPT !.state = s] \in Sessions
        BY BlankTypes DEF Blank, Sessions, States
    <2>3. h \in [Objects -> Sessions]
        BY <1>t, <2>1, <2>2
    <2>4. store' = New /\ heap' = Collected(h) /\ handler' = handler
        BY <1>2 DEF StartDialogue, Quick
    <2>5. \A p \in Objects : p # New => h[p] = heap[p]
        BY <1>t
    <2>6. h[New] = [Blank EXCEPT !.state = s]
        BY <1>t, <2>1
    <2> HIDE DEF h
    <2>7. heap' \in [Objects -> Sessions]
        BY <2>3, <2>4, Collecting
    <2>8. ASSUME NEW p \in Objects PROVE Changed(p)
        <3>1. CASE p = New
            <4>1. heap'[p] = [Blank EXCEPT !.state = s]
                BY <2>3, <2>4, <2>6, <3>1, Collecting
            <4> QED
                BY <2>1, <2>4, <3>1, <4>1 DEF Changed
        <3>2. CASE p # New
            <4>1. \/ heap'[p] = heap[p]
                  \/ heap'[p] = Blank /\ \A t \in Handlers : handler'[t].ptr # p
                <5>1. Collected(h)[p] # h[p] =>
                        Collected(h)[p] = Blank /\ \A t \in Handlers : handler'[t].ptr # p
                    BY <2>3, Collecting
                <5> QED
                    BY <2>4, <2>5, <3>2, <5>1
            <4> QED
                BY <1>b, <4>1 DEF Changed
        <3> QED
            BY <3>1, <3>2
    <2> QED
        BY <2>1, <2>4, <2>7, <2>8 DEF HeapTypes
<1>3. ASSUME NEW t \in Handlers, Dispatch(t)
      PROVE  HeapTypes' /\ \A p \in Objects : Changed(p)
    BY <1>1, <1>3, <1>a, <1>t DEF Dispatch, PressCert, PressOption, SendDoc, SendPassword,
       SendOption, Confirm, ConfirmUnchecked, StartConfirm, ConfirmDuplicate
<1>4. ASSUME NEW t \in Handlers, WriteField(t)
      PROVE  HeapTypes' /\ \A p \in Objects : Changed(p)
    <2>1. handler[t] \in HandlerStates /\ Stage(handler[t]) /\ handler[t].ptr \in Objects
        BY <1>4, <1>t, HandlerFields DEF WriteField, Stage
    <2>2. /\ heap' = [heap EXCEPT ![handler[t].ptr] = Written(handler[t], @)]
          /\ store' = store /\ handler[t].op \in {"p12", "ipa", "dylib", "select"}
        BY <1>4 DEF WriteField
    <2>3. Written(handler[t], heap[handler[t].ptr]) \in Sessions
        BY <1>t, <2>1, <2>2, WrittenTypes
    <2> QED
        BY <1>4, <1>t, <2>1, <2>2, <2>3 DEF HeapTypes, Changed
<1>5. ASSUME NEW t \in Handlers, SetSession(t)
      PROVE  HeapTypes' /\ \A p \in Objects : Changed(p)
    <2> DEFINE o == handler[t].ptr
               n == NextState(handler[t], heap[o].state)
               h == [heap EXCEPT ![o].state = n]
    <2>1. handler[t] \in HandlerStates /\ Stage(handler[t]) /\ o \in Objects
        BY <1>5, <1>t, HandlerFields DEF SetSession, Stage
    <2>2. heap[o] \in Sessions /\ n \in States
        BY <1>t, <2>1, NextStateTypes DEF Sessions
    <2>3. h \in [Objects -> Sessions]
        BY <1>t, <2>1, <2>2 DEF Sessions
    <2>4. store' = o /\ heap' = Collected(h)
        BY <1>5 DEF SetSession
    <2>5. h[o] = [heap[o] EXCEPT !.state = n] /\ \A p \in Objects : p # o => h[p] = heap[p]
        BY <1>t, <2>1, <2>2
    <2> HIDE DEF h
    <2>6. heap' \in [Objects -> Sessions] /\ heap'[o] = [heap[o] EXCEPT !.state = n]
        BY <2>1, <2>3, <2>4, <2>5, Collecting
    <2>7. ASSUME NEW p \in Objects, p # o PROVE Changed(p)
        <3>1. \/ heap'[p] = heap[p]
              \/ heap'[p] = Blank /\ \A u \in Handlers : handler'[u].ptr # p
            <4>1. Collected(h)[p] # h[p] =>
                    Collected(h)[p] = Blank /\ \A u \in Handlers : handler'[u].ptr # p
                BY <2>3, <2>7, Collecting
            <4> QED
                BY <2>4, <2>5, <2>7, <4>1
        <3> QED
            BY <1>b, <3>1 DEF Changed
    <2>8. Changed(o)
        BY <1>5, <2>6 DEF Changed
    <2> QED
        BY <2>1, <2>4, <2>6, <2>7, <2>8 DEF HeapTypes
<1>6. ASSUME NEW t \in Handlers, Step(t), ~WriteField(t), ~SetSession(t)
      PROVE  HeapTypes' /\ \A p \in Objects : Changed(p)
    BY <1>6, <1>a, <1>t DEF Step, DownloadFails, Download, GetSession, ReadP12Fails,
       KeepSessionPassword, KeepJobPassword, ReadForCreate, ReadForCreateFails,
       CreateCert, CreateCertFails, Tidy, CheckPassword, Enqueue, EnqueueFails,
       TakePassword, HandOver, EndConfirm, ClearAndReturn
<1>7. ASSUME Restart PROVE HeapTypes' /\ \A p \in Objects : Changed(p)
    <2>1. store' = 0 /\ heap' = [p \in Objects |-> Blank]
          /\ \A t \in Handlers : handler'[t].ptr = 0
        BY <1>7 DEF Restart, Waiting
    <2>2. \A p \in Objects : p # 0
        BY DEF Objects
    <2> QED
        BY <1>b, <2>1, <2>2, BlankTypes DEF HeapTypes, Changed
<1>8. ASSUME \/ UNCHANGED vars \/ PasswordLapses
             \/ \E k \in dedupe : DedupeLapses(k)
             \/ \E i \in 1..Len(jobs) : WorkerOpens(i)
      PROVE  HeapTypes' /\ \A p \in Objects : Changed(p)
    BY <1>8, <1>a, <1>t DEF vars, PasswordLapses, DedupeLapses, WorkerOpens
<1> QED
    BY <1>1, <1>2, <1>3, <1>4, <1>5, <1>6, <1>7, <1>8
       DEF BotNext, NewJob, StartCertCreate

-----------------------------------------------------------------------------
(* The handlers and the rest                                               *)

LEMMA HandlerStep ==
    ASSUME Types, [BotNext]_vars
    PROVE  HandlerTypes'
<1>t. /\ store \in Objects \union {0} /\ heap \in [Objects -> Sessions]
      /\ HandlerTypes /\ handler \in [Handlers -> HandlerStates]
      /\ files \subseteq Docs \X Uploads
      /\ jobPass \in Secrets /\ sessionPass \in Secrets /\ Len(jobs) \in Nat
      /\ Get \in Objects /\ Passwords \subseteq Secrets
    BY GetTypes DEF Types, HeapTypes, HandlerTypes, RestTypes, Secrets
<1>u. ASSUME handler' = handler PROVE HandlerTypes'
    BY <1>t, <1>u DEF HandlerTypes
<1>r. ASSUME NEW t \in Handlers, Return(t) PROVE HandlerTypes'
    BY <1>r, <1>t, BlankTypes, HandlerMoves DEF Return
\* Moving on, with the stage to be shown.
<1>m. ASSUME NEW t \in Handlers, NEW h \in HandlerStates, Stage(h),
             handler' = [handler EXCEPT ![t] = h]
      PROVE  HandlerTypes'
    BY <1>m, <1>t, HandlerMoves
<1>1. ASSUME Clear \/ NewJob \/ StartCertCreate PROVE HandlerTypes'
    BY <1>1, <1>u DEF Clear, NewJob, StartCertCreate, StartDialogue, Quick
<1>2. ASSUME NEW t \in Handlers, NEW c \in CertSets, PressCert(t, c) PROVE HandlerTypes'
    <2> DEFINE h == [Waiting EXCEPT !.op = "select", !.pc = "got", !.arg = c, !.ptr = Get]
    <2>1. h \in HandlerStates /\ Stage(h)
        BY <1>t, BlankTypes DEF Waiting, HandlerStates, Stage, Uploads
    <2> QED
        BY <1>2, <1>m, <2>1 DEF PressCert, Begin
<1>3. ASSUME NEW t \in Handlers, NEW s \in {"setOption", "uploadDylib"}, PressOption(t, s)
      PROVE  HandlerTypes'
    <2> DEFINE h == [Waiting EXCEPT !.op = "option", !.pc = "got", !.arg = s, !.ptr = store]
    <2>1. store \in Objects
        BY <1>3, <1>t DEF PressOption, StateOf
    <2>2. h \in HandlerStates /\ Stage(h)
        BY <1>t, <2>1, BlankTypes DEF Waiting, HandlerStates, Stage, Uploads, States
    <2> QED
        BY <1>3, <1>m, <2>2 DEF PressOption, Begin
<1>4. ASSUME NEW t \in Handlers, NEW d \in Docs, SendDoc(t, d) PROVE HandlerTypes'
    <2> DEFINE o == TakesDoc[StateOf]
               h == [Waiting EXCEPT !.op = o, !.pc = "download", !.arg = d]
    <2>1. StateOf \in {"certP12", "certProvision", "uploadIPA", "uploadDylib"}
        BY <1>4 DEF SendDoc, TakesDoc
    <2>2. o \in Uploads
        BY <2>1 DEF TakesDoc, Uploads
    <2> HIDE DEF o
    <2>3. h \in HandlerStates /\ Stage(h)
        BY <2>2, BlankTypes DEF Waiting, HandlerStates, Stage, Uploads
    <2> QED
        BY <1>4, <1>m, <2>3 DEF SendDoc, Begin, o
<1>5. ASSUME NEW t \in Handlers, NEW w \in Passwords, SendPassword(t, w) PROVE HandlerTypes'
    <2>1. ASSUME NEW o \in {"certpass", "jobpass"}, NEW c \in {"read", "keep"},
                 handler' = [handler EXCEPT ![t] =
                               [Waiting EXCEPT !.op = o, !.pc = c, !.pass = w]]
          PROVE  HandlerTypes'
        <3> DEFINE h == [Waiting EXCEPT !.op = o, !.pc = c, !.pass = w]
        <3>1. h \in HandlerStates /\ Stage(h)
            BY <1>t, BlankTypes DEF Waiting, HandlerStates, Stage, Uploads
        <3> QED
            BY <2>1, <3>1, <1>m
    <2> QED
        BY <1>5, <2>1 DEF SendPassword, Begin
<1>6. ASSUME NEW t \in Handlers, SendOption(t) PROVE HandlerTypes'
    <2> DEFINE h == [Waiting EXCEPT !.op = "text", !.pc = "get"]
    <2>1. h \in HandlerStates /\ Stage(h)
        BY BlankTypes DEF Waiting, HandlerStates, Stage, Uploads
    <2> QED
        BY <1>6, <1>m, <2>1 DEF SendOption, Begin
<1>7. ASSUME NEW t \in Handlers, Confirm(t) \/ ConfirmUnchecked(t) PROVE HandlerTypes'
    <2>1. PICK c \in Claims : StartConfirm(t, c)
        BY <1>7, ConfirmStarts DEF Starts
    <2> DEFINE h == [Waiting EXCEPT !.op = "confirm", !.ptr = Get, !.arg = c,
                                    !.pc = IF HasMasterKey THEN "enqueue" ELSE "exists"]
    <2>2. h \in HandlerStates /\ Stage(h)
        BY <1>t, BlankTypes DEF Waiting, HandlerStates, Stage, Uploads
    <2> QED
        BY <1>m, <2>1, <2>2 DEF StartConfirm, Begin
<1>8. ASSUME NEW t \in Handlers, ConfirmDuplicate(t) PROVE HandlerTypes'
    BY <1>8, <1>1 DEF ConfirmDuplicate
<1>9. ASSUME NEW t \in Handlers,
             \/ DownloadFails(t) \/ ReadP12Fails(t) \/ ReadForCreateFails(t)
             \/ CreateCertFails(t) \/ Tidy(t) \/ EnqueueFails(t) \/ EndConfirm(t)
             \/ SetSession(t)
      PROVE  HandlerTypes'
    BY <1>9, <1>r DEF DownloadFails, ReadP12Fails, ReadForCreateFails, CreateCertFails,
       Tidy, EnqueueFails, EndConfirm, SetSession, ClearAndReturn
<1>10. ASSUME NEW t \in Handlers, Download(t) \/ GetSession(t) PROVE HandlerTypes'
    <2> DEFINE h == [handler[t] EXCEPT !.pc = "got", !.ptr = Get]
    <2>1. h \in HandlerStates /\ Stage(h)
        BY <1>t, HandlerFields DEF HandlerStates, Stage
    <2>2. handler' = [handler EXCEPT ![t] = h]
        BY <1>10, <1>t DEF Download, GetSession
    <2> QED
        BY <1>m, <2>1, <2>2
<1>11. ASSUME NEW t \in Handlers, WriteField(t) PROVE HandlerTypes'
    <2> DEFINE h == [handler[t] EXCEPT !.pc = "wrote"]
    <2>1. h \in HandlerStates /\ Stage(h)
        BY <1>11, HandlerFields, <1>t DEF WriteField, HandlerStates, Stage, Uploads
    <2>2. handler' = [handler EXCEPT ![t] = h]
        BY <1>11, <1>t DEF WriteField, MoveTo
    <2> QED
        BY <1>m, <2>1, <2>2
<1>12. ASSUME NEW t \in Handlers, KeepSessionPassword(t) PROVE HandlerTypes'
    <2> DEFINE h == [handler[t] EXCEPT !.pc = "got", !.ptr = store]
    <2>1. h \in HandlerStates /\ Stage(h)
        BY <1>12, HandlerFields, <1>t DEF KeepSessionPassword, HandlerStates, Stage
    <2>2. handler' = [handler EXCEPT ![t] = h]
        BY <1>12, <1>t DEF KeepSessionPassword
    <2> QED
        BY <1>m, <2>1, <2>2
<1>13. ASSUME NEW t \in Handlers, KeepJobPassword(t) PROVE HandlerTypes'
    <2> DEFINE h == [handler[t] EXCEPT !.pc = "get"]
    <2>1. h \in HandlerStates /\ Stage(h)
        BY <1>13, HandlerFields, <1>t DEF KeepJobPassword, At, HandlerStates, Stage
    <2>2. handler' = [handler EXCEPT ![t] = h]
        BY <1>13, <1>t DEF KeepJobPassword, MoveTo
    <2> QED
        BY <1>m, <2>1, <2>2
<1>14. ASSUME NEW t \in Handlers, ReadForCreate(t) PROVE HandlerTypes'
    <2> DEFINE h == [handler[t] EXCEPT !.pc = "create", !.file = Session(t).p12,
                                       !.pass = sessionPass]
    <2>1. handler[t] \in HandlerStates /\ Stage(handler[t]) /\ handler[t].ptr \in Objects
        BY <1>14, HandlerFields, <1>t DEF ReadForCreate, At, Stage
    <2>2. Session(t).p12 \in Docs
        BY <1>14, <1>t DEF ReadForCreate, HasP12
    <2>3. h \in HandlerStates
        BY <1>t, <2>1, <2>2 DEF HandlerStates
    <2>4. Stage(h)
        BY <1>14, <2>1, <2>2 DEF ReadForCreate, At, Stage, HandlerStates, Uploads
    <2>5. handler' = [handler EXCEPT ![t] = h]
        BY <1>14, <1>t DEF ReadForCreate
    <2> QED
        BY <1>m, <2>3, <2>4, <2>5
<1>15. ASSUME NEW t \in Handlers, CreateCert(t) PROVE HandlerTypes'
    <2> DEFINE h == [handler[t] EXCEPT !.pc = "tidy"]
    <2>1. h \in HandlerStates /\ Stage(h)
        BY <1>15, HandlerFields, <1>t DEF CreateCert, At, HandlerStates, Stage
    <2>2. handler' = [handler EXCEPT ![t] = h]
        BY <1>15, <1>t DEF CreateCert, MoveTo
    <2> QED
        BY <1>m, <2>1, <2>2
<1>16. ASSUME NEW t \in Handlers, CheckPassword(t) PROVE HandlerTypes'
    <2> DEFINE h == [handler[t] EXCEPT !.pc = "enqueue"]
    <2>1. CASE MoveTo(t, "enqueue")
        <3>1. h \in HandlerStates /\ Stage(h)
            BY <1>16, HandlerFields, <1>t DEF CheckPassword, At, HandlerStates, Stage
        <3>2. handler' = [handler EXCEPT ![t] = h]
            BY <1>t, <2>1 DEF MoveTo
        <3> QED
            BY <1>m, <3>1, <3>2
    <2>2. CASE Return(t)
        BY <1>r, <2>2
    <2> QED
        BY <1>16, <2>1, <2>2 DEF CheckPassword, ClearAndReturn
<1>17. ASSUME NEW t \in Handlers, Enqueue(t) PROVE HandlerTypes'
    <2> DEFINE c == IF HasMasterKey THEN "clear" ELSE "get token"
               n == Len(jobs) + 1
               h == [handler[t] EXCEPT !.pc = c, !.arg = n]
    <2>n. c \in {"clear", "get token"} /\ n \in Nat
        BY <1>t
    <2>1. handler[t] \in HandlerStates /\ handler[t].op = "confirm"
        BY <1>17, HandlerFields, <1>t DEF Enqueue, At
    <2>4. handler' = [handler EXCEPT ![t] = h]
        BY <1>17, <1>t DEF Enqueue
    <2> HIDE DEF c, n
    <2>2. h \in HandlerStates
        BY <2>n, <2>1 DEF HandlerStates
    <2>3. Stage(h)
        BY <2>n, <2>1 DEF HandlerStates, Stage, Uploads
    <2> QED
        BY <1>m, <2>2, <2>3, <2>4
<1>18. ASSUME NEW t \in Handlers, TakePassword(t) PROVE HandlerTypes'
    <2> DEFINE h == [handler[t] EXCEPT !.pc = "token", !.pass = jobPass]
    <2>1. h \in HandlerStates /\ Stage(h)
        BY <1>18, HandlerFields, <1>t DEF TakePassword, At, HandlerStates, Stage
    <2>2. handler' = [handler EXCEPT ![t] = h]
        BY <1>18, <1>t DEF TakePassword
    <2> QED
        BY <1>m, <2>1, <2>2
<1>19. ASSUME NEW t \in Handlers, HandOver(t) PROVE HandlerTypes'
    <2> DEFINE h == [handler[t] EXCEPT !.pc = "clear"]
    <2>1. h \in HandlerStates /\ Stage(h)
        BY <1>19, HandlerFields, <1>t DEF HandOver, At, HandlerStates, Stage
    <2>2. handler' = [handler EXCEPT ![t] = h]
        BY <1>19, <1>t DEF HandOver, MoveTo
    <2> QED
        BY <1>m, <2>1, <2>2
<1>20. ASSUME Restart PROVE HandlerTypes'
    BY <1>20, BlankTypes DEF Restart, HandlerTypes
<1>21. ASSUME \/ UNCHANGED vars \/ PasswordLapses
              \/ \E k \in dedupe : DedupeLapses(k)
              \/ \E i \in 1..Len(jobs) : WorkerOpens(i)
       PROVE  HandlerTypes'
    BY <1>21, <1>u DEF vars, PasswordLapses, DedupeLapses, WorkerOpens
<1> QED
    BY <1>1, <1>2, <1>3, <1>4, <1>5, <1>6, <1>7, <1>8, <1>9, <1>10, <1>11, <1>12, <1>13,
       <1>14, <1>15, <1>16, <1>17, <1>18, <1>19, <1>20, <1>21
       DEF BotNext, Dispatch, Step

\* A job's fields may be set when it is handed its password.
LEMMA JobMoves ==
    ASSUME NEW s \in Seq(JobRecords), NEW s1,
           \/ \E i \in Nat, x \in Secrets : s1 = [s EXCEPT ![i].token = x]
           \/ \E i \in Nat, y \in Secrets \union {"missing", "ciphertext"} :
                 s1 = [s EXCEPT ![i].token = "unset", ![i].given = y]
    PROVE  s1 \in Seq(JobRecords) /\ Len(s1) = Len(s)
<1>1. /\ Len(s) \in Nat /\ DOMAIN s = 1..Len(s)
      /\ \A k \in 1..Len(s) : s[k] \in JobRecords
    OBVIOUS
<1>2. /\ \A r \in JobRecords, x \in Secrets : [r EXCEPT !.token = x] \in JobRecords
      /\ \A r \in JobRecords, y \in Secrets \union {"missing", "ciphertext"} :
            [r EXCEPT !.token = "unset", !.given = y] \in JobRecords
    BY DEF JobRecords
<1>3. s1 \in [1..Len(s) -> JobRecords]
    <2>1. ASSUME NEW i \in Nat, NEW x \in Secrets, s1 = [s EXCEPT ![i].token = x]
          PROVE  s1 \in [1..Len(s) -> JobRecords]
        BY <1>1, <1>2, <2>1
    <2>2. ASSUME NEW i \in Nat, NEW y \in Secrets \union {"missing", "ciphertext"},
                 s1 = [s EXCEPT ![i].token = "unset", ![i].given = y]
          PROVE  s1 \in [1..Len(s) -> JobRecords]
        <3>1. DOMAIN s1 = 1..Len(s) /\ s1 = [k \in 1..Len(s) |-> s1[k]]
            BY <1>1, <2>2
        <3>2. ASSUME NEW k \in 1..Len(s) PROVE s1[k] \in JobRecords
            <4>1. CASE k # i
                BY <1>1, <2>2, <4>1
            <4>2. CASE k = i
                <5>1. s1[k] = [s[k] EXCEPT !.token = "unset", !.given = y]
                    BY <1>1, <2>2, <4>2
                <5> QED
                    BY <1>1, <2>2, <3>2, <5>1 DEF JobRecords
            <4> QED
                BY <4>1, <4>2
        <3> QED
            BY <3>1, <3>2
    <2> QED
        BY <2>1, <2>2
<1> QED
    BY <1>1, <1>3

LEMMA RestStep ==
    ASSUME Types, [BotNext]_vars
    PROVE  RestTypes'
<1>t. /\ heap \in [Objects -> Sessions] /\ HandlerTypes /\ RestTypes
      /\ None \in Secrets /\ Get \in Objects
    BY GetTypes DEF Types, HeapTypes, Secrets
\* Updates change nothing else of what is typed here but counters, documents
\* and keys.
<1>u. ASSUME UNCHANGED <<files, jobPass, sessionPass, lapsed, jobs, certs, restarts>>,
             sent' \subseteq Docs, dedupe' \subseteq SessionKeys, Update,
             faults' = faults \/ (faults < MaxFaults /\ faults' = faults + 1)
      PROVE  RestTypes'
    BY <1>u, <1>t, BotAssumption DEF RestTypes, Update
<1>s. ASSUME UNCHANGED <<sent, dedupe, lapsed, jobs, certs, restarts, faults, updateVars>>,
             files' \subseteq Docs \X Uploads, jobPass' \in Secrets, sessionPass' \in Secrets
      PROVE  RestTypes'
    BY <1>s, <1>t DEF RestTypes, updateVars
<1>j. ASSUME UNCHANGED <<files, sessionPass, sent, dedupe, lapsed, certs, restarts, faults,
                         updateVars>>,
             jobPass' \in Secrets, jobs' \in Seq(JobRecords), Len(jobs') <= MaxJobs
      PROVE  RestTypes'
    BY <1>j, <1>t DEF RestTypes, updateVars
<1>1. ASSUME Clear \/ NewJob \/ StartCertCreate PROVE RestTypes'
    BY <1>1, <1>u, <1>t DEF Clear, NewJob, StartCertCreate, StartDialogue, Quick,
       redisVars, otherVars, RestTypes
<1>2. ASSUME NEW t \in Handlers, Dispatch(t) PROVE RestTypes'
    <2>1. CASE \/ \E c \in CertSets : PressCert(t, c)
               \/ \E s \in {"setOption", "uploadDylib"} : PressOption(t, s)
               \/ \E w \in Passwords : SendPassword(t, w)
               \/ SendOption(t)
        BY <2>1, <1>u, <1>t DEF PressCert, PressOption, SendPassword, SendOption,
           Begin, redisVars, otherVars, RestTypes
    <2>2. CASE \E d \in Docs : SendDoc(t, d)
        BY <2>2, <1>u, <1>t DEF SendDoc, Begin, redisVars, otherVars, RestTypes
    <2>3. CASE Confirm(t) \/ ConfirmUnchecked(t)
        <3>1. KeyOf(heap[Get]) \in SessionKeys
            BY <1>t DEF KeyOf, SessionKeys, Sessions
        <3>2. dedupe' \subseteq SessionKeys
            BY <2>3, <1>t, <3>1 DEF Confirm, ConfirmUnchecked, RestTypes
        <3>3. /\ UNCHANGED <<files, jobPass, sessionPass, lapsed, jobs, certs, restarts, sent>>
              /\ Update
              /\ faults' = faults \/ (faults < MaxFaults /\ faults' = faults + 1)
            BY <2>3 DEF Confirm, ConfirmUnchecked, StartConfirm, Begin
        <3>4. sent' \subseteq Docs
            BY <3>3, <1>t DEF RestTypes
        <3> QED
            BY <3>2, <3>3, <3>4, <1>u
    <2>4. CASE ConfirmDuplicate(t)
        BY <2>4, <1>1 DEF ConfirmDuplicate
    <2> QED
        BY <1>2, <2>1, <2>2, <2>3, <2>4 DEF Dispatch
<1>3. ASSUME NEW t \in Handlers, Step(t), UNCHANGED <<files, redisVars, otherVars, updateVars>>
      PROVE  RestTypes'
    BY <1>3, <1>s, <1>t DEF redisVars, otherVars, updateVars, RestTypes
<1>4. ASSUME NEW t \in Handlers, Download(t) PROVE RestTypes'
    <2>1. handler[t].arg \in Docs /\ handler[t].op \in Uploads
        BY <1>4, <1>t, HandlerFields DEF Download, Stage
    <2> QED
        BY <1>4, <1>s, <1>t, <2>1 DEF Download, redisVars, otherVars, updateVars, RestTypes
<1>5. ASSUME NEW t \in Handlers, KeepSessionPassword(t) \/ KeepJobPassword(t) PROVE RestTypes'
    <2>1. handler[t].pass \in Secrets
        BY <1>t, HandlerFields DEF HandlerStates
    <2> QED
        BY <1>5, <1>s, <1>t, <2>1 DEF KeepSessionPassword, KeepJobPassword, otherVars,
           updateVars, RestTypes
<1>6. ASSUME NEW t \in Handlers, CreateCert(t) PROVE RestTypes'
    <2>1. handler[t] \in HandlerStates /\ Stage(handler[t])
        BY <1>t, HandlerFields
    <2>2. /\ handler[t].arg \in Docs
          /\ handler[t].pass = handler[t].file /\ handler[t].pass # Unreadable
          /\ handler[t].file \in Docs \union {None} /\ handler[t].pass \in Secrets
          /\ KindOf[handler[t].file] = "p12"
        BY <1>6, <2>1 DEF CreateCert, At, Validates, Opens, Stage, Uploads, HandlerStates
    <2>3. handler[t].file # None
        BY <1>6, <2>1, BotAssumption DEF CreateCert, At, Stage
    <2>4. handler[t].file \in Docs /\ handler[t].pass \in Passwords
        BY <2>2, <2>3 DEF Secrets
    <2>5. certs' \subseteq [p12 : Docs, prov : Docs, pass : Passwords]
        BY <1>6, <1>t, <2>2, <2>4 DEF CreateCert, RestTypes
    <2> QED
        BY <1>6, <1>t, <2>5 DEF CreateCert, RestTypes, updateVars
<1>7. ASSUME NEW t \in Handlers, CreateCertFails(t) \/ Tidy(t) PROVE RestTypes'
    BY <1>7, <1>s, <1>t DEF CreateCertFails, Tidy, redisVars, otherVars, updateVars, RestTypes
<1>8. ASSUME NEW t \in Handlers, Enqueue(t) PROVE RestTypes'
    <2>1. handler[t].arg \in Claims /\ handler[t].ptr \in Objects
        BY <1>8, <1>t, HandlerFields DEF Enqueue, At, Stage
    <2> DEFINE s == Session(t)
               r == [cert |-> s.cert, ipa |-> s.ipa, dylibs |-> s.dylibs,
                     claim |-> handler[t].arg, token |-> "unset", given |-> "unset"]
    <2>2. s \in Sessions
        BY <1>t, <2>1 DEF Session
    <2>3. r \in JobRecords
        BY <2>1, <2>2 DEF JobRecords, Sessions
    <2>4. jobs' = Append(jobs, r) /\ Len(jobs) < MaxJobs /\ jobs \in Seq(JobRecords)
        BY <1>8, <1>t DEF Enqueue, RestTypes
    <2> HIDE DEF r
    <2>5. jobs' \in Seq(JobRecords) /\ Len(jobs') <= MaxJobs
        BY <2>3, <2>4, BotAssumption
    <2> QED
        BY <1>8, <1>j, <1>t, <2>5 DEF Enqueue, redisVars, updateVars, RestTypes
<1>9. ASSUME NEW t \in Handlers, HandOver(t) PROVE RestTypes'
    <2>1. handler[t].arg \in Nat /\ handler[t].pass \in Secrets
        BY <1>9, <1>t, HandlerFields DEF HandOver, At, Stage, HandlerStates
    <2>2. jobs' = [jobs EXCEPT ![handler[t].arg].token = handler[t].pass]
          /\ jobs \in Seq(JobRecords) /\ Len(jobs) <= MaxJobs
        BY <1>9, <1>t DEF HandOver, RestTypes
    <2>3. jobs' \in Seq(JobRecords) /\ Len(jobs') = Len(jobs)
        BY <2>1, <2>2, JobMoves
    <2> QED
        BY <2>2, <1>9, <1>j, <1>t, <2>3 DEF HandOver
<1>10. ASSUME NEW k \in dedupe, DedupeLapses(k) PROVE RestTypes'
    BY <1>10, <1>t DEF DedupeLapses, otherVars, updateVars, RestTypes
<1>11. ASSUME PasswordLapses PROVE RestTypes'
    BY <1>11, <1>s, <1>t DEF PasswordLapses, otherVars, updateVars, RestTypes
<1>12. ASSUME Restart PROVE RestTypes'
    <2>1. jobPass' \in Secrets /\ sessionPass' \in Secrets
        BY <1>12, <1>t DEF Restart, AfterRestart, Secrets, RestTypes
    <2>2. restarts' \in Nat /\ restarts' <= MaxRestarts
        BY <1>12, <1>t, BotAssumption DEF Restart, RestTypes
    <2> QED
        BY <1>12, <1>t, <2>1, <2>2 DEF Restart, RestTypes
<1>13. ASSUME NEW i \in 1..Len(jobs), WorkerOpens(i) PROVE RestTypes'
    <2>1. jobs \in Seq(JobRecords) /\ i \in Nat /\ Len(jobs) <= MaxJobs
        BY <1>t DEF RestTypes
    <2>2. jobs[i] \in JobRecords /\ jobs[i].token \in Secrets \union {"unset"}
        <3>1. jobs[i] \in JobRecords
            BY <2>1
        <3> QED
            BY <3>1 DEF JobRecords
    <2>3. PICK y \in Secrets \union {"missing", "ciphertext"} :
             jobs' = [jobs EXCEPT ![i].token = "unset", ![i].given = y]
        BY <1>13, <2>2 DEF WorkerOpens
    <2>4. jobs' \in Seq(JobRecords) /\ Len(jobs') = Len(jobs)
        BY <2>1, <2>3, JobMoves
    <2> QED
        BY <2>1, <1>13, <1>j, <1>t, <2>4 DEF WorkerOpens, redisVars, RestTypes
<1>14. ASSUME UNCHANGED vars PROVE RestTypes'
    BY <1>14, <1>t DEF vars, redisVars, otherVars, updateVars, RestTypes
<1>15. ASSUME NEW t \in Handlers, Step(t) PROVE RestTypes'
    <2>1. CASE UNCHANGED <<files, redisVars, otherVars, updateVars>>
        BY <1>3, <1>15, <2>1
    <2>2. CASE \/ Download(t) \/ KeepSessionPassword(t) \/ KeepJobPassword(t)
               \/ CreateCert(t) \/ CreateCertFails(t) \/ Tidy(t) \/ Enqueue(t) \/ HandOver(t)
        BY <1>4, <1>5, <1>6, <1>7, <1>8, <1>9, <2>2
    <2> QED
        BY <1>15, <2>1, <2>2 DEF Step, DownloadFails, GetSession, WriteField, SetSession,
           ReadP12Fails, ReadForCreate, ReadForCreateFails, CheckPassword, EnqueueFails,
           TakePassword, EndConfirm
<1> QED
    BY <1>1, <1>2, <1>10, <1>11, <1>12, <1>13, <1>14, <1>15 DEF BotNext

LEMMA TypesStep == Types /\ [BotNext]_vars => Types'
BY HeapStep, HandlerStep, RestStep DEF Types

LEMMA TypesAlways == BotSpec => []Types
BY TypesInit, TypesStep, PTL DEF BotSpec

\* BotTypeOK: every session, job, key and handler stays within its type; a
\* handler's pointer is always one of Cardinality(Handlers) + 1 objects.
THEOREM BotTypeCorrect == BotSpec => []BotTypeOK
BY TypesAlways, TypesOK, PTL

-----------------------------------------------------------------------------
(* What sessions refer to and ask for                                      *)

\* A handler comes to write a field only by getting a session, for an upload
\* only after the download.
LEMMA Approaches ==
    ASSUME Types, [BotNext]_vars, NEW t \in Handlers
    PROVE  \/ handler'[t] = handler[t]
           \/ handler'[t].pc \notin {"got", "wrote"}
           \/ handler'[t].op \in {"select", "option"} /\ handler'[t].pc = "got"
           \/ Download(t) \/ GetSession(t) \/ WriteField(t) \/ KeepSessionPassword(t)
<1> DEFINE Goal == \/ handler'[t] = handler[t]
                   \/ handler'[t].pc \notin {"got", "wrote"}
                   \/ handler'[t].op \in {"select", "option"} /\ handler'[t].pc = "got"
                   \/ Download(t) \/ GetSession(t) \/ WriteField(t) \/ KeepSessionPassword(t)
<1>t. /\ handler \in [Handlers -> HandlerStates]
      /\ \A u \in Handlers : handler[u] \in HandlerStates
    BY DEF Types, HandlerTypes
<1>r. ASSUME NEW u \in Handlers, Return(u) PROVE Goal
    BY <1>r, <1>t DEF Return, Waiting
<1>1. ASSUME Clear \/ NewJob \/ StartCertCreate \/ UNCHANGED vars \/ PasswordLapses
             \/ (\E k \in dedupe : DedupeLapses(k))
             \/ (\E i \in 1..Len(jobs) : WorkerOpens(i))
      PROVE  Goal
    BY <1>1 DEF Clear, NewJob, StartCertCreate, StartDialogue, Quick, vars,
       PasswordLapses, DedupeLapses, WorkerOpens
<1>2. ASSUME NEW u \in Handlers, Dispatch(u) PROVE Goal
    <2>1. CASE ConfirmDuplicate(u)
        BY <1>1, <2>1 DEF ConfirmDuplicate
    <2>2. CASE \/ \E c \in CertSets : PressCert(u, c)
               \/ \E s \in {"setOption", "uploadDylib"} : PressOption(u, s)
        BY <1>t, <2>2 DEF PressCert, PressOption, Begin, Waiting
    <2>3. CASE \/ \E w \in Passwords : SendPassword(u, w)
               \/ SendOption(u)
        <3> DEFINE H(o, c, w) == [Waiting EXCEPT !.op = o, !.pc = c, !.pass = w]
                   O == [Waiting EXCEPT !.op = "text", !.pc = "get"]
        <3>1. /\ \A o, c, w : H(o, c, w).pc = c
              /\ O.pc = "get"
            BY DEF Waiting
        <3>2. \/ Begin(u, O)
              \/ \E w \in Passwords : \/ Begin(u, H("certpass", "read", w))
                                     \/ Begin(u, H("jobpass", "keep", w))
            BY <2>3 DEF SendPassword, SendOption
        <3> HIDE DEF H, O
        <3>3. \E h : handler' = [handler EXCEPT ![u] = h] /\ h.pc \in {"get", "read", "keep"}
            BY <3>1, <3>2 DEF Begin
        <3> QED
            BY <1>t, <3>3
    <2>4. ASSUME NEW d \in Docs, SendDoc(u, d) PROVE Goal
        <3>1. handler' = [handler EXCEPT ![u] = [Waiting EXCEPT
                             !.op = TakesDoc[StateOf], !.pc = "download", !.arg = d]]
            BY <2>4 DEF SendDoc, Begin
        <3> QED
            BY <1>t, <3>1 DEF Waiting
    <2>5. CASE Confirm(u) \/ ConfirmUnchecked(u)
        <3>1. PICK a : handler' = [handler EXCEPT ![u] = [Waiting EXCEPT
                             !.op = "confirm", !.ptr = Get, !.arg = a,
                             !.pc = IF HasMasterKey THEN "enqueue" ELSE "exists"]]
            BY <2>5 DEF Confirm, ConfirmUnchecked, StartConfirm, Begin
        <3> QED
            BY <1>t, <3>1 DEF Waiting
    <2> QED
        BY <1>2, <2>1, <2>2, <2>3, <2>4, <2>5 DEF Dispatch
<1>3. ASSUME NEW u \in Handlers, Step(u) PROVE Goal
    <2>1. CASE \/ DownloadFails(u) \/ SetSession(u) \/ ReadP12Fails(u) \/ ReadForCreateFails(u)
               \/ CreateCertFails(u) \/ Tidy(u) \/ EnqueueFails(u) \/ EndConfirm(u)
        BY <1>r, <2>1 DEF DownloadFails, SetSession, ReadP12Fails, ReadForCreateFails,
           CreateCertFails, Tidy, EnqueueFails, EndConfirm, ClearAndReturn
    <2>2. CASE \/ KeepJobPassword(u) \/ ReadForCreate(u) \/ CreateCert(u) \/ Enqueue(u)
               \/ TakePassword(u) \/ HandOver(u)
        <3>1. \A v \in Handlers : v # u => handler'[v] = handler[v]
            BY <1>t, <2>2 DEF KeepJobPassword, ReadForCreate, CreateCert, Enqueue,
               TakePassword, HandOver, MoveTo
        <3>2. handler'[u].pc \in {"get", "create", "tidy", "clear", "get token", "token"}
            <4>1. CASE KeepJobPassword(u) \/ CreateCert(u) \/ HandOver(u)
                <5>1. PICK c \in {"get", "tidy", "clear"} : MoveTo(u, c)
                    BY <4>1 DEF KeepJobPassword, CreateCert, HandOver
                <5> QED
                    BY <1>t, <5>1 DEF MoveTo, HandlerStates
            <4>2. CASE ReadForCreate(u)
                BY <1>t, <4>2 DEF ReadForCreate, HandlerStates
            <4>3. CASE TakePassword(u)
                BY <1>t, <4>3 DEF TakePassword, HandlerStates
            <4>4. CASE Enqueue(u)
                BY <1>t, <4>4 DEF Enqueue, HandlerStates
            <4> QED
                BY <2>2, <4>1, <4>2, <4>3, <4>4
        <3> QED
            BY <3>1, <3>2
    <2>3. CASE CheckPassword(u)
        <3>1. CASE Return(u)
            BY <1>r, <3>1
        <3>2. CASE MoveTo(u, "enqueue")
            BY <1>t, <3>2 DEF MoveTo, HandlerStates
        <3> QED
            BY <2>3, <3>1, <3>2 DEF CheckPassword, ClearAndReturn
    <2>4. CASE Download(u) \/ GetSession(u) \/ WriteField(u) \/ KeepSessionPassword(u)
        BY <1>t, <2>4 DEF Download, GetSession, WriteField, KeepSessionPassword, MoveTo
    <2> QED
        BY <1>3, <2>1, <2>2, <2>3, <2>4 DEF Step
<1>4. ASSUME Restart PROVE Goal
    BY <1>4 DEF Restart, Waiting
<1> QED
    BY <1>1, <1>2, <1>3, <1>4 DEF BotNext

\* Uploaded IPAs and dylibs are never removed by the bot.
LEMMA UploadsStay ==
    ASSUME [BotNext]_vars, NEW d, NEW k \in {"ipa", "dylib"}, <<d, k>> \in files
    PROVE  <<d, k>> \in files'
<1>1. ASSUME NEW t \in Handlers, Download(t) \/ Tidy(t) PROVE <<d, k>> \in files'
    BY <1>1 DEF Download, Tidy
<1>2. ASSUME ~\E t \in Handlers : Download(t) \/ Tidy(t) PROVE UNCHANGED files
    <2>1. ASSUME NEW t \in Handlers, Dispatch(t) PROVE UNCHANGED files
        BY <2>1 DEF Dispatch, PressCert, PressOption, SendDoc, SendPassword, SendOption,
           Confirm, ConfirmUnchecked, StartConfirm, ConfirmDuplicate, Clear
    <2>2. ASSUME NEW t \in Handlers, Step(t) PROVE UNCHANGED files
        BY <1>2, <2>2 DEF Step, DownloadFails, GetSession, WriteField, SetSession,
           ReadP12Fails, KeepSessionPassword, KeepJobPassword, ReadForCreate,
           ReadForCreateFails, CreateCert, CreateCertFails, CheckPassword, Enqueue,
           EnqueueFails, TakePassword, HandOver, EndConfirm
    <2> QED
        BY <2>1, <2>2 DEF BotNext, Clear, NewJob, StartCertCreate, StartDialogue,
           DedupeLapses, PasswordLapses, Restart, WorkerOpens, vars
<1> QED
    BY <1>1, <1>2

\* A job keeps its inputs and its claim; a new one takes them from the session
\* and the handler that submit it.
LEMMA JobsStep ==
    ASSUME Types, [BotNext]_vars, NEW i \in 1..Len(jobs')
    PROVE  \/ /\ i \in 1..Len(jobs)
              /\ jobs'[i].cert = jobs[i].cert /\ jobs'[i].ipa = jobs[i].ipa
              /\ jobs'[i].dylibs = jobs[i].dylibs /\ jobs'[i].claim = jobs[i].claim
           \/ /\ i = Len(jobs) + 1
              /\ \E t \in Handlers :
                    /\ Enqueue(t)
                    /\ jobs'[i].cert = Session(t).cert /\ jobs'[i].ipa = Session(t).ipa
                    /\ jobs'[i].dylibs = Session(t).dylibs
                    /\ jobs'[i].claim = handler[t].arg
<1> DEFINE Kept == /\ i \in 1..Len(jobs)
                   /\ jobs'[i].cert = jobs[i].cert /\ jobs'[i].ipa = jobs[i].ipa
                   /\ jobs'[i].dylibs = jobs[i].dylibs /\ jobs'[i].claim = jobs[i].claim
<1>t. /\ jobs \in Seq(JobRecords) /\ Len(jobs) \in Nat /\ DOMAIN jobs = 1..Len(jobs)
      /\ \A k \in 1..Len(jobs) : jobs[k] \in JobRecords
    BY DEF Types, RestTypes
<1>1. CASE UNCHANGED jobs
    BY <1>1
<1>2. ASSUME NEW t \in Handlers, Enqueue(t)
      PROVE  \/ Kept
             \/ /\ i = Len(jobs) + 1 /\ Enqueue(t)
                /\ jobs'[i].cert = Session(t).cert /\ jobs'[i].ipa = Session(t).ipa
                /\ jobs'[i].dylibs = Session(t).dylibs /\ jobs'[i].claim = handler[t].arg
    <2> DEFINE r == [cert |-> Session(t).cert, ipa |-> Session(t).ipa,
                     dylibs |-> Session(t).dylibs, claim |-> handler[t].arg,
                     token |-> "unset", given |-> "unset"]
    <2>1. jobs' = Append(jobs, r)
        BY <1>2 DEF Enqueue
    <2>2. r.cert = Session(t).cert /\ r.ipa = Session(t).ipa /\ r.dylibs = Session(t).dylibs
          /\ r.claim = handler[t].arg
        OBVIOUS
    <2> HIDE DEF r
    <2>3. Len(jobs') = Len(jobs) + 1 /\ jobs'[Len(jobs) + 1] = r
          /\ \A k \in 1..Len(jobs) : jobs'[k] = jobs[k]
        BY <1>t, <2>1
    <2> QED
        BY <1>2, <1>t, <2>2, <2>3
<1>3. ASSUME NEW k, NEW x, jobs' = [jobs EXCEPT ![k].token = x] PROVE Kept
    <2>1. Len(jobs') = Len(jobs)
        BY <1>3, <1>t
    <2>2. i \in DOMAIN jobs /\ jobs[i] \in JobRecords
        BY <1>t, <2>1
    <2>3. jobs'[i] = IF i = k THEN [jobs[i] EXCEPT !.token = x] ELSE jobs[i]
        BY <1>3, <2>2
    <2> QED
        BY <1>t, <2>2, <2>3 DEF JobRecords
<1>4. ASSUME NEW k, NEW y, jobs' = [jobs EXCEPT ![k].token = "unset", ![k].given = y]
      PROVE  Kept
    <2>1. Len(jobs') = Len(jobs)
        BY <1>4, <1>t
    <2>2. i \in DOMAIN jobs /\ jobs[i] \in JobRecords
        BY <1>t, <2>1
    <2>3. jobs'[i] = IF i = k THEN [jobs[i] EXCEPT !.token = "unset", !.given = y] ELSE jobs[i]
        BY <1>4, <2>2
    <2> QED
        BY <1>t, <2>2, <2>3 DEF JobRecords
<1>5. \/ UNCHANGED jobs
      \/ \E t \in Handlers : Enqueue(t) \/ HandOver(t)
      \/ \E k \in 1..Len(jobs) : WorkerOpens(k)
    <2>1. ASSUME NEW t \in Handlers, Dispatch(t) PROVE UNCHANGED jobs
        BY <2>1 DEF Dispatch, PressCert, PressOption, SendDoc, SendPassword, SendOption,
           Confirm, ConfirmUnchecked, StartConfirm, ConfirmDuplicate, Clear, otherVars
    <2>2. ASSUME NEW t \in Handlers, Step(t)
          PROVE  UNCHANGED jobs \/ Enqueue(t) \/ HandOver(t)
        BY <2>2 DEF Step, DownloadFails, Download, GetSession, WriteField, SetSession,
           ReadP12Fails, KeepSessionPassword, KeepJobPassword, ReadForCreate,
           ReadForCreateFails, CreateCert, CreateCertFails, Tidy, CheckPassword,
           EnqueueFails, TakePassword, EndConfirm, otherVars
    <2> QED
        BY <2>1, <2>2 DEF BotNext, Clear, NewJob, StartCertCreate, StartDialogue,
           DedupeLapses, PasswordLapses, Restart, otherVars, vars
<1>6. ASSUME NEW t \in Handlers, HandOver(t) PROVE Kept
    BY <1>6, <1>3 DEF HandOver
<1>7. ASSUME NEW k \in 1..Len(jobs), WorkerOpens(k) PROVE Kept
    BY <1>7, <1>4 DEF WorkerOpens
<1> QED
    BY <1>1, <1>2, <1>5, <1>6, <1>7

LEMMA UploadInit == BotInit => UploadInv
<1> SUFFICES ASSUME BotInit PROVE UploadInv
    OBVIOUS
<1>1. \A p \in Objects : Refers(heap[p])
    BY DEF BotInit, Refers, Blank
<1>2. \A t \in Handlers : handler[t].op = "none"
    BY DEF BotInit, Waiting
<1>3. Len(jobs) = 0
    BY DEF BotInit
<1> QED
    BY <1>1, <1>2, <1>3 DEF UploadInv, JobInputsUploaded

LEMMA UploadStep == Types /\ UploadInv /\ [BotNext]_vars => UploadInv'
<1> SUFFICES ASSUME Types, UploadInv, [BotNext]_vars PROVE UploadInv'
    OBVIOUS
<1>t. /\ heap \in [Objects -> Sessions] /\ handler \in [Handlers -> HandlerStates]
      /\ \A t \in Handlers : Stage(handler[t])
    BY DEF Types, HeapTypes, HandlerTypes
<1>1. ASSUME NEW p \in Objects PROVE Refers(heap[p])'
    <2>1. \A k \in Objects : Refers(heap[k])
        BY DEF UploadInv
    <2>2. CASE heap'[p] = heap[p]
        BY <2>1, <2>2, UploadsStay DEF Refers
    <2>3. CASE \E s \in {"idle", "selectCert", "certP12"} : heap'[p] = [Blank EXCEPT !.state = s]
        BY <2>3 DEF Refers, Blank
    <2>4. ASSUME NEW t \in Handlers, handler[t].ptr = p, WriteField(t),
                 heap'[p] = Written(handler[t], heap[p])
          PROVE  Refers(heap[p])'
        <3>1. /\ handler[t].op \in {"p12", "ipa", "dylib", "select"} /\ handler[t].pc = "got"
            BY <2>4 DEF WriteField
        <3>2. handler[t].op \in {"ipa", "dylib"} => <<handler[t].arg, handler[t].op>> \in files
            BY <3>1 DEF UploadInv
        <3>w. handler[t] \in HandlerStates /\ heap[p] \in Sessions
            BY <1>t
        <3>3. /\ heap'[p].ipa = (IF handler[t].op = "ipa" THEN handler[t].arg ELSE heap[p].ipa)
              /\ heap'[p].dylibs = (IF handler[t].op = "dylib"
                                      THEN heap[p].dylibs \union {handler[t].arg}
                                      ELSE heap[p].dylibs)
            BY <2>4, <3>1, <3>w, WrittenFields
        <3>4. Refers(heap[p])
            BY <2>1
        <3> QED
            BY <3>2, <3>3, <3>4, UploadsStay DEF Refers
    <2>5. ASSUME NEW n, heap'[p] = [heap[p] EXCEPT !.state = n]
          PROVE  Refers(heap[p])'
        <3>1. heap'[p].ipa = heap[p].ipa /\ heap'[p].dylibs = heap[p].dylibs
            BY <1>t, <2>5 DEF Sessions
        <3> QED
            BY <2>1, <3>1, UploadsStay DEF Refers
    <2> QED
        BY HeapStep, <2>2, <2>3, <2>4, <2>5 DEF Changed
<1>2. ASSUME NEW t \in Handlers,
             handler'[t].op \in {"ipa", "dylib"}, handler'[t].pc \in {"got", "wrote"}
      PROVE  <<handler'[t].arg, handler'[t].op>> \in files'
    <2>h. handler[t] \in HandlerStates /\ Stage(handler[t])
        BY <1>t
    <2>1. CASE handler'[t] = handler[t]
        BY <1>2, <2>1, UploadsStay DEF UploadInv
    <2>2. CASE Download(t)
        <3>1. handler'[t] = [handler[t] EXCEPT !.pc = "got", !.ptr = Get]
            BY <1>t, <2>2 DEF Download
        <3>2. handler'[t].arg = handler[t].arg /\ handler'[t].op = handler[t].op
            BY <2>h, <3>1 DEF HandlerStates
        <3> QED
            BY <2>2, <3>2 DEF Download
    <2>3. CASE GetSession(t) \/ KeepSessionPassword(t)
        <3>1. handler[t].op \in {"text", "jobpass", "certpass"}
            BY <2>3, <2>h DEF GetSession, KeepSessionPassword, At, Stage
        <3>2. handler'[t].op = handler[t].op
            BY <1>t, <2>3 DEF GetSession, KeepSessionPassword, HandlerStates
        <3> QED
            BY <1>2, <3>1, <3>2
    <2>4. CASE WriteField(t)
        <3>1. handler'[t] = [handler[t] EXCEPT !.pc = "wrote"]
            BY <1>t, <2>4 DEF WriteField, MoveTo
        <3>2. handler'[t].arg = handler[t].arg /\ handler'[t].op = handler[t].op
            BY <2>h, <3>1 DEF HandlerStates
        <3> QED
            BY <1>2, <2>4, <3>2, UploadsStay DEF WriteField, UploadInv
    <2> QED
        BY <1>2, Approaches, <2>1, <2>2, <2>3, <2>4
<1>3. JobInputsUploaded'
    <2> SUFFICES ASSUME NEW i \in 1..Len(jobs')
                 PROVE  /\ jobs'[i].ipa # None => <<jobs'[i].ipa, "ipa">> \in files'
                        /\ \A d \in jobs'[i].dylibs : <<d, "dylib">> \in files'
        BY DEF JobInputsUploaded
    <2>1. CASE /\ i \in 1..Len(jobs)
               /\ jobs'[i].ipa = jobs[i].ipa /\ jobs'[i].dylibs = jobs[i].dylibs
        BY <2>1, UploadsStay DEF UploadInv, JobInputsUploaded
    <2>2. ASSUME NEW t \in Handlers, Enqueue(t), jobs'[i].ipa = Session(t).ipa,
                 jobs'[i].dylibs = Session(t).dylibs
          PROVE  /\ jobs'[i].ipa # None => <<jobs'[i].ipa, "ipa">> \in files'
                 /\ \A d \in jobs'[i].dylibs : <<d, "dylib">> \in files'
        <3>1. handler[t].ptr \in Objects
            BY <1>t, <2>2 DEF Enqueue, At, Stage
        <3>2. Refers(Session(t))
            BY <3>1 DEF UploadInv, Session
        <3> QED
            BY <2>2, <3>2, UploadsStay DEF Refers
    <2> QED
        BY JobsStep, <2>1, <2>2
<1> QED
    BY <1>1, <1>2, <1>3 DEF UploadInv

\* JobInputsUploaded: a job's IPA and dylibs were downloaded whole, whatever
\* downloads fail, run or end while it is created.
THEOREM JobInputsAreUploaded == BotSpec => []JobInputsUploaded
<1>1. BotInit => Types /\ UploadInv
    BY TypesInit, UploadInit
<1>2. Types /\ UploadInv /\ [BotNext]_vars => (Types /\ UploadInv)'
    BY TypesStep, UploadStep
<1>3. UploadInv => JobInputsUploaded
    BY DEF UploadInv
<1> QED
    BY <1>1, <1>2, <1>3, PTL DEF BotSpec

LEMMA PromptInit == BotInit => PromptInv
<1> SUFFICES ASSUME BotInit PROVE PromptInv
    OBVIOUS
<1>1. \A p \in Objects : Asks(heap[p])
    BY DEF BotInit, Asks, Blank
<1>2. \A t \in Handlers : handler[t].op = "none"
    BY DEF BotInit, Waiting
<1> QED
    BY <1>1, <1>2 DEF PromptInv, At

\* A P12 or an IPA that a held session has is not lost, at most replaced.
LEMMA HeldFieldsStay ==
    ASSUME Types, [BotNext]_vars, NEW p \in Objects, NEW t \in Handlers, handler'[t].ptr = p
    PROVE  /\ heap[p].p12 # None => heap'[p].p12 # None
           /\ heap[p].ipa # None => heap'[p].ipa # None
<1>t. /\ heap \in [Objects -> Sessions] /\ None \notin Docs
      /\ \A u \in Handlers : handler[u] \in HandlerStates /\ Stage(handler[u])
    BY BotAssumption DEF Types, HeapTypes, HandlerTypes
<1>1. ASSUME NEW u \in Handlers, WriteField(u), heap'[p] = Written(handler[u], heap[p])
      PROVE  /\ heap[p].p12 # None => heap'[p].p12 # None
             /\ heap[p].ipa # None => heap'[p].ipa # None
    <2>1. /\ handler[u].op \in {"p12", "ipa", "dylib", "select"}
          /\ handler[u] \in HandlerStates /\ heap[p] \in Sessions
        BY <1>1, <1>t DEF WriteField
    <2>2. handler[u].op \in {"p12", "ipa"} => handler[u].arg # None
        BY <1>t DEF Stage, Uploads
    <2> QED
        BY <1>1, <2>1, <2>2, WrittenFields
<1>2. ASSUME NEW n, heap'[p] = [heap[p] EXCEPT !.state = n]
      PROVE  heap'[p].p12 = heap[p].p12 /\ heap'[p].ipa = heap[p].ipa
    BY <1>2, <1>t DEF Sessions
<1> QED
    BY <1>1, <1>2, HeapStep DEF Changed

LEMMA PromptStep == Types /\ PromptInv /\ [BotNext]_vars => PromptInv'
<1> SUFFICES ASSUME Types, PromptInv, [BotNext]_vars PROVE PromptInv'
    OBVIOUS
<1>t. /\ heap \in [Objects -> Sessions] /\ handler \in [Handlers -> HandlerStates]
      /\ \A t \in Handlers : handler[t] \in HandlerStates /\ Stage(handler[t])
      /\ None \notin Docs
    BY BotAssumption DEF Types, HeapTypes, HandlerTypes
<1>1. ASSUME NEW p \in Objects PROVE Asks(heap[p])'
    <2>1. Asks(heap[p]) /\ heap[p] \in Sessions
        BY <1>t DEF PromptInv
    <2>2. CASE heap'[p] = heap[p]
        BY <2>1, <2>2 DEF Asks
    <2>3. CASE \E s \in {"idle", "selectCert", "certP12"} : heap'[p] = [Blank EXCEPT !.state = s]
        BY <2>3 DEF Asks, Blank
    <2>4. ASSUME NEW t \in Handlers, handler[t].ptr = p, WriteField(t),
                 heap'[p] = Written(handler[t], heap[p])
          PROVE  Asks(heap[p])'
        <3>1. handler[t].op \in {"p12", "ipa", "dylib", "select"}
            BY <2>4 DEF WriteField
        <3>2. handler[t].op \in {"p12", "ipa"} => handler[t].arg # None
            BY <1>t DEF Stage, Uploads
        <3>3. handler[t] \in HandlerStates
            BY <1>t
        <3>4. /\ heap'[p].state = heap[p].state
              /\ heap'[p].p12 = heap[p].p12 \/ heap'[p].p12 # None
              /\ heap'[p].ipa = heap[p].ipa \/ heap'[p].ipa # None
            <4> DEFINE s == Written(handler[t], heap[p])
            <4>1. /\ s.state = heap[p].state
                  /\ s.p12 = (IF handler[t].op = "p12" THEN handler[t].arg ELSE heap[p].p12)
                  /\ s.ipa = (IF handler[t].op = "ipa" THEN handler[t].arg ELSE heap[p].ipa)
                BY <2>1, <3>1, <3>3, WrittenFields
            <4> HIDE DEF s
            <4> QED
                BY <2>4, <3>2, <4>1 DEF s
        <3> QED
            BY <2>1, <3>4 DEF Asks
    <2>5. ASSUME NEW t \in Handlers, handler[t].ptr = p, SetSession(t),
                 heap'[p] = [heap[p] EXCEPT !.state = NextState(handler[t], @)]
          PROVE  Asks(heap[p])'
        <3> DEFINE n == NextState(handler[t], heap[p].state)
        <3>1. heap'[p].p12 = heap[p].p12 /\ heap'[p].ipa = heap[p].ipa /\ heap'[p].state = n
            BY <2>1, <2>5 DEF Sessions
        <3>2. /\ handler[t].op \in {"p12", "ipa"} => handler[t].pc = "wrote"
              /\ handler[t].op = "certpass" => handler[t].pc = "got"
            BY <1>t, <2>5 DEF SetSession, Stage
        <3>3. /\ handler[t].op \in {"p12", "certpass"} => heap[p].p12 # None
              /\ handler[t].op = "ipa" => heap[p].ipa # None
            BY <2>5, <3>2 DEF PromptInv, At, Session
        <3>4. /\ n \in {"certPassword", "certProvision"} =>
                    handler[t].op \in {"p12", "certpass"} \/ n = heap[p].state
              /\ n = "passwordPrompt" => handler[t].op = "ipa"
            BY <1>t DEF NextState, Stage
        <3> HIDE DEF n
        <3> QED
            BY <2>1, <3>1, <3>3, <3>4 DEF Asks
    <2> QED
        BY HeapStep, <2>2, <2>3, <2>4, <2>5 DEF Changed
<1>2. ASSUME NEW t \in Handlers
      PROVE  /\ At(t, "p12", "wrote")' \/ At(t, "certpass", "got")' => Session(t)'.p12 # None
             /\ At(t, "ipa", "wrote")' => Session(t)'.ipa # None
    <2>1. CASE handler'[t] = handler[t]
        <3> SUFFICES ASSUME handler[t].pc \in {"got", "wrote"}
                     PROVE  /\ Session(t).p12 # None => Session(t)'.p12 # None
                            /\ Session(t).ipa # None => Session(t)'.ipa # None
            BY <2>1 DEF PromptInv, At
        <3>1. handler[t].ptr \in Objects
            BY <1>t DEF Stage
        <3> QED
            BY <2>1, <3>1, HeldFieldsStay DEF Session
    <2>2. CASE Download(t)
        <3>1. handler'[t] = [handler[t] EXCEPT !.pc = "got", !.ptr = Get]
            BY <1>t, <2>2 DEF Download
        <3>2. handler'[t].pc = "got" /\ handler'[t].op = handler[t].op
            BY <1>t, <3>1 DEF HandlerStates
        <3>3. handler[t].op \in Uploads
            BY <1>t, <2>2 DEF Download, Stage
        <3> QED
            BY <3>2, <3>3 DEF At, Uploads
    <2>3. CASE GetSession(t)
        <3>1. handler[t].op \in {"text", "jobpass"}
            BY <1>t, <2>3 DEF GetSession, Stage
        <3>2. handler'[t].op = handler[t].op
            BY <1>t, <2>3 DEF GetSession, HandlerStates
        <3> QED
            BY <3>1, <3>2 DEF At
    <2>4. CASE WriteField(t)
        <3>1. handler'[t] = [handler[t] EXCEPT !.pc = "wrote"]
            BY <1>t, <2>4 DEF WriteField, MoveTo
        <3>2. /\ handler'[t].pc = "wrote" /\ handler'[t].op = handler[t].op
              /\ handler'[t].ptr = handler[t].ptr
            BY <1>t, <3>1 DEF HandlerStates
        <3>3. handler[t].ptr \in Objects /\ handler[t].op \in {"p12", "ipa", "dylib", "select"}
            BY <1>t, <2>4 DEF WriteField, Stage
        <3>4. Session(t)' = Written(handler[t], heap[handler[t].ptr])
            BY <1>t, <2>4, <3>2, <3>3 DEF WriteField, Session
        <3>5. handler[t].op \in {"p12", "ipa"} => handler[t].arg # None
            BY <1>t DEF Stage, Uploads
        <3>6. /\ handler[t].op = "p12" => Session(t)'.p12 # None
              /\ handler[t].op = "ipa" => Session(t)'.ipa # None
            <4>1. handler[t] \in HandlerStates /\ heap[handler[t].ptr] \in Sessions
                BY <1>t, <3>3
            <4> QED
                BY <3>3, <3>4, <3>5, <4>1, WrittenFields
        <3> QED
            BY <3>2, <3>6 DEF At
    <2>5. CASE KeepSessionPassword(t)
        <3>1. /\ store \in Objects /\ heap' = heap
              /\ <<heap[store].p12, "p12">> \in files
              /\ handler'[t] = [handler[t] EXCEPT !.pc = "got", !.ptr = store]
            BY <1>t, <2>5 DEF KeepSessionPassword, HasP12, Types, HeapTypes
        <3>2. handler'[t].op = "certpass" /\ handler'[t].ptr = store
            BY <1>t, <2>5, <3>1 DEF KeepSessionPassword, At, HandlerStates
        <3>3. heap[store].p12 \in Docs
            BY <3>1 DEF Types, RestTypes
        <3>4. Session(t)'.p12 # None
            BY <1>t, <3>1, <3>2, <3>3 DEF Session
        <3> QED
            BY <3>2, <3>4 DEF At
    <2> QED
        BY Approaches, <2>1, <2>2, <2>3, <2>4, <2>5 DEF At
<1> QED
    BY <1>1, <1>2 DEF PromptInv

\* PromptsMakeSense: the bot asks for a P12's password or profile, or for a
\* job's password, only in a session that holds the P12 or the IPA, though
\* handlers write sessions that another dialogue has replaced.
THEOREM PromptsAlwaysMakeSense == BotSpec => []PromptsMakeSense
<1>1. BotInit => Types /\ PromptInv
    BY TypesInit, PromptInit
<1>2. Types /\ PromptInv /\ [BotNext]_vars => (Types /\ PromptInv)'
    BY TypesStep, PromptStep
<1>3. Types /\ PromptInv => PromptsMakeSense
    BY DEF Types, HeapTypes, PromptInv, Asks, PromptsMakeSense
<1> QED
    BY <1>1, <1>2, <1>3, PTL DEF BotSpec

-----------------------------------------------------------------------------
(* One job per claimed key                                                 *)

\* A handler claims by its confirmation alone, and enqueueing ends the claim.
LEMMA ClaimingStep ==
    ASSUME Types, [BotNext]_vars, NEW t \in Handlers, Claiming(t)'
    PROVE  \/ /\ Claiming(t) /\ ~Enqueue(t)
              /\ handler'[t].arg = handler[t].arg /\ handler'[t].ptr = handler[t].ptr
           \/ Starts(t, handler'[t].arg) /\ handler'[t].ptr = Get
<1> DEFINE Goal == \/ /\ Claiming(t) /\ ~Enqueue(t)
                      /\ handler'[t].arg = handler[t].arg /\ handler'[t].ptr = handler[t].ptr
                   \/ Starts(t, handler'[t].arg) /\ handler'[t].ptr = Get
<1>t. /\ handler \in [Handlers -> HandlerStates]
      /\ \A u \in Handlers : handler[u] \in HandlerStates
    BY DEF Types, HandlerTypes
<1>c. handler'[t].op = "confirm" /\ handler'[t].pc \in {"exists", "enqueue"}
    BY DEF Claiming
<1>e. ~Enqueue(t)
    <2>1. ASSUME Enqueue(t) PROVE handler'[t].pc \in {"clear", "get token"}
        BY <1>t, <2>1 DEF Enqueue, HandlerStates
    <2> QED
        BY <1>c, <2>1
<1>s. ASSUME handler'[t] = handler[t] PROVE Goal
    BY <1>c, <1>e, <1>s DEF Claiming
<1>r. ASSUME NEW u \in Handlers, Return(u) PROVE Goal
    BY <1>c, <1>r, <1>s, <1>t DEF Return, Waiting
\* A handler that starts or moves on and is not claiming.
<1>m. ASSUME NEW u \in Handlers, NEW h, handler' = [handler EXCEPT ![u] = h],
             h.op # "confirm" \/ h.pc \notin {"exists", "enqueue"}
      PROVE  Goal
    BY <1>c, <1>m, <1>s, <1>t
<1>1. ASSUME Clear \/ NewJob \/ StartCertCreate \/ UNCHANGED vars \/ PasswordLapses
             \/ (\E k \in dedupe : DedupeLapses(k))
             \/ (\E i \in 1..Len(jobs) : WorkerOpens(i))
      PROVE  Goal
    BY <1>1, <1>s DEF Clear, NewJob, StartCertCreate, StartDialogue, Quick, vars,
       PasswordLapses, DedupeLapses, WorkerOpens
<1>2. ASSUME NEW u \in Handlers, Dispatch(u) PROVE Goal
    <2>1. CASE ConfirmDuplicate(u)
        BY <1>1, <2>1 DEF ConfirmDuplicate
    <2>2. ASSUME NEW c \in CertSets, PressCert(u, c) PROVE Goal
        BY <1>m, <2>2 DEF PressCert, Begin, Waiting
    <2>3. ASSUME NEW s \in {"setOption", "uploadDylib"}, PressOption(u, s) PROVE Goal
        BY <1>m, <2>3 DEF PressOption, Begin, Waiting
    <2>4. ASSUME NEW d \in Docs, SendDoc(u, d) PROVE Goal
        <3> DEFINE h == [Waiting EXCEPT !.op = TakesDoc[StateOf], !.pc = "download", !.arg = d]
        <3>1. h.pc = "download"
            BY DEF Waiting
        <3>2. handler' = [handler EXCEPT ![u] = h]
            BY <2>4 DEF SendDoc, Begin
        <3> HIDE DEF h
        <3> QED
            BY <1>m, <3>1, <3>2
    <2>5. ASSUME NEW w \in Passwords, SendPassword(u, w) PROVE Goal
        <3> DEFINE H(o, c) == [Waiting EXCEPT !.op = o, !.pc = c, !.pass = w]
        <3>1. H("certpass", "read").op = "certpass" /\ H("jobpass", "keep").op = "jobpass"
            BY DEF Waiting
        <3>2. \/ handler' = [handler EXCEPT ![u] = H("certpass", "read")]
              \/ handler' = [handler EXCEPT ![u] = H("jobpass", "keep")]
            BY <2>5 DEF SendPassword, Begin
        <3> HIDE DEF H
        <3> QED
            BY <1>m, <3>1, <3>2
    <2>6. CASE SendOption(u)
        BY <1>m, <2>6 DEF SendOption, Begin, Waiting
    <2>7. CASE Confirm(u) \/ ConfirmUnchecked(u)
        <3>1. PICK c \in Claims : Starts(u, c)
            BY <2>7, ConfirmStarts
        <3> DEFINE h == [Waiting EXCEPT !.op = "confirm", !.ptr = Get, !.arg = c,
                         !.pc = IF HasMasterKey THEN "enqueue" ELSE "exists"]
        <3>2. h.arg = c /\ h.ptr = Get
            BY DEF Waiting
        <3>3. handler' = [handler EXCEPT ![u] = h]
            BY <3>1 DEF Starts, StartConfirm, Begin
        <3> HIDE DEF h
        <3> QED
            BY <1>s, <1>t, <3>1, <3>2, <3>3
    <2> QED
        BY <1>2, <2>1, <2>2, <2>3, <2>4, <2>5, <2>6, <2>7 DEF Dispatch
<1>3. ASSUME NEW u \in Handlers, Step(u) PROVE Goal
    <2>1. CASE \/ DownloadFails(u) \/ SetSession(u) \/ ReadP12Fails(u) \/ ReadForCreateFails(u)
               \/ CreateCertFails(u) \/ Tidy(u) \/ EnqueueFails(u) \/ EndConfirm(u)
        BY <1>r, <2>1 DEF DownloadFails, SetSession, ReadP12Fails, ReadForCreateFails,
           CreateCertFails, Tidy, EnqueueFails, EndConfirm, ClearAndReturn
    <2>2. CASE \/ KeepJobPassword(u) \/ CreateCert(u) \/ HandOver(u) \/ WriteField(u)
        <3>1. PICK c \in {"get", "tidy", "clear", "wrote"} : MoveTo(u, c)
            BY <2>2 DEF KeepJobPassword, CreateCert, HandOver, WriteField
        <3> QED
            BY <1>c, <1>s, <1>t, <3>1 DEF MoveTo, HandlerStates
    <2>3. CASE ReadForCreate(u) \/ TakePassword(u) \/ Enqueue(u)
        <3>1. \A v \in Handlers : v # u => handler'[v] = handler[v]
            BY <1>t, <2>3 DEF ReadForCreate, TakePassword, Enqueue
        <3>2. handler'[u].pc \in {"create", "token", "clear", "get token"}
            <4>1. CASE ReadForCreate(u)
                BY <1>t, <4>1 DEF ReadForCreate, HandlerStates
            <4>2. CASE TakePassword(u)
                BY <1>t, <4>2 DEF TakePassword, HandlerStates
            <4>3. CASE Enqueue(u)
                BY <1>t, <4>3 DEF Enqueue, HandlerStates
            <4> QED
                BY <2>3, <4>1, <4>2, <4>3
        <3> QED
            BY <1>c, <1>s, <3>1, <3>2
    <2>4. CASE CheckPassword(u)
        <3>1. CASE Return(u)
            BY <1>r, <3>1
        <3>2. CASE MoveTo(u, "enqueue") /\ u = t
            <4>1. /\ handler'[t] = [handler[t] EXCEPT !.pc = "enqueue"]
                  /\ handler[t].op = "confirm" /\ handler[t].pc = "exists"
                BY <1>t, <2>4, <3>2 DEF MoveTo, CheckPassword, At
            <4>2. handler'[t].arg = handler[t].arg /\ handler'[t].ptr = handler[t].ptr
                BY <1>t, <4>1 DEF HandlerStates
            <4> QED
                BY <1>e, <4>1, <4>2 DEF Claiming
        <3>3. CASE MoveTo(u, "enqueue") /\ u # t
            BY <1>s, <1>t, <3>3 DEF MoveTo
        <3> QED
            BY <2>4, <3>1, <3>2, <3>3 DEF CheckPassword, ClearAndReturn
    <2>5. CASE Download(u) \/ GetSession(u) \/ KeepSessionPassword(u)
        <3>1. \A v \in Handlers : v # u => handler'[v] = handler[v]
            BY <1>t, <2>5 DEF Download, GetSession, KeepSessionPassword
        <3>2. handler'[u].pc = "got"
            <4>1. CASE Download(u)
                BY <1>t, <4>1 DEF Download, HandlerStates
            <4>2. CASE GetSession(u)
                BY <1>t, <4>2 DEF GetSession, HandlerStates
            <4>3. CASE KeepSessionPassword(u)
                BY <1>t, <4>3 DEF KeepSessionPassword, HandlerStates
            <4> QED
                BY <2>5, <4>1, <4>2, <4>3
        <3> QED
            BY <1>c, <1>s, <3>1, <3>2
    <2> QED
        BY <1>3, <2>1, <2>2, <2>3, <2>4, <2>5 DEF Step
<1>4. ASSUME Restart PROVE Goal
    BY <1>4, <1>c DEF Restart, Waiting
<1> QED
    BY <1>1, <1>2, <1>3, <1>4 DEF BotNext

\* A key once set stays spent: it is in dedupe or it has expired.
LEMMA SpentStays ==
    ASSUME Types, [BotNext]_vars, NEW c, Spent(c, dedupe, lapsed, faults)
    PROVE  Spent(c, dedupe', lapsed', faults')
<1> DEFINE Goal == Spent(c, dedupe', lapsed', faults')
<1>t. faults \in Nat
    BY DEF Types, RestTypes
<1>1. ASSUME NEW t \in Handlers, Confirm(t) \/ ConfirmUnchecked(t) PROVE Goal
    <2>1. /\ dedupe \subseteq dedupe' /\ lapsed' = lapsed
          /\ faults' = faults \/ faults' = faults + 1
        BY <1>1 DEF Confirm, ConfirmUnchecked, StartConfirm
    <2> QED
        BY <1>t, <2>1 DEF Spent
<1>2. ASSUME NEW k \in dedupe, DedupeLapses(k) PROVE Goal
    BY <1>2 DEF DedupeLapses, Spent, otherVars
<1>3. ASSUME NEW t \in Handlers, Dispatch(t), ~Confirm(t), ~ConfirmUnchecked(t)
      PROVE  UNCHANGED <<dedupe, lapsed, faults>>
    BY <1>3 DEF Dispatch, PressCert, PressOption, SendDoc, SendPassword, SendOption,
       ConfirmDuplicate, Clear, redisVars, otherVars
<1>4. ASSUME NEW t \in Handlers, Step(t) PROVE UNCHANGED <<dedupe, lapsed, faults>>
    <2>1. CASE DownloadFails(t) \/ Download(t) \/ GetSession(t) \/ WriteField(t) \/ SetSession(t)
        BY <2>1 DEF DownloadFails, Download, GetSession, WriteField, SetSession, redisVars,
           otherVars
    <2>2. CASE \/ ReadP12Fails(t) \/ KeepSessionPassword(t) \/ KeepJobPassword(t)
               \/ ReadForCreate(t) \/ ReadForCreateFails(t)
        BY <2>2 DEF ReadP12Fails, KeepSessionPassword, KeepJobPassword, ReadForCreate,
           ReadForCreateFails, redisVars, otherVars
    <2>3. CASE CreateCert(t) \/ CreateCertFails(t) \/ Tidy(t) \/ CheckPassword(t)
        BY <2>3 DEF CreateCert, CreateCertFails, Tidy, CheckPassword, redisVars, otherVars
    <2>4. CASE Enqueue(t) \/ EnqueueFails(t) \/ TakePassword(t) \/ HandOver(t) \/ EndConfirm(t)
        BY <2>4 DEF Enqueue, EnqueueFails, TakePassword, HandOver, EndConfirm, redisVars,
           otherVars
    <2> QED
        BY <1>4, <2>1, <2>2, <2>3, <2>4 DEF Step
<1>5. ASSUME Clear \/ NewJob \/ StartCertCreate \/ PasswordLapses \/ Restart
             \/ (\E i \in 1..Len(jobs) : WorkerOpens(i)) \/ UNCHANGED vars
      PROVE  UNCHANGED <<dedupe, lapsed, faults>>
    BY <1>5 DEF Clear, NewJob, StartCertCreate, StartDialogue, PasswordLapses, Restart,
       WorkerOpens, redisVars, otherVars, vars
<1>6. UNCHANGED <<dedupe, lapsed, faults>> => Goal
    BY DEF Spent
<1> QED
    BY <1>1, <1>2, <1>3, <1>4, <1>5, <1>6 DEF BotNext

\* SET NX succeeds only for a key that is not there, and failures are counted,
\* so the claim is new.
LEMMA ClaimIsNew ==
    ASSUME Types, NEW t \in Handlers, NEW c, Starts(t, c)
    PROVE  ~Spent(c, dedupe, lapsed, faults) /\ Spent(c, dedupe', lapsed', faults')
<1> DEFINE k == KeyOf(heap[Get])
<1>1. ASSUME Confirm(t), c = Claim(k)
      PROVE  ~Spent(c, dedupe, lapsed, faults) /\ Spent(c, dedupe', lapsed', faults')
    <2>1. k \notin dedupe /\ dedupe' = dedupe \union {k} /\ lapsed' = lapsed
        BY <1>1 DEF Confirm, StartConfirm
    <2>2. c.failure = 0 /\ c.key = k /\ c.window = IF k \in lapsed THEN 2 ELSE 1
        BY <1>1 DEF Claim
    <2> HIDE DEF k
    <2> QED
        BY <2>1, <2>2 DEF Spent
<1>2. ASSUME ConfirmUnchecked(t), c = NoClaim(faults + 1)
      PROVE  ~Spent(c, dedupe, lapsed, faults) /\ Spent(c, dedupe', lapsed', faults')
    <2>1. faults \in Nat /\ faults' = faults + 1
        BY <1>2 DEF ConfirmUnchecked, Types, RestTypes
    <2>2. c.failure = faults + 1
        BY <1>2 DEF NoClaim
    <2> QED
        BY <1>2, <2>1, <2>2 DEF Spent
<1> QED
    BY <1>1, <1>2 DEF Starts

LEMMA ClaimInit == BotInit => ClaimInv
<1> SUFFICES ASSUME BotInit PROVE ClaimInv
    OBVIOUS
<1>1. \A t \in Handlers : ~Claiming(t)
    BY DEF BotInit, Waiting, Claiming
<1>2. Len(jobs) = 0
    BY DEF BotInit
<1> QED
    BY <1>1, <1>2 DEF ClaimInv

LEMMA ClaimStep == Types /\ ClaimInv /\ [BotNext]_vars => ClaimInv'
<1> SUFFICES ASSUME Types, ClaimInv, [BotNext]_vars PROVE ClaimInv'
    OBVIOUS
<1>t. /\ handler \in [Handlers -> HandlerStates] /\ Len(jobs) \in Nat
      /\ \A t \in Handlers : Enqueue(t) => Claiming(t)
    <2>1. handler \in [Handlers -> HandlerStates] /\ Len(jobs) \in Nat
        BY DEF Types, HandlerTypes, RestTypes
    <2>2. ASSUME NEW t \in Handlers, Enqueue(t) PROVE Claiming(t)
        BY <2>2 DEF Enqueue, At, Claiming
    <2> QED
        BY <2>1, <2>2
<1>i. /\ \A t \in Handlers : Claiming(t) => Spent(handler[t].arg, dedupe, lapsed, faults)
      /\ \A i \in 1..Len(jobs) : Spent(jobs[i].claim, dedupe, lapsed, faults)
      /\ \A t, u \in Handlers :
            Claiming(t) /\ Claiming(u) /\ handler[t].arg = handler[u].arg => t = u
      /\ \A t \in Handlers, i \in 1..Len(jobs) : Claiming(t) => handler[t].arg # jobs[i].claim
      /\ \A i, j \in 1..Len(jobs) : i # j => jobs[i].claim # jobs[j].claim
    BY DEF ClaimInv
\* A claim that is held after the step was held before it, or is new.
<1>c. ASSUME NEW t \in Handlers, Claiming(t)'
      PROVE  \/ Claiming(t) /\ ~Enqueue(t) /\ handler'[t].arg = handler[t].arg
             \/ /\ Starts(t, handler'[t].arg)
                /\ ~Spent(handler'[t].arg, dedupe, lapsed, faults)
                /\ Spent(handler'[t].arg, dedupe', lapsed', faults')
    BY <1>c, ClaimingStep, ClaimIsNew
\* So is that of a job, which a handler held.
<1>j. ASSUME NEW i \in 1..Len(jobs')
      PROVE  \/ i \in 1..Len(jobs) /\ jobs'[i].claim = jobs[i].claim
             \/ /\ i = Len(jobs) + 1
                /\ \E t \in Handlers : Enqueue(t) /\ jobs'[i].claim = handler[t].arg
    BY JobsStep
<1>js. ASSUME NEW i \in 1..Len(jobs') PROVE Spent(jobs'[i].claim, dedupe, lapsed, faults)
    BY <1>i, <1>j, <1>t
<1>1. ASSUME NEW t \in Handlers, Claiming(t)'
      PROVE  Spent(handler'[t].arg, dedupe', lapsed', faults')
    BY <1>1, <1>c, <1>i, SpentStays
<1>2. ASSUME NEW i \in 1..Len(jobs') PROVE Spent(jobs'[i].claim, dedupe', lapsed', faults')
    BY <1>js, SpentStays
<1>3. ASSUME NEW t \in Handlers, NEW u \in Handlers, Claiming(t)', Claiming(u)',
             handler'[t].arg = handler'[u].arg
      PROVE  t = u
    <2>1. CASE Starts(t, handler'[t].arg) /\ Starts(u, handler'[u].arg)
        <3>1. handler'[t] # handler[t] /\ handler'[u] # handler[u]
            <4>1. handler[t] = Waiting /\ handler[u] = Waiting
                BY <2>1 DEF Starts, StartConfirm, Begin
            <4>2. handler'[t].op = "confirm" /\ handler'[u].op = "confirm"
                BY <1>3 DEF Claiming
            <4>3. Waiting.op # "confirm"
                BY DEF Waiting
            <4> QED
                BY <4>1, <4>2, <4>3
        <3>2. \A v \in Handlers : v # t => handler'[v] = handler[v]
            BY <1>t, <2>1 DEF Starts, StartConfirm, Begin
        <3> QED
            BY <3>1, <3>2
    <2> QED
        BY <1>3, <1>c, <1>i, <2>1
<1>4. ASSUME NEW t \in Handlers, NEW i \in 1..Len(jobs'), Claiming(t)'
      PROVE  handler'[t].arg # jobs'[i].claim
    BY <1>4, <1>c, <1>i, <1>j, <1>js, <1>t
<1>5. ASSUME NEW i \in 1..Len(jobs'), NEW j \in 1..Len(jobs'), i # j
      PROVE  jobs'[i].claim # jobs'[j].claim
    BY <1>5, <1>i, <1>j, <1>t
<1> QED
    BY <1>1, <1>2, <1>3, <1>4, <1>5 DEF ClaimInv

\* A handler moves alone.
LEMMA StepActs ==
    ASSUME Types, NEW t \in Handlers, Step(t)
    PROVE  /\ disturbed' = disturbed /\ t \in Running
           /\ \A u \in Handlers : u # t => handler'[u] = handler[u]
<1>t. /\ handler \in [Handlers -> HandlerStates]
      /\ \A u \in Handlers : handler[u] \in HandlerStates /\ Stage(handler[u])
    BY DEF Types, HandlerTypes
<1>1. disturbed' = disturbed
    BY DEF Step, DownloadFails, Download, GetSession, WriteField, SetSession,
       ReadP12Fails, KeepSessionPassword, KeepJobPassword, ReadForCreate, ReadForCreateFails,
       CreateCert, CreateCertFails, Tidy, CheckPassword, Enqueue, EnqueueFails,
       TakePassword, HandOver, EndConfirm, updateVars
<1>2. handler[t].op # "none"
    <2>1. CASE DownloadFails(t) \/ Download(t) \/ GetSession(t) \/ WriteField(t) \/ SetSession(t)
        BY <1>t, <2>1 DEF DownloadFails, Download, GetSession, WriteField, SetSession, Stage,
           Uploads
    <2>2. CASE ~(DownloadFails(t) \/ Download(t) \/ GetSession(t) \/ WriteField(t) \/ SetSession(t))
        BY <2>2 DEF Step, ReadP12Fails, KeepSessionPassword, KeepJobPassword, ReadForCreate,
           ReadForCreateFails, CreateCert, CreateCertFails, Tidy, CheckPassword, Enqueue,
           EnqueueFails, TakePassword, HandOver, EndConfirm, At
    <2> QED
        BY <2>1, <2>2
<1>3. \E h : handler' = [handler EXCEPT ![t] = h]
    <2>1. CASE Return(t) \/ \E c : MoveTo(t, c)
        BY <2>1 DEF Return, MoveTo
    <2>2. CASE ~(Return(t) \/ \E c : MoveTo(t, c))
        BY <2>2 DEF Step, DownloadFails, Download, GetSession, WriteField, SetSession,
           ReadP12Fails, KeepSessionPassword, KeepJobPassword, ReadForCreate,
           ReadForCreateFails, CreateCert, CreateCertFails, Tidy, CheckPassword, Enqueue,
           EnqueueFails, TakePassword, HandOver, EndConfirm, ClearAndReturn
    <2> QED
        BY <2>1, <2>2
<1> QED
    BY <1>t, <1>1, <1>2, <1>3 DEF Running

\* Handlers that have not overlapped follow one another.
LEMMA OneRuns ==
    ASSUME Types, [BotNext]_vars, ~disturbed'
    PROVE  /\ ~disturbed
           /\ \/ \A t \in Handlers : t \in Running' => t \in Running
              \/ Running = {} /\ \A t, u \in Running' : t = u
<1> DEFINE Less == \A t \in Handlers : t \in Running' => t \in Running
           Goal == ~disturbed /\ (Less \/ (Running = {} /\ \A t, u \in Running' : t = u))
<1>t. /\ handler \in [Handlers -> HandlerStates]
      /\ \A u \in Handlers : handler[u] \in HandlerStates
      /\ disturbed \in BOOLEAN
    BY DEF Types, HandlerTypes, RestTypes
<1>s. ASSUME handler' = handler, disturbed' = disturbed \/ Update PROVE Goal
    BY <1>s, <1>t DEF Running, Update
<1>b. ASSUME NEW t \in Handlers, NEW h, Begin(t, h) PROVE Goal
    <2>1. ~disturbed /\ Running = {}
        BY <1>b, <1>t DEF Begin, Update
    <2>2. \A u \in Handlers : u # t => handler'[u] = handler[u]
        BY <1>b, <1>t DEF Begin
    <2>3. \A u \in Running' : u = t
        BY <2>1, <2>2 DEF Running
    <2> QED
        BY <2>1, <2>3
<1>1. ASSUME Clear \/ NewJob \/ StartCertCreate \/ UNCHANGED vars \/ PasswordLapses
             \/ (\E k \in dedupe : DedupeLapses(k))
             \/ (\E i \in 1..Len(jobs) : WorkerOpens(i))
      PROVE  Goal
    BY <1>1, <1>s DEF Clear, NewJob, StartCertCreate, StartDialogue, Quick, vars,
       PasswordLapses, DedupeLapses, WorkerOpens, updateVars
<1>2. ASSUME NEW t \in Handlers, Dispatch(t) PROVE Goal
    <2>1. ConfirmDuplicate(t) \/ \E h : Begin(t, h)
        BY <1>2 DEF Dispatch, PressCert, PressOption, SendDoc, SendPassword, SendOption,
           Confirm, ConfirmUnchecked, StartConfirm
    <2> QED
        BY <1>1, <1>b, <2>1 DEF ConfirmDuplicate
<1>3. ASSUME NEW t \in Handlers, Step(t) PROVE Goal
    <2>1. Less
        BY <1>3, StepActs DEF Running
    <2> QED
        BY <1>3, <2>1, StepActs
<1>4. ~Restart
    BY DEF Restart
<1> QED
    BY <1>1, <1>2, <1>3, <1>4 DEF BotNext

\* While a handler runs alone, nobody changes the session that it holds.
LEMMA HeldStays ==
    ASSUME Types, [BotNext]_vars, \A t, u \in Running : t = u,
           NEW t \in Handlers, handler[t].op \in {"prov", "confirm"},
           handler[t].ptr \in Objects, handler'[t].ptr = handler[t].ptr
    PROVE  /\ heap'[handler[t].ptr].cert = heap[handler[t].ptr].cert
           /\ heap'[handler[t].ptr].ipa = heap[handler[t].ptr].ipa
           /\ heap'[handler[t].ptr].p12 = heap[handler[t].ptr].p12
<1> DEFINE p == handler[t].ptr
<1>t. heap[p] \in Sessions /\ t \in Running
    BY DEF Types, HeapTypes, Running
<1>1. ASSUME NEW u \in Handlers, WriteField(u) PROVE FALSE
    <2>1. u \in Running /\ handler[u].op \in {"p12", "ipa", "dylib", "select"}
        BY <1>1 DEF WriteField, Running
    <2> QED
        BY <1>t, <2>1
<1>2. ASSUME NEW n, heap'[p] = [heap[p] EXCEPT !.state = n]
      PROVE  heap'[p].cert = heap[p].cert /\ heap'[p].ipa = heap[p].ipa
             /\ heap'[p].p12 = heap[p].p12
    BY <1>2, <1>t DEF Sessions
<1> QED
    BY <1>1, <1>2, HeapStep DEF Changed

LEMMA AloneInit == BotInit => AloneInv
<1> SUFFICES ASSUME BotInit PROVE AloneInv
    OBVIOUS
<1>1. Running = {} /\ \A t \in Handlers : ~Claiming(t)
    BY DEF BotInit, Waiting, Claiming, Running
<1>2. Len(jobs) = 0
    BY DEF BotInit
<1> QED
    BY <1>1, <1>2 DEF AloneInv

LEMMA AloneStep == Types /\ AloneInv /\ [BotNext]_vars => AloneInv'
<1> SUFFICES ASSUME Types, AloneInv, [BotNext]_vars, ~disturbed'
             PROVE  /\ \A t, u \in Running' : t = u
                    /\ \A t \in Handlers : Claiming(t)' /\ handler'[t].arg.failure = 0 =>
                          KeyOf(Session(t)') = handler'[t].arg.key
                    /\ \A i \in 1..Len(jobs') : Claimed(jobs'[i]) =>
                          jobs'[i].claim.key = KeyOf(jobs'[i])
    BY DEF AloneInv, KeyOf, Claimed
<1>i. /\ ~disturbed /\ \A t, u \in Running : t = u
      /\ \A t \in Handlers : Claiming(t) /\ handler[t].arg.failure = 0 =>
            KeyOf(Session(t)) = handler[t].arg.key
      /\ \A i \in 1..Len(jobs) : Claimed(jobs[i]) => jobs[i].claim.key = KeyOf(jobs[i])
    BY OneRuns DEF AloneInv
<1>1. \A t, u \in Running' : t = u
    BY <1>i, OneRuns DEF Running
<1>2. ASSUME NEW t \in Handlers, Claiming(t)', handler'[t].arg.failure = 0
      PROVE  KeyOf(Session(t)') = handler'[t].arg.key
    <2>1. CASE Claiming(t) /\ handler'[t].arg = handler[t].arg /\ handler'[t].ptr = handler[t].ptr
        <3>1. handler[t].op = "confirm" /\ handler[t].ptr \in Objects
            BY <2>1 DEF Claiming, Types, HandlerTypes, Stage
        <3> QED
            BY <1>2, <1>i, <2>1, <3>1, HeldStays DEF Session, KeyOf
    <2>2. CASE Starts(t, handler'[t].arg) /\ handler'[t].ptr = Get
        <3>1. faults + 1 # 0
            BY DEF Types, RestTypes
        <3>2. handler'[t].arg = Claim(KeyOf(heap[Get])) /\ heap' = heap
            BY <1>2, <2>2, <3>1 DEF Starts, StartConfirm, NoClaim
        <3> QED
            BY <2>2, <3>2 DEF Session, Claim
    <2> QED
        BY <1>2, <2>1, <2>2, ClaimingStep
<1>3. ASSUME NEW i \in 1..Len(jobs'), Claimed(jobs'[i])
      PROVE  jobs'[i].claim.key = KeyOf(jobs'[i])
    <2>1. ASSUME NEW t \in Handlers, Enqueue(t), jobs'[i].cert = Session(t).cert,
                 jobs'[i].ipa = Session(t).ipa, jobs'[i].claim = handler[t].arg
          PROVE  jobs'[i].claim.key = KeyOf(jobs'[i])
        <3>1. Claiming(t)
            BY <2>1 DEF Enqueue, At, Claiming
        <3> QED
            BY <1>3, <1>i, <2>1, <3>1 DEF KeyOf, Claimed
    <2> QED
        BY <1>3, <1>i, <2>1, JobsStep DEF KeyOf, Claimed
<1> QED
    BY <1>1, <1>2, <1>3

\* The jobs made without a claim have different failures to rest on.
LEMMA UnclaimedFew ==
    ASSUME Types, ClaimInv
    PROVE  Cardinality({i \in 1..Len(jobs) : ~Claimed(jobs[i])}) <= faults
<1> DEFINE U == {i \in 1..Len(jobs) : ~Claimed(jobs[i])}
           f == [i \in U |-> jobs[i].claim.failure]
<1>1. faults \in Nat
    BY DEF Types, RestTypes
<1>2. ASSUME NEW i \in U
      PROVE  jobs[i].claim = NoClaim(jobs[i].claim.failure) /\ jobs[i].claim.failure \in 1..faults
    BY <1>2 DEF ClaimInv, Spent, Claimed
<1>3. f \in Injection(U, 1..faults)
    <2>1. f \in [U -> 1..faults]
        BY <1>2
    <2>2. ASSUME NEW i \in U, NEW j \in U, f[i] = f[j] PROVE i = j
        <3>1. jobs[i].claim = jobs[j].claim
            BY <1>2, <2>2
        <3> QED
            BY <3>1 DEF ClaimInv
    <2> QED
        BY <2>1, <2>2 DEF Injection, IsInjective
<1>4. IsFiniteSet(1..faults) /\ Cardinality(1..faults) = faults
    BY <1>1, FS_Interval
<1> HIDE DEF f, U
<1>5. Cardinality(U) <= Cardinality(1..faults)
    BY <1>3, <1>4, FS_Injection
<1> QED
    BY <1>4, <1>5 DEF U

\* OneJobPerKey: two jobs never come from one claim of a dedupe key and, as
\* long as handlers have not overlapped, two jobs of one certificate and IPA
\* come from claims of different windows; jobs that nothing was claimed for are
\* no more than the commands that failed.
THEOREM OneJobPerClaim == BotSpec => []OneJobPerKey
<1>1. BotInit => Types /\ ClaimInv /\ AloneInv
    BY TypesInit, ClaimInit, AloneInit
<1>2. Types /\ ClaimInv /\ AloneInv /\ [BotNext]_vars => (Types /\ ClaimInv /\ AloneInv)'
    BY TypesStep, ClaimStep, AloneStep
<1>3. Types /\ ClaimInv /\ AloneInv => OneJobPerKey
    <2> SUFFICES ASSUME Types, ClaimInv, AloneInv,
                        NEW i \in 1..Len(jobs), NEW j \in 1..Len(jobs), i # j
                 PROVE  /\ jobs[i].claim # jobs[j].claim
                        /\ Claimed(jobs[i]) /\ Claimed(jobs[j]) /\ ~disturbed =>
                              \/ KeyOf(jobs[i]) # KeyOf(jobs[j])
                              \/ jobs[i].claim.window # jobs[j].claim.window
        BY UnclaimedFew DEF OneJobPerKey
    <2>1. jobs[i].claim # jobs[j].claim
        BY DEF ClaimInv
    <2>2. jobs[i] \in JobRecords /\ jobs[j] \in JobRecords
        BY DEF Types, RestTypes
    <2>3. jobs[i].claim \in Claims /\ jobs[j].claim \in Claims
        BY <2>2 DEF JobRecords
    <2>4. \/ jobs[i].claim.key # jobs[j].claim.key
          \/ jobs[i].claim.window # jobs[j].claim.window
          \/ jobs[i].claim.failure # jobs[j].claim.failure
        BY <2>1, <2>3 DEF Claims
    <2>5. ~disturbed => /\ Claimed(jobs[i]) => jobs[i].claim.key = KeyOf(jobs[i])
                        /\ Claimed(jobs[j]) => jobs[j].claim.key = KeyOf(jobs[j])
        BY DEF AloneInv
    <2> QED
        BY <2>1, <2>4, <2>5 DEF Claimed
<1> QED
    BY <1>1, <1>2, <1>3, PTL DEF BotSpec

-----------------------------------------------------------------------------
(* The P12 of a certificate set                                            *)

LEMMA TidyInit == BotInit => TidyInv
<1> SUFFICES ASSUME BotInit PROVE TidyInv
    OBVIOUS
<1>1. \A t \in Handlers : handler[t].op = "none" /\ handler[t].pc = ""
    BY DEF BotInit, Waiting
<1>2. files = {} /\ certs = {}
    BY DEF BotInit
<1> QED
    BY <1>1, <1>2 DEF TidyInv, At, Uploads

\* An update starts nothing that concerns P12s but, with a document that was
\* never sent before, its download.
LEMMA TidyUpdate ==
    ASSUME Types, TidyInv, Update, UNCHANGED <<files, certs>>, sent \subseteq sent',
           \/ handler' = handler
           \/ \E t \in Handlers, h \in HandlerStates :
                 /\ Begin(t, h)
                 /\ \/ h.op \notin Uploads /\ h.pc \notin {"download", "create"}
                    \/ h.pc = "download" /\ h.arg \in sent' \ sent
    PROVE  TidyInv'
<1>t. /\ handler \in [Handlers -> HandlerStates]
      /\ \A t \in Handlers : Stage(handler[t])
      /\ disturbed \in BOOLEAN
    BY DEF Types, HandlerTypes, RestTypes
<1>1. ASSUME NEW t \in Handlers
      PROVE  \/ handler'[t] = handler[t]
             \/ handler'[t].op \notin Uploads /\ handler'[t].pc \notin {"download", "create"}
             \/ handler'[t].pc = "download" /\ handler'[t].arg \in sent' \ sent
    BY <1>t DEF Begin
<1>2. /\ \A t \in Handlers : handler'[t].op \in Uploads => handler'[t].arg \in sent'
      /\ \A t \in Handlers : handler'[t].pc = "create" => handler'[t].file \in sent'
    BY <1>1 DEF TidyInv
<1>3. (\A f \in files' : f[1] \in sent') /\ (\A c \in certs' : c.p12 \in sent')
    BY DEF TidyInv
<1>4. ASSUME ~disturbed'
      PROVE  /\ \A t \in Handlers : handler'[t].pc = "download" =>
                   /\ \A f \in files' : f[1] # handler'[t].arg
                   /\ \A c \in certs' : c.p12 # handler'[t].arg
             /\ \A t \in Handlers : ~At(t, "prov", "create")'
             /\ \A c \in certs' : <<c.p12, "p12">> \notin files'
    <2>1. ~disturbed /\ \A t \in Handlers : handler[t].op = "none"
        BY <1>4, <1>t DEF Update, Running
    <2>2. \A t \in Handlers : handler[t].pc # "download"
        BY <1>t, <2>1 DEF Stage, Uploads
    <2>3. ASSUME NEW t \in Handlers, handler'[t].pc = "download"
          PROVE  /\ \A f \in files' : f[1] # handler'[t].arg
                 /\ \A c \in certs' : c.p12 # handler'[t].arg
        <3>1. handler'[t].arg \notin sent
            BY <1>1, <2>2, <2>3
        <3> QED
            BY <3>1 DEF TidyInv
    <2>4. \A t \in Handlers : ~At(t, "prov", "create")'
        BY <1>1, <2>1 DEF At, Uploads
    <2>5. \A c \in certs : <<c.p12, "p12">> \notin files
        BY <2>1 DEF TidyInv, At
    <2> QED
        BY <2>3, <2>4, <2>5
<1> QED
    BY <1>2, <1>3, <1>4 DEF TidyInv

\* Nor do the steps of handlers that leave incoming/ and the sets alone.
LEMMA TidyElse ==
    ASSUME Types, AloneInv, TidyInv, NEW t \in Handlers, Step(t),
           UNCHANGED <<files, certs, sent>>, handler[t].pc # "tidy",
           handler'[t].op = "none" \/ (handler'[t].op = handler[t].op /\ handler'[t].arg = handler[t].arg)
                                   \/ handler'[t].op = "confirm",
           handler'[t].pc \notin {"download", "create"}
    PROVE  TidyInv'
<1>1. /\ disturbed' = disturbed /\ t \in Running
      /\ \A u \in Handlers : u # t => handler'[u] = handler[u]
    BY StepActs
<1>2. /\ \A u \in Handlers : handler'[u].op \in Uploads => handler'[u].arg \in sent'
      /\ \A u \in Handlers : handler'[u].pc = "create" => handler'[u].file \in sent'
    BY <1>1 DEF TidyInv, Uploads
<1>3. (\A f \in files' : f[1] \in sent') /\ (\A c \in certs' : c.p12 \in sent')
    BY DEF TidyInv
<1>4. ASSUME ~disturbed
      PROVE  /\ \A u \in Handlers : handler'[u].pc = "download" =>
                   /\ \A f \in files' : f[1] # handler'[u].arg
                   /\ \A c \in certs' : c.p12 # handler'[u].arg
             /\ \A u \in Handlers : ~At(u, "prov", "create")'
             /\ \A c \in certs' : <<c.p12, "p12">> \notin files'
    <2>1. \A u \in Handlers : u # t => handler[u].op = "none"
        BY <1>1, <1>4 DEF AloneInv, Running
    <2>2. \A u \in Handlers : ~At(u, "prov", "tidy")
        BY <2>1 DEF At
    <2>3. \A c \in certs : <<c.p12, "p12">> \notin files
        BY <1>4, <2>2 DEF TidyInv
    <2>4. ASSUME NEW u \in Handlers, handler'[u].pc = "download"
          PROVE  /\ \A f \in files' : f[1] # handler'[u].arg
                 /\ \A c \in certs' : c.p12 # handler'[u].arg
        BY <1>1, <1>4, <2>4 DEF TidyInv
    <2>5. \A u \in Handlers : ~At(u, "prov", "create")'
        BY <1>1, <2>1 DEF At
    <2> QED
        BY <2>3, <2>4, <2>5
<1> QED
    BY <1>1, <1>2, <1>3, <1>4 DEF TidyInv

LEMMA TidyDownload ==
    ASSUME Types, AloneInv, TidyInv, NEW t \in Handlers, Download(t)
    PROVE  TidyInv'
<1>t. /\ handler \in [Handlers -> HandlerStates] /\ handler[t] \in HandlerStates
      /\ Stage(handler[t])
    BY DEF Types, HandlerTypes
<1>1. /\ disturbed' = disturbed /\ t \in Running
      /\ \A u \in Handlers : u # t => handler'[u] = handler[u]
    BY StepActs DEF Step
<1>2. /\ handler[t].pc = "download" /\ handler[t].op \in Uploads
      /\ files' = files \union {<<handler[t].arg, handler[t].op>>}
      /\ certs' = certs /\ sent' = sent
    BY <1>t DEF Download, otherVars, Stage
<1>3. handler'[t].op = handler[t].op /\ handler'[t].arg = handler[t].arg /\ handler'[t].pc = "got"
    BY <1>t DEF Download, HandlerStates
<1>4. /\ \A u \in Handlers : handler'[u].op \in Uploads => handler'[u].arg \in sent'
      /\ \A u \in Handlers : handler'[u].pc = "create" => handler'[u].file \in sent'
    BY <1>1, <1>2, <1>3 DEF TidyInv
<1>5. (\A f \in files' : f[1] \in sent') /\ (\A c \in certs' : c.p12 \in sent')
    BY <1>2 DEF TidyInv
<1>6. ASSUME ~disturbed
      PROVE  /\ \A u \in Handlers : handler'[u].pc # "download"
             /\ \A u \in Handlers : ~At(u, "prov", "create")'
             /\ \A c \in certs' : <<c.p12, "p12">> \notin files'
    <2>1. \A u \in Handlers : u # t => handler[u].op = "none"
        BY <1>1, <1>6 DEF AloneInv, Running
    <2>2. \A u \in Handlers : u # t => handler[u].pc # "download"
        BY <2>1 DEF Types, HandlerTypes, Stage, Uploads
    <2>3. \A u \in Handlers : ~At(u, "prov", "tidy")
        BY <1>2, <2>1 DEF At
    <2>4. \A c \in certs : <<c.p12, "p12">> \notin files /\ c.p12 # handler[t].arg
        BY <1>2, <1>6, <2>3 DEF TidyInv
    <2>5. \A c \in certs' : <<c.p12, "p12">> \notin files'
        BY <1>2, <2>4
    <2> QED
        BY <1>1, <1>3, <2>1, <2>2, <2>5 DEF At
<1> QED
    BY <1>1, <1>4, <1>5, <1>6 DEF TidyInv

\* The three steps of a handler that has its profile.
LEMMA TidyProvision ==
    ASSUME Types, AloneInv, TidyInv, NEW t \in Handlers,
           ReadForCreate(t) \/ CreateCert(t) \/ Tidy(t)
    PROVE  TidyInv'
<1>t. /\ handler \in [Handlers -> HandlerStates] /\ handler[t] \in HandlerStates
      /\ Stage(handler[t])
    BY DEF Types, HandlerTypes
<1>1. /\ disturbed' = disturbed /\ t \in Running
      /\ \A u \in Handlers : u # t => handler'[u] = handler[u]
    BY StepActs DEF Step
<1>a. ~disturbed => \A u \in Handlers : u # t => handler[u].op = "none"
    BY <1>1 DEF AloneInv, Running
<1>d. ~disturbed => \A u \in Handlers : u # t => handler[u].pc # "download"
    BY <1>a DEF Types, HandlerTypes, Stage, Uploads
<1>2. CASE ReadForCreate(t)
    <2>1. /\ At(t, "prov", "got") /\ <<Session(t).p12, "p12">> \in files
          /\ UNCHANGED <<files, certs, sent, heap>>
        BY <1>2 DEF ReadForCreate, HasP12, otherVars
    <2>2. /\ handler'[t].op = "prov" /\ handler'[t].pc = "create"
          /\ handler'[t].arg = handler[t].arg /\ handler'[t].file = Session(t).p12
          /\ Session(t)' = Session(t)
        BY <1>t, <1>2, <2>1 DEF ReadForCreate, At, HandlerStates, Session
    <2>3. Session(t).p12 \in sent
        BY <2>1 DEF TidyInv
    <2>4. /\ \A u \in Handlers : handler'[u].op \in Uploads => handler'[u].arg \in sent'
          /\ \A u \in Handlers : handler'[u].pc = "create" => handler'[u].file \in sent'
        BY <1>1, <2>1, <2>2, <2>3 DEF TidyInv, At, Uploads
    <2>5. (\A f \in files' : f[1] \in sent') /\ (\A c \in certs' : c.p12 \in sent')
        BY <2>1 DEF TidyInv
    <2>6. ASSUME ~disturbed
          PROVE  /\ \A u \in Handlers : handler'[u].pc # "download"
                 /\ \A u \in Handlers : At(u, "prov", "create")' =>
                       handler'[u].file = Session(u)'.p12
                 /\ \A c \in certs' : <<c.p12, "p12">> \notin files'
        <3>1. \A u \in Handlers : ~At(u, "prov", "tidy")
            BY <1>a, <2>1, <2>6 DEF At
        <3>2. \A u \in Handlers : u # t => handler'[u].op = "none"
            BY <1>1, <1>a, <2>6
        <3> QED
            BY <1>1, <1>d, <2>1, <2>2, <2>6, <3>1, <3>2 DEF TidyInv, At
    <2> QED
        BY <1>1, <2>4, <2>5, <2>6 DEF TidyInv
<1>3. CASE CreateCert(t)
    <2>1. /\ At(t, "prov", "create") /\ UNCHANGED <<files, sent, heap>> /\ MoveTo(t, "tidy")
        BY <1>3 DEF CreateCert
    <2>2. \A c \in certs' : c \in certs \/ c.p12 = handler[t].file
        BY <1>3 DEF CreateCert
    <2>3. /\ handler'[t].op = "prov" /\ handler'[t].pc = "tidy"
          /\ handler'[t].arg = handler[t].arg /\ Session(t)' = Session(t)
        BY <1>t, <2>1 DEF MoveTo, At, HandlerStates, Session
    <2>4. /\ \A u \in Handlers : handler'[u].op \in Uploads => handler'[u].arg \in sent'
          /\ \A u \in Handlers : handler'[u].pc = "create" => handler'[u].file \in sent'
        BY <1>1, <2>1, <2>3 DEF TidyInv, At, Uploads
    <2>5. (\A f \in files' : f[1] \in sent') /\ (\A c \in certs' : c.p12 \in sent')
        BY <2>1, <2>2 DEF TidyInv, At
    <2>6. ASSUME ~disturbed
          PROVE  /\ \A u \in Handlers : handler'[u].pc # "download"
                 /\ \A u \in Handlers : ~At(u, "prov", "create")'
                 /\ \A c \in certs' : <<c.p12, "p12">> \in files' =>
                       At(t, "prov", "tidy")' /\ Session(t)'.p12 = c.p12
        <3>1. \A u \in Handlers : ~At(u, "prov", "tidy")
            BY <1>a, <2>1, <2>6 DEF At
        <3>2. \A c \in certs : <<c.p12, "p12">> \notin files
            BY <2>6, <3>1 DEF TidyInv
        <3>3. handler[t].file = Session(t).p12
            BY <2>1, <2>6 DEF TidyInv
        <3>4. \A u \in Handlers : u # t => handler'[u].op = "none"
            BY <1>1, <1>a, <2>6
        <3> QED
            BY <1>1, <1>d, <2>1, <2>2, <2>3, <2>6, <3>2, <3>3, <3>4 DEF At
    <2> QED
        BY <1>1, <2>4, <2>5, <2>6 DEF TidyInv
<1>4. CASE Tidy(t)
    <2>1. /\ At(t, "prov", "tidy") /\ UNCHANGED <<certs, sent>> /\ Return(t)
          /\ files' = files \ {<<Session(t).p12, "p12">>, <<handler[t].arg, "prov">>}
        BY <1>4 DEF Tidy, ClearAndReturn, otherVars
    <2>2. handler'[t].op = "none" /\ handler'[t].pc = ""
        BY <1>t, <2>1 DEF Return, Waiting
    <2>3. /\ \A u \in Handlers : handler'[u].op \in Uploads => handler'[u].arg \in sent'
          /\ \A u \in Handlers : handler'[u].pc = "create" => handler'[u].file \in sent'
        BY <1>1, <2>1, <2>2 DEF TidyInv, Uploads
    <2>4. (\A f \in files' : f[1] \in sent') /\ (\A c \in certs' : c.p12 \in sent')
        BY <2>1 DEF TidyInv
    <2>5. ASSUME ~disturbed
          PROVE  /\ \A u \in Handlers : handler'[u].pc # "download"
                 /\ \A u \in Handlers : ~At(u, "prov", "create")'
                 /\ \A c \in certs' : <<c.p12, "p12">> \notin files'
        <3>1. \A u \in Handlers : handler'[u].op = "none"
            BY <1>1, <1>a, <2>2, <2>5
        <3>2. \A u \in Handlers : At(u, "prov", "tidy") => u = t
            BY <1>a, <2>5 DEF At
        <3>3. \A c \in certs : <<c.p12, "p12">> \in files => Session(t).p12 = c.p12
            BY <2>5, <3>2 DEF TidyInv
        <3>4. \A c \in certs' : <<c.p12, "p12">> \notin files'
            BY <2>1, <3>3
        <3> QED
            BY <1>1, <1>d, <2>2, <2>5, <3>1, <3>4 DEF At
    <2> QED
        BY <1>1, <2>3, <2>4, <2>5 DEF TidyInv
<1> QED
    BY <1>2, <1>3, <1>4

LEMMA TidyStep == Types /\ AloneInv /\ TidyInv /\ [BotNext]_vars => TidyInv'
<1> SUFFICES ASSUME Types, AloneInv, TidyInv, [BotNext]_vars PROVE TidyInv'
    OBVIOUS
<1>t. /\ handler \in [Handlers -> HandlerStates] /\ heap \in [Objects -> Sessions]
      /\ Get \in Objects /\ None \in Secrets
      /\ \A u \in Handlers : handler[u] \in HandlerStates /\ Stage(handler[u])
    BY GetTypes DEF Types, HandlerTypes, HeapTypes, Secrets
<1>u. ASSUME UNCHANGED <<handler, heap, files, certs, sent, disturbed>> PROVE TidyInv'
    BY <1>u DEF TidyInv, At, Session
<1>w. Waiting \in HandlerStates /\ Waiting.op = "none" /\ Waiting.pc = ""
    BY BlankTypes DEF Waiting
<1>r. ASSUME NEW t \in Handlers, Step(t), Return(t), UNCHANGED <<files, certs, sent>>,
             handler[t].pc # "tidy"
      PROVE  TidyInv'
    <2>1. handler'[t] = Waiting
        BY <1>r, <1>t DEF Return
    <2> QED
        BY <1>r, <1>w, <2>1, TidyElse
<1>m. ASSUME NEW t \in Handlers, Step(t), UNCHANGED <<files, certs, sent>>,
             handler[t].pc # "tidy", handler'[t].op = handler[t].op,
             handler'[t].arg = handler[t].arg \/ handler[t].op = "confirm",
             handler'[t].pc \notin {"download", "create"}
      PROVE  TidyInv'
    BY <1>m, TidyElse
<1>1. ASSUME Clear \/ NewJob \/ StartCertCreate PROVE TidyInv'
    <2>1. Update /\ handler' = handler /\ UNCHANGED <<files, certs, sent>>
        BY <1>1 DEF Clear, NewJob, StartCertCreate, StartDialogue, Quick, otherVars
    <2> QED
        BY <2>1, TidyUpdate
<1>2. ASSUME NEW t \in Handlers, Dispatch(t) PROVE TidyInv'
    <2>b. ASSUME NEW h \in HandlerStates, Begin(t, h), h.op \notin Uploads,
                 h.pc \notin {"download", "create"}, UNCHANGED <<files, certs, sent>>
          PROVE  TidyInv'
        BY <2>b, TidyUpdate DEF Begin
    <2>1. CASE ConfirmDuplicate(t)
        BY <1>1, <2>1 DEF ConfirmDuplicate
    <2>2. ASSUME NEW c \in CertSets, PressCert(t, c) PROVE TidyInv'
        <3> DEFINE h == [Waiting EXCEPT !.op = "select", !.pc = "got", !.arg = c, !.ptr = Get]
        <3>1. h \in HandlerStates /\ h.op = "select" /\ h.pc = "got"
            BY <1>t, <1>w DEF Waiting, HandlerStates
        <3>2. Begin(t, h) /\ UNCHANGED <<files, certs, sent>>
            BY <2>2 DEF PressCert, otherVars
        <3> HIDE DEF h
        <3> QED
            BY <2>b, <3>1, <3>2 DEF Uploads
    <2>3. ASSUME NEW s \in {"setOption", "uploadDylib"}, PressOption(t, s) PROVE TidyInv'
        <3> DEFINE h == [Waiting EXCEPT !.op = "option", !.pc = "got", !.arg = s, !.ptr = store]
        <3>1. h \in HandlerStates /\ h.op = "option" /\ h.pc = "got"
            BY <1>w DEF Waiting, HandlerStates, States, Types, HeapTypes
        <3>2. Begin(t, h) /\ UNCHANGED <<files, certs, sent>>
            BY <2>3 DEF PressOption, otherVars
        <3> HIDE DEF h
        <3> QED
            BY <2>b, <3>1, <3>2 DEF Uploads
    <2>4. ASSUME NEW d \in Docs, SendDoc(t, d) PROVE TidyInv'
        <3> DEFINE h == [Waiting EXCEPT !.op = TakesDoc[StateOf], !.pc = "download", !.arg = d]
        <3>1. TakesDoc[StateOf] \in Uploads
            BY <2>4 DEF SendDoc, TakesDoc, Uploads
        <3>2. h \in HandlerStates /\ h.pc = "download" /\ h.arg = d
            BY <1>w, <3>1 DEF Waiting, HandlerStates
        <3>3. /\ Begin(t, h) /\ d \notin sent /\ sent' = sent \union {d}
              /\ UNCHANGED <<files, certs>>
            BY <2>4 DEF SendDoc
        <3> HIDE DEF h
        <3> QED
            BY <3>2, <3>3, TidyUpdate DEF Begin
    <2>5. ASSUME NEW w \in Passwords, SendPassword(t, w) PROVE TidyInv'
        <3> DEFINE h1 == [Waiting EXCEPT !.op = "certpass", !.pc = "read", !.pass = w]
                   h2 == [Waiting EXCEPT !.op = "jobpass", !.pc = "keep", !.pass = w]
        <3>1. h1 \in HandlerStates /\ h1.op = "certpass" /\ h1.pc = "read"
            BY <1>w DEF Waiting, HandlerStates, Secrets
        <3>2. h2 \in HandlerStates /\ h2.op = "jobpass" /\ h2.pc = "keep"
            BY <1>w DEF Waiting, HandlerStates, Secrets
        <3>3. (Begin(t, h1) \/ Begin(t, h2)) /\ UNCHANGED <<files, certs, sent>>
            BY <2>5 DEF SendPassword, otherVars
        <3> HIDE DEF h1, h2
        <3> QED
            BY <2>b, <3>1, <3>2, <3>3 DEF Uploads
    <2>6. CASE SendOption(t)
        <3> DEFINE h == [Waiting EXCEPT !.op = "text", !.pc = "get"]
        <3>1. h \in HandlerStates /\ h.op = "text" /\ h.pc = "get"
            BY <1>w DEF Waiting, HandlerStates
        <3>2. Begin(t, h) /\ UNCHANGED <<files, certs, sent>>
            BY <2>6 DEF SendOption, otherVars
        <3> HIDE DEF h
        <3> QED
            BY <2>b, <3>1, <3>2 DEF Uploads
    <2>7. CASE Confirm(t) \/ ConfirmUnchecked(t)
        <3>1. PICK c \in Claims : StartConfirm(t, c)
            BY <2>7, ConfirmStarts DEF Starts
        <3> DEFINE h == [Waiting EXCEPT !.op = "confirm", !.ptr = Get, !.arg = c,
                         !.pc = IF HasMasterKey THEN "enqueue" ELSE "exists"]
        <3>2. h \in HandlerStates /\ h.op = "confirm" /\ h.pc \in {"enqueue", "exists"}
            BY <1>t, <1>w DEF Waiting, HandlerStates
        <3>3. Begin(t, h) /\ UNCHANGED <<files, certs, sent>>
            BY <3>1 DEF StartConfirm
        <3> HIDE DEF h
        <3> QED
            BY <2>b, <3>2, <3>3 DEF Uploads
    <2> QED
        BY <1>2, <2>1, <2>2, <2>3, <2>4, <2>5, <2>6, <2>7 DEF Dispatch
<1>3. ASSUME NEW t \in Handlers, Step(t) PROVE TidyInv'
    <2>1. CASE \/ DownloadFails(t) \/ SetSession(t) \/ ReadP12Fails(t) \/ ReadForCreateFails(t)
               \/ CreateCertFails(t) \/ EnqueueFails(t) \/ EndConfirm(t)
        <3>1. Return(t) /\ UNCHANGED <<files, certs, sent>>
            BY <2>1 DEF DownloadFails, SetSession, ReadP12Fails, ReadForCreateFails,
               CreateCertFails, EnqueueFails, EndConfirm, ClearAndReturn, otherVars
        <3>2. handler[t].pc # "tidy"
            BY <2>1 DEF DownloadFails, SetSession, ReadP12Fails, ReadForCreateFails,
               CreateCertFails, EnqueueFails, EndConfirm, At
        <3> QED
            BY <1>3, <1>r, <3>1, <3>2
    <2>2. CASE KeepJobPassword(t) \/ HandOver(t) \/ WriteField(t)
        <3>1. PICK c \in {"get", "clear", "wrote"} : MoveTo(t, c)
            BY <2>2 DEF KeepJobPassword, HandOver, WriteField
        <3>2. handler'[t].op = handler[t].op /\ handler'[t].arg = handler[t].arg
              /\ handler'[t].pc = c
            BY <1>t, <3>1 DEF MoveTo, HandlerStates
        <3>3. UNCHANGED <<files, certs, sent>> /\ handler[t].pc # "tidy"
            BY <2>2 DEF KeepJobPassword, HandOver, WriteField, At, otherVars
        <3> QED
            BY <1>3, <1>m, <3>1, <3>2, <3>3
    <2>3. CASE GetSession(t) \/ KeepSessionPassword(t)
        <3>1. \E q : handler'[t] = [handler[t] EXCEPT !.pc = "got", !.ptr = q]
            BY <1>t, <2>3 DEF GetSession, KeepSessionPassword
        <3>2. handler'[t].op = handler[t].op /\ handler'[t].arg = handler[t].arg
              /\ handler'[t].pc = "got"
            BY <1>t, <3>1 DEF HandlerStates
        <3>3. UNCHANGED <<files, certs, sent>> /\ handler[t].pc # "tidy"
            BY <2>3 DEF GetSession, KeepSessionPassword, At, otherVars
        <3> QED
            BY <1>3, <1>m, <3>2, <3>3
    <2>4. CASE TakePassword(t)
        <3>1. handler'[t].op = handler[t].op /\ handler'[t].arg = handler[t].arg
              /\ handler'[t].pc = "token"
            BY <1>t, <2>4 DEF TakePassword, HandlerStates
        <3>2. UNCHANGED <<files, certs, sent>> /\ handler[t].pc # "tidy"
            BY <2>4 DEF TakePassword, At, otherVars
        <3> QED
            BY <1>3, <1>m, <3>1, <3>2
    <2>5. CASE Enqueue(t)
        <3>1. handler'[t].op = handler[t].op /\ handler'[t].pc \in {"clear", "get token"}
            BY <1>t, <2>5 DEF Enqueue, HandlerStates
        <3>2. UNCHANGED <<files, certs, sent>>
            BY <2>5 DEF Enqueue
        <3>3. handler[t].op = "confirm" /\ handler[t].pc # "tidy"
            BY <2>5 DEF Enqueue, At
        <3> QED
            BY <1>3, <1>m, <3>1, <3>2, <3>3
    <2>6. CASE CheckPassword(t)
        <3>1. UNCHANGED <<files, certs, sent>> /\ handler[t].pc # "tidy"
            BY <2>6 DEF CheckPassword, At, otherVars
        <3>2. CASE Return(t)
            BY <1>3, <1>r, <3>1, <3>2
        <3>3. CASE MoveTo(t, "enqueue")
            <4>1. handler'[t].op = handler[t].op /\ handler'[t].arg = handler[t].arg
                  /\ handler'[t].pc = "enqueue"
                BY <1>t, <3>3 DEF MoveTo, HandlerStates
            <4> QED
                BY <1>3, <1>m, <3>1, <4>1
        <3> QED
            BY <2>6, <3>2, <3>3 DEF CheckPassword, ClearAndReturn
    <2>7. CASE Download(t)
        BY <2>7, TidyDownload
    <2>8. CASE ReadForCreate(t) \/ CreateCert(t) \/ Tidy(t)
        BY <2>8, TidyProvision
    <2> QED
        BY <1>3, <2>1, <2>2, <2>3, <2>4, <2>5, <2>6, <2>7, <2>8 DEF Step
<1>4. ASSUME UNCHANGED vars \/ PasswordLapses \/ (\E k \in dedupe : DedupeLapses(k))
             \/ (\E i \in 1..Len(jobs) : WorkerOpens(i))
      PROVE  TidyInv'
    <2>1. UNCHANGED <<handler, heap, files, certs, sent, disturbed>>
        BY <1>4 DEF vars, PasswordLapses, DedupeLapses, WorkerOpens, otherVars, updateVars
    <2> QED
        BY <1>u, <2>1
<1>5. ASSUME Restart PROVE TidyInv'
    <2>1. /\ \A t \in Handlers : handler'[t] = Waiting
          /\ UNCHANGED <<files, certs, sent>> /\ disturbed' = TRUE
        BY <1>5 DEF Restart
    <2> QED
        BY <1>w, <2>1 DEF TidyInv, Uploads
<1> QED
    BY <1>1, <1>2, <1>3, <1>4, <1>5 DEF BotNext

\* UsedP12Removed: as long as handlers have not overlapped, the P12 of every
\* certificate set created is gone from incoming/ when no handler runs.
THEOREM UsedP12IsRemoved == BotSpec => []UsedP12Removed
<1>1. BotInit => Types /\ AloneInv /\ TidyInv
    BY TypesInit, AloneInit, TidyInit
<1>2. Types /\ AloneInv /\ TidyInv /\ [BotNext]_vars => (Types /\ AloneInv /\ TidyInv)'
    BY TypesStep, AloneStep, TidyStep
<1>3. TidyInv => UsedP12Removed
    BY DEF TidyInv, UsedP12Removed, Running, At
<1> QED
    BY <1>1, <1>2, <1>3, PTL DEF BotSpec
=============================================================================
