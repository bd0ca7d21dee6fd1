--------------------------- MODULE CertSetsProofs ----------------------------
(***************************************************************************)
(* Proofs about CertSets for all numbers of goroutines, sets, calls and    *)
(* crashes.                                                                *)
(*                                                                         *)
(* The argument: a directory has one writer until its Create succeeds, as  *)
(* identifiers are drawn once and the other calls write only to sets whose *)
(* meta.json is whole, that is, to created ones.  So the files a Create    *)
(* wrote before meta.json are whole when meta.json is, and what a failed   *)
(* Create removed stays removed.                                           *)
(***************************************************************************)
EXTENDS CertSets, FiniteSetTheorems, TLAPS

Writing(t) == pc[t] \in {"open", "fill"}
Creating(t) == op[t] = "create" /\ target[t] # NoSet

\* The files Create writes before f.
Before(f) == CASE f = "p12"  -> {}
               [] f = "pass" -> {"p12"}
               [] f = "prov" -> {"p12", "pass"} \intersect Kept
               [] OTHER      -> Kept \ {"meta"}

\* Where each call stands and which sets it may work on.
Calls ==
    \A t \in Tasks :
        /\ op[t] = "none" =>
             pc[t] = "none" /\ target[t] = NoSet /\ file[t] = First
        /\ op[t] = "create" =>
             /\ pc[t] \in {"dir", "open", "fill", "remove"}
             /\ pc[t] = "dir" => target[t] = NoSet /\ file[t] = First
             /\ pc[t] # "dir" => target[t] \in made \ (created \union failed)
        /\ op[t] = "delete" => pc[t] = "remove" /\ target[t] \in deleted
        /\ Rewriting(t) =>
             /\ pc[t] \in {"get", "open", "fill"}
             /\ target[t] \in Sets
             /\ Writing(t) => file[t] = "meta" /\ target[t] \in created

\* A set has one creator and one outcome of its creation.
History ==
    /\ deleted \subseteq created
    /\ created \subseteq made
    /\ failed \subseteq made \ created
    /\ \A t, u \in Tasks :
          Creating(t) /\ Creating(u) /\ target[t] = target[u] => t = u

\* How far a Create has got.
ProgressOf(t) ==
    op[t] = "create" /\ Writing(t) =>
        /\ \A f \in Before(file[t]) : content[target[t]][f] = "whole"
        /\ pc[t] = "fill" => content[target[t]][file[t]] = "cut"
Progress == \A t \in Tasks : ProgressOf(t)

\* meta.json is whole only for created sets, whose other files are.
Contents ==
    /\ \A s \in Sets \ created : content[s]["meta"] \in {"none", "cut"}
    /\ \A s \in created \ deleted :
         \A f \in Kept \ {"meta"} : content[s][f] = "whole"

CInv == CertTypeOK /\ Calls /\ History /\ Progress /\ Contents
        /\ FailedLeavesNothing

-----------------------------------------------------------------------------
(* Type correctness                                                        *)

LEMMA CertTypeInit == CertInit => CertTypeOK
BY CertAssumption DEF CertInit, CertTypeOK, Files, First

\* What a returning call leaves of its variables.
LEMMA ReturnTyped ==
    ASSUME CertTypeOK, NEW t \in Tasks, Return(t)
    PROVE  /\ op' \in [Tasks -> {"none", "create", "delete", "use", "check"}]
           /\ pc' \in [Tasks -> {"none", "dir", "get", "open", "fill", "remove"}]
           /\ target' \in [Tasks -> Sets \union {NoSet}]
           /\ file' \in [Tasks -> Files]
           /\ copy' \in [Tasks -> BOOLEAN]
<1>1. First \in Files
    BY DEF First, Files
<1> QED
    BY <1>1 DEF Return, CertTypeOK

\* The sets the calls work on.
LEMMA Targets ==
    ASSUME CertTypeOK, Calls, NEW t \in Tasks
    PROVE  pc[t] \in {"open", "fill", "remove", "get"} => target[t] \in Sets
BY DEF CertTypeOK, Calls, Rewriting

LEMMA CertTypeStep == CertTypeOK /\ Calls /\ [CertNext]_vars => CertTypeOK'
<1> SUFFICES ASSUME CertTypeOK, Calls, [CertNext]_vars
             PROVE  CertTypeOK'
    OBVIOUS
<1> USE DEF CertTypeOK
<1>1. First \in Files /\ "meta" \in Files /\ \A f \in Files : After(f) \in Files
    BY DEF First, Files, After
<1>2. ASSUME NEW t \in Tasks, StartCreate(t)
      PROVE  CertTypeOK'
    BY <1>2, CertAssumption DEF StartCreate, Call, diskVars, ghostVars
<1>3. ASSUME NEW t \in Tasks, Reject(t) \/ GetFails(t)
      PROVE  CertTypeOK'
    BY <1>3, ReturnTyped DEF Reject, GetFails, diskVars, ghostVars
<1>4. ASSUME NEW t \in Tasks, NEW s \in Sets, MakeDir(t, s)
      PROVE  CertTypeOK'
    BY <1>4 DEF MakeDir
<1>5. ASSUME NEW t \in Tasks, Open(t)
      PROVE  CertTypeOK'
    <2>1. target[t] \in Sets
        BY <1>5 DEF Open, Calls, Rewriting
    <2> QED
        BY <1>5, <2>1 DEF Open, GoTo, ghostVars
<1>6. ASSUME NEW t \in Tasks, Fill(t)
      PROVE  CertTypeOK'
    <2>1. target[t] \in Sets /\ file[t] \in Files
        BY <1>6, Targets DEF Fill
    <2>2. content' \in [Sets -> [Files -> {"none", "cut", "mixed", "whole"}]]
        BY <1>6, <2>1 DEF Fill, Filled
    <2>3. used' \in SUBSET Sets
        BY <1>6, <2>1 DEF Fill
    <2>4. CASE file[t] = Last
        BY <1>6, <2>1, <2>2, <2>3, <2>4, ReturnTyped DEF Fill
    <2>5. CASE file[t] # Last
        BY <1>1, <1>6, <2>1, <2>2, <2>3, <2>5 DEF Fill
    <2> QED
        BY <2>4, <2>5
<1>7. ASSUME NEW t \in Tasks, WriteFails(t)
      PROVE  CertTypeOK'
    <2>1. target[t] \in Sets /\ file[t] \in Files
        BY <1>7, Targets DEF WriteFails
    <2>2. content' \in [Sets -> [Files -> {"none", "cut", "mixed", "whole"}]]
        BY <1>7, <2>1 DEF WriteFails
    <2>3. CASE op[t] = "create"
        BY <1>7, <2>1, <2>2, <2>3 DEF WriteFails, GoTo
    <2>4. CASE op[t] # "create"
        BY <1>7, <2>1, <2>2, <2>4, ReturnTyped DEF WriteFails
    <2> QED
        BY <2>3, <2>4
<1>8. ASSUME NEW t \in Tasks, NEW f \in Files, RemoveEntry(t, f)
      PROVE  CertTypeOK'
    BY <1>8 DEF RemoveEntry, taskVars, ghostVars
<1>9. ASSUME NEW t \in Tasks, RemoveDir(t)
      PROVE  CertTypeOK'
    BY <1>9, Targets, ReturnTyped DEF RemoveDir
<1>10. ASSUME NEW t \in Tasks, NEW s \in Sets,
              StartDelete(t, s) \/ UpdateLastUsed(t, s) \/ CheckStatus(t, s)
       PROVE  CertTypeOK'
    BY <1>10, CertAssumption
       DEF StartDelete, UpdateLastUsed, CheckStatus, Call, diskVars, ghostVars
<1>11. ASSUME NEW t \in Tasks, Get(t)
       PROVE  CertTypeOK'
    <2>1. copy' \in [Tasks -> BOOLEAN]
        BY <1>11 DEF Get
    <2>2. target[t] \in Sets
        BY <1>11, Targets DEF Get
    <2>3. UNCHANGED <<dirs, content, used, op, target, made, created, failed,
                      deleted, usedOnce, calls, crashes>>
        BY <1>11 DEF Get, diskVars
    <2>4. spoiled' \in SUBSET Sets
        BY <1>11, <2>2 DEF Get
    <2> QED
        BY <1>1, <1>11, <2>1, <2>3, <2>4 DEF Get
<1>12. CASE Crash
    BY <1>1, <1>12, CertAssumption DEF Crash, diskVars
<1>13. CASE UNCHANGED vars
    BY <1>13 DEF vars, diskVars, taskVars, ghostVars
<1> QED
    BY <1>2, <1>3, <1>4, <1>5, <1>6, <1>7, <1>8, <1>9, <1>10, <1>11, <1>12,
       <1>13 DEF CertNext

-----------------------------------------------------------------------------
(* The files of a set                                                      *)

\* A file that follows was preceded by what was written so far.
LEMMA AfterBefore ==
    /\ Before(First) = {}
    /\ \A f \in Files : f # Last => Before(After(f)) \subseteq Before(f) \union {f}
    /\ \A f \in Files : f \notin Before(f)
    /\ Before("meta") = Kept \ {"meta"}
    /\ \A f \in Files : Before(f) \subseteq Files
    /\ First \in Files /\ First # Last /\ Last = "meta"
    /\ \A f \in Files : After(f) \in Files
BY DEF Before, After, First, Last, Files, Kept

\* Nobody else writes to or removes from the directory of a running Create.
LEMMA SoleWriter ==
    ASSUME CInv, NEW t \in Tasks, NEW u \in Tasks,
           op[t] = "create", pc[t] # "dir",
           pc[u] \in {"open", "fill", "remove"}, target[u] = target[t]
    PROVE  u = t
<1> USE DEF CInv
<1>1. Creating(t) /\ target[t] \in made \ (created \union failed)
    BY CertAssumption DEF Calls, Creating, CertTypeOK
<1>2. CASE op[u] = "create"
    <2>1. Creating(u)
        BY <1>1, <1>2 DEF Creating
    <2> QED
        BY <1>1, <2>1 DEF History
<1>3. CASE op[u] = "delete"
    BY <1>1, <1>3 DEF Calls, History
<1>4. CASE Rewriting(u)
    BY <1>1, <1>4 DEF Calls, Writing
<1>5. CASE op[u] = "none"
    BY <1>5 DEF Calls
<1> QED
    BY <1>2, <1>3, <1>4, <1>5 DEF CertTypeOK, Rewriting

\* A step of t that changes only the file f of its set s.
OnlyFile(s, f) ==
    \A x \in Sets, g \in Files :
        (x # s \/ g # f) => content'[x][g] = content[x][g]

LEMMA OpenWrites ==
    ASSUME CInv, NEW t \in Tasks, Open(t)
    PROVE  /\ target[t] \in Sets /\ file[t] \in Files
           /\ OnlyFile(target[t], file[t])
           /\ content'[target[t]][file[t]] = "cut"
<1>1. target[t] \in Sets /\ file[t] \in Files
    BY Targets DEF CInv, Open, CertTypeOK
<1> QED
    BY <1>1 DEF OnlyFile, Open, CInv, CertTypeOK

LEMMA FillWrites ==
    ASSUME CInv, NEW t \in Tasks, Fill(t)
    PROVE  /\ target[t] \in Sets /\ file[t] \in Files
           /\ OnlyFile(target[t], file[t])
           /\ content[target[t]][file[t]] = "cut" =>
                content'[target[t]][file[t]] = "whole"
<1>1. target[t] \in Sets /\ file[t] \in Files
    BY Targets DEF CInv, Fill, CertTypeOK
<1> QED
    BY <1>1 DEF OnlyFile, Fill, Filled, CInv, CertTypeOK

LEMMA WriteFailsWrites ==
    ASSUME CInv, NEW t \in Tasks, WriteFails(t)
    PROVE  /\ target[t] \in Sets /\ file[t] \in Files
           /\ OnlyFile(target[t], file[t])
           /\ content[target[t]][file[t]] = "whole" \/ content' = content
<1>1. target[t] \in Sets /\ file[t] \in Files
    BY Targets DEF CInv, WriteFails, CertTypeOK
<1> QED
    BY <1>1 DEF OnlyFile, WriteFails, CInv, CertTypeOK

LEMMA RemoveWrites ==
    ASSUME CInv, NEW t \in Tasks, NEW f \in Files, RemoveEntry(t, f)
    PROVE  /\ target[t] \in Sets
           /\ OnlyFile(target[t], f)
           /\ content'[target[t]][f] = "none"
<1>1. target[t] \in Sets
    BY Targets DEF CInv, RemoveEntry
<1> QED
    BY <1>1 DEF OnlyFile, RemoveEntry, CInv, CertTypeOK

-----------------------------------------------------------------------------
(* The calls and their targets                                             *)

LEMMA CallsInit == CertInit => Calls /\ History /\ Progress /\ Contents
                               /\ FailedLeavesNothing
BY DEF CertInit, Calls, History, Progress, ProgressOf, Contents, FailedLeavesNothing,
       Creating, Rewriting, Writing, Files

\* A call that is over, or was cut by a crash, works on no set.
LEMMA CallsStep == CInv /\ [CertNext]_vars => Calls'
<1> SUFFICES ASSUME CInv, [CertNext]_vars, NEW t \in Tasks
             PROVE  /\ op'[t] = "none" =>
                         pc'[t] = "none" /\ target'[t] = NoSet /\ file'[t] = First
                    /\ op'[t] = "create" =>
                         /\ pc'[t] \in {"dir", "open", "fill", "remove"}
                         /\ pc'[t] = "dir" => target'[t] = NoSet /\ file'[t] = First
                         /\ pc'[t] # "dir" =>
                              target'[t] \in made' \ (created' \union failed')
                    /\ op'[t] = "delete" =>
                         pc'[t] = "remove" /\ target'[t] \in deleted'
                    /\ Rewriting(t)' =>
                         /\ pc'[t] \in {"get", "open", "fill"}
                         /\ target'[t] \in Sets
                         /\ Writing(t)' => file'[t] = "meta" /\ target'[t] \in created'
    BY DEF Calls
<1> USE DEF CInv, CertTypeOK, Calls, Rewriting, Writing
<1>1. ASSUME NEW u \in Tasks, StartCreate(u)
      PROVE  Calls'
    BY <1>1 DEF StartCreate, Call, Idle, ghostVars
<1>2. ASSUME NEW u \in Tasks, Reject(u) \/ GetFails(u)
      PROVE  Calls'
    BY <1>2 DEF Reject, GetFails, Return, ghostVars
<1>3. ASSUME NEW u \in Tasks, NEW s \in Sets, MakeDir(u, s)
      PROVE  Calls'
    BY <1>3, AfterBefore DEF MakeDir, History
<1>4. ASSUME NEW u \in Tasks, Open(u)
      PROVE  Calls'
    BY <1>4 DEF Open, GoTo, ghostVars
<1>5. ASSUME NEW u \in Tasks, NEW f \in Files, RemoveEntry(u, f)
      PROVE  Calls'
    BY <1>5 DEF RemoveEntry, taskVars, ghostVars
<1>6. ASSUME NEW u \in Tasks, NEW s \in Sets, StartDelete(u, s)
      PROVE  Calls'
    BY <1>6 DEF StartDelete, Call, Idle
<1>7. ASSUME NEW u \in Tasks, NEW s \in Sets,
             UpdateLastUsed(u, s) \/ CheckStatus(u, s)
      PROVE  Calls'
    BY <1>7 DEF UpdateLastUsed, CheckStatus, Call, Idle, ghostVars
<1>8. ASSUME NEW u \in Tasks, Get(u)
      PROVE  Calls'
    <2>1. target[u] \in created
        BY <1>8, Targets DEF Get, Listed, Contents
    <2> QED
        BY <1>8, <2>1 DEF Get
<1>9. CASE Crash
    BY <1>9 DEF Crash
<1>10. CASE UNCHANGED vars
    BY <1>10 DEF vars, taskVars, ghostVars
<1>11. ASSUME NEW u \in Tasks, Fill(u)
       PROVE  Calls'
    <2>1. /\ made' = made /\ deleted' = deleted /\ failed' = failed
          /\ created \subseteq created'
        BY <1>11 DEF Fill
    <2>2. \A x \in Tasks : x # u => op'[x] = op[x] /\ pc'[x] = pc[x]
                                   /\ target'[x] = target[x] /\ file'[x] = file[x]
        BY <1>11 DEF Fill, Return
    <2>3. \A x \in Tasks : x # u /\ Creating(x) => target[x] \notin created'
        <3> SUFFICES ASSUME NEW x \in Tasks, x # u, Creating(x),
                            target[x] \in created'
                     PROVE  FALSE
            OBVIOUS
        <3>1. target[x] \notin created
            BY DEF Creating
        <3>2. op[u] = "create" /\ target[x] = target[u]
            BY <1>11, <3>1 DEF Fill
        <3>3. Creating(u)
            BY <3>2 DEF Creating
        <3> QED
            BY <3>2, <3>3 DEF History
    <2>4. CASE file[u] = Last
        BY <1>11, <2>1, <2>2, <2>3, <2>4, CertAssumption DEF Fill, Return, Creating
    <2>5. CASE file[u] # Last
        BY <1>11, <2>1, <2>2, <2>5, AfterBefore DEF Fill
    <2> QED
        BY <2>4, <2>5
<1>12. ASSUME NEW u \in Tasks, WriteFails(u)
       PROVE  Calls'
    <2>1. CASE op[u] = "create"
        BY <1>12, <2>1 DEF WriteFails, GoTo
    <2>2. CASE op[u] # "create"
        BY <1>12, <2>2 DEF WriteFails, Return
    <2> QED
        BY <2>1, <2>2
<1>13. ASSUME NEW u \in Tasks, RemoveDir(u)
       PROVE  Calls'
    <2>1. \A x \in Tasks : x # u => op'[x] = op[x] /\ pc'[x] = pc[x]
                                   /\ target'[x] = target[x] /\ file'[x] = file[x]
        BY <1>13 DEF RemoveDir, Return
    <2>2. \A x \in Tasks : x # u /\ Creating(x) => target[x] \notin failed'
        <3> SUFFICES ASSUME NEW x \in Tasks, x # u, Creating(x),
                            target[x] \in failed'
                     PROVE  FALSE
            OBVIOUS
        <3>1. target[x] \notin failed
            BY DEF Creating
        <3>2. op[u] = "create" /\ target[x] = target[u]
            BY <1>13, <3>1 DEF RemoveDir
        <3>3. Creating(u)
            BY <3>2 DEF Creating
        <3> QED
            BY <3>2, <3>3 DEF History
    <2>3. op'[u] = "none" /\ pc'[u] = "none" /\ target'[u] = NoSet
          /\ file'[u] = First
        BY <1>13 DEF RemoveDir, Return
    <2>4. made' = made /\ created' = created /\ deleted' = deleted
        BY <1>13 DEF RemoveDir
    <2> QED
        BY <2>1, <2>2, <2>3, <2>4, CertAssumption DEF Creating
<1> QED
    BY <1>1, <1>2, <1>3, <1>4, <1>5, <1>6, <1>7, <1>8, <1>9, <1>10, <1>11,
       <1>12, <1>13 DEF CertNext

LEMMA HistoryStep == CInv /\ [CertNext]_vars => History'
<1> SUFFICES ASSUME CInv, [CertNext]_vars
             PROVE  History'
    OBVIOUS
<1> USE DEF CInv, CertTypeOK, History, Creating
<1>1. ASSUME NEW u \in Tasks, StartCreate(u)
      PROVE  History'
    BY <1>1 DEF StartCreate, Call, Idle, ghostVars
<1>2. ASSUME NEW u \in Tasks, Reject(u) \/ GetFails(u)
      PROVE  History'
    BY <1>2 DEF Reject, GetFails, Return, ghostVars
<1>3. ASSUME NEW u \in Tasks, NEW s \in Sets, MakeDir(u, s)
      PROVE  History'
    BY <1>3, CertAssumption DEF MakeDir, Calls
<1>4. ASSUME NEW u \in Tasks, Open(u)
      PROVE  History'
    BY <1>4 DEF Open, GoTo, ghostVars
<1>5. ASSUME NEW u \in Tasks, NEW f \in Files, RemoveEntry(u, f)
      PROVE  History'
    BY <1>5 DEF RemoveEntry, taskVars, ghostVars
<1>6. ASSUME NEW u \in Tasks, NEW s \in Sets, StartDelete(u, s)
      PROVE  History'
    BY <1>6 DEF StartDelete, Call, Idle
<1>7. ASSUME NEW u \in Tasks, NEW s \in Sets,
             UpdateLastUsed(u, s) \/ CheckStatus(u, s)
      PROVE  History'
    BY <1>7 DEF UpdateLastUsed, CheckStatus, Call, Idle, ghostVars
<1>8. ASSUME NEW u \in Tasks, Get(u)
      PROVE  History'
    BY <1>8 DEF Get
<1>9. CASE Crash
    BY <1>9 DEF Crash
<1>10. CASE UNCHANGED vars
    BY <1>10 DEF vars, taskVars, ghostVars
<1>11. ASSUME NEW u \in Tasks, Fill(u)
       PROVE  History'
    <2>1. op[u] = "create" => target[u] \in made \ failed
        BY <1>11 DEF Fill, Calls
    <2>2. \A x \in Tasks : Creating(x)' => Creating(x) /\ target'[x] = target[x]
        BY <1>11 DEF Fill, Return
    <2> QED
        BY <1>11, <2>1, <2>2 DEF Fill
<1>12. ASSUME NEW u \in Tasks, WriteFails(u)
       PROVE  History'
    <2>1. \A x \in Tasks : Creating(x)' => Creating(x) /\ target'[x] = target[x]
        BY <1>12 DEF WriteFails, Return, GoTo
    <2> QED
        BY <1>12, <2>1 DEF WriteFails
<1>13. ASSUME NEW u \in Tasks, RemoveDir(u)
       PROVE  History'
    <2>1. op[u] = "create" => target[u] \in made \ created
        BY <1>13 DEF RemoveDir, Calls
    <2>2. \A x \in Tasks : Creating(x)' => Creating(x) /\ target'[x] = target[x]
        BY <1>13 DEF RemoveDir, Return
    <2> QED
        BY <1>13, <2>1, <2>2 DEF RemoveDir
<1> QED
    BY <1>1, <1>2, <1>3, <1>4, <1>5, <1>6, <1>7, <1>8, <1>9, <1>10, <1>11,
       <1>12, <1>13 DEF CertNext

-----------------------------------------------------------------------------
(* What the directories hold                                               *)

\* Who writes where.
LEMMA WriterTarget ==
    ASSUME CInv, NEW t \in Tasks, Writing(t)
    PROVE  /\ target[t] \notin failed
           /\ \/ op[t] = "create" /\ target[t] \notin created
              \/ op[t] # "create" /\ file[t] = "meta" /\ target[t] \in created
<1>1. op[t] \in {"create", "use", "check"}
    BY DEF CInv, CertTypeOK, Calls, Writing
<1> QED
    BY <1>1 DEF CInv, Calls, Rewriting, Writing, History

LEMMA RemoverTarget ==
    ASSUME CInv, NEW t \in Tasks, pc[t] = "remove"
    PROVE  \/ op[t] = "create" /\ target[t] \notin created
           \/ op[t] = "delete" /\ target[t] \in deleted
<1>1. op[t] \in {"create", "delete"}
    BY DEF CInv, CertTypeOK, Calls, Rewriting
<1> QED
    BY <1>1 DEF CInv, Calls

\* A step of u changes nothing of what another Create wrote.
LEMMA Untouched ==
    ASSUME CInv, NEW u \in Tasks, NEW x \in Tasks, x # u,
           op[x] = "create", pc[x] # "dir",
           pc[u] \in {"open", "fill", "remove"},
           NEW h \in Files, OnlyFile(target[u], h)
    PROVE  \A f \in Files : content'[target[x]][f] = content[target[x]][f]
<1>1. target[x] # target[u]
    BY SoleWriter
<1>2. target[x] \in Sets
    BY DEF CInv, CertTypeOK, Calls
<1> QED
    BY <1>1, <1>2 DEF OnlyFile

LEMMA ProgressStep == CInv /\ [CertNext]_vars => Progress'
<1> SUFFICES ASSUME CInv, [CertNext]_vars, NEW x \in Tasks,
                    op'[x] = "create", Writing(x)'
             PROVE  ProgressOf(x)'
    BY DEF Progress, ProgressOf
<1> USE DEF CInv, CertTypeOK
<1> DEFINE Stays == /\ op'[x] = op[x] /\ pc'[x] = pc[x]
                    /\ target'[x] = target[x] /\ file'[x] = file[x]
<1>1. ASSUME Stays,
             \A f \in Files : content'[target[x]][f] = content[target[x]][f]
      PROVE  ProgressOf(x)'
    <2>1. ProgressOf(x) /\ file[x] \in Files
        BY DEF Progress
    <2>2. Before(file[x]) \subseteq Files
        BY <2>1, AfterBefore
    <2> QED
        BY <1>1, <2>1, <2>2 DEF ProgressOf, Writing
<1>2. ASSUME Stays, UNCHANGED content
      PROVE  ProgressOf(x)'
    BY <1>1, <1>2
<1>3. ASSUME Stays, NEW u \in Tasks, u # x, NEW h \in Files,
             pc[u] \in {"open", "fill", "remove"}, OnlyFile(target[u], h)
      PROVE  ProgressOf(x)'
    BY <1>1, <1>3, Untouched DEF Writing
<1>4. ASSUME NEW u \in Tasks, StartCreate(u)
      PROVE  ProgressOf(x)'
    BY <1>2, <1>4 DEF StartCreate, Call, diskVars, Writing
<1>5. ASSUME NEW u \in Tasks, Reject(u) \/ GetFails(u)
      PROVE  ProgressOf(x)'
    BY <1>2, <1>5 DEF Reject, GetFails, Return, diskVars
<1>6. ASSUME NEW u \in Tasks, NEW s \in Sets, MakeDir(u, s)
      PROVE  ProgressOf(x)'
    <2>1. CASE x = u
        BY <1>6, <2>1, AfterBefore DEF MakeDir, ProgressOf, Calls
    <2>2. CASE x # u
        BY <1>2, <1>6, <2>2 DEF MakeDir
    <2> QED
        BY <2>1, <2>2
<1>7. ASSUME NEW u \in Tasks, Open(u)
      PROVE  ProgressOf(x)'
    <2>1. /\ target[u] \in Sets /\ file[u] \in Files
          /\ OnlyFile(target[u], file[u])
          /\ content'[target[u]][file[u]] = "cut"
        BY <1>7, OpenWrites
    <2>2. CASE x = u
        BY <1>7, <2>1, <2>2, AfterBefore
           DEF Open, GoTo, Progress, ProgressOf, Writing, OnlyFile
    <2>3. CASE x # u
        BY <1>3, <1>7, <2>1, <2>3 DEF Open, GoTo
    <2> QED
        BY <2>2, <2>3
<1>8. ASSUME NEW u \in Tasks, Fill(u)
      PROVE  ProgressOf(x)'
    <2>1. /\ target[u] \in Sets /\ file[u] \in Files
          /\ OnlyFile(target[u], file[u])
          /\ content[target[u]][file[u]] = "cut" =>
               content'[target[u]][file[u]] = "whole"
        BY <1>8, FillWrites
    <2>2. CASE x = u
        <3>1. file[u] # Last
            BY <1>8, <2>2 DEF Fill, Return
        <3>2. /\ op[u] = "create" /\ target'[u] = target[u]
              /\ file'[u] = After(file[u]) /\ pc[u] = "fill" /\ pc'[u] = "open"
            BY <1>8, <2>2, <3>1 DEF Fill
        <3>3. /\ \A f \in Before(file[u]) : content[target[u]][f] = "whole"
              /\ content[target[u]][file[u]] = "cut"
            BY <3>2 DEF Progress, ProgressOf, Writing
        <3> QED
            BY <2>1, <2>2, <3>1, <3>2, <3>3, AfterBefore DEF ProgressOf, OnlyFile
    <2>3. CASE x # u
        BY <1>3, <1>8, <2>1, <2>3 DEF Fill, Return
    <2> QED
        BY <2>2, <2>3
<1>9. ASSUME NEW u \in Tasks, WriteFails(u)
      PROVE  ProgressOf(x)'
    <2>1. CASE x = u
        BY <1>9, <2>1 DEF WriteFails, GoTo, Return, Writing
    <2>2. CASE x # u
        BY <1>3, <1>9, <2>2, WriteFailsWrites DEF WriteFails, GoTo, Return
    <2> QED
        BY <2>1, <2>2
<1>10. ASSUME NEW u \in Tasks, NEW f \in Files, RemoveEntry(u, f)
       PROVE  ProgressOf(x)'
    BY <1>3, <1>10, RemoveWrites DEF RemoveEntry, taskVars, Writing
<1>11. ASSUME NEW u \in Tasks, RemoveDir(u)
       PROVE  ProgressOf(x)'
    BY <1>2, <1>11 DEF RemoveDir, Return
<1>12. ASSUME NEW u \in Tasks, NEW s \in Sets,
              StartDelete(u, s) \/ UpdateLastUsed(u, s) \/ CheckStatus(u, s)
       PROVE  ProgressOf(x)'
    BY <1>2, <1>12
       DEF StartDelete, UpdateLastUsed, CheckStatus, Call, diskVars, Writing
<1>13. ASSUME NEW u \in Tasks, Get(u)
       PROVE  ProgressOf(x)'
    BY <1>2, <1>13 DEF Get, diskVars, Calls, Rewriting
<1>14. CASE Crash
    BY <1>14 DEF Crash
<1>15. CASE UNCHANGED vars
    BY <1>2, <1>15 DEF vars, diskVars, taskVars
<1> QED
    BY <1>4, <1>5, <1>6, <1>7, <1>8, <1>9, <1>10, <1>11, <1>12, <1>13, <1>14,
       <1>15 DEF CertNext

LEMMA ContentsStep == CInv /\ [CertNext]_vars => Contents'
<1> SUFFICES ASSUME CInv, [CertNext]_vars
             PROVE  Contents'
    OBVIOUS
<1> USE DEF CInv, CertTypeOK
<1>1. "meta" \in Files /\ Kept \subseteq Files
    BY DEF Files, Kept
<1>2. ASSUME UNCHANGED content, created' = created, deleted \subseteq deleted'
      PROVE  Contents'
    BY <1>2 DEF Contents
<1>3. ASSUME NEW u \in Tasks, Open(u)
      PROVE  Contents'
    <2>1. Writing(u) /\ UNCHANGED <<created, deleted>>
        BY <1>3 DEF Open, Writing, ghostVars
    <2> QED
        BY <1>1, <1>3, <2>1, OpenWrites, WriterTarget DEF Contents, OnlyFile
<1>4. ASSUME NEW u \in Tasks, Fill(u)
      PROVE  Contents'
    <2>1. Writing(u) /\ deleted' = deleted /\ pc[u] = "fill"
        BY <1>4 DEF Fill, Writing
    <2>2. CASE op[u] = "create" /\ file[u] = Last
        <3>1. created' = created \union {target[u]}
            BY <1>4, <2>2 DEF Fill
        <3>2. \A f \in Kept \ {"meta"} : content[target[u]][f] = "whole"
            BY <2>1, <2>2, AfterBefore DEF Progress, ProgressOf
        <3> QED
            BY <1>1, <1>4, <2>1, <2>2, <3>1, <3>2, FillWrites, AfterBefore
               DEF Contents, OnlyFile
    <2>3. CASE ~(op[u] = "create" /\ file[u] = Last)
        <3>1. created' = created
            BY <1>4, <2>3 DEF Fill
        <3>2. \/ target[u] \notin created /\ file[u] # "meta"
              \/ target[u] \in created /\ file[u] = "meta"
            BY <2>1, <2>3, WriterTarget, AfterBefore
        <3> QED
            BY <1>1, <1>4, <2>1, <3>1, <3>2, FillWrites DEF Contents, OnlyFile
    <2> QED
        BY <2>2, <2>3
<1>5. ASSUME NEW u \in Tasks, WriteFails(u)
      PROVE  Contents'
    <2>1. Writing(u) /\ UNCHANGED <<created, deleted>>
        BY <1>5 DEF WriteFails, Writing
    <2> QED
        <3>1. CASE content' = content
            BY <1>2, <2>1, <3>1
        <3>2. CASE content[target[u]][file[u]] = "whole"
            <4>1. \/ target[u] \notin created /\ file[u] # "meta"
                  \/ target[u] \in created /\ file[u] = "meta"
                BY <1>5, <2>1, <3>2, WriteFailsWrites, WriterTarget DEF Contents
            <4> QED
                BY <1>1, <1>5, <2>1, <4>1, WriteFailsWrites DEF Contents, OnlyFile
        <3> QED
            BY <1>5, <3>1, <3>2, WriteFailsWrites
<1>6. ASSUME NEW u \in Tasks, NEW f \in Files, RemoveEntry(u, f)
      PROVE  Contents'
    <2>1. pc[u] = "remove" /\ UNCHANGED <<created, deleted>>
        BY <1>6 DEF RemoveEntry, ghostVars
    <2> QED
        BY <1>1, <1>6, <2>1, RemoveWrites, RemoverTarget DEF Contents, OnlyFile
<1>7. ASSUME NEW u \in Tasks, NEW s \in Sets,
             MakeDir(u, s) \/ StartDelete(u, s)
             \/ UpdateLastUsed(u, s) \/ CheckStatus(u, s)
      PROVE  Contents'
    BY <1>2, <1>7 DEF MakeDir, StartDelete, UpdateLastUsed, CheckStatus,
       diskVars, ghostVars
<1>8. ASSUME NEW u \in Tasks, StartCreate(u) \/ Reject(u) \/ GetFails(u)
                              \/ RemoveDir(u) \/ Get(u)
      PROVE  Contents'
    BY <1>2, <1>8 DEF StartCreate, Reject, GetFails, RemoveDir, Get, diskVars,
       ghostVars
<1>9. CASE Crash \/ UNCHANGED vars
    BY <1>2, <1>9 DEF Crash, vars, diskVars, ghostVars
<1> QED
    BY <1>3, <1>4, <1>5, <1>6, <1>7, <1>8, <1>9 DEF CertNext

LEMMA GoneStep == CInv /\ [CertNext]_vars => FailedLeavesNothing'
<1> SUFFICES ASSUME CInv, [CertNext]_vars
             PROVE  FailedLeavesNothing'
    OBVIOUS
<1> USE DEF CInv, CertTypeOK
<1>1. ASSUME UNCHANGED <<dirs, content, failed>>
      PROVE  FailedLeavesNothing'
    BY <1>1 DEF FailedLeavesNothing
<1>2. ASSUME NEW u \in Tasks, NEW s \in Sets, MakeDir(u, s)
      PROVE  FailedLeavesNothing'
    BY <1>2 DEF MakeDir, FailedLeavesNothing, History
<1>3. ASSUME NEW u \in Tasks, Open(u)
      PROVE  FailedLeavesNothing'
    <2>1. Writing(u) /\ failed' = failed /\ dirs' = dirs \union {target[u]}
        BY <1>3 DEF Open, Writing, ghostVars
    <2> QED
        BY <1>3, <2>1, OpenWrites, WriterTarget DEF FailedLeavesNothing, OnlyFile
<1>4. ASSUME NEW u \in Tasks, Fill(u)
      PROVE  FailedLeavesNothing'
    <2>1. Writing(u) /\ failed' = failed /\ dirs' = dirs
        BY <1>4 DEF Fill, Writing
    <2> QED
        BY <1>4, <2>1, FillWrites, WriterTarget DEF FailedLeavesNothing, OnlyFile
<1>5. ASSUME NEW u \in Tasks, WriteFails(u)
      PROVE  FailedLeavesNothing'
    <2>1. Writing(u) /\ failed' = failed /\ dirs' = dirs
        BY <1>5 DEF WriteFails, Writing
    <2> QED
        BY <1>5, <2>1, WriteFailsWrites, WriterTarget
           DEF FailedLeavesNothing, OnlyFile
<1>6. ASSUME NEW u \in Tasks, NEW f \in Files, RemoveEntry(u, f)
      PROVE  FailedLeavesNothing'
    <2>1. failed' = failed /\ dirs' = dirs
        BY <1>6 DEF RemoveEntry, ghostVars
    <2> QED
        BY <1>6, <2>1, RemoveWrites DEF FailedLeavesNothing, OnlyFile
<1>7. ASSUME NEW u \in Tasks, RemoveDir(u)
      PROVE  FailedLeavesNothing'
    BY <1>7 DEF RemoveDir, FailedLeavesNothing
<1>8. ASSUME NEW u \in Tasks, StartCreate(u) \/ Reject(u) \/ GetFails(u) \/ Get(u)
      PROVE  FailedLeavesNothing'
    BY <1>1, <1>8 DEF StartCreate, Reject, GetFails, Get, diskVars, ghostVars
<1>9. ASSUME NEW u \in Tasks, NEW s \in Sets,
             StartDelete(u, s) \/ UpdateLastUsed(u, s) \/ CheckStatus(u, s)
      PROVE  FailedLeavesNothing'
    BY <1>1, <1>9 DEF StartDelete, UpdateLastUsed, CheckStatus, diskVars, ghostVars
<1>10. CASE Crash \/ UNCHANGED vars
    BY <1>1, <1>10 DEF Crash, vars, diskVars, ghostVars
<1> QED
    BY <1>2, <1>3, <1>4, <1>5, <1>6, <1>7, <1>8, <1>9, <1>10 DEF CertNext

LEMMA CertAlways == CertSpec => []CInv
<1>1. CertInit => CInv
    BY CertTypeInit, CallsInit DEF CInv
<1>2. CInv /\ [CertNext]_vars => CInv'
    BY CertTypeStep, CallsStep, HistoryStep, ProgressStep, ContentsStep, GoneStep
       DEF CInv
<1> QED
    BY <1>1, <1>2, PTL DEF CertSpec

\* CertTypeOK: only drawn identifiers are written to, and the calls' variables
\* keep their ranges.
THEOREM CertTypeCorrect == CertSpec => []CertTypeOK
BY CertAlways, PTL DEF CInv

\* ListedIsWhole: a set whose meta.json can be read and that nobody deletes has
\* all the files a job needs, for any interleaving, failed write and crash.
THEOREM ListedComplete == CertSpec => []ListedIsWhole
<1>1. CInv => ListedIsWhole
    BY DEF CInv, Contents, Listed, ListedIsWhole, Files, Kept
<1> QED
    BY <1>1, CertAlways, PTL

\* FailedLeavesNothing: what a failed Create cleaned up stays away.
THEOREM FailureClean == CertSpec => []FailedLeavesNothing
BY CertAlways, PTL DEF CInv

-----------------------------------------------------------------------------
(* The number of sets                                                      *)

\* Goroutines that may add a set, and those whose set is hidden for a while.
Makers == {t \in Tasks : op[t] = "create"}
Rewriters == {t \in Tasks : Rewriting(t) /\ Writing(t)}
Coming == {target[t] : t \in Rewriters}
Shown == Listed \union Coming
Room == Cardinality(Shown) + Cardinality(Makers) <= MaxSets + Cardinality(Tasks) - 1

LEMMA Finite ==
    ASSUME CInv
    PROVE  /\ Shown \subseteq Sets /\ Makers \subseteq Tasks
           /\ IsFiniteSet(Shown) /\ IsFiniteSet(Makers) /\ IsFiniteSet(Tasks)
           /\ Cardinality(Shown) \in Nat /\ Cardinality(Makers) \in Nat
           /\ Cardinality(Tasks) \in Nat
<1>1. Shown \subseteq Sets /\ Makers \subseteq Tasks
    BY DEF Shown, Makers, Coming, Listed, Rewriters, CInv, Calls
<1> QED
    BY <1>1, CertAssumption, FS_Subset, FS_CardinalityType

\* Each rewriter hides one set at most.
LEMMA ComingFew ==
    ASSUME CInv
    PROVE  /\ IsFiniteSet(Coming) /\ IsFiniteSet(Rewriters)
           /\ Cardinality(Coming) \in Nat /\ Cardinality(Rewriters) \in Nat
           /\ Cardinality(Coming) <= Cardinality(Rewriters)
<1> DEFINE f == [t \in Rewriters |-> target[t]]
<1>1. IsFiniteSet(Rewriters)
    BY CertAssumption, FS_Subset DEF Rewriters
<1>2. f \in Surjection(Rewriters, Coming)
    BY DEF Surjection, Coming
<1> HIDE DEF f
<1> QED
    BY <1>1, <1>2, FS_Surjection, FS_CardinalityType

\* A step that shows no new set and begins no Create.
LEMMA RoomKept ==
    ASSUME CInv, Room, Shown' \subseteq Shown, Makers' \subseteq Makers
    PROVE  Room'
<1>1. /\ Cardinality(Shown') \in Nat /\ Cardinality(Shown') <= Cardinality(Shown)
      /\ Cardinality(Makers') \in Nat /\ Cardinality(Makers') <= Cardinality(Makers)
    BY Finite, FS_Subset, FS_CardinalityType
<1> QED
    BY <1>1, Finite, CertAssumption DEF Room

\* The count of List: a goroutine that begins a Create is not a rewriter.
LEMMA RoomAtStart ==
    ASSUME CInv, CInv', NEW u \in Tasks, StartCreate(u)
    PROVE  Room'
<1>1. /\ Listed' = Listed /\ Cardinality(Listed) < MaxSets
      /\ IsFiniteSet(Listed) /\ Cardinality(Listed) \in Nat
    BY CertAssumption, FS_Subset, FS_CardinalityType
       DEF StartCreate, Listed, diskVars
<1>2. Cardinality(Makers') + Cardinality(Rewriters') <= Cardinality(Tasks)
    <2>1. Makers' \intersect Rewriters' = {}
        BY DEF Makers, Rewriters, Rewriting
    <2>2. IsFiniteSet(Makers') /\ IsFiniteSet(Rewriters')
        BY CertAssumption, FS_Subset DEF Makers, Rewriters
    <2>3. Cardinality(Makers' \intersect Rewriters') = 0
        BY <2>1, FS_EmptySet
    <2>4. /\ Cardinality(Makers' \union Rewriters')
               = Cardinality(Makers') + Cardinality(Rewriters')
                   - Cardinality(Makers' \intersect Rewriters')
          /\ Cardinality(Makers') \in Nat /\ Cardinality(Rewriters') \in Nat
        BY <2>2, FS_Union, FS_CardinalityType
    <2>5. Makers' \union Rewriters' \in SUBSET Tasks
        BY DEF Makers, Rewriters
    <2>6. Cardinality(Makers' \union Rewriters') <= Cardinality(Tasks)
        BY <2>5, CertAssumption, FS_Subset
    <2> QED
        BY <2>3, <2>4, <2>6
<1>3. /\ IsFiniteSet(Coming') /\ Cardinality(Coming') \in Nat
      /\ Cardinality(Rewriters') \in Nat
      /\ Cardinality(Coming') <= Cardinality(Rewriters')
    <2>1. Rewriters' = Rewriters
        BY DEF StartCreate, Call, Idle, Rewriters, Rewriting, Writing, CInv,
               CertTypeOK
    <2>2. Coming' = Coming
        BY <2>1 DEF StartCreate, Call, Idle, Coming, Rewriters, Rewriting, CInv,
                    CertTypeOK
    <2> QED
        BY <2>1, <2>2, ComingFew
<1>4. Cardinality(Shown') <= Cardinality(Listed) + Cardinality(Coming')
    <2>1. Shown' = Listed \union Coming'
        BY <1>1 DEF Shown
    <2>2. Cardinality(Listed \intersect Coming') \in Nat
        BY <1>1, FS_Subset, FS_CardinalityType
    <2>3. Cardinality(Listed \union Coming') = Cardinality(Listed)
            + Cardinality(Coming') - Cardinality(Listed \intersect Coming')
        BY <1>1, <1>3, FS_Union
    <2> QED
        BY <1>1, <1>3, <2>1, <2>2, <2>3
<1>5. Cardinality(Makers') \in Nat /\ Cardinality(Tasks) \in Nat
    BY CertAssumption, FS_Subset, FS_CardinalityType DEF Makers
<1>6. Cardinality(Shown') \in Nat
    <2>1. Shown' = Listed \union Coming'
        BY <1>1 DEF Shown
    <2> QED
        BY <1>1, <1>3, <2>1, FS_Union, FS_CardinalityType
<1> QED
    BY <1>1, <1>2, <1>3, <1>4, <1>5, <1>6, CertAssumption DEF Room

\* The last write of a Create: one more set, one Create less.
LEMMA RoomAtEnd ==
    ASSUME CInv, Room, NEW u \in Makers, NEW s \in Sets,
           Shown' \subseteq Shown \union {s}, Makers' \subseteq Makers \ {u}
    PROVE  Room'
<1>1. /\ Cardinality(Makers \ {u}) = Cardinality(Makers) - 1
      /\ IsFiniteSet(Makers \ {u})
    BY Finite, FS_RemoveElement
<1>2. /\ Cardinality(Shown \union {s}) <= Cardinality(Shown) + 1
      /\ IsFiniteSet(Shown \union {s})
    <2>1. IsFiniteSet(Shown) /\ Cardinality(Shown) \in Nat
        BY Finite
    <2>2. /\ IsFiniteSet(Shown \union {s})
          /\ Cardinality(Shown \union {s}) =
               IF s \in Shown THEN Cardinality(Shown) ELSE Cardinality(Shown) + 1
        BY <2>1, FS_AddElement
    <2> QED
        BY <2>1, <2>2
<1>3. /\ Cardinality(Shown') \in Nat /\ Cardinality(Makers') \in Nat
      /\ Cardinality(Shown') <= Cardinality(Shown \union {s})
      /\ Cardinality(Makers') <= Cardinality(Makers \ {u})
    BY <1>1, <1>2, FS_Subset, FS_CardinalityType
<1>4. Cardinality(Shown \union {s}) \in Nat
    BY <1>2, FS_CardinalityType
<1> QED
    BY <1>1, <1>2, <1>3, <1>4, Finite, CertAssumption DEF Room

LEMMA RoomStep == CInv /\ CInv' /\ Room /\ [CertNext]_vars => Room'
<1> SUFFICES ASSUME CInv, CInv', Room, [CertNext]_vars
             PROVE  Room'
    OBVIOUS
<1> USE DEF CInv, CertTypeOK
<1> USE DEF Shown, Makers, Coming, Rewriters, Rewriting, Writing, Listed
<1>0. "meta" \in Files
    BY DEF Files
<1>1. ASSUME NEW u \in Tasks, StartCreate(u)
      PROVE  Room'
    BY <1>1, RoomAtStart
<1>2. ASSUME NEW u \in Tasks, Reject(u) \/ GetFails(u) \/ RemoveDir(u)
      PROVE  Room'
    <2>1. content' = content
        BY <1>2 DEF Reject, GetFails, RemoveDir, diskVars
    <2>2. op' = [op EXCEPT ![u] = "none"] /\ target' = [target EXCEPT ![u] = NoSet]
          /\ pc' = [pc EXCEPT ![u] = "none"]
        BY <1>2 DEF Reject, GetFails, RemoveDir, Return
    <2>3. Shown' \subseteq Shown /\ Makers' \subseteq Makers
        BY <2>1, <2>2
    <2> QED
        BY <2>3, RoomKept
<1>3. ASSUME NEW u \in Tasks, NEW s \in Sets, MakeDir(u, s)
      PROVE  Room'
    <2>1. Shown' \subseteq Shown /\ Makers' \subseteq Makers
        BY <1>3 DEF MakeDir, Calls
    <2> QED
        BY <2>1, RoomKept
<1>4. ASSUME NEW u \in Tasks, Open(u)
      PROVE  Room'
    <2>1. Listed' \subseteq Listed
        BY <1>0, <1>4, OpenWrites DEF OnlyFile
    <2>2. Coming' \subseteq Coming /\ Makers' \subseteq Makers
        BY <1>4 DEF Open, GoTo
    <2> QED
        BY <2>1, <2>2, RoomKept
<1>5. ASSUME NEW u \in Tasks, WriteFails(u)
      PROVE  Room'
    <2>1. Listed' \subseteq Listed
        BY <1>0, <1>5, WriteFailsWrites DEF OnlyFile, WriteFails
    <2>2. Coming' \subseteq Coming /\ Makers' \subseteq Makers
        BY <1>5 DEF WriteFails, GoTo, Return
    <2> QED
        BY <2>1, <2>2, RoomKept
<1>6. ASSUME NEW u \in Tasks, NEW f \in Files, RemoveEntry(u, f)
      PROVE  Room'
    <2>1. Listed' \subseteq Listed
        BY <1>0, <1>6, RemoveWrites DEF OnlyFile
    <2>2. Coming' \subseteq Coming /\ Makers' \subseteq Makers
        BY <1>6 DEF RemoveEntry, taskVars
    <2> QED
        BY <2>1, <2>2, RoomKept
<1>7. ASSUME NEW u \in Tasks, NEW s \in Sets,
             StartDelete(u, s) \/ UpdateLastUsed(u, s) \/ CheckStatus(u, s)
      PROVE  Room'
    <2>1. content' = content
        BY <1>7 DEF StartDelete, UpdateLastUsed, CheckStatus, diskVars
    <2>2. \A x \in Tasks : x # u => op'[x] = op[x] /\ pc'[x] = pc[x]
                                   /\ target'[x] = target[x]
        BY <1>7 DEF StartDelete, UpdateLastUsed, CheckStatus, Call
    <2>3. op'[u] # "create" /\ pc'[u] \in {"get", "remove"}
        BY <1>7 DEF StartDelete, UpdateLastUsed, CheckStatus, Call
    <2>4. Coming' \subseteq Coming /\ Makers' \subseteq Makers
        BY <2>2, <2>3
    <2> QED
        BY <2>1, <2>4, RoomKept
<1>8. ASSUME NEW u \in Tasks, Get(u)
      PROVE  Room'
    <2>1. Shown' \subseteq Shown /\ Makers' \subseteq Makers
        BY <1>8 DEF Get, diskVars
    <2> QED
        BY <2>1, RoomKept
<1>9. ASSUME NEW u \in Tasks, Fill(u)
      PROVE  Room'
    <2>1. /\ target[u] \in Sets /\ file[u] \in Files /\ pc[u] = "fill"
          /\ Listed' \subseteq Listed \union {target[u]}
        BY <1>0, <1>9, FillWrites DEF OnlyFile, Fill
    <2>2. Coming' \subseteq Coming
        BY <1>9 DEF Fill, Return
    <2>3. CASE op[u] = "create" /\ file[u] = Last
        <3>1. u \in Makers /\ Makers' \subseteq Makers \ {u}
            BY <1>9, <2>3 DEF Fill, Return
        <3> QED
            BY <2>1, <2>2, <3>1, RoomAtEnd
    <2>4. CASE op[u] = "create" /\ file[u] # Last
        <3>1. Listed' \subseteq Listed
            BY <1>0, <1>9, <2>4, FillWrites, AfterBefore DEF OnlyFile
        <3>2. Makers' \subseteq Makers
            BY <1>9, <2>4 DEF Fill
        <3> QED
            BY <2>2, <3>1, <3>2, RoomKept
    <2>5. CASE op[u] # "create"
        <3>1. u \in Rewriters
            BY <2>1, <2>5 DEF Calls
        <3>2. Makers' \subseteq Makers
            BY <1>9, <2>5 DEF Fill, Return
        <3> QED
            BY <2>1, <2>2, <3>1, <3>2, RoomKept
    <2> QED
        BY <2>3, <2>4, <2>5
<1>10. CASE Crash
    <2>1. Shown' \subseteq Shown /\ Makers' \subseteq Makers
        BY <1>10 DEF Crash, diskVars
    <2> QED
        BY <2>1, RoomKept
<1>11. CASE UNCHANGED vars
    <2>1. Shown' \subseteq Shown /\ Makers' \subseteq Makers
        BY <1>11 DEF vars, diskVars, taskVars
    <2> QED
        BY <2>1, RoomKept
<1> QED
    BY <1>1, <1>2, <1>3, <1>4, <1>5, <1>6, <1>7, <1>8, <1>9, <1>10, <1>11
       DEF CertNext

LEMMA RoomInit == CertInit => Room
<1> SUFFICES ASSUME CertInit
             PROVE  Room
    OBVIOUS
<1>1. Shown = {} /\ Makers = {}
    BY DEF CertInit, Shown, Makers, Listed, Coming, Rewriters, Rewriting, Files
<1>2. Cardinality(Tasks) \in Nat /\ Cardinality({}) = 0
    BY CertAssumption, FS_CardinalityType, FS_EmptySet
<1> QED
    BY <1>1, <1>2, CertAssumption DEF Room

\* BoundedOvershoot: the limit checked at manager.go:42 before anything is
\* written is passed by less than the number of concurrent calls.
THEOREM LimitRoughly == CertSpec => []BoundedOvershoot
<1>1. CertInit => Room
    BY RoomInit
<1>2. CInv /\ Room => BoundedOvershoot
    <2> SUFFICES ASSUME CInv, Room
                 PROVE  BoundedOvershoot
        OBVIOUS
    <2>1. Cardinality(Listed) <= Cardinality(Shown) /\ Cardinality(Listed) \in Nat
        BY Finite, FS_Subset, FS_CardinalityType DEF Shown
    <2> QED
        BY <2>1, Finite, CertAssumption DEF Room, BoundedOvershoot
<1>3. CertSpec => []CInv
    BY CertAlways
<1> QED
    BY <1>1, <1>2, <1>3, RoomStep, PTL DEF CertSpec

-----------------------------------------------------------------------------
(* Sets stay until they are deleted                                        *)

\* Of a set that met no second writer and no cut-off write: who rewrites its
\* meta.json is alone, has truncated what it is about to fill, and carries the
\* time of last use; while nobody does, the set is listed with that time.
KeptOf(s) ==
    /\ \A t, u \in Tasks : Written(t, s) /\ Written(u, s) => t = u
    /\ \A t \in Tasks : Written(t, s) =>
          /\ pc[t] = "fill" => content[s]["meta"] = "cut"
          /\ s \in usedOnce \/ op[t] = "use" => copy[t]
    /\ \/ \E t \in Tasks : Written(t, s)
       \/ s \in Listed /\ (s \in usedOnce => s \in used)

KeptInv ==
    /\ usedOnce \subseteq created
    /\ \A s \in created \ (deleted \union spoiled) : KeptOf(s)

\* A writer of a created set rewrites its meta.json.
LEMMA WrittenBy ==
    ASSUME CInv, NEW t \in Tasks, NEW s \in created, target[t] = s
    PROVE  /\ pc[t] \in {"open", "fill"} => Written(t, s) /\ file[t] = "meta"
           /\ pc[t] = "remove" => s \in deleted
<1>1. pc[t] \in {"open", "fill"} => op[t] # "create" /\ op[t] # "delete" /\ op[t] # "none"
                                    /\ file[t] = "meta"
    BY WriterTarget DEF Writing, CInv, Calls
<1>2. op[t] \in {"none", "create", "delete", "use", "check"}
    BY DEF CInv, CertTypeOK
<1> QED
    BY <1>1, <1>2, RemoverTarget DEF Written, Rewriting

LEMMA KeptStep == CInv /\ KeptInv /\ [CertNext]_vars => KeptInv'
<1> SUFFICES ASSUME CInv, KeptInv, [CertNext]_vars
             PROVE  KeptInv'
    OBVIOUS
<1>t. /\ op \in [Tasks -> {"none", "create", "delete", "use", "check"}]
      /\ pc \in [Tasks -> {"none", "dir", "get", "open", "fill", "remove"}]
      /\ target \in [Tasks -> Sets \union {NoSet}]
      /\ file \in [Tasks -> Files]
      /\ copy \in [Tasks -> BOOLEAN]
      /\ created \subseteq Sets /\ usedOnce \subseteq created /\ "meta" \in Files
    BY DEF CInv, CertTypeOK, KeptInv, Files
\* A step of u that does not touch the set s.
<1>a. ASSUME NEW s \in created \ (deleted \union spoiled), NEW u \in Tasks,
             content'[s]["meta"] = content[s]["meta"],
             s \in used' <=> s \in used, s \in usedOnce' <=> s \in usedOnce,
             ~Written(u, s), ~Written(u, s)',
             \A x \in Tasks : x # u =>
                op'[x] = op[x] /\ pc'[x] = pc[x] /\ target'[x] = target[x] /\ copy'[x] = copy[x]
      PROVE  KeptOf(s)'
    <2>1. \A x \in Tasks : /\ Written(x, s)' <=> Written(x, s)
                           /\ Written(x, s) => x # u
        BY <1>a DEF Written, Rewriting
    <2>2. s \in Listed' <=> s \in Listed
        BY <1>a, <1>t DEF Listed
    <2>3. KeptOf(s)
        BY <1>a DEF KeptInv
    <2> QED
        BY <1>a, <2>1, <2>2, <2>3 DEF KeptOf
\* For most steps only the sets that were there before matter.
<1>b. ASSUME created' = created, usedOnce' = usedOnce,
             deleted \subseteq deleted', spoiled \subseteq spoiled',
             \A s \in created \ (deleted \union spoiled) :
                s \notin deleted' \union spoiled' => KeptOf(s)'
      PROVE  KeptInv'
    BY <1>b, <1>t DEF KeptInv
<1>1. ASSUME NEW u \in Tasks, StartCreate(u) PROVE KeptInv'
    BY <1>1, <1>a, <1>b, <1>t
       DEF StartCreate, Call, Idle, Written, Rewriting, diskVars, ghostVars
<1>2. ASSUME NEW u \in Tasks, Reject(u) \/ GetFails(u) PROVE KeptInv'
    BY <1>2, <1>a, <1>b, <1>t
       DEF Reject, GetFails, Return, Written, Rewriting, diskVars, ghostVars
<1>3. ASSUME NEW u \in Tasks, NEW s \in Sets, MakeDir(u, s) PROVE KeptInv'
    <2>1. op[u] = "create"
        BY <1>3 DEF MakeDir, CInv, CertTypeOK, Calls, Rewriting
    <2> QED
        BY <1>3, <1>a, <1>b, <1>t, <2>1 DEF MakeDir, Written, Rewriting
<1>4. ASSUME NEW u \in Tasks, NEW s \in Sets,
             StartDelete(u, s) \/ UpdateLastUsed(u, s) \/ CheckStatus(u, s)
      PROVE  KeptInv'
    <2>1. /\ UNCHANGED <<content, used, created, usedOnce, spoiled, copy>>
          /\ deleted \subseteq deleted' /\ op[u] = "none" /\ pc'[u] \in {"remove", "get"}
          /\ \A x \in Tasks : x # u =>
                op'[x] = op[x] /\ pc'[x] = pc[x] /\ target'[x] = target[x]
        BY <1>4, <1>t DEF StartDelete, UpdateLastUsed, CheckStatus, Call, Idle,
           diskVars, ghostVars
    <2> QED
        BY <1>a, <1>b, <2>1 DEF Written, Rewriting
<1>5. ASSUME NEW u \in Tasks, Open(u) PROVE KeptInv'
    <2>1. /\ UNCHANGED <<used, created, deleted, usedOnce, spoiled, op, target, copy>>
          /\ pc[u] = "open" /\ pc' = [pc EXCEPT ![u] = "fill"]
        BY <1>5 DEF Open, GoTo, ghostVars
    <2>2. /\ OnlyFile(target[u], file[u]) /\ target[u] \in Sets
          /\ content'[target[u]][file[u]] = "cut"
        BY <1>5, OpenWrites
    <2>3. ASSUME NEW s \in created \ (deleted \union spoiled) PROVE KeptOf(s)'
        <3>1. CASE target[u] = s
            <4>1. Written(u, s) /\ file[u] = "meta"
                BY <2>1, <3>1, WrittenBy
            <4>2. \A x \in Tasks : Written(x, s)' <=> Written(x, s)
                BY <1>t, <2>1, <3>1 DEF Written, Rewriting
            <4>3. content'[s]["meta"] = "cut"
                BY <2>2, <3>1, <4>1
            <4>4. KeptOf(s)
                BY <2>3 DEF KeptInv
            <4> QED
                BY <2>1, <4>1, <4>2, <4>3, <4>4 DEF KeptOf
        <3>2. CASE target[u] # s
            <4>1. content'[s]["meta"] = content[s]["meta"]
                BY <1>t, <2>2, <2>3, <3>2 DEF OnlyFile
            <4> QED
                BY <1>a, <1>t, <2>1, <2>3, <3>2, <4>1 DEF Written
        <3> QED
            BY <3>1, <3>2
    <2> QED
        BY <1>b, <2>1, <2>3
<1>6. ASSUME NEW u \in Tasks, Fill(u) PROVE KeptInv'
    <2>1. /\ UNCHANGED <<deleted, spoiled>> /\ pc[u] = "fill"
          /\ OnlyFile(target[u], file[u]) /\ target[u] \in Sets
          /\ content[target[u]][file[u]] = "cut" =>
                content'[target[u]][file[u]] = "whole"
          /\ \A s \in Sets : s # target[u] =>
                /\ s \in used' <=> s \in used
                /\ s \in usedOnce' <=> s \in usedOnce
                /\ s \in created' <=> s \in created
          /\ \A x \in Tasks : x # u =>
                op'[x] = op[x] /\ pc'[x] = pc[x] /\ target'[x] = target[x] /\ copy'[x] = copy[x]
        <3>1. /\ UNCHANGED <<deleted, spoiled>> /\ pc[u] = "fill"
              /\ OnlyFile(target[u], file[u]) /\ target[u] \in Sets
              /\ content[target[u]][file[u]] = "cut" =>
                    content'[target[u]][file[u]] = "whole"
            BY <1>6, FillWrites DEF Fill
        <3>2. \A s \in Sets : s # target[u] => (s \in used' <=> s \in used)
            BY <1>6 DEF Fill
        <3>3. \A s \in Sets : s # target[u] =>
                /\ s \in usedOnce' <=> s \in usedOnce
                /\ s \in created' <=> s \in created
            BY <1>6 DEF Fill
        <3>4. CASE file[u] = Last
            BY <1>6, <1>t, <3>1, <3>2, <3>3, <3>4 DEF Fill, Return
        <3>5. CASE file[u] # Last
            BY <1>6, <1>t, <3>1, <3>2, <3>3, <3>5 DEF Fill
        <3> QED
            BY <3>4, <3>5
    <2>2. ASSUME NEW s \in created \ (deleted \union spoiled), s # target[u]
          PROVE  KeptOf(s)'
        <3>1. content'[s]["meta"] = content[s]["meta"]
            BY <1>t, <2>1, <2>2 DEF OnlyFile
        <3>2. ~Written(u, s) /\ ~Written(u, s)'
            <4>1. target'[u] \in {target[u], NoSet}
                BY <1>6, <1>t DEF Fill, Return
            <4> QED
                BY <1>t, <2>2, <4>1, CertAssumption DEF Written
        <3> QED
            BY <1>a, <1>t, <2>1, <2>2, <3>1, <3>2
    <2>3. ASSUME NEW s \in created \ (deleted \union spoiled), s = target[u]
          PROVE  KeptOf(s)' /\ s \in created'
        <3>s. s = target[u]
            BY <2>3
        <3>1. Written(u, s) /\ file[u] = "meta" /\ KeptOf(s)
            BY <2>1, <2>3, WrittenBy DEF KeptInv
        <3>2. content'[s]["meta"] = "whole"
            BY <2>1, <3>s, <3>1 DEF KeptOf
        <3>3. \A x \in Tasks : ~Written(x, s)'
            <4>1. op'[u] = "none"
                BY <1>6, <1>t, <3>1 DEF Fill, Last, Return
            <4>2. ASSUME NEW x \in Tasks, x # u PROVE ~Written(x, s)'
                <5>1. ~Written(x, s)
                    BY <3>1, <4>2 DEF KeptOf
                <5> QED
                    BY <2>1, <4>2, <5>1, <3>s DEF Written, Rewriting
            <4>3. ~Written(u, s)'
                BY <4>1 DEF Written, Rewriting
            <4> QED
                BY <4>2, <4>3
        <3>4. s \in usedOnce' => s \in used'
            <4>1. s \in usedOnce' => s \in usedOnce \/ op[u] = "use"
                BY <1>6, <3>s DEF Fill
            <4>2. copy[u] => s \in used'
                BY <1>6, <3>s, <3>1 DEF Fill
            <4> QED
                BY <3>1, <4>1, <4>2 DEF KeptOf
        <3>5. s \in Listed'
            BY <2>1, <2>3, <1>t, <3>2 DEF Listed
        <3>6. s \in created'
            BY <1>6, <2>3, <3>s DEF Fill
        <3> QED
            BY <3>3, <3>4, <3>5, <3>6 DEF KeptOf
    <2>4. ASSUME NEW s \in Sets, s = target[u], s \notin created, s \in created'
          PROVE  KeptOf(s)'
        <3>s. s = target[u]
            BY <2>4
        <3>1. op[u] = "create" /\ file[u] = "meta"
            BY <1>6, <2>4, <3>s DEF Fill, Last
        <3>2. content'[s]["meta"] = "whole"
            BY <2>1, <3>s, <3>1 DEF CInv, Progress, ProgressOf, Writing
        <3>3. \A x \in Tasks : ~Written(x, s)'
            <4>1. op'[u] = "none"
                BY <1>6, <1>t, <3>1 DEF Fill, Last, Return
            <4>2. ASSUME NEW x \in Tasks, x # u PROVE ~Written(x, s)'
                <5>1. ~Written(x, s)
                    BY <2>4, WriterTarget, <3>s DEF Written, Writing, Rewriting
                <5> QED
                    BY <2>1, <4>2, <5>1, <3>s DEF Written, Rewriting
            <4>3. ~Written(u, s)'
                BY <4>1 DEF Written, Rewriting
            <4> QED
                BY <4>2, <4>3
        <3>4. s \notin usedOnce'
            BY <1>6, <1>t, <2>4, <3>s, <3>1 DEF Fill
        <3>5. s \in Listed'
            BY <2>4, <3>2 DEF Listed
        <3> QED
            BY <3>3, <3>4, <3>5 DEF KeptOf
    <2>5. usedOnce' \subseteq created'
        <3>1. op[u] = "use" => target[u] \in created
            BY <2>1 DEF CInv, Calls, Rewriting, Writing
        <3> QED
            BY <1>6, <1>t, <3>1 DEF Fill
    <2>6. created' \subseteq Sets
        BY <1>6, <1>t, <2>1 DEF Fill
    <2>7. ASSUME NEW s \in created' \ (deleted' \union spoiled') PROVE KeptOf(s)'
        <3>1. s \in Sets /\ s \notin deleted \union spoiled
            BY <2>1, <2>6, <2>7
        <3>2. s # target[u] => s \in created
            BY <2>1, <2>7, <3>1
        <3> QED
            BY <2>2, <2>3, <2>4, <2>7, <3>1, <3>2
    <2> QED
        BY <2>5, <2>7 DEF KeptInv
<1>7. ASSUME NEW u \in Tasks, WriteFails(u) PROVE KeptInv'
    <2>1. /\ UNCHANGED <<used, created, deleted, usedOnce>> /\ pc[u] \in {"open", "fill"}
          /\ spoiled \subseteq spoiled'
          /\ op[u] # "create" => target[u] \in spoiled'
          /\ OnlyFile(target[u], file[u]) /\ target[u] \in Sets
          /\ target'[u] \in {target[u], NoSet}
          /\ \A x \in Tasks : x # u =>
                op'[x] = op[x] /\ pc'[x] = pc[x] /\ target'[x] = target[x] /\ copy'[x] = copy[x]
        BY <1>7, <1>t, WriteFailsWrites DEF WriteFails, GoTo, Return
    <2>2. ASSUME NEW s \in created \ (deleted \union spoiled), s \notin spoiled'
          PROVE  KeptOf(s)'
        <3>1. target[u] # s
            BY <2>1, <2>2, WriterTarget DEF Writing
        <3>2. content'[s]["meta"] = content[s]["meta"]
            BY <1>t, <2>1, <2>2, <3>1 DEF OnlyFile
        <3>3. ~Written(u, s) /\ ~Written(u, s)'
            BY <1>t, <2>1, <2>2, <3>1, CertAssumption DEF Written
        <3> QED
            BY <1>a, <2>1, <2>2, <3>2, <3>3
    <2> QED
        BY <1>b, <2>1, <2>2
<1>8. ASSUME NEW u \in Tasks, NEW f \in Files, RemoveEntry(u, f) PROVE KeptInv'
    <2>1. /\ UNCHANGED <<used, taskVars, ghostVars>> /\ pc[u] = "remove"
          /\ OnlyFile(target[u], f) /\ target[u] \in Sets
        BY <1>8, RemoveWrites DEF RemoveEntry
    <2>2. ASSUME NEW s \in created \ (deleted \union spoiled) PROVE KeptOf(s)'
        <3>1. target[u] # s
            BY <2>1, <2>2, WrittenBy
        <3>2. content'[s]["meta"] = content[s]["meta"]
            BY <1>t, <2>1, <2>2, <3>1 DEF OnlyFile
        <3> QED
            BY <1>a, <2>1, <2>2, <3>1, <3>2 DEF Written, taskVars, ghostVars
    <2> QED
        BY <1>b, <2>1, <2>2 DEF ghostVars
<1>9. ASSUME NEW u \in Tasks, RemoveDir(u) PROVE KeptInv'
    <2>1. /\ UNCHANGED <<content, used, created, deleted, usedOnce, spoiled>>
          /\ pc[u] = "remove" /\ pc'[u] = "none"
          /\ \A x \in Tasks : x # u =>
                op'[x] = op[x] /\ pc'[x] = pc[x] /\ target'[x] = target[x] /\ copy'[x] = copy[x]
        BY <1>9, <1>t DEF RemoveDir, Return
    <2>2. ~\E s \in Sets : Written(u, s) \/ Written(u, s)'
        BY <2>1 DEF Written
    <2>3. ASSUME NEW s \in created \ (deleted \union spoiled) PROVE KeptOf(s)'
        BY <1>a, <1>t, <2>1, <2>2, <2>3
    <2> QED
        BY <1>b, <2>1, <2>3
<1>10. ASSUME NEW u \in Tasks, Get(u) PROVE KeptInv'
    <2>1. /\ UNCHANGED <<content, used, created, deleted, usedOnce, op, target>>
          /\ pc[u] = "get" /\ target[u] \in Listed /\ spoiled \subseteq spoiled'
          /\ pc' = [pc EXCEPT ![u] = "open"]
          /\ copy' = [copy EXCEPT ![u] = target[u] \in used \/ op[u] = "use"]
          /\ (\E x \in Tasks : Written(x, target[u])) => target[u] \in spoiled'
        BY <1>10 DEF Get, diskVars
    <2>2. ASSUME NEW s \in created \ (deleted \union spoiled), s \notin spoiled'
          PROVE  KeptOf(s)'
        <3>1. CASE target[u] = s
            <4>1. \A x \in Tasks : ~Written(x, s)
                BY <2>1, <2>2, <3>1
            <4>2. KeptOf(s)
                BY <2>2 DEF KeptInv
            <4>3. s \in usedOnce => s \in used
                BY <4>1, <4>2 DEF KeptOf
            <4>4. \A x \in Tasks : Written(x, s)' => x = u
                BY <1>t, <2>1, <4>1 DEF Written, Rewriting
            <4>5. pc'[u] = "open" /\ (copy'[u] <=> s \in used \/ op[u] = "use")
                BY <1>t, <2>1, <3>1
            <4>6. Written(u, s)'
                <5>1. Rewriting(u)
                    BY <1>t, <2>1 DEF CInv, Calls, Rewriting
                <5> QED
                    BY <2>1, <3>1, <4>5, <5>1 DEF Written, Rewriting
            <4> QED
                BY <2>1, <4>3, <4>4, <4>5, <4>6 DEF KeptOf
        <3>2. CASE target[u] # s
            BY <1>a, <1>t, <2>1, <2>2, <3>2 DEF Written
        <3> QED
            BY <3>1, <3>2
    <2> QED
        BY <1>b, <2>1, <2>2
<1>11. CASE Crash
    <2>1. /\ UNCHANGED <<content, used, created, deleted, usedOnce>>
          /\ spoiled' = spoiled \union {s \in Sets : \E t \in Tasks : Written(t, s)}
          /\ \A x \in Tasks : op'[x] = "none"
        BY <1>11 DEF Crash, diskVars
    <2>2. ASSUME NEW s \in created \ (deleted \union spoiled), s \notin spoiled'
          PROVE  KeptOf(s)'
        <3>1. \A x \in Tasks : ~Written(x, s) /\ ~Written(x, s)'
            BY <1>t, <2>1, <2>2 DEF Written, Rewriting
        <3>2. s \in Listed /\ (s \in usedOnce => s \in used)
            BY <2>2, <3>1 DEF KeptInv, KeptOf
        <3> QED
            BY <2>1, <3>1, <3>2 DEF KeptOf, Listed
    <2> QED
        BY <1>b, <2>1, <2>2
<1>12. CASE UNCHANGED vars
    BY <1>12 DEF vars, diskVars, taskVars, ghostVars, KeptInv, KeptOf, Written,
       Rewriting, Listed
<1> QED
    BY <1>1, <1>2, <1>3, <1>4, <1>5, <1>6, <1>7, <1>8, <1>9, <1>10, <1>11, <1>12
       DEF CertNext

\* KeptUntilDeleted: as long as the rewrites of its meta.json do not overlap and
\* none is cut off, a set stays listed with its time of last use, whatever the
\* other calls do, for any number of them.
THEOREM KeptSafely == CertSpec => []KeptUntilDeleted
<1>1. CertInit => KeptInv
    BY DEF CertInit, KeptInv
<1>2. CInv /\ KeptInv /\ [CertNext]_vars => KeptInv'
    BY KeptStep
<1>3. KeptInv => KeptUntilDeleted
    BY DEF KeptInv, KeptOf, KeptUntilDeleted
<1> QED
    BY CertAlways, <1>1, <1>2, <1>3, PTL DEF CertSpec
=============================================================================
