------------------------------ MODULE CertSets ------------------------------
(***************************************************************************)
(* internal/certset/manager.go over internal/storage: the certificate sets *)
(* of one user, each a directory of files.  Nothing locks a directory: the *)
(* handlers of bot and web create, check and delete sets while the worker  *)
(* writes the time of last use, and a set exists for List when meta.json   *)
(* can be parsed.  A task is a goroutine in one call of the manager.       *)
(*                                                                         *)
(* WriteFile truncates and then writes, RemoveAll removes one entry after  *)
(* the other; a process can end between any two system calls, and a write  *)
(* can fail at either of its two.  Removals do not fail.                   *)
(***************************************************************************)
EXTENDS Naturals, FiniteSets

CONSTANTS
    Tasks,
    Sets,          \* identifiers: uuid.New() returns one not used before
    NoSet,
    MaxSets,       \* MAX_CERTSETS_PER_USER
    HasMasterKey,  \* with it the P12's password is stored too
    MaxCalls,      \* bound on the calls made
    MaxCrashes     \* bound on the ends of the process

ASSUME CertAssumption ==
    /\ IsFiniteSet(Tasks)
    /\ IsFiniteSet(Sets)
    /\ NoSet \notin Sets
    /\ MaxSets \in Nat \ {0}
    /\ HasMasterKey \in BOOLEAN
    /\ MaxCalls \in Nat
    /\ MaxCrashes \in Nat

VARIABLES
    dirs,     \* sets that have a directory
    content,  \* what is in a file of a set: "none", "cut" by a truncation, "mixed", "whole"
    used,     \* sets whose meta.json has last_used_at
    op,       \* the call a task is in
    pc,       \* the system call it is about to make
    target,   \* the set it works on
    file,     \* the file it writes
    copy,     \* whether the record it writes to meta.json has last_used_at
    calls, crashes,
    made,     \* identifiers drawn
    created, failed, deleted,  \* sets whose Create succeeded, failed; whose Delete began
    usedOnce, \* sets UpdateLastUsed was done for
    spoiled   \* sets whose meta.json met two writers at once or a cut-off write

diskVars == <<dirs, content, used>>
taskVars == <<op, pc, target, file, copy>>
ghostVars == <<made, created, failed, deleted, usedOnce, spoiled>>
vars == <<diskVars, taskVars, ghostVars, calls, crashes>>

Files == {"p12", "pass", "prov", "meta"}
Kept == IF HasMasterKey THEN Files ELSE Files \ {"pass"}

\* The order in which Create writes the files.
First == "p12"
After(f) == CASE f = "p12"  -> IF HasMasterKey THEN "pass" ELSE "prov"
              [] f = "pass" -> "prov"
              [] OTHER      -> "meta"
Last == "meta"

Idle(t) == op[t] = "none"
Rewriting(t) == op[t] \in {"use", "check"}
Listed == {s \in Sets : content[s]["meta"] = "whole"}

CertTypeOK ==
    /\ dirs \in SUBSET Sets
    /\ content \in [Sets -> [Files -> {"none", "cut", "mixed", "whole"}]]
    /\ used \in SUBSET Sets
    /\ op \in [Tasks -> {"none", "create", "delete", "use", "check"}]
    /\ pc \in [Tasks -> {"none", "dir", "get", "open", "fill", "remove"}]
    /\ target \in [Tasks -> Sets \union {NoSet}]
    /\ file \in [Tasks -> Files]
    /\ copy \in [Tasks -> BOOLEAN]
    /\ calls \in 0..MaxCalls
    /\ crashes \in 0..MaxCrashes
    /\ made \in SUBSET Sets /\ created \in SUBSET Sets /\ failed \in SUBSET Sets
    /\ deleted \in SUBSET Sets /\ usedOnce \in SUBSET Sets /\ spoiled \in SUBSET Sets

CertInit ==
    /\ dirs = {}
    /\ content = [s \in Sets |-> [f \in Files |-> "none"]]
    /\ used = {}
    /\ op = [t \in Tasks |-> "none"]
    /\ pc = [t \in Tasks |-> "none"]
    /\ target = [t \in Tasks |-> NoSet]
    /\ file = [t \in Tasks |-> First]
    /\ copy = [t \in Tasks |-> FALSE]
    /\ calls = 0 /\ crashes = 0
    /\ made = {} /\ created = {} /\ failed = {} /\ deleted = {}
    /\ usedOnce = {} /\ spoiled = {}

-----------------------------------------------------------------------------
\* A call begins; it returns.
Call(t, o, c, s) ==
    /\ Idle(t)
    /\ calls < MaxCalls
    /\ calls' = calls + 1
    /\ op' = [op EXCEPT ![t] = o]
    /\ pc' = [pc EXCEPT ![t] = c]
    /\ target' = [target EXCEPT ![t] = s]
    /\ UNCHANGED <<file, copy>>
GoTo(t, c) == pc' = [pc EXCEPT ![t] = c] /\ UNCHANGED <<op, target, file, copy>>
Return(t) ==
    /\ op' = [op EXCEPT ![t] = "none"]
    /\ pc' = [pc EXCEPT ![t] = "none"]
    /\ target' = [target EXCEPT ![t] = NoSet]
    /\ file' = [file EXCEPT ![t] = First]
    /\ copy' = [copy EXCEPT ![t] = FALSE]

-----------------------------------------------------------------------------
\* Create: the count and the validation of the two files come before anything
\* is written, then the directory, the files and meta.json last.
\* Mutant of StartCreate: one set too many.
StartCreateOneMore(t) ==
    /\ Cardinality(Listed) <= MaxSets
    /\ Call(t, "create", "dir", NoSet)
    /\ UNCHANGED <<diskVars, ghostVars, crashes>>

StartCreate(t) ==
    /\ Cardinality(Listed) < MaxSets
    /\ Call(t, "create", "dir", NoSet)
    /\ UNCHANGED <<diskVars, ghostVars, crashes>>

\* A file does not validate or the directory cannot be made.
Reject(t) ==
    /\ pc[t] = "dir"
    /\ Return(t)
    /\ UNCHANGED <<diskVars, ghostVars, calls, crashes>>

\* Mutant of MakeDir: the paths are joined without the identifier.
MakeDirUnnamed(t, s) ==
    /\ pc[t] = "dir"
    /\ s \notin made
    /\ made' = made \union {s}
    /\ dirs' = dirs \union {s}
    /\ pc' = [pc EXCEPT ![t] = "open"]
    /\ UNCHANGED <<content, used, op, target, file, copy, created, failed, deleted,
                   usedOnce, spoiled, calls, crashes>>

MakeDir(t, s) ==
    /\ pc[t] = "dir"
    /\ s \notin made
    /\ made' = made \union {s}
    /\ dirs' = dirs \union {s}
    /\ target' = [target EXCEPT ![t] = s]
    /\ pc' = [pc EXCEPT ![t] = "open"]
    /\ UNCHANGED <<content, used, op, file, copy, created, failed, deleted, usedOnce,
                   spoiled, calls, crashes>>

\* WriteFile makes the directory again if it is gone, truncates and writes.
Open(t) ==
    /\ pc[t] = "open"
    /\ dirs' = dirs \union {target[t]}
    /\ content' = [content EXCEPT ![target[t]][file[t]] = "cut"]
    /\ GoTo(t, "fill")
    /\ UNCHANGED <<used, ghostVars, calls, crashes>>

\* What a write leaves in a file: nothing if it was removed meanwhile, a mix
\* of two records of different lengths if another writer filled it.
Filled(c) == CASE c = "none" -> {"none"}
               [] c = "cut"  -> {"whole"}
               [] OTHER      -> {"whole", "mixed"}

Fill(t) ==
    LET s == target[t]
        f == file[t]
    IN
    /\ pc[t] = "fill"
    /\ \E c \in Filled(content[s][f]) : content' = [content EXCEPT ![s][f] = c]
    /\ IF f = "meta" THEN used' = IF copy[t] THEN used \union {s} ELSE used \ {s}
                     ELSE UNCHANGED used
    /\ IF f = Last THEN Return(t)
                   ELSE /\ file' = [file EXCEPT ![t] = After(f)]
                        /\ pc' = [pc EXCEPT ![t] = "open"]
                        /\ UNCHANGED <<op, target, copy>>
    /\ created' = IF f = Last /\ op[t] = "create" THEN created \union {s} ELSE created
    /\ usedOnce' = IF op[t] = "use" THEN usedOnce \union {s} ELSE usedOnce
    /\ UNCHANGED <<dirs, made, failed, deleted, spoiled, calls, crashes>>

\* Mutants of WriteFails: Create goes on to the next file; Create returns at once.
WriteFailsIgnored(t) ==
    LET f == file[t] IN
    /\ pc[t] = "fill" /\ op[t] = "create" /\ f # Last
    /\ file' = [file EXCEPT ![t] = After(f)]
    /\ pc' = [pc EXCEPT ![t] = "open"]
    /\ UNCHANGED <<diskVars, op, target, copy, ghostVars, calls, crashes>>
WriteFailsKeep(t) ==
    /\ pc[t] = "fill" /\ op[t] = "create"
    /\ Return(t)
    /\ failed' = failed \union {target[t]}
    /\ UNCHANGED <<diskVars, made, created, deleted, usedOnce, spoiled, calls, crashes>>

\* An error: Create removes the directory, the others ignore it.
WriteFails(t) ==
    LET s == target[t]
        f == file[t]
    IN
    /\ pc[t] \in {"open", "fill"}
    /\ \/ UNCHANGED content
       \/ pc[t] = "fill" /\ content[s][f] = "whole"
          /\ content' = [content EXCEPT ![s][f] = "mixed"]
    /\ IF op[t] = "create" THEN GoTo(t, "remove") /\ UNCHANGED spoiled
                           ELSE Return(t) /\ spoiled' = spoiled \union {s}
    /\ UNCHANGED <<dirs, used, made, created, failed, deleted, usedOnce, calls, crashes>>

-----------------------------------------------------------------------------
\* Delete, from a button or a form of an earlier page; RemoveAll one entry at
\* a time, also for the cleanup of Create.
StartDelete(t, s) ==
    /\ s \in created
    /\ Call(t, "delete", "remove", s)
    /\ deleted' = deleted \union {s}
    /\ UNCHANGED <<diskVars, made, created, failed, usedOnce, spoiled, crashes>>

RemoveEntry(t, f) ==
    /\ pc[t] = "remove"
    /\ content[target[t]][f] # "none"
    /\ content' = [content EXCEPT ![target[t]][f] = "none"]
    /\ UNCHANGED <<dirs, used, taskVars, ghostVars, calls, crashes>>

RemoveDir(t) ==
    LET s == target[t] IN
    /\ pc[t] = "remove"
    /\ \A f \in Files : content[s][f] = "none"
    /\ dirs' = dirs \ {s}
    /\ failed' = IF op[t] = "create" THEN failed \union {s} ELSE failed
    /\ Return(t)
    /\ UNCHANGED <<content, used, made, created, deleted, usedOnce, spoiled, calls, crashes>>

-----------------------------------------------------------------------------
\* UpdateLastUsed, for the set a job names; CheckStatus, for a set of a
\* listing, goes on to meta.json when the files exist and the password can be decrypted.
UpdateLastUsed(t, s) ==
    /\ s \in created
    /\ Call(t, "use", "get", s)
    /\ UNCHANGED <<diskVars, ghostVars, crashes>>

CheckStatus(t, s) ==
    /\ \A f \in {"meta", "p12", "prov"} : content[s][f] # "none"
    /\ HasMasterKey => content[s]["pass"] \in {"none", "whole"}
    /\ Call(t, "check", "get", s)
    /\ UNCHANGED <<diskVars, ghostVars, crashes>>

\* Get reads meta.json whole; the record is changed and marshalled.
Written(u, s) == Rewriting(u) /\ target[u] = s /\ pc[u] \in {"open", "fill"}

\* Mutant of Get: the record is built anew.
GetFresh(t) ==
    /\ pc[t] = "get"
    /\ target[t] \in Listed
    /\ copy' = [copy EXCEPT ![t] = op[t] = "use"]
    /\ file' = [file EXCEPT ![t] = "meta"]
    /\ pc' = [pc EXCEPT ![t] = "open"]
    /\ spoiled' = IF \E u \in Tasks : Written(u, target[t]) THEN spoiled \union {target[t]}
                                                           ELSE spoiled
    /\ UNCHANGED <<diskVars, op, target, made, created, failed, deleted, usedOnce,
                   calls, crashes>>

Get(t) ==
    LET s == target[t] IN
    /\ pc[t] = "get"
    /\ s \in Listed
    /\ copy' = [copy EXCEPT ![t] = s \in used \/ op[t] = "use"]
    /\ file' = [file EXCEPT ![t] = "meta"]
    /\ pc' = [pc EXCEPT ![t] = "open"]
    /\ spoiled' = IF \E u \in Tasks : Written(u, s) THEN spoiled \union {s} ELSE spoiled
    /\ UNCHANGED <<diskVars, op, target, made, created, failed, deleted, usedOnce, calls, crashes>>

GetFails(t) ==
    /\ pc[t] = "get"
    /\ target[t] \notin Listed
    /\ Return(t)
    /\ UNCHANGED <<diskVars, ghostVars, calls, crashes>>

-----------------------------------------------------------------------------
\* main.go runs bot, web server and worker as goroutines of one process.
Crash ==
    /\ crashes < MaxCrashes
    /\ crashes' = crashes + 1
    /\ op' = [t \in Tasks |-> "none"]
    /\ pc' = [t \in Tasks |-> "none"]
    /\ target' = [t \in Tasks |-> NoSet]
    /\ file' = [t \in Tasks |-> First]
    /\ copy' = [t \in Tasks |-> FALSE]
    /\ spoiled' = spoiled \union {s \in Sets : \E t \in Tasks : Written(t, s)}
    /\ UNCHANGED <<diskVars, made, created, failed, deleted, usedOnce, calls>>

CertNext ==
    \/ \E t \in Tasks :
        \/ StartCreate(t) \/ Reject(t) \/ Open(t) \/ Fill(t) \/ WriteFails(t)
        \/ RemoveDir(t) \/ Get(t) \/ GetFails(t)
        \/ \E s \in Sets : MakeDir(t, s) \/ StartDelete(t, s)
                           \/ UpdateLastUsed(t, s) \/ CheckStatus(t, s)
        \/ \E f \in Files : RemoveEntry(t, f)
    \/ Crash

CertSpec == CertInit /\ [][CertNext]_vars

-----------------------------------------------------------------------------
\* A listed set that nobody asked to delete has every file a job needs,
\* whatever writes failed and whenever the process ended (manager.go, Create
\* writes meta.json last).
ListedIsWhole ==
    \A s \in Listed \ deleted : \A f \in Kept : content[s][f] = "whole"

\* A Create that returned an error left neither directory nor file behind
\* (cleanupOnError), so that it does not come back as a set later.
FailedLeavesNothing ==
    \A s \in failed : s \notin dirs /\ \A f \in Files : content[s][f] = "none"

\* A set stays listed, with its time of last use, until someone deletes it:
\* other sets' failing creations and deletions do not touch it.  Not so when
\* two calls rewrite its meta.json at once or a rewrite is cut off.
KeptUntilDeleted ==
    \A s \in created \ (deleted \union spoiled) :
        \/ \E t \in Tasks : Written(t, s)
        \/ s \in Listed /\ (s \in usedOnce => s \in used)

\* The count is taken before the files are written and does not see a set
\* whose meta.json is being rewritten: concurrent calls may pass the limit, but
\* never by more than the other calls in progress (manager.go:42).
BoundedOvershoot == Cardinality(Listed) <= MaxSets + Cardinality(Tasks) - 1

=============================================================================
