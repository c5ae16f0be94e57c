------------------------------- MODULE ApplyTxn -------------------------------
(***************************************************************************)
(* The recoverable filesystem transaction engine of crates/rebyte-apply.   *)
(*                                                                         *)
(* Processes run apply, resume or rollback over one destination root.      *)
(* Every action is one durable filesystem step (or one group of reads      *)
(* whose grouping no other actor can observe), so a crash between any two  *)
(* actions is a crash between any two durable writes of the code: contents *)
(* and directories are fsynced before the next step.                       *)
(* An independent writer may change targets between any two steps.         *)
(*                                                                         *)
(* A file is its bytes and its executable bit.  Digests are collision      *)
(* free: comparing digests is comparing bytes.                             *)
(***************************************************************************)
EXTENDS Integers, Sequences, FiniteSets

CONSTANTS
  Procs,          \* processes running the engine on this root
  Txns,           \* transaction identifiers (fresh UUIDs)
  N,              \* number of files in a capsule
  Bytes,          \* file contents
  Capsules,       \* verified file sets: functions from Files to Snapshot
  InitialTargets, \* destination trees the engine may start from
  WriterStates,   \* what the independent writer may put at a target
  Dirs,           \* directory paths below the root
  InitialDirs,    \* directories that exist at the start
  FilePath,       \* FilePath[i]: parent directories of file i, outermost first
  DirPath,        \* DirPath[d]: the components of d, outermost first, d last
  Required,       \* the capsule's explicit directories, sorted
  RootDir,        \* the root itself, parent of top level files
  Absent,         \* nothing at the path
  Special,        \* a symlink or other non regular file: every read of it fails
  NoJournal,      \* the transaction directory holds no journal.json
  NoTxn,          \* no transaction
  FaultPoints,    \* program points at which a process may die or meet an I/O error
  MaxFaults,      \* bound on faults and I/O errors
  MaxWrites       \* bound on steps of the independent writer

Files == 1..N
Snapshot == [bytes : Bytes, exec : BOOLEAN]
Target == Snapshot \cup {Absent, Special}

TxnStates ==
  {"Prepared", "Staged", "Committing", "Committed", "RollingBack", "RolledBack"}

\* States after which reject_incomplete_transactions and resume are done.
Finished == {"Committed", "RolledBack"}

\* The mutable part of journal.json.  Its immutable part (targets, digests,
\* modes, directories, retain flag) is written once by prepare and is kept in
\* orig, new, missing and retain.
Journal == [state : TxnStates, committed : 0..N, created : SUBSET Dirs]

Points ==
  {"idle", "create", "prepare", "persistPrepared", "stage", "persistStaged",
   "commit", "ensure", "precondition", "replace", "rename", "verify",
   "persistCommitted", "reconcile", "rbBegin", "rbCheck", "rbReplace",
   "rbRename", "rbRemove", "rbDirs", "rbPersist", "cleanup"}

CommitPoints == {"commit", "ensure", "precondition", "replace", "rename", "verify"}
RollbackPoints ==
  {"rbBegin", "rbCheck", "rbReplace", "rbRename", "rbRemove", "rbDirs", "rbPersist"}

Results ==
  {"none", "ok", "fault", "IncompleteTransaction", "TransactionFinished",
   "InvalidJournal", "NotRegularFile", "Conflict", "Integrity", "Io",
   "RollbackFailed"}

Process ==
  [pc : Points, op : {"none", "apply", "resume", "rollback"},
   txn : Txns \cup {NoTxn}, idx : Nat, j : Journal,
   saw : BOOLEAN, count : 0..N, res : Results]

TempFile ==
  [txn : Txns, kind : {"commit", "rollback"}, n : 0..N, dir : Dirs \cup {RootDir}]

SetOf(s) == {s[k] : k \in 1..Len(s)}

ASSUME ConstantsAssumption ==
  /\ N \in Nat \ {0}
  /\ IsFiniteSet(Procs)
  /\ MaxFaults \in Nat /\ MaxWrites \in Nat
  /\ FaultPoints \subseteq Points
  /\ Absent \notin Snapshot /\ Special \notin Snapshot /\ Absent # Special
  /\ NoJournal \notin Journal
  /\ NoTxn \notin Txns /\ NoTxn \notin Procs
  /\ Capsules \subseteq [1..N -> Snapshot] /\ Capsules # {}
  /\ InitialTargets \subseteq [1..N -> Target]
  /\ WriterStates \subseteq Target
  /\ InitialDirs \in SUBSET Dirs
  /\ FilePath \in [1..N -> Seq(Dirs)]
  /\ DirPath \in [Dirs -> Seq(Dirs)]
  /\ Required \in Seq(Dirs)

VARIABLES
  target,   \* the destination files
  dirs,     \* existing directories
  temps,    \* temporary files left in the destination
  present,  \* transaction directories below .rebyte/transactions
  used,     \* identifiers ever drawn
  journal,  \* durable journal of each transaction
  staged,   \* staged[t]: files whose staged copy is on disk
  backup,   \* backup[t][i]: the backup copy on disk
  orig,     \* orig[t][i]: the precondition recorded by prepare
  new,      \* new[t]: the capsule's files
  missing,  \* explicit directories that did not exist at prepare
  retain,   \* ApplyOptions::retain_backup
  proc,     \* the processes
  faults, writes, \* used up of MaxFaults and MaxWrites
  touched,  \* history: <<t, i>> where i was changed by another than t since t recorded it
  released, \* history: transactions whose apply committed and began to clean up
  raced     \* history: processes whose target changed between their check and their write

fsVars == <<target, dirs, temps>>
planVars == <<orig, new, missing, retain>>
storeVars == <<present, used, journal, staged, backup>>
ghostVars == <<touched, released, raced>>
envVars == <<faults, writes>>
vars == <<fsVars, storeVars, planVars, proc, envVars, ghostVars>>

-----------------------------------------------------------------------------
(* Helpers                                                                 *)

EmptyJournal == [state |-> "Prepared", committed |-> 0, created |-> {}]

Idle(op, r) ==
  [pc |-> "idle", op |-> op, txn |-> NoTxn, idx |-> 0, j |-> EmptyJournal,
   saw |-> FALSE, count |-> 0, res |-> r]

Set(p, r) == proc' = [proc EXCEPT ![p] = r]

\* Error or success returned to the caller.
Return(p, r) == Set(p, Idle(proc[p].op, r))

\* Mutant: the first journal is only written by the next persist.
PersistLazy(p, t, j) ==
  journal' = IF j.state = "Prepared" THEN journal ELSE [journal EXCEPT ![t] = j]

\* persist_journal: journal.tmp is written, synced and renamed; the rename is
\* the step, an unrenamed journal.tmp is removed by the next call.
Persist(p, t, j) == journal' = [journal EXCEPT ![t] = j]

ParentDir(i) ==
  IF FilePath[i] = <<>> THEN RootDir ELSE FilePath[i][Len(FilePath[i])]

\* Components of path s that do not exist, and the outermost of them, if any.
Lacking(s) == {k \in 1..Len(s) : s[k] \notin dirs}
FirstLacking(s) == {s[k] : k \in {m \in Lacking(s) : \A l \in Lacking(s) : m <= l}}

\* What remove_dir calls in reverse order leave of the directories ds: a
\* candidate goes when it holds no file, no temporary and only candidates
\* that go.
Below(d, path) == d \in SetOf(path)
RemoveEmpty(ds, candidates) ==
  ds \ {d \in candidates :
          /\ \A i \in Files : target[i] # Absent => ~Below(d, FilePath[i])
          /\ \A f \in temps : f.dir # RootDir => ~Below(d, DirPath[f.dir])
          /\ \A e \in ds : Below(d, DirPath[e]) => e \in candidates}

IsNew(t, i) == target[i] = new[t][i]
IsOriginal(t, i) == target[i] = orig[t][i]

\* read_target fails on a non regular file; a readable one is a conflict.
Refusal(i) == IF target[i] = Special THEN "NotRegularFile" ELSE "Conflict"

\* Mutant: backups are only planned when the caller retains them.
NeedsBackupIfRetained(t, i) == orig[t][i] # Absent /\ retain[t]

\* prepare plans a backup for every file that exists.
NeedsBackup(t, i) == orig[t][i] # Absent

BackupMatches(t, i) ==
  /\ backup[t][i] # Absent
  /\ backup[t][i].bytes = orig[t][i].bytes

\* verify_staged: every staged copy, and every backup of an existing file.
FullyStaged(t) ==
  /\ staged[t] = Files
  /\ \A i \in Files : NeedsBackup(t, i) => BackupMatches(t, i)

\* commit's errors: apply rolls back, resume returns them.
FailCommit(p, r) ==
  IF proc[p].op = "apply"
  THEN Set(p, [proc[p] EXCEPT !.pc = "rbBegin", !.res = r])
  ELSE Return(p, r)

\* rollback's errors: apply reports RollbackFailed and keeps the transaction.
FailRollback(p, r) ==
  Return(p, IF proc[p].op = "apply" THEN "RollbackFailed" ELSE r)

\* A change of target i by process p (or by the writer, p \notin Procs) seen
\* by the history variables.
Disturb(t, p, i) ==
  /\ touched' = touched \cup {<<u, i>> : u \in present \ {t}}
  /\ raced' = raced \cup
       {q \in Procs \ {p} :
          /\ proc[q].pc \in {"replace", "rename", "rbReplace", "rbRename", "rbRemove"}
          /\ proc[q].idx = i}

-----------------------------------------------------------------------------
Init ==
  /\ target \in InitialTargets
  /\ dirs = InitialDirs \cup UNION {SetOf(FilePath[i]) : i \in {k \in Files : target[k] # Absent}}
  /\ temps = {}
  /\ present = {} /\ used = {}
  /\ journal = [t \in Txns |-> NoJournal]
  /\ staged = [t \in Txns |-> {}]
  /\ backup = [t \in Txns |-> [i \in Files |-> Absent]]
  /\ orig = [t \in Txns |-> [i \in Files |-> Absent]]
  /\ new \in [Txns -> {CHOOSE c \in Capsules : TRUE}]
  /\ missing = [t \in Txns |-> {}]
  /\ retain = [t \in Txns |-> FALSE]
  /\ proc = [p \in Procs |-> Idle("none", "none")]
  /\ faults = 0 /\ writes = 0
  /\ touched = {} /\ released = {} /\ raced = {}

-----------------------------------------------------------------------------
(* apply_verified_tree                                                     *)

\* reject_incomplete_transactions: a journal that does not load is incomplete.
Incomplete(t) == journal[t] = NoJournal \/ journal[t].state \notin Finished

BeginApply(p) ==
  /\ proc[p].pc = "idle"
  /\ IF \E t \in present : Incomplete(t)
     THEN Set(p, Idle("apply", "IncompleteTransaction")) /\ UNCHANGED used
     ELSE \E t \in Txns \ used :
            /\ used' = used \cup {t}
            /\ Set(p, [Idle("apply", "none") EXCEPT !.pc = "create", !.txn = t])
  /\ UNCHANGED <<fsVars, present, journal, staged, backup, planVars, envVars, ghostVars>>

\* create_transaction, then the directory half of prepare.
CreateTransaction(p, c, keep) ==
  LET t == proc[p].txn IN
  /\ proc[p].pc = "create"
  /\ present' = present \cup {t}
  /\ new' = [new EXCEPT ![t] = c]
  /\ retain' = [retain EXCEPT ![t] = keep]
  /\ missing' = [missing EXCEPT ![t] = SetOf(Required) \ dirs]
  /\ Set(p, [proc[p] EXCEPT !.pc = "prepare", !.idx = 1])
  /\ UNCHANGED <<fsVars, used, journal, staged, backup, orig, envVars, ghostVars>>

\* prepare reads one target.  Its errors return from apply_verified_tree by
\* `?`, leaving the transaction directory behind without a journal.
PrepareFile(p) ==
  LET t == proc[p].txn  i == proc[p].idx IN
  /\ proc[p].pc = "prepare"
  /\ IF target[i] = Special
     THEN Return(p, "NotRegularFile") /\ UNCHANGED <<orig, touched>>
     ELSE /\ orig' = [orig EXCEPT ![t][i] = target[i]]
          /\ touched' = touched \ {<<t, i>>}
          /\ Set(p, IF i = N THEN [proc[p] EXCEPT !.pc = "persistPrepared"]
                             ELSE [proc[p] EXCEPT !.idx = i + 1])
  /\ UNCHANGED <<fsVars, storeVars, new, missing, retain, envVars, released, raced>>

PersistPrepared(p) ==
  /\ proc[p].pc = "persistPrepared"
  /\ Persist(p, proc[p].txn, proc[p].j)
  /\ Set(p, [proc[p] EXCEPT !.pc = "stage", !.idx = 1])
  /\ UNCHANGED <<fsVars, present, used, staged, backup, planVars, envVars, ghostVars>>

\* The part of stage that decides whether the target may be backed up.
BackupAllowed(t, i) ==
  /\ target[i] \in Snapshot
  /\ target[i].bytes = orig[t][i].bytes

\* One round of stage: the staged copy, then the backup of an existing file.
StageFile(p) ==
  LET t == proc[p].txn  i == proc[p].idx IN
  /\ proc[p].pc = "stage"
  /\ staged' = [staged EXCEPT ![t] = @ \cup {i}]
  /\ IF NeedsBackup(t, i) /\ ~BackupAllowed(t, i)
     THEN /\ Set(p, [proc[p] EXCEPT !.pc = "cleanup", !.res = Refusal(i)])
          /\ UNCHANGED backup
     ELSE /\ backup' = IF NeedsBackup(t, i) THEN [backup EXCEPT ![t][i] = target[i]]
                                            ELSE backup
          /\ Set(p, IF i = N THEN [proc[p] EXCEPT !.pc = "persistStaged"]
                             ELSE [proc[p] EXCEPT !.idx = i + 1])
  /\ UNCHANGED <<fsVars, present, used, journal, planVars, envVars, ghostVars>>

PersistStaged(p) ==
  LET j == [proc[p].j EXCEPT !.state = "Staged"] IN
  /\ proc[p].pc = "persistStaged"
  /\ Persist(p, proc[p].txn, j)
  /\ Set(p, [proc[p] EXCEPT !.pc = "commit", !.j = j])
  /\ UNCHANGED <<fsVars, present, used, staged, backup, planVars, envVars, ghostVars>>

-----------------------------------------------------------------------------
(* commit, shared by apply and resume                                      *)

\* Mutant: the loop skips the last file.
AfterFileShort(r) ==
  IF r.j.committed + 1 < N THEN [r EXCEPT !.pc = "precondition", !.idx = r.j.committed + 1]
                           ELSE [r EXCEPT !.pc = "persistCommitted"]

\* Mutant: the loop replaces the files from the last to the first.
AfterFileBackwards(r) ==
  IF r.j.committed < N THEN [r EXCEPT !.pc = "precondition", !.idx = N - r.j.committed]
                       ELSE [r EXCEPT !.pc = "persistCommitted"]

\* Where the file loop of commit goes for a given committed count.
AfterFile(r) ==
  IF r.j.committed < N THEN [r EXCEPT !.pc = "precondition", !.idx = r.j.committed + 1]
                       ELSE [r EXCEPT !.pc = "persistCommitted"]

CommitBegin(p) ==
  LET t == proc[p].txn
      j == [proc[p].j EXCEPT !.state = "Committing"]
      r == [proc[p] EXCEPT !.j = j] IN
  /\ proc[p].pc = "commit"
  /\ IF FullyStaged(t)
     THEN /\ Persist(p, t, j)
          /\ Set(p, IF Required = <<>> THEN AfterFile(r)
                                       ELSE [r EXCEPT !.pc = "ensure", !.idx = 1])
     ELSE FailCommit(p, "Io") /\ UNCHANGED journal
  /\ UNCHANGED <<fsVars, present, used, staged, backup, planVars, envVars, ghostVars>>

\* ensure_directory creates the components one by one; the journal learns of
\* them only when the whole path exists.
EnsureDirectory(p) ==
  LET r == proc[p]
      path == DirPath[Required[r.idx]] IN
  /\ r.pc = "ensure"
  /\ IF Lacking(path) # {}
     THEN \E d \in FirstLacking(path) :
            /\ dirs' = dirs \cup {d}
            /\ Set(p, [r EXCEPT !.j.created = @ \cup {d}])
            /\ UNCHANGED journal
     ELSE /\ Persist(p, r.txn, r.j)
          /\ Set(p, IF r.idx = Len(Required) THEN AfterFile(r)
                                             ELSE [r EXCEPT !.idx = @ + 1])
          /\ UNCHANGED dirs
  /\ UNCHANGED <<target, temps, present, used, staged, backup, planVars, envVars, ghostVars>>

\* Mutant: only the existence of the target is compared.
PreconditionExists(t, i) == (target[i] = Absent) <=> (orig[t][i] = Absent)

\* verify_precondition: the target still is what prepare recorded.
PreconditionHolds(t, i) == IsOriginal(t, i)

Precondition(p) ==
  LET t == proc[p].txn  i == proc[p].idx IN
  /\ proc[p].pc = "precondition"
  /\ IF PreconditionHolds(t, i)
     THEN Set(p, [proc[p] EXCEPT !.pc = "replace"]) /\ raced' = raced \ {p}
     ELSE FailCommit(p, Refusal(i)) /\ UNCHANGED raced
  /\ UNCHANGED <<fsVars, storeVars, planVars, envVars, touched, released>>

-----------------------------------------------------------------------------
(* atomic_replace, shared by commit and rollback                           *)

Kind(p) == IF proc[p].pc \in {"replace", "rename"} THEN "commit" ELSE "rollback"

\* Commit names its temporary after the file, rollback after the journal's
\* committed count.
TempOf(p) ==
  [txn |-> proc[p].txn, kind |-> Kind(p), dir |-> ParentDir(proc[p].idx),
   n |-> IF Kind(p) = "commit" THEN proc[p].idx ELSE proc[p].j.committed]

FailReplace(p, r) ==
  IF Kind(p) = "commit" THEN FailCommit(p, r) ELSE FailRollback(p, r)

\* open_parent with create: one missing component per step.
MakeParent(p) ==
  LET path == FilePath[proc[p].idx] IN
  /\ proc[p].pc \in {"replace", "rbReplace"}
  /\ \E d \in FirstLacking(path) :
       /\ dirs' = dirs \cup {d}
       /\ Set(p, [proc[p] EXCEPT !.j.created = @ \cup {d}])
  /\ UNCHANGED <<target, temps, storeVars, planVars, envVars, ghostVars>>

\* The temporary is created with create_new, so a leftover one is a conflict.
WriteTemp(p) ==
  LET i == proc[p].idx IN
  /\ proc[p].pc \in {"replace", "rbReplace"}
  /\ Lacking(FilePath[i]) = {}
  /\ IF target[i] = Special \/ TempOf(p) \in temps
     THEN FailReplace(p, Refusal(i)) /\ UNCHANGED temps
     ELSE /\ temps' = temps \cup {TempOf(p)}
          /\ Set(p, [proc[p] EXCEPT !.pc = IF @ = "replace" THEN "rename" ELSE "rbRename"])
  /\ UNCHANGED <<target, dirs, storeVars, planVars, envVars, ghostVars>>

\* Rollback moves on to the file before idx.
BeforeFile(r) ==
  IF r.idx = 1 THEN [r EXCEPT !.pc = "rbDirs", !.idx = 0]
               ELSE [r EXCEPT !.pc = "rbCheck", !.idx = @ - 1]

\* The rename.  Over a non regular file it replaces a link or fails.
Rename(p) ==
  LET t == proc[p].txn  i == proc[p].idx IN
  /\ proc[p].pc \in {"rename", "rbRename"}
  /\ \/ /\ target' = [target EXCEPT ![i] = IF Kind(p) = "commit" THEN new[t][i] ELSE orig[t][i]]
        /\ temps' = temps \ {TempOf(p)}
        /\ Set(p, IF Kind(p) = "commit" THEN [proc[p] EXCEPT !.pc = "verify"]
                                        ELSE BeforeFile(proc[p]))
        /\ Disturb(t, p, i) /\ UNCHANGED released
     \/ /\ target[i] = Special
        /\ FailReplace(p, "Io")
        /\ UNCHANGED <<target, temps, ghostVars>>
  /\ UNCHANGED <<dirs, storeVars, planVars, envVars>>

\* Mutant: the count is one ahead.
CommittedAhead(i) == i + 1

\* The committed count after file i.
CommittedAfter(i) == i

\* commit reads the file back before it counts it.
VerifyCommitted(p) ==
  LET t == proc[p].txn  i == proc[p].idx
      r == [proc[p] EXCEPT !.j.committed = CommittedAfter(i)] IN
  /\ proc[p].pc = "verify"
  /\ IF IsNew(t, i)
     THEN Persist(p, t, r.j) /\ Set(p, AfterFile(r))
     ELSE FailCommit(p, IF target[i] = Special THEN "NotRegularFile" ELSE "Integrity")
          /\ UNCHANGED journal
  /\ UNCHANGED <<fsVars, present, used, staged, backup, planVars, envVars, ghostVars>>

\* The last persist of apply and resume.  Resume never cleans up.
PersistCommitted(p) ==
  LET t == proc[p].txn
      j == [proc[p].j EXCEPT !.state = "Committed"] IN
  /\ proc[p].pc = "persistCommitted"
  /\ Persist(p, t, j)
  /\ IF proc[p].op = "apply" /\ ~retain[t]
     THEN Set(p, [proc[p] EXCEPT !.pc = "cleanup", !.res = "ok", !.j = j])
     ELSE Return(p, "ok")
  /\ UNCHANGED <<fsVars, present, used, staged, backup, planVars, envVars, ghostVars>>

-----------------------------------------------------------------------------
(* rollback, shared by apply and rollback_transaction                      *)

\* Mutant: the operation at the boundary is forgotten.
PossibleCountShort(committed) == IF committed = 0 THEN 1 ELSE committed

\* The number of operations that may have replaced their target.
PossibleCount(committed) == IF committed + 1 <= N THEN committed + 1 ELSE N

RollbackBegin(p) ==
  LET j == [proc[p].j EXCEPT !.state = "RollingBack"] IN
  /\ proc[p].pc = "rbBegin"
  /\ Persist(p, proc[p].txn, j)
  /\ Set(p, [proc[p] EXCEPT !.pc = "rbCheck", !.j = j, !.idx = PossibleCount(j.committed)])
  /\ UNCHANGED <<fsVars, present, used, staged, backup, planVars, envVars, ghostVars>>

\* Mutant: rollback forgets the directories it recorded as created.
RemainingDirsMissingOnly(p) == RemoveEmpty(dirs, missing[proc[p].txn])

\* Directories removed when rollback ends or meets a conflict.
RemainingDirs(p) ==
  RemoveEmpty(RemoveEmpty(dirs, proc[p].j.created), missing[proc[p].txn])

\* A file that is not the capsule's and may be left alone.
LeftAlone(p, t, i) == i = proc[p].j.committed + 1 \/ IsOriginal(t, i)

RollbackCheck(p) ==
  LET t == proc[p].txn  i == proc[p].idx IN
  /\ proc[p].pc = "rbCheck"
  /\ raced' = raced \ {p}
  /\ \/ /\ target[i] = Special
        /\ FailRollback(p, "NotRegularFile") /\ UNCHANGED dirs
     \/ /\ target[i] # Special /\ ~IsNew(t, i) /\ LeftAlone(p, t, i)
        /\ Set(p, BeforeFile(proc[p])) /\ UNCHANGED dirs
     \/ /\ target[i] # Special /\ ~IsNew(t, i) /\ ~LeftAlone(p, t, i)
        /\ FailRollback(p, "Conflict") /\ dirs' = RemainingDirs(p)
     \/ /\ IsNew(t, i) /\ ~NeedsBackup(t, i)
        /\ Set(p, [proc[p] EXCEPT !.pc = "rbRemove"]) /\ UNCHANGED dirs
     \/ /\ IsNew(t, i) /\ NeedsBackup(t, i)
        /\ IF BackupMatches(t, i) THEN Set(p, [proc[p] EXCEPT !.pc = "rbReplace"])
                                  ELSE FailRollback(p, "Io")
        /\ UNCHANGED dirs
  /\ UNCHANGED <<target, temps, storeVars, planVars, envVars, touched, released>>

\* remove_target of a file that did not exist before the transaction.
RemoveTarget(p) ==
  LET t == proc[p].txn  i == proc[p].idx IN
  /\ proc[p].pc = "rbRemove"
  /\ IF target[i] = Special
     THEN FailRollback(p, "NotRegularFile") /\ UNCHANGED <<target, ghostVars>>
     ELSE /\ target' = [target EXCEPT ![i] = Absent]
          /\ Set(p, BeforeFile(proc[p]))
          /\ Disturb(t, p, i) /\ UNCHANGED released
  /\ UNCHANGED <<dirs, temps, storeVars, planVars, envVars>>

RollbackDirectories(p) ==
  /\ proc[p].pc = "rbDirs"
  /\ dirs' = RemainingDirs(p)
  /\ Set(p, [proc[p] EXCEPT !.pc = "rbPersist"])
  /\ UNCHANGED <<target, temps, storeVars, planVars, envVars, ghostVars>>

PersistRolledBack(p) ==
  LET j == [proc[p].j EXCEPT !.state = "RolledBack", !.committed = 0] IN
  /\ proc[p].pc = "rbPersist"
  /\ Persist(p, proc[p].txn, j)
  /\ Set(p, [proc[p] EXCEPT !.pc = "cleanup", !.j = j,
                            !.res = IF proc[p].op = "rollback" THEN "ok" ELSE @])
  /\ UNCHANGED <<fsVars, present, used, staged, backup, planVars, envVars, ghostVars>>

-----------------------------------------------------------------------------
(* cleanup_transaction, resume_transaction, rollback_transaction           *)

\* remove_dir_all removes the entries in directory order, which the code does
\* not choose, and the directory last.
CleanupTransaction(p) ==
  LET t == proc[p].txn IN
  /\ proc[p].pc = "cleanup"
  /\ \/ /\ journal[t] # NoJournal
        /\ journal' = [journal EXCEPT ![t] = NoJournal]
        /\ UNCHANGED <<present, staged, backup, proc>>
     \/ /\ staged[t] # {}
        /\ staged' = [staged EXCEPT ![t] = {}]
        /\ UNCHANGED <<present, journal, backup, proc>>
     \/ /\ \E i \in Files : backup[t][i] # Absent
        /\ backup' = [backup EXCEPT ![t] = [i \in Files |-> Absent]]
        /\ UNCHANGED <<present, journal, staged, proc>>
     \/ /\ journal[t] = NoJournal /\ staged[t] = {}
        /\ \A i \in Files : backup[t][i] = Absent
        /\ present' = present \ {t}
        /\ Return(p, proc[p].res)
        /\ UNCHANGED <<journal, staged, backup>>
  /\ released' = IF proc[p].op = "apply" /\ proc[p].res = "ok"
                 THEN released \cup {t} ELSE released
  /\ UNCHANGED <<fsVars, used, planVars, envVars, touched, raced>>

\* The operator recovers a transaction no live process is working on.
Abandoned(t) == t \in present /\ \A q \in Procs : proc[q].txn # t

BeginRecovery(p, t, op) ==
  /\ proc[p].pc = "idle"
  /\ Abandoned(t)
  /\ Set(p, IF journal[t] = NoJournal THEN Idle(op, "Io")
            ELSE IF op = "resume" /\ journal[t].state \in Finished
            THEN Idle(op, "TransactionFinished")
            ELSE [Idle(op, "none") EXCEPT !.pc = "reconcile", !.txn = t,
                                          !.idx = 1, !.j = journal[t]])
  /\ UNCHANGED <<fsVars, storeVars, planVars, envVars, ghostVars>>

ResumeTransaction(p, t) == BeginRecovery(p, t, "resume")
RollbackTransaction(p, t) == BeginRecovery(p, t, "rollback")

\* reconcile looks at one target: a prefix of new files, then original ones.
\* It persists the count it found when all of them fit.
ReconcileFile(p) ==
  LET r == proc[p]  t == r.txn  i == r.idx
      counts == IsNew(t, i) /\ ~r.saw
      count == IF counts THEN r.count + 1 ELSE r.count
      j == [r.j EXCEPT !.committed = count] IN
  /\ r.pc = "reconcile"
  /\ IF ~counts /\ ~IsOriginal(t, i)
     THEN Return(p, Refusal(i)) /\ UNCHANGED journal
     ELSE IF i < N
     THEN /\ Set(p, [r EXCEPT !.idx = i + 1, !.count = count, !.saw = ~counts])
          /\ UNCHANGED journal
     ELSE /\ Persist(p, t, j)
          /\ Set(p, [r EXCEPT !.pc = IF r.op = "resume" THEN "commit" ELSE "rbBegin",
                              !.j = j, !.count = 0, !.saw = FALSE])
  /\ UNCHANGED <<fsVars, present, used, staged, backup, planVars, envVars, ghostVars>>

-----------------------------------------------------------------------------
(* The environment                                                         *)

\* The process dies; memory is lost, the disk keeps every completed step.
Crash(p) ==
  /\ proc[p].pc \in FaultPoints \ {"idle"}
  /\ faults < MaxFaults
  /\ faults' = faults + 1
  /\ Return(p, "fault")
  /\ UNCHANGED <<fsVars, storeVars, planVars, writes, ghostVars>>

\* commit counts the file in memory before it persists the count, and apply
\* rolls back from the count in memory.
FailCounted(p) ==
  /\ proc[p].op = "apply"
  /\ IsNew(proc[p].txn, proc[p].idx)
  /\ Set(p, [proc[p] EXCEPT !.pc = "rbBegin", !.res = "fault",
                            !.j.committed = CommittedAfter(proc[p].idx)])

\* The filesystem refuses the next step: the error takes the path the code
\* gives it in stage, commit and rollback, and returns by `?` elsewhere.
IoFailure(p) ==
  LET pc == proc[p].pc IN
  /\ pc \in FaultPoints \ {"idle"}
  /\ faults < MaxFaults
  /\ faults' = faults + 1
  /\ \/ pc = "stage" /\ Set(p, [proc[p] EXCEPT !.pc = "cleanup", !.res = "fault"])
     \/ pc \in CommitPoints /\ FailCommit(p, "fault")
     \/ pc = "verify" /\ FailCounted(p)
     \/ pc \in RollbackPoints /\ FailRollback(p, "fault")
     \/ pc \notin {"stage"} \cup CommitPoints \cup RollbackPoints /\ Return(p, "fault")
  /\ UNCHANGED <<fsVars, storeVars, planVars, writes, ghostVars>>

\* Another program writes, creates or deletes a target.
ExternalWrite(i, v) ==
  /\ writes < MaxWrites
  /\ Lacking(FilePath[i]) = {}
  /\ v # target[i]
  /\ target' = [target EXCEPT ![i] = v]
  /\ writes' = writes + 1
  /\ Disturb(NoTxn, NoTxn, i)
  /\ UNCHANGED <<dirs, temps, storeVars, planVars, proc, faults, released>>

Step(p) ==
  \/ \E c \in Capsules, keep \in BOOLEAN : CreateTransaction(p, c, keep)
  \/ PrepareFile(p) \/ PersistPrepared(p) \/ StageFile(p) \/ PersistStaged(p)
  \/ CommitBegin(p) \/ EnsureDirectory(p) \/ Precondition(p)
  \/ MakeParent(p) \/ WriteTemp(p) \/ Rename(p)
  \/ VerifyCommitted(p) \/ PersistCommitted(p)
  \/ RollbackBegin(p) \/ RollbackCheck(p) \/ RemoveTarget(p)
  \/ RollbackDirectories(p) \/ PersistRolledBack(p)
  \/ CleanupTransaction(p) \/ ReconcileFile(p)

Next ==
  \/ \E p \in Procs :
       \/ BeginApply(p) \/ Step(p) \/ Crash(p) \/ IoFailure(p)
       \/ \E t \in Txns : ResumeTransaction(p, t) \/ RollbackTransaction(p, t)
  \/ \E i \in Files, v \in WriterStates : ExternalWrite(i, v)

Spec == Init /\ [][Next]_vars

\* A live process keeps executing, and an operator who finds an abandoned
\* transaction runs rollback on it sooner or later, as the documentation asks.
FairSpec ==
  /\ Spec
  /\ \A p \in Procs : WF_vars(Step(p))
  /\ \A p \in Procs, t \in Txns : SF_vars(RollbackTransaction(p, t))
-----------------------------------------------------------------------------
(* Properties                                                              *)

\* Every variable has its type: in particular the committed count of a journal
\* and the indices of commit, reconcile and rollback stay within the files.
TypeOK ==
  /\ target \in [Files -> Target]
  /\ dirs \subseteq Dirs
  /\ temps \subseteq TempFile
  /\ present \subseteq Txns /\ used \subseteq Txns
  /\ journal \in [Txns -> Journal \cup {NoJournal}]
  /\ staged \in [Txns -> SUBSET Files]
  /\ backup \in [Txns -> [Files -> Snapshot \cup {Absent}]]
  /\ orig \in [Txns -> [Files -> Snapshot \cup {Absent}]]
  /\ new \in [Txns -> [Files -> Snapshot]]
  /\ missing \in [Txns -> SUBSET Dirs]
  /\ retain \in [Txns -> BOOLEAN]
  /\ proc \in [Procs -> Process]
  /\ faults \in Nat /\ writes \in Nat
  /\ touched \subseteq Txns \X Files
  /\ released \subseteq Txns /\ raced \subseteq Procs

\* The transaction has a journal and is the only one to have changed file i.
Owns(t, i) == journal[t] # NoJournal /\ <<t, i>> \notin touched

\* No crash point loses original data: whatever a journaled transaction has
\* put over a file nobody else changed, the file is still the original or the
\* original's bytes are in the transaction's backups, until the apply that
\* committed it begins to remove them (stage writes and verifies every backup
\* before commit renames anything).
OriginalRecoverable ==
  \A t \in Txns, i \in Files :
    Owns(t, i) /\ t \notin released =>
      \/ IsOriginal(t, i)
      \/ IsNew(t, i) /\ (orig[t][i] = Absent \/ BackupMatches(t, i))

\* A journal that says Committed tells the truth: every file that nobody else
\* changed holds the capsule's bytes and mode, also when the commit was
\* interrupted and finished by any number of resumes.
CommittedIsNew ==
  \A t \in Txns, i \in Files :
    Owns(t, i) /\ journal[t].state = "Committed" => IsNew(t, i)

\* A journal that says RolledBack tells the truth: every file that nobody else
\* changed is again what prepare recorded, however the rollback was reached.
RolledBackIsOriginal ==
  \A t \in Txns, i \in Files :
    Owns(t, i) /\ journal[t].state = "RolledBack" => IsOriginal(t, i)

\* reconcile never meets a state it cannot explain: as long as no one else
\* writes, at every crash point of commit and of rollback the files are a
\* prefix of new ones followed by original ones.
PrefixShape ==
  \A t \in Txns :
    (\A i \in Files : Owns(t, i)) =>
      \E k \in 0..N : \A i \in Files : IF i <= k THEN IsNew(t, i) ELSE IsOriginal(t, i)

\* Foreign data is never overwritten or deleted, unless it arrived between the
\* engine's own check of that file and the write that follows the check: a
\* process changes a file only from the transaction's original or new state.
NoForeignOverwrite ==
  [][\A p \in Procs, i \in Files :
       (proc[p].txn # NoTxn /\ proc'[p] # proc[p] /\ target'[i] # target[i] /\ p \notin raced)
         => IsOriginal(proc[p].txn, i) \/ IsNew(proc[p].txn, i)]_vars

\* Recovery converges: an unfinished transaction is eventually committed, or
\* rolled back and removed, if rollback is retried (each attempt reconciles
\* with whatever the interrupted one left behind), unless someone else changed
\* its files: then reconcile refuses by design.
RecoveryConverges ==
  \A t \in Txns :
    (t \in present /\ Incomplete(t)) ~>
      (~(t \in present /\ Incomplete(t)) \/ \E i \in Files : <<t, i>> \in touched)

Quiet == \A p \in Procs : proc[p].pc = "idle"

\* rollback_transaction is never refused on files that only the transaction
\* itself has changed: the persisted journal, the backups and the digests
\* permit deterministic recovery.
RollbackNotRefused ==
  \A p \in Procs :
    proc[p].pc = "idle" /\ proc[p].op = "rollback" /\ touched = {} =>
      proc[p].res \in {"ok", "fault"}

\* list_transactions reads every journal, and fails as a whole on one that
\* does not load.
ListTransactionsSucceeds == \A t \in present : journal[t] # NoJournal

\* Whatever an interrupted or failed operation leaves behind can be inspected
\* by the next run.
LeftoversInspectable == Quiet => ListTransactionsSucceeds

\* Directory x holds a file or a temporary, at any depth.
HoldsFile(x) ==
  \/ \E i \in Files : target[i] # Absent /\ Below(x, FilePath[i])
  \/ \E f \in temps : f.dir # RootDir /\ Below(x, DirPath[f.dir])

\* The directories the journal does know of: what remains of them when t is
\* rolled back holds a file, a temporary or a directory the journal lacks.
Emptied(t) ==
  LET known == journal[t].created \cup missing[t] IN
  \A x \in known \cap dirs :
    HoldsFile(x) \/ \E y \in dirs \ known : Below(x, DirPath[y])

\* A directory that reached the journal is not lost track of: no reconcile,
\* resume or interrupted rollback forgets it, and when the journal turns to
\* RolledBack it is gone or not empty, unless another program changed the files.
RecordedDirectoriesGone ==
  [][\A t \in Txns :
       journal[t] # NoJournal /\ journal'[t] \notin {NoJournal, journal[t]} =>
         /\ journal[t].created \subseteq journal'[t].created
         /\ journal'[t].state = "RolledBack" /\ (\A i \in Files : <<t, i>> \notin touched)
              => Emptied(t)']_vars

=============================================================================
