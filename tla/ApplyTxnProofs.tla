--------------------------- MODULE ApplyTxnProofs ---------------------------
(***************************************************************************)
(* Safety of the transaction engine for every number of processes,         *)
(* transactions and files, every tree, every interleaving with an          *)
(* independent writer and every crash.  IInv is the inductive invariant:   *)
(* besides the properties themselves it says, for every program point of   *)
(* a process, which of the files nobody else changed are known to be       *)
(* original, known to be new, and known to be backed up.                   *)
(* RInv adds what recovery rests on where no fault leaves debris behind.   *)
(***************************************************************************)
EXTENDS ApplyTxn, TLAPS

\* Nobody but transaction t changed file i since t recorded it.
Own(t, i) == <<t, i>> \notin touched

OriginalAbove(t, n) == \A i \in Files : i > n /\ Own(t, i) => IsOriginal(t, i)
OriginalBelow(t, n) == \A i \in Files : i < n /\ Own(t, i) => IsOriginal(t, i)
OriginalBetween(t, m, n) ==
  \A i \in Files : m < i /\ i < n /\ Own(t, i) => IsOriginal(t, i)
NewUpTo(t, n) == \A i \in Files : i <= n /\ Own(t, i) => IsNew(t, i)
BackedUp(t) == \A i \in Files : NeedsBackup(t, i) => BackupMatches(t, i)

Preparing == {"create", "prepare", "persistPrepared"}
Staging == {"stage", "persistStaged"}
Committing == {"ensure", "precondition", "replace", "rename", "verify", "persistCommitted"}
RollingBack == {"rbCheck", "rbReplace", "rbRename", "rbRemove", "rbDirs", "rbPersist"}

\* The next four describe a process in state r.  Which transaction it works
\* on, and whether its journal is on disk.
Placed(r) ==
  /\ r.pc = "idle" <=> r.txn = NoTxn
  /\ r.pc = "create" => r.txn \notin present
  /\ r.pc # "idle" => r.txn \in used
  /\ r.pc \notin {"idle", "create"} => r.txn \in present
  /\ r.pc \in Preparing => journal[r.txn] = NoJournal
  /\ r.pc \notin {"idle", "cleanup"} \cup Preparing => journal[r.txn] # NoJournal

\* Where its index points to, and what its copy of the journal holds.
Indexed(r) ==
  /\ r.pc \in {"prepare", "stage", "precondition", "replace", "rename", "verify",
               "reconcile", "rbCheck", "rbReplace", "rbRename", "rbRemove"} =>
       r.idx \in Files
  /\ r.pc \in {"precondition", "replace", "rename", "verify"} =>
       r.idx = r.j.committed + 1
  /\ r.pc = "ensure" => r.idx \in 1..Len(Required)
  /\ r.pc = "persistCommitted" => r.j.committed = N
  /\ r.pc \in Preparing \cup Staging => r.j = EmptyJournal /\ r.op = "apply"
  /\ r.pc \in Committing => r.j.state = "Committing"
  /\ r.pc = "reconcile" => r.count < r.idx /\ (~r.saw => r.count = r.idx - 1)

\* What the durable journal j of its transaction says.
Says(r, j) ==
  /\ r.pc \in Committing => j.state = "Committing"
  /\ r.pc \in RollingBack => j.state = "RollingBack"
  /\ r.pc = "reconcile" => j.state = r.j.state

\* What it knows of its transaction's files.
Knows(r) ==
  LET t == r.txn  c == r.j.committed IN
  /\ r.pc = "prepare" => OriginalBelow(t, r.idx)
  /\ r.pc \in {"persistPrepared", "stage", "persistStaged", "rbDirs", "rbPersist"} =>
       OriginalAbove(t, 0)
  /\ r.pc \in {"commit", "ensure", "precondition", "replace", "rename", "persistCommitted"} =>
       NewUpTo(t, c) /\ OriginalAbove(t, c)
  /\ r.pc = "verify" => NewUpTo(t, r.idx) /\ OriginalAbove(t, r.idx)
  /\ r.pc \in Committing => BackedUp(t)
  /\ r.pc = "rbBegin" => OriginalAbove(t, PossibleCount(c))
  /\ r.pc \in {"rbCheck", "rbReplace", "rbRename", "rbRemove"} => OriginalAbove(t, r.idx)
  /\ r.pc = "rbRemove" => ~NeedsBackup(t, r.idx)
  /\ r.pc = "reconcile" => NewUpTo(t, r.count) /\ OriginalBetween(t, r.count, r.idx)
  /\ r.pc = "cleanup" => (r.op = "apply" /\ r.res = "ok") \/ OriginalAbove(t, 0)

At(r) == Placed(r) /\ Indexed(r) /\ Says(r, journal[r.txn]) /\ Knows(r)

\* One process per transaction; what is not on disk has no journal.
Structure ==
  /\ \A p, q \in Procs :
       p # q /\ proc[p].txn = proc[q].txn => proc[p].txn = NoTxn
  /\ present \subseteq used
  /\ \A t \in Txns : t \notin present => journal[t] = NoJournal

\* The promises of the engine about one file of one transaction.
FilePromises(t, i) ==
  Owns(t, i) =>
    /\ IsOriginal(t, i) \/ IsNew(t, i)
    /\ t \notin released =>
         IsOriginal(t, i) \/ (IsNew(t, i) /\ (orig[t][i] = Absent \/ BackupMatches(t, i)))
    /\ journal[t].state = "Committed" => IsNew(t, i)
    /\ journal[t].state = "RolledBack" => IsOriginal(t, i)

Prefix(t) ==
  (\A i \in Files : Owns(t, i)) =>
     \E k \in 0..N : \A i \in Files : IF i <= k THEN IsNew(t, i) ELSE IsOriginal(t, i)

Promises(t) == (\A i \in Files : FilePromises(t, i)) /\ Prefix(t)

IInv ==
  /\ TypeOK
  /\ Structure
  /\ \A p \in Procs : At(proc[p])
  /\ \A t \in Txns : Promises(t)

-----------------------------------------------------------------------------
(* Framing: a step of one process for one transaction leaves the others    *)
(* alone, because every change of a file marks it in touched for all other *)
(* transactions.                                                           *)

\* The step changes only process p and transaction t, for the others.
Local(p, t) ==
  /\ \A q \in Procs : q # p => proc'[q] = proc[q]
  /\ \A u \in Txns : u # t =>
       /\ journal'[u] = journal[u] /\ backup'[u] = backup[u]
       /\ orig'[u] = orig[u] /\ new'[u] = new[u]
       /\ u \in present' <=> u \in present
       /\ u \in released' <=> u \in released
       /\ \A i \in Files : u \in present /\ <<u, i>> \notin touched' =>
            <<u, i>> \notin touched /\ target'[i] = target[i]
  /\ used \subseteq used'

\* Facts about the files of u survive a step that changes none that u owns.
LEMMA FactsKept ==
  ASSUME NEW u, orig'[u] = orig[u], new'[u] = new[u], backup'[u] = backup[u],
         \A i \in Files : Own(u, i)' => Own(u, i) /\ target'[i] = target[i]
  PROVE  /\ \A n : OriginalAbove(u, n) => OriginalAbove(u, n)'
         /\ \A n : OriginalBelow(u, n) => OriginalBelow(u, n)'
         /\ \A m, n : OriginalBetween(u, m, n) => OriginalBetween(u, m, n)'
         /\ \A n : NewUpTo(u, n) => NewUpTo(u, n)'
         /\ BackedUp(u) => BackedUp(u)'
         /\ \A i : NeedsBackup(u, i)' = NeedsBackup(u, i)
<1>1. \A i \in Files : Own(u, i)' /\ IsOriginal(u, i) => IsOriginal(u, i)'
  BY DEF IsOriginal
<1>2. \A i \in Files : Own(u, i)' /\ IsNew(u, i) => IsNew(u, i)'
  BY DEF IsNew
<1>3. \A i : NeedsBackup(u, i)' = NeedsBackup(u, i) /\ BackupMatches(u, i)' = BackupMatches(u, i)
  BY DEF NeedsBackup, BackupMatches
<1> QED
  BY <1>1, <1>2, <1>3 DEF OriginalAbove, OriginalBelow, OriginalBetween, NewUpTo, BackedUp

\* What a process in state r knows survives a step that changes none of the
\* files its transaction owns.
LEMMA KnowsKept ==
  ASSUME NEW r, NEW u, u = r.txn,
         orig'[u] = orig[u], new'[u] = new[u], backup'[u] = backup[u],
         \A i \in Files : Own(u, i)' => Own(u, i) /\ target'[i] = target[i],
         Knows(r)
  PROVE  Knows(r)'
  BY FactsKept DEF Knows

\* A process that is idle or about to create its transaction claims nothing.
LEMMA NoKnowledge ==
  ASSUME NEW r, r.pc \in {"idle", "create"}
  PROVE  Knows(r) /\ Knows(r)' /\ \A j : Says(r, j)
  BY DEF Knows, Says, Committing, RollingBack

\* A local step of p leaves the invariant of every other process standing.
LEMMA OthersKeepPoints ==
  ASSUME IInv, NEW p, NEW t, Local(p, t),
         NEW q \in Procs, q # p, proc[q].txn # t
  PROVE  At(proc[q])'
<1>1. PICK r \in Process : r = proc[q]
  BY DEF IInv, TypeOK
<1>2. At(r) /\ proc'[q] = r
  BY <1>1 DEF IInv, Local
<1>3. CASE r.pc = "idle"
  BY <1>2, <1>3, NoKnowledge DEF At, Placed, Indexed, Says, Knows, Preparing, Staging,
     Committing, RollingBack
<1>4. CASE r.pc # "idle"
  <2>1. PICK u \in Txns : u = r.txn /\ u # t
    BY <1>1, <1>2, <1>4 DEF At, Placed, Process
  <2>2. /\ journal'[u] = journal[u] /\ backup'[u] = backup[u] /\ orig'[u] = orig[u]
        /\ new'[u] = new[u] /\ (u \in present' <=> u \in present) /\ used \subseteq used'
    BY <2>1 DEF Local
  <2>3. Placed(r)' /\ Indexed(r)' /\ Says(r, journal'[r.txn])
    BY <1>2, <2>1, <2>2 DEF At, Placed, Indexed
  <2>4. Knows(r)'
    <3>1. CASE r.pc = "create"
      BY <3>1, NoKnowledge
    <3>2. CASE r.pc # "create"
      <4>1. u \in present
        BY <3>2, <1>2, <1>4, <2>1 DEF At, Placed
      <4>2. \A i \in Files : Own(u, i)' => Own(u, i) /\ target'[i] = target[i]
        BY <4>1, <2>1 DEF Local, Own
      <4> QED BY <1>2, <2>1, <2>2, <4>2, KnowsKept DEF At
    <3> QED BY <3>1, <3>2
  <2>5. At(r)'
    BY <2>3, <2>4 DEF At, Says
  <2> QED BY <2>5, <1>2 DEF At, Placed, Indexed, Says, Knows
<1> QED BY <1>3, <1>4

\* A local step of p leaves the promises of every other transaction standing.
LEMMA OthersKeepPromises ==
  ASSUME IInv, NEW p, NEW t, Local(p, t), NEW u \in Txns, u # t
  PROVE  Promises(u)'
<1>1. Promises(u)
  BY DEF IInv
<1>2. /\ journal'[u] = journal[u] /\ backup'[u] = backup[u] /\ orig'[u] = orig[u]
      /\ new'[u] = new[u] /\ (u \in released' <=> u \in released)
  BY DEF Local
<1>3. \A i \in Files : Owns(u, i)' => Owns(u, i) /\ target'[i] = target[i]
  BY <1>2 DEF IInv, Structure, Local, Owns
<1>4. \A i \in Files : FilePromises(u, i)'
  BY <1>1, <1>2, <1>3 DEF Promises, FilePromises, IsOriginal, IsNew, BackupMatches
<1>5. Prefix(u)'
  BY <1>1, <1>2, <1>3 DEF Promises, Prefix, IsOriginal, IsNew
<1> QED BY <1>4, <1>5 DEF Promises

-----------------------------------------------------------------------------
(* Facts every action lemma uses.                                          *)

\* What the invariant says of a process that is running an operation.
LEMMA Busy ==
  ASSUME IInv, NEW p \in Procs, proc[p].pc # "idle"
  PROVE  /\ proc[p] \in Process /\ proc[p].txn \in Txns /\ proc[p].txn \in used
         /\ proc[p].pc # "create" => proc[p].txn \in present
         /\ \A q \in Procs : q # p => proc[q].txn # proc[p].txn
         /\ At(proc[p]) /\ Promises(proc[p].txn)
  BY ConstantsAssumption DEF IInv, TypeOK, Structure, At, Placed, Process

\* A journal with another state is a journal.
LEMMA WithState ==
  ASSUME NEW j \in Journal, NEW s \in TxnStates
  PROVE  \E k \in Journal : /\ k = [j EXCEPT !.state = s]
                            /\ k.state = s /\ k.committed = j.committed
<1> DEFINE k == [j EXCEPT !.state = s]
<1>1. k \in Journal /\ k.state = s /\ k.committed = j.committed
  BY DEF Journal
<1> QED BY <1>1

\* A journal with another committed count is a journal.
LEMMA WithCommitted ==
  ASSUME NEW j \in Journal, NEW c \in 0..N
  PROVE  \E k \in Journal : /\ k = [j EXCEPT !.committed = c]
                            /\ k.state = j.state /\ k.committed = c
<1> DEFINE k == [j EXCEPT !.committed = c]
<1>1. k \in Journal /\ k.state = j.state /\ k.committed = c
  BY DEF Journal
<1> QED BY <1>1

\* The journal prepare builds is a journal.
LEMMA EmptyJournalType ==
  EmptyJournal \in Journal /\ EmptyJournal.committed = 0 /\ EmptyJournal.state = "Prepared"
  BY ConstantsAssumption DEF EmptyJournal, Journal, TxnStates

\* A new state of one process keeps the type of all of them.
LEMMA SetUpdates ==
  ASSUME IInv, NEW p \in Procs, NEW r \in Process, Set(p, r)
  PROVE  /\ proc' \in [Procs -> Process]
         /\ proc'[p] = r
         /\ \A q \in Procs : q # p => proc'[q] = proc[q]
  BY DEF Set, IInv, TypeOK

\* A returned process is a process.
LEMMA IdleType ==
  ASSUME NEW op \in {"none", "apply", "resume", "rollback"}, NEW r \in Results
  PROVE  Idle(op, r) \in Process
  BY ConstantsAssumption DEF Idle, EmptyJournal, Process, Journal, TxnStates, Points

\* What returning to the caller does to the processes.
LEMMA ReturnUpdates ==
  ASSUME IInv, NEW p \in Procs, NEW r \in Results, Return(p, r)
  PROVE  /\ proc' \in [Procs -> Process]
         /\ proc'[p] = Idle(proc[p].op, r)
         /\ \A q \in Procs : q # p => proc'[q] = proc[q]
<1>1. proc[p].op \in {"none", "apply", "resume", "rollback"}
  BY DEF IInv, TypeOK, Process
<1>2. Idle(proc[p].op, r) \in Process
  BY <1>1, IdleType
<1> QED BY <1>2, SetUpdates DEF Return

\* An idle process satisfies its part of the invariant in every state.
LEMMA IdlePoints ==
  ASSUME NEW r, r.pc = "idle", r.txn = NoTxn
  PROVE  At(r)'
  BY NoKnowledge DEF At, Placed, Indexed, Says, Preparing, Staging, Committing, RollingBack

\* The invariant from its local parts.
LEMMA Combine ==
  ASSUME IInv, NEW p \in Procs, NEW t \in Txns, Local(p, t),
         \A q \in Procs : q # p => proc[q].txn # t,
         TypeOK', proc'[p].txn \in {t, NoTxn}, At(proc[p])', Promises(t)',
         present' \subseteq used', t \notin present' => journal'[t] = NoJournal
  PROVE  IInv'
<1>1. \A q \in Procs : q # p => At(proc[q])'
  BY OthersKeepPoints
<1>2. \A u \in Txns : u # t => Promises(u)'
  BY OthersKeepPromises
<1>3. \A q, s \in Procs : q # s /\ proc'[q].txn = proc'[s].txn => proc'[q].txn = NoTxn
  BY DEF IInv, Structure, Local
<1>4. \A u \in Txns : u \notin present' => journal'[u] = NoJournal
  BY DEF IInv, Structure, Local
<1>5. Structure'
  BY <1>3, <1>4 DEF Structure
<1> QED BY <1>1, <1>2, <1>5 DEF IInv

\* A transaction without a journal promises nothing.
LEMMA NoJournalNoPromises ==
  ASSUME NEW t, journal'[t] = NoJournal
  PROVE  Promises(t)'
<1>1. \A i \in Files : ~Owns(t, i)'
  BY DEF Owns
<1>2. 1 \in Files
  BY ConstantsAssumption DEF Files
<1> QED BY <1>1, <1>2 DEF Promises, FilePromises, Prefix

\* A journal write, or its removal, keeps the promises as long as it does not
\* claim more than the old one.
LEMMA JournalKeepsPromises ==
  ASSUME IInv, NEW t \in Txns, UNCHANGED <<target, touched, orig, new, backup, released>>,
         journal'[t] # NoJournal =>
           journal[t] # NoJournal
             /\ (journal'[t].state \in Finished => journal'[t].state = journal[t].state)
  PROVE  Promises(t)'
<1>1. Promises(t)
  BY DEF IInv
<1>2. \A i \in Files : Owns(t, i)' => Owns(t, i)
  BY DEF Owns
<1>3. \A i \in Files : IsNew(t, i)' = IsNew(t, i) /\ IsOriginal(t, i)' = IsOriginal(t, i)
                        /\ BackupMatches(t, i)' = BackupMatches(t, i)
  BY DEF IsNew, IsOriginal, BackupMatches
<1>4. \A i \in Files : FilePromises(t, i)'
  BY <1>1, <1>2, <1>3 DEF Promises, FilePromises, Finished, Owns
<1>5. Prefix(t)'
  BY <1>1, <1>2, <1>3 DEF Promises, Prefix
<1> QED BY <1>4, <1>5 DEF Promises

\* Replacing a constant by the process state it is equal to.
LEMMA AtNext ==
  ASSUME NEW p, NEW r, proc'[p] = r, At(r)'
  PROVE  At(proc[p])'
  BY DEF At, Placed, Indexed, Says, Knows

\* A process that only returns changes nothing else.
LEMMA IdleReturn ==
  ASSUME IInv, NEW p \in Procs, NEW op, NEW r, proc' \in [Procs -> Process],
         proc'[p] = Idle(op, r), \A q \in Procs : q # p => proc'[q] = proc[q],
         UNCHANGED <<target, temps, present, used, journal, staged, backup, planVars>>,
         UNCHANGED <<touched, released>>,
         dirs' \subseteq Dirs, faults' \in Nat, writes' \in Nat, raced' \subseteq Procs
  PROVE  IInv'
<1> USE DEF planVars
<1>1. TypeOK'
  BY DEF IInv, TypeOK
<1>2. At(proc[p])' /\ proc'[p].txn = NoTxn
  BY IdlePoints, AtNext DEF Idle
<1>3. \A t : Local(p, t)
  BY DEF Local
<1>4. \A q \in Procs : q # p => At(proc[q])'
  <2> SUFFICES ASSUME NEW q \in Procs, q # p PROVE At(proc[q])'
    OBVIOUS
  <2>1. CASE proc[q].txn # Absent
    BY <2>1, <1>3, OthersKeepPoints
  <2>2. CASE proc[q].txn # Special
    BY <2>2, <1>3, OthersKeepPoints
  <2> QED BY <2>1, <2>2, ConstantsAssumption
<1>5. \A u \in Txns : Promises(u)'
  BY JournalKeepsPromises
<1>6. Structure'
  BY <1>2 DEF IInv, Structure
<1> QED BY <1>1, <1>2, <1>4, <1>5, <1>6 DEF IInv

\* Returning without touching files or store preserves the invariant.
LEMMA ReturnStep ==
  ASSUME IInv, NEW p \in Procs, NEW r \in Results, Return(p, r),
         UNCHANGED <<target, temps, present, used, journal, staged, backup, planVars>>,
         UNCHANGED <<touched, released>>,
         dirs' \subseteq Dirs, faults' \in Nat, writes' \in Nat, raced' \subseteq Procs
  PROVE  IInv'
  BY ReturnUpdates, IdleReturn

\* The same when nothing but the process changes.
LEMMA PureReturn ==
  ASSUME IInv, NEW p \in Procs, NEW r \in Results, Return(p, r),
         UNCHANGED <<fsVars, storeVars, planVars, envVars, ghostVars>>
  PROVE  IInv'
  BY ReturnStep DEF fsVars, storeVars, planVars, envVars, ghostVars, IInv, TypeOK

\* A step of p that leaves the destination files alone and at most writes the
\* journal, staged copies and backups of its own transaction.
LEMMA StoreStep ==
  ASSUME IInv, NEW p \in Procs, NEW t, proc[p].pc \notin {"idle", "create"}, t = proc[p].txn,
         NEW r \in Process, Set(p, r), r.txn = t, r.pc \notin {"idle"} \cup Preparing,
         UNCHANGED <<target, present, used, planVars, touched, released>>,
         faults' \in Nat, writes' \in Nat,
         temps' \subseteq TempFile, dirs' \subseteq Dirs, raced' \subseteq Procs,
         staged' \in [Txns -> SUBSET Files],
         backup' \in [Txns -> [Files -> Snapshot \cup {Absent}]],
         \A u \in Txns : u # t => backup'[u] = backup[u],
         NEW j \in Journal, journal' = [journal EXCEPT ![t] = j],
         Indexed(r), Says(r, j), Knows(r)', Promises(t)'
  PROVE  IInv'
<1> USE DEF planVars
<1>1. t \in Txns /\ t \in present /\ \A q \in Procs : q # p => proc[q].txn # t
  BY Busy
<1>2. /\ proc' \in [Procs -> Process] /\ proc'[p] = r
      /\ \A q \in Procs : q # p => proc'[q] = proc[q]
  BY SetUpdates
<1>3. journal' \in [Txns -> Journal \cup {NoJournal}] /\ journal'[t] = j /\ j # NoJournal
  BY <1>1, ConstantsAssumption DEF IInv, TypeOK
<1>4. TypeOK'
  BY <1>2, <1>3 DEF IInv, TypeOK
<1>5. Local(p, t)
  BY <1>1, <1>2 DEF Local, IInv, TypeOK
<1>6. Placed(r)'
  BY <1>1, <1>3, ConstantsAssumption DEF Placed, Preparing, IInv, Structure
<1>7. At(r)'
  BY <1>3, <1>6 DEF At, Indexed, Says
<1>8. At(proc[p])'
  BY <1>2, <1>7, AtNext
<1> QED
  BY <1>1, <1>2, <1>4, <1>5, <1>8, Combine DEF IInv, Structure

\* The same when it only writes its journal.
LEMMA OwnStep ==
  ASSUME IInv, NEW p \in Procs, NEW t, proc[p].pc \notin {"idle", "create"}, t = proc[p].txn,
         NEW r \in Process, Set(p, r), r.txn = t, r.pc \notin {"idle"} \cup Preparing,
         UNCHANGED <<target, present, used, staged, backup, planVars, touched, released>>,
         faults' \in Nat, writes' \in Nat,
         temps' \subseteq TempFile, dirs' \subseteq Dirs, raced' \subseteq Procs,
         NEW j \in Journal, journal' = [journal EXCEPT ![t] = j],
         Indexed(r), Says(r, j), Knows(r), Promises(t)'
  PROVE  IInv'
<1>1. Knows(r)'
  BY KnowsKept DEF Own, planVars
<1>2. /\ staged' \in [Txns -> SUBSET Files]
      /\ backup' \in [Txns -> [Files -> Snapshot \cup {Absent}]]
  BY DEF IInv, TypeOK
<1> QED BY <1>1, <1>2, StoreStep

\* The same when it writes nothing of its store.
LEMMA QuietStep ==
  ASSUME IInv, NEW p \in Procs, NEW t, proc[p].pc \notin {"idle", "cleanup"} \cup Preparing,
         t = proc[p].txn,
         NEW r \in Process, Set(p, r), r.txn = t, r.pc \notin {"idle"} \cup Preparing,
         UNCHANGED <<target, present, used, journal, staged, backup, planVars>>,
         UNCHANGED <<touched, released>>, faults' \in Nat, writes' \in Nat,
         temps' \subseteq TempFile, dirs' \subseteq Dirs, raced' \subseteq Procs,
         Indexed(r), Says(r, journal[t]), Knows(r)
  PROVE  IInv'
<1>1. t \in Txns /\ journal[t] # NoJournal
  BY Busy DEF At, Placed, Preparing
<1>2. journal[t] \in Journal /\ journal' = [journal EXCEPT ![t] = journal[t]]
  BY <1>1 DEF IInv, TypeOK
<1>3. Promises(t)'
  BY <1>1, JournalKeepsPromises DEF planVars
<1> QED BY <1>2, <1>3, OwnStep DEF Preparing

-----------------------------------------------------------------------------
(* apply_verified_tree up to commit.                                       *)

\* apply's check for unfinished transactions preserves the invariant.
LEMMA BeginApplyStep ==
  ASSUME IInv, NEW p \in Procs, BeginApply(p)
  PROVE  IInv'
<1>1. proc[p].pc = "idle" /\ proc[p].txn = NoTxn
  BY DEF BeginApply, IInv, At, Placed
<1>2. CASE \E t \in present : Incomplete(t)
  <2>1. Idle("apply", "IncompleteTransaction") \in Process
    BY IdleType DEF Results
  <2>2. Set(p, Idle("apply", "IncompleteTransaction")) /\ UNCHANGED used
    BY <1>2 DEF BeginApply
  <2>3. /\ proc' \in [Procs -> Process]
        /\ proc'[p] = Idle("apply", "IncompleteTransaction")
        /\ \A q \in Procs : q # p => proc'[q] = proc[q]
    BY <2>1, <2>2, SetUpdates
  <2>4. UNCHANGED <<fsVars, storeVars, planVars, envVars, ghostVars>>
    BY <2>2 DEF BeginApply, storeVars
  <2> QED BY <2>3, <2>4, IdleReturn DEF IInv, TypeOK, fsVars, storeVars, envVars, ghostVars
<1>3. CASE ~ \E t \in present : Incomplete(t)
  <2>1. PICK t \in Txns \ used :
          /\ used' = used \cup {t}
          /\ Set(p, [Idle("apply", "none") EXCEPT !.pc = "create", !.txn = t])
    BY <1>3 DEF BeginApply
  <2> DEFINE r == [Idle("apply", "none") EXCEPT !.pc = "create", !.txn = t]
  <2>2. /\ r \in Process /\ r.pc = "create" /\ r.txn = t /\ r.j = EmptyJournal /\ r.op = "apply"
    <3>1. Idle("apply", "none") \in Process
      BY IdleType DEF Results
    <3> QED BY <3>1 DEF Process, Points, Idle
  <2>3. /\ proc' \in [Procs -> Process]
        /\ proc'[p] = r
        /\ \A q \in Procs : q # p => proc'[q] = proc[q]
    BY <2>1, <2>2, SetUpdates
  <2> HIDE DEF r
  <2>4. UNCHANGED <<fsVars, present, journal, staged, backup, planVars, envVars, ghostVars>>
    BY DEF BeginApply
  <2>5. t \notin present /\ journal[t] = NoJournal
    BY <2>1 DEF IInv, Structure
  <2>6. Local(p, t)
    BY <2>1, <2>3, <2>4 DEF Local, fsVars, planVars, ghostVars
  <2>7. \A q \in Procs : q # p => proc[q].txn # t
    BY <2>1, ConstantsAssumption, Busy DEF IInv, At, Placed
  <2>8. TypeOK'
    BY <2>1, <2>3, <2>4 DEF IInv, TypeOK, fsVars, planVars, ghostVars, envVars
  <2>9. Placed(r)' /\ Indexed(r)
    BY <2>1, <2>2, <2>4, <2>5, ConstantsAssumption DEF Placed, Indexed, Preparing, Committing
  <2>11. At(proc[p])'
    BY <2>2, <2>3, <2>9, NoKnowledge, AtNext DEF At, Indexed, Says, Committing, RollingBack
  <2>10. Promises(t)'
    BY <2>4, <2>5, JournalKeepsPromises DEF fsVars, planVars, ghostVars
  <2> QED
    BY <2>1, <2>2, <2>3, <2>4, <2>5, <2>6, <2>7, <2>8, <2>11, <2>10, Combine DEF IInv, Structure
<1> QED BY <1>2, <1>3

\* create_transaction preserves the invariant.
LEMMA CreateTransactionStep ==
  ASSUME IInv, NEW p \in Procs, NEW c \in Capsules, NEW keep \in BOOLEAN,
         CreateTransaction(p, c, keep)
  PROVE  IInv'
<1>1. proc[p].pc = "create"
  BY DEF CreateTransaction
<1>2. PICK t \in Txns : t = proc[p].txn /\ t \in used /\ \A q \in Procs : q # p => proc[q].txn # t
  BY <1>1, Busy
<1>3. journal[t] = NoJournal /\ proc[p].j = EmptyJournal /\ proc[p].op = "apply"
  BY <1>1, <1>2, Busy DEF At, Placed, Indexed, Preparing
<1>4. PICK r \in Process :
        /\ r = [proc[p] EXCEPT !.pc = "prepare", !.idx = 1]
        /\ r.pc = "prepare" /\ r.idx = 1 /\ r.txn = t /\ r.j = EmptyJournal /\ r.op = "apply"
  <2> DEFINE s == [proc[p] EXCEPT !.pc = "prepare", !.idx = 1]
  <2>0. proc[p] \in Process
    BY <1>1, Busy
  <2>1. s \in Process
    BY <2>0 DEF Process, Points
  <2>2. s.pc = "prepare" /\ s.idx = 1 /\ s.txn = t /\ s.j = EmptyJournal /\ s.op = "apply"
    BY <1>1, <1>2, <1>3, Busy DEF Process
  <2> QED BY <2>1, <2>2
<1>5. /\ proc' \in [Procs -> Process] /\ proc'[p] = r
      /\ \A q \in Procs : q # p => proc'[q] = proc[q]
  BY <1>4, SetUpdates DEF CreateTransaction
<1>6. /\ present' = present \cup {t} /\ new' = [new EXCEPT ![t] = c]
      /\ retain' = [retain EXCEPT ![t] = keep]
      /\ missing' = [missing EXCEPT ![t] = SetOf(Required) \ dirs]
      /\ UNCHANGED <<fsVars, used, journal, staged, backup, orig, envVars, ghostVars>>
  BY <1>2 DEF CreateTransaction
<1>7. new' \in [Txns -> [Files -> Snapshot]] /\ missing' \in [Txns -> SUBSET Dirs]
  <2>1. c \in [Files -> Snapshot] /\ SetOf(Required) \subseteq Dirs
    BY ConstantsAssumption DEF Files, SetOf
  <2> QED BY <1>6, <2>1 DEF IInv, TypeOK
<1>8. TypeOK'
  BY <1>2, <1>5, <1>6, <1>7 DEF IInv, TypeOK, fsVars, envVars, ghostVars
<1>9. Local(p, t)
  BY <1>2, <1>5, <1>6 DEF Local, IInv, TypeOK, fsVars, ghostVars
<1>10. Placed(r)' /\ Indexed(r) /\ Says(r, journal'[t])
  BY <1>2, <1>3, <1>4, <1>6, ConstantsAssumption
     DEF Placed, Indexed, Says, Preparing, Committing, RollingBack, Files
<1>11. Knows(r)'
  BY <1>4 DEF Knows, OriginalBelow, Committing, Files
<1>12. At(proc[p])'
  BY <1>4, <1>5, <1>10, <1>11, AtNext DEF At, Indexed, Says
<1>13. Promises(t)'
  BY <1>3, <1>6, NoJournalNoPromises
<1>14. present' \subseteq used' /\ t \in present'
  BY <1>2, <1>6 DEF IInv, Structure
<1>15. proc'[p].txn = t
  BY <1>4, <1>5
<1> QED
  BY <1>2, <1>8, <1>9, <1>12, <1>13, <1>14, <1>15, Combine

\* prepare's read of one target preserves the invariant.
LEMMA PrepareFileStep ==
  ASSUME IInv, NEW p \in Procs, PrepareFile(p)
  PROVE  IInv'
<1>1. proc[p].pc = "prepare"
  BY DEF PrepareFile
<1>2. PICK t \in Txns, i \in Files :
        /\ t = proc[p].txn /\ i = proc[p].idx /\ t \in present
        /\ \A q \in Procs : q # p => proc[q].txn # t
  BY <1>1, Busy DEF At, Indexed
<1>3. /\ journal[t] = NoJournal /\ proc[p].j = EmptyJournal /\ proc[p].op = "apply"
      /\ OriginalBelow(t, i)
  BY <1>1, <1>2, Busy DEF At, Placed, Indexed, Knows, Preparing
<1>4. CASE target[i] = Special
  <2>1. Return(p, "NotRegularFile") /\ UNCHANGED <<orig, touched>>
    BY <1>2, <1>4 DEF PrepareFile
  <2>2. "NotRegularFile" \in Results
    BY DEF Results
  <2> QED
    BY <2>1, <2>2, PureReturn DEF PrepareFile, planVars, ghostVars
<1>5. CASE target[i] # Special
  <2>1. PICK r \in Process :
          /\ Set(p, r) /\ r.txn = t /\ r.j = EmptyJournal /\ r.op = "apply"
          /\ \/ i = N /\ r.pc = "persistPrepared"
             \/ i # N /\ r.pc = "prepare" /\ r.idx = i + 1
    <3> DEFINE s == IF i = N THEN [proc[p] EXCEPT !.pc = "persistPrepared"]
                             ELSE [proc[p] EXCEPT !.idx = i + 1]
    <3>0. proc[p] \in Process
      BY <1>1, Busy
    <3>1. s \in Process
      BY <3>0 DEF Process, Points, Files
    <3>2. /\ s.txn = t /\ s.j = EmptyJournal /\ s.op = "apply"
          /\ \/ i = N /\ s.pc = "persistPrepared"
             \/ i # N /\ s.pc = "prepare" /\ s.idx = i + 1
      BY <1>1, <1>2, <1>3, Busy DEF Process
    <3>3. Set(p, s)
      BY <1>2, <1>5 DEF PrepareFile
    <3> QED BY <3>1, <3>2, <3>3
  <2>2. /\ proc' \in [Procs -> Process] /\ proc'[p] = r
        /\ \A q \in Procs : q # p => proc'[q] = proc[q]
    BY <2>1, SetUpdates
  <2>3. /\ orig' = [orig EXCEPT ![t][i] = target[i]] /\ touched' = touched \ {<<t, i>>}
        /\ UNCHANGED <<fsVars, storeVars, new, missing, retain, envVars, released, raced>>
    BY <1>2, <1>5 DEF PrepareFile
  <2>4. target[i] \in Snapshot \cup {Absent}
    BY <1>5 DEF IInv, TypeOK, Target
  <2>5. orig' \in [Txns -> [Files -> Snapshot \cup {Absent}]]
    BY <2>3, <2>4 DEF IInv, TypeOK
  <2>6. TypeOK'
    BY <2>2, <2>3, <2>5 DEF IInv, TypeOK, fsVars, storeVars, envVars
  <2>7. Local(p, t)
    BY <1>2, <2>2, <2>3 DEF Local, fsVars, storeVars, IInv, TypeOK
  <2>8. Placed(r)' /\ Indexed(r) /\ Says(r, journal'[t])
    <3>1. r.pc \in {"prepare", "persistPrepared"}
      BY <2>1
    <3>2. Placed(r)'
      <4>1. t \in present /\ t \in used /\ journal[t] = NoJournal
        BY <1>1, <1>2, Busy DEF At, Placed, Preparing
      <4>2. UNCHANGED <<present, used, journal>>
        BY <2>3 DEF storeVars
      <4> QED BY <2>1, <3>1, <4>1, <4>2, ConstantsAssumption DEF Placed, Preparing
    <3>3. Indexed(r)
      BY <2>1, ConstantsAssumption DEF Indexed, Preparing, Committing, Files
    <3>4. Says(r, journal'[t])
      BY <3>1 DEF Says, Committing, RollingBack
    <3> QED BY <3>2, <3>3, <3>4
  <2>9. OriginalBelow(t, i + 1)'
    <3> SUFFICES ASSUME NEW k \in Files, k < i + 1, Own(t, k)' PROVE IsOriginal(t, k)'
      BY DEF OriginalBelow
    <3>1. orig'[t][i] = target[i] /\ target' = target /\ (k # i => orig'[t][k] = orig[t][k])
      BY <2>3 DEF IInv, TypeOK, fsVars
    <3>2. CASE k = i
      BY <3>1, <3>2 DEF IsOriginal
    <3>3. CASE k # i
      <4>1. k < i /\ Own(t, k)
        BY <3>3, <2>3 DEF Own, Files
      <4> QED BY <4>1, <3>1, <3>3, <1>3 DEF OriginalBelow, IsOriginal
    <3> QED BY <3>2, <3>3
  <2>10. Knows(r)'
    <3>1. CASE i = N
      <4>1. OriginalAbove(t, 0)'
        BY <2>9, <3>1, ConstantsAssumption DEF OriginalAbove, OriginalBelow, Files
      <4> QED BY <4>1, <3>1, <2>1 DEF Knows, Committing
    <3>2. CASE i # N
      BY <3>2, <2>1, <2>9 DEF Knows, Committing
    <3> QED BY <3>1, <3>2
  <2>11. At(proc[p])'
    BY <2>1, <2>2, <2>8, <2>10, AtNext DEF At, Indexed, Says
  <2>12. Promises(t)'
    BY <1>3, <2>3, NoJournalNoPromises DEF storeVars
  <2>13. present' \subseteq used' /\ t \in present'
    BY <1>2, <2>3 DEF IInv, Structure, storeVars
  <2> QED
    BY <1>2, <2>1, <2>2, <2>6, <2>7, <2>11, <2>12, <2>13, Combine
<1> QED BY <1>4, <1>5

\* The first journal write preserves the invariant.
LEMMA PersistPreparedStep ==
  ASSUME IInv, NEW p \in Procs, PersistPrepared(p)
  PROVE  IInv'
<1>1. proc[p].pc = "persistPrepared"
  BY DEF PersistPrepared
<1>2. PICK t \in Txns : t = proc[p].txn /\ OriginalAbove(t, 0)
  BY <1>1, Busy DEF At, Knows
<1>3. proc[p].j = EmptyJournal /\ proc[p].op = "apply" /\ EmptyJournal \in Journal
  BY <1>1, <1>2, Busy DEF At, Indexed, Preparing, EmptyJournal, Process
<1>4. PICK r \in Process :
        /\ Set(p, r) /\ r.txn = t /\ r.j = EmptyJournal /\ r.op = "apply"
        /\ r.pc = "stage" /\ r.idx = 1
  <2> DEFINE s == [proc[p] EXCEPT !.pc = "stage", !.idx = 1]
  <2>0. proc[p] \in Process
    BY <1>1, Busy
  <2>1. s \in Process
    BY <2>0 DEF Process, Points
  <2>2. s.txn = t /\ s.j = EmptyJournal /\ s.op = "apply" /\ s.pc = "stage" /\ s.idx = 1
    BY <1>1, <1>2, <1>3, Busy DEF Process
  <2> QED BY <2>1, <2>2 DEF PersistPrepared
<1>5. /\ journal' = [journal EXCEPT ![t] = EmptyJournal]
      /\ UNCHANGED <<fsVars, present, used, staged, backup, planVars, envVars, ghostVars>>
  BY <1>2, <1>3 DEF PersistPrepared, Persist
<1>6. Indexed(r) /\ Says(r, EmptyJournal) /\ Knows(r)
  BY <1>2, <1>4, ConstantsAssumption
     DEF Indexed, Says, Knows, Preparing, Staging, Committing, RollingBack, Files
<1>7. Promises(t)'
  <2>1. journal'[t].state = "Prepared"
    BY <1>5 DEF IInv, TypeOK, EmptyJournal
  <2>2. \A i \in Files : Owns(t, i)' => IsOriginal(t, i)'
    BY <1>2, <1>5 DEF Owns, Own, OriginalAbove, IsOriginal, Files, fsVars, planVars, ghostVars
  <2>3. 0 \in 0..N /\ \A i \in Files : ~(i <= 0)
    BY ConstantsAssumption DEF Files
  <2> QED BY <2>1, <2>2, <2>3 DEF Promises, FilePromises, Prefix
<1> QED
  BY <1>1, <1>2, <1>3, <1>4, <1>5, <1>6, <1>7, OwnStep
     DEF fsVars, ghostVars, envVars, Preparing, IInv, TypeOK

\* stage's round for one file preserves the invariant.
LEMMA StageFileStep ==
  ASSUME IInv, NEW p \in Procs, StageFile(p)
  PROVE  IInv'
<1>1. proc[p].pc = "stage"
  BY DEF StageFile
<1>2. PICK t \in Txns, i \in Files : t = proc[p].txn /\ i = proc[p].idx
  BY <1>1, Busy DEF At, Indexed
<1>3. /\ proc[p].j = EmptyJournal /\ proc[p].op = "apply" /\ OriginalAbove(t, 0)
      /\ journal[t] # NoJournal /\ Promises(t)
  BY <1>1, <1>2, Busy DEF At, Placed, Indexed, Knows, Preparing, Staging
<1>4. PICK r \in Process :
        /\ Set(p, r) /\ r.txn = t /\ r.j = EmptyJournal
        /\ \/ r.pc = "cleanup"
           \/ r.pc = "persistStaged" /\ r.op = "apply"
           \/ r.pc = "stage" /\ r.op = "apply" /\ r.idx = i + 1 /\ i # N
  <2>1. CASE NeedsBackup(t, i) /\ ~BackupAllowed(t, i)
    <3>0. proc[p] \in Process
      BY <1>1, Busy
    <3>1. PICK e \in Results : e = Refusal(i)
      BY DEF Results, Refusal
    <3> DEFINE s == [proc[p] EXCEPT !.pc = "cleanup", !.res = e]
    <3>2. s \in Process
      BY <3>0 DEF Process, Points
    <3>3. s.txn = t /\ s.j = EmptyJournal /\ s.pc = "cleanup"
      BY <1>2, <1>3, <3>0 DEF Process
    <3>4. Set(p, s)
      BY <3>1, <2>1, <1>2 DEF StageFile
    <3> QED BY <3>2, <3>3, <3>4
  <2>2. CASE ~(NeedsBackup(t, i) /\ ~BackupAllowed(t, i))
    <3> DEFINE s == IF i = N THEN [proc[p] EXCEPT !.pc = "persistStaged"]
                             ELSE [proc[p] EXCEPT !.idx = i + 1]
    <3>0. proc[p] \in Process
      BY <1>1, Busy
    <3>1. s \in Process
      BY <3>0 DEF Process, Points, Files
    <3>2. /\ s.txn = t /\ s.j = EmptyJournal /\ s.op = "apply"
          /\ \/ s.pc = "persistStaged"
             \/ s.pc = "stage" /\ s.idx = i + 1 /\ i # N
      BY <1>1, <1>2, <1>3, Busy DEF Process
    <3>3. Set(p, s)
      BY <2>2, <1>2 DEF StageFile
    <3> QED BY <3>1, <3>2, <3>3
  <2> QED BY <2>1, <2>2
<1>5. UNCHANGED <<fsVars, present, used, journal, planVars, envVars, ghostVars>>
  BY DEF StageFile
<1>6. /\ staged' \in [Txns -> SUBSET Files]
      /\ backup' \in [Txns -> [Files -> Snapshot \cup {Absent}]]
      /\ \A u \in Txns : u # t => backup'[u] = backup[u]
  <2>1. staged' = [staged EXCEPT ![t] = @ \cup {i}]
    BY <1>2 DEF StageFile
  <2>2. \/ backup' = backup
        \/ backup' = [backup EXCEPT ![t][i] = target[i]] /\ target[i] \in Snapshot
    BY <1>2 DEF StageFile, BackupAllowed
  <2>3. staged' \in [Txns -> SUBSET Files]
    BY <2>1 DEF IInv, TypeOK
  <2>4. CASE backup' = [backup EXCEPT ![t][i] = target[i]] /\ target[i] \in Snapshot
    <3>1. backup \in [Txns -> [Files -> Snapshot \cup {Absent}]]
      BY DEF IInv, TypeOK
    <3>2. [backup[t] EXCEPT ![i] = target[i]] \in [Files -> Snapshot \cup {Absent}]
      BY <3>1, <2>4
    <3> QED BY <3>1, <3>2, <2>3, <2>4
  <2>5. CASE backup' = backup
    BY <2>3, <2>5 DEF IInv, TypeOK
  <2> QED BY <2>2, <2>4, <2>5
<1>7. Indexed(r)
  BY <1>4, ConstantsAssumption DEF Indexed, Preparing, Staging, Committing, Files
<1>8. journal[t] \in Journal /\ journal' = [journal EXCEPT ![t] = journal[t]]
  BY <1>3, <1>5 DEF IInv, TypeOK
<1>9. Says(r, journal[t])
  BY <1>4 DEF Says, Committing, RollingBack
<1>10. OriginalAbove(t, 0)'
  BY <1>3, <1>5 DEF OriginalAbove, IsOriginal, Own, fsVars, planVars, ghostVars
<1>11. Knows(r)'
  BY <1>4, <1>10 DEF Knows, Committing
<1>12. Promises(t)'
  <2>1. \A i_1 \in Files : /\ Owns(t, i_1)' => Owns(t, i_1) /\ IsOriginal(t, i_1)'
                           /\ IsNew(t, i_1) => IsNew(t, i_1)'
                           /\ IsOriginal(t, i_1) => IsOriginal(t, i_1)'
    BY <1>3, <1>5
       DEF Owns, Own, OriginalAbove, IsOriginal, IsNew, Files, fsVars, planVars, ghostVars
  <2>2. \A k \in Files : FilePromises(t, k)'
    BY <2>1, <1>3, <1>5 DEF Promises, FilePromises
  <2>3. Prefix(t)'
    BY <2>1, <1>3 DEF Promises, Prefix
  <2> QED BY <2>2, <2>3 DEF Promises
<1> QED
  BY <1>1, <1>2, <1>4, <1>5, <1>6, <1>7, <1>8, <1>9, <1>11, <1>12, StoreStep
     DEF fsVars, ghostVars, envVars, Preparing, IInv, TypeOK

\* The Staged journal write preserves the invariant.
LEMMA PersistStagedStep ==
  ASSUME IInv, NEW p \in Procs, PersistStaged(p)
  PROVE  IInv'
<1>1. proc[p].pc = "persistStaged"
  BY DEF PersistStaged
<1>2. PICK t \in Txns : /\ t = proc[p].txn /\ OriginalAbove(t, 0) /\ proc[p].j = EmptyJournal
                        /\ journal[t] # NoJournal
  BY <1>1, Busy DEF At, Placed, Indexed, Knows, Preparing, Staging
<1>3. PICK j \in Journal : j = [proc[p].j EXCEPT !.state = "Staged"] /\ j.state = "Staged"
                           /\ j.committed = 0
  <2>1. proc[p].j \in Journal /\ proc[p].j.committed = 0
    BY <1>2, EmptyJournalType
  <2>2. "Staged" \in TxnStates
    BY DEF TxnStates
  <2> QED BY <2>1, <2>2, WithState
<1>4. PICK r \in Process : Set(p, r) /\ r.txn = t /\ r.pc = "commit" /\ r.j = j
  <2> DEFINE s == [proc[p] EXCEPT !.pc = "commit", !.j = j]
  <2>0. proc[p] \in Process
    BY <1>1, Busy
  <2>1. s \in Process
    BY <2>0 DEF Process, Points
  <2>2. s.txn = t /\ s.pc = "commit" /\ s.j = j
    BY <1>1, <1>2, Busy DEF Process
  <2> QED BY <2>1, <2>2, <1>3 DEF PersistStaged
<1>5. /\ journal' = [journal EXCEPT ![t] = j]
      /\ UNCHANGED <<fsVars, present, used, staged, backup, planVars, envVars, ghostVars>>
  BY <1>2, <1>3 DEF PersistStaged, Persist
<1>6. Indexed(r) /\ Says(r, j)
  BY <1>4 DEF Indexed, Says, Preparing, Staging, Committing, RollingBack
<1>7. Knows(r)
  <2>1. NewUpTo(t, 0)
    BY DEF NewUpTo, Files
  <2> QED BY <2>1, <1>2, <1>3, <1>4 DEF Knows, Committing
<1>8. Promises(t)'
  <2>1. journal'[t].state = "Staged"
    BY <1>3, <1>5 DEF IInv, TypeOK
  <2> QED
    BY <2>1, <1>2, <1>5, JournalKeepsPromises DEF Finished, fsVars, planVars, ghostVars
<1> QED
  BY <1>1, <1>2, <1>4, <1>5, <1>6, <1>7, <1>8, OwnStep
     DEF fsVars, ghostVars, envVars, Preparing, IInv, TypeOK

-----------------------------------------------------------------------------
(* commit.                                                                 *)

\* An error of commit: apply turns to rollback, resume returns.
LEMMA FailCommitStep ==
  ASSUME IInv, NEW p \in Procs, NEW e \in Results, FailCommit(p, e),
         proc[p].pc \in CommitPoints,
         UNCHANGED <<target, dirs, temps, present, used, journal, staged, backup, planVars>>,
         UNCHANGED <<touched, released>>,
         faults' \in Nat, writes' \in Nat, raced' \subseteq Procs
  PROVE  IInv'
<1>1. CASE proc[p].op = "apply"
  <2>1. PICK t \in Txns : t = proc[p].txn /\ At(proc[p]) /\ proc[p] \in Process
    BY Busy DEF CommitPoints
  <2>2. PICK r \in Process : Set(p, r) /\ r.txn = t /\ r.pc = "rbBegin" /\ r.j = proc[p].j
    <3> DEFINE s == [proc[p] EXCEPT !.pc = "rbBegin", !.res = e]
    <3>1. s \in Process
      BY <2>1 DEF Process, Points
    <3>2. s.txn = t /\ s.pc = "rbBegin" /\ s.j = proc[p].j
      BY <2>1 DEF Process
    <3> QED BY <3>1, <3>2, <1>1 DEF FailCommit
  <2>3. proc[p].j.committed \in 0..N
    BY <2>1 DEF Process, Journal
  <2>4. OriginalAbove(t, PossibleCount(r.j.committed))
    <3>1. \/ proc[p].pc # "verify" /\ OriginalAbove(t, r.j.committed)
          \/ proc[p].pc = "verify" /\ OriginalAbove(t, r.j.committed + 1)
      BY <2>1, <2>2 DEF At, Knows, Indexed, CommitPoints
    <3>2. PICK c \in 0..N : c = r.j.committed
      BY <2>2, <2>3
    <3>3. \A i \in Files : i > PossibleCount(c) => i > c /\ i > c + 1
      BY ConstantsAssumption DEF PossibleCount, Files
    <3> QED BY <3>1, <3>2, <3>3 DEF OriginalAbove
  <2>5. Indexed(r) /\ Says(r, journal[t]) /\ Knows(r)
    BY <2>2, <2>4
       DEF Indexed, Says, Knows, Preparing, Staging, Committing, RollingBack
  <2> QED
    BY <2>1, <2>2, <2>5, QuietStep DEF CommitPoints, Preparing, IInv, TypeOK
<1>2. CASE proc[p].op # "apply"
  BY <1>2, ReturnStep DEF FailCommit, IInv, TypeOK
<1> QED BY <1>1, <1>2

\* The file loop of commit goes on with what it knows of the prefix.
LEMMA AfterFileState ==
  ASSUME NEW r \in Process, NEW t, t = r.txn, r.j.state = "Committing",
         NewUpTo(t, r.j.committed), OriginalAbove(t, r.j.committed), BackedUp(t)
  PROVE  \E s \in Process :
           /\ s = AfterFile(r) /\ s.txn = t /\ s.pc \notin {"idle"} \cup Preparing
           /\ Indexed(s) /\ Knows(s) /\ \A j : j.state = "Committing" => Says(s, j)
<1>1. r.j \in Journal /\ r.j.committed \in 0..N
  BY DEF Process, Journal
<1>2. CASE r.j.committed < N
  <2>0. PICK n \in Nat : n = r.j.committed + 1
    BY <1>1, ConstantsAssumption
  <2> DEFINE s == [r EXCEPT !.pc = "precondition", !.idx = n]
  <2>1. s \in Process
    BY DEF Process, Points
  <2>2. s.pc = "precondition" /\ s.idx = r.j.committed + 1 /\ s.txn = t /\ s.j = r.j
    BY <2>0 DEF Process
  <2>3. Indexed(s)
    BY <1>1, <1>2, <2>2, ConstantsAssumption DEF Indexed, Preparing, Staging, Files
  <2>4. Knows(s) /\ \A j : j.state = "Committing" => Says(s, j)
    BY <2>2 DEF Knows, Says, RollingBack
  <2> QED BY <1>2, <2>0, <2>1, <2>2, <2>3, <2>4 DEF AfterFile, Preparing
<1>3. CASE ~(r.j.committed < N)
  <2> DEFINE s == [r EXCEPT !.pc = "persistCommitted"]
  <2>1. s \in Process
    BY <1>1 DEF Process, Points
  <2>2. s.pc = "persistCommitted" /\ s.txn = t /\ s.j = r.j
    BY DEF Process
  <2>3. Indexed(s)
    BY <1>1, <1>3, <2>2, ConstantsAssumption DEF Indexed, Preparing, Staging
  <2>4. Knows(s) /\ \A j : j.state = "Committing" => Says(s, j)
    BY <2>2 DEF Knows, Says, RollingBack
  <2> QED BY <1>3, <2>1, <2>2, <2>3, <2>4 DEF AfterFile, Preparing
<1> QED BY <1>2, <1>3

\* commit's verification and Committing journal preserve the invariant.
LEMMA CommitBeginStep ==
  ASSUME IInv, NEW p \in Procs, CommitBegin(p)
  PROVE  IInv'
<1>1. proc[p].pc = "commit"
  BY DEF CommitBegin
<1>2. PICK t \in Txns : /\ t = proc[p].txn /\ proc[p] \in Process /\ journal[t] # NoJournal
                        /\ NewUpTo(t, proc[p].j.committed)
                        /\ OriginalAbove(t, proc[p].j.committed)
  BY <1>1, Busy DEF At, Placed, Knows, Preparing
<1>3. PICK j \in Journal : /\ j = [proc[p].j EXCEPT !.state = "Committing"]
                           /\ j.state = "Committing" /\ j.committed = proc[p].j.committed
  BY <1>2, WithState DEF Process, TxnStates
<1>4. PICK r \in Process : r = [proc[p] EXCEPT !.j = j] /\ r.j = j /\ r.txn = t
  <2> DEFINE s == [proc[p] EXCEPT !.j = j]
  <2>1. s \in Process /\ s.j = j /\ s.txn = t
    BY <1>2 DEF Process
  <2> QED BY <2>1
<1>5. UNCHANGED <<fsVars, present, used, staged, backup, planVars, envVars, ghostVars>>
  BY DEF CommitBegin
<1>6. CASE ~FullyStaged(t)
  <2>1. FailCommit(p, "Io") /\ UNCHANGED journal
    BY <1>2, <1>6 DEF CommitBegin
  <2> QED
    BY <1>1, <1>5, <2>1, FailCommitStep
       DEF CommitPoints, Results, fsVars, envVars, ghostVars, IInv, TypeOK
<1>7. CASE FullyStaged(t)
  <2>1. BackedUp(t)
    BY <1>7 DEF FullyStaged, BackedUp
  <2>2. PICK s \in Process :
          /\ Set(p, s) /\ s.txn = t /\ s.pc \notin {"idle"} \cup Preparing
          /\ Indexed(s) /\ Knows(s) /\ Says(s, j)
    <3>1. CASE Required = <<>>
      <4>1. Set(p, AfterFile(r))
        BY <1>2, <1>3, <1>4, <1>7, <3>1 DEF CommitBegin
      <4>2. /\ r.j.state = "Committing" /\ NewUpTo(t, r.j.committed)
            /\ OriginalAbove(t, r.j.committed)
        BY <1>2, <1>3, <1>4
      <4>3. PICK s \in Process :
              /\ s = AfterFile(r) /\ s.txn = t /\ s.pc \notin {"idle"} \cup Preparing
              /\ Indexed(s) /\ Knows(s) /\ \A k : k.state = "Committing" => Says(s, k)
        BY <1>4, <2>1, <4>2, AfterFileState
      <4> QED BY <1>3, <4>1, <4>3
    <3>2. CASE Required # <<>>
      <4> DEFINE s == [r EXCEPT !.pc = "ensure", !.idx = 1]
      <4>1. s \in Process
        BY DEF Process, Points
      <4>2. s.pc = "ensure" /\ s.idx = 1 /\ s.txn = t /\ s.j = j
        BY <1>4 DEF Process
      <4>3. 1 \in 1..Len(Required)
        BY <3>2, ConstantsAssumption
      <4>4. Indexed(s) /\ Knows(s) /\ Says(s, j)
        BY <1>2, <1>3, <2>1, <4>2, <4>3
           DEF Indexed, Knows, Says, Preparing, Staging, RollingBack
      <4>5. Set(p, s)
        BY <1>2, <1>3, <1>4, <1>7, <3>2 DEF CommitBegin
      <4> QED BY <4>1, <4>2, <4>4, <4>5 DEF Preparing
    <3> QED BY <3>1, <3>2
  <2>3. journal' = [journal EXCEPT ![t] = j]
    BY <1>2, <1>3, <1>7 DEF CommitBegin, Persist
  <2>4. Promises(t)'
    <3>1. journal'[t].state = "Committing"
      BY <1>3, <2>3 DEF IInv, TypeOK
    <3> QED
      BY <3>1, <1>2, <1>5, JournalKeepsPromises DEF Finished, fsVars, planVars, ghostVars
  <2> QED
    BY <1>1, <1>2, <1>5, <2>2, <2>3, <2>4, OwnStep
       DEF fsVars, ghostVars, envVars, IInv, TypeOK
<1> QED BY <1>6, <1>7

\* Facts commit has of its transaction at every point of its loops.
LEMMA CommittingFacts ==
  ASSUME IInv, NEW p \in Procs, proc[p].pc \in Committing
  PROVE  /\ proc[p] \in Process /\ proc[p].txn \in Txns
         /\ journal[proc[p].txn] # NoJournal /\ journal[proc[p].txn].state = "Committing"
         /\ proc[p].j \in Journal /\ proc[p].j.state = "Committing" /\ BackedUp(proc[p].txn)
         /\ proc[p].j.committed \in 0..N
<1>1. proc[p].pc # "idle"
  BY DEF Committing
<1>2. At(proc[p]) /\ proc[p] \in Process /\ proc[p].txn \in Txns
  BY <1>1, Busy
<1> QED
  BY <1>2 DEF At, Placed, Indexed, Says, Knows, Committing, Preparing, Process, Journal

\* The directory to create next is a directory of the model.
LEMMA FirstLackingIsDir ==
  ASSUME NEW s \in Seq(Dirs), NEW d \in FirstLacking(s)
  PROVE  d \in Dirs
  BY DEF FirstLacking, Lacking

\* ensure_directory preserves the invariant.
LEMMA EnsureDirectoryStep ==
  ASSUME IInv, NEW p \in Procs, EnsureDirectory(p)
  PROVE  IInv'
<1>1. proc[p].pc = "ensure" /\ proc[p].pc \in Committing
  BY DEF EnsureDirectory, Committing
<1>2. PICK t \in Txns :
        /\ t = proc[p].txn /\ proc[p] \in Process /\ journal[t] # NoJournal
        /\ journal[t].state = "Committing" /\ proc[p].j \in Journal
        /\ proc[p].j.state = "Committing" /\ BackedUp(t)
  BY <1>1, CommittingFacts
<1>3. /\ NewUpTo(t, proc[p].j.committed) /\ OriginalAbove(t, proc[p].j.committed)
      /\ proc[p].idx \in 1..Len(Required) /\ At(proc[p])
  BY <1>1, <1>2, Busy DEF At, Knows, Indexed
<1>4. PICK path \in Seq(Dirs) : path = DirPath[Required[proc[p].idx]]
  BY <1>3, ConstantsAssumption
<1>5. UNCHANGED <<target, temps, present, used, staged, backup, planVars, envVars, ghostVars>>
  BY DEF EnsureDirectory
<1>6. CASE Lacking(path) # {}
  <2>1. PICK d \in FirstLacking(path) :
          /\ dirs' = dirs \cup {d} /\ UNCHANGED journal
          /\ Set(p, [proc[p] EXCEPT !.j.created = @ \cup {d}])
    BY <1>4, <1>6 DEF EnsureDirectory
  <2>2. d \in Dirs
    BY FirstLackingIsDir
  <2>3. PICK r \in Process :
          /\ Set(p, r) /\ r.txn = t /\ r.pc = "ensure" /\ r.idx = proc[p].idx
          /\ r.j.state = "Committing" /\ r.j.committed = proc[p].j.committed
    <3> DEFINE s == [proc[p] EXCEPT !.j.created = @ \cup {d}]
    <3>1. s \in Process
      BY <1>2, <2>2 DEF Process, Journal
    <3>2. /\ s.txn = t /\ s.pc = "ensure" /\ s.idx = proc[p].idx
          /\ s.j.state = "Committing" /\ s.j.committed = proc[p].j.committed
      BY <1>1, <1>2 DEF Process, Journal
    <3> QED BY <2>1, <3>1, <3>2
  <2>4. Indexed(r) /\ Knows(r) /\ Says(r, journal[t])
    BY <1>2, <1>3, <2>3 DEF Indexed, Knows, Says, Preparing, Staging, RollingBack
  <2> QED
    BY <1>1, <1>2, <1>5, <2>1, <2>2, <2>3, <2>4, QuietStep
       DEF Preparing, ghostVars, envVars, IInv, TypeOK
<1>7. CASE Lacking(path) = {}
  <2>1. journal' = [journal EXCEPT ![t] = proc[p].j] /\ UNCHANGED dirs
    BY <1>2, <1>4, <1>7 DEF EnsureDirectory, Persist
  <2>2. PICK s \in Process :
          /\ Set(p, s) /\ s.txn = t /\ s.pc \notin {"idle"} \cup Preparing
          /\ Indexed(s) /\ Knows(s) /\ Says(s, proc[p].j)
    <3>1. CASE proc[p].idx = Len(Required)
      <4>1. Set(p, AfterFile(proc[p]))
        BY <1>4, <1>7, <3>1 DEF EnsureDirectory
      <4> QED BY <4>1, <1>2, <1>3, AfterFileState
    <3>2. CASE proc[p].idx # Len(Required)
      <4> DEFINE s == [proc[p] EXCEPT !.idx = @ + 1]
      <4>1. s \in Process
        BY <1>2 DEF Process
      <4>2. s.pc = "ensure" /\ s.idx = proc[p].idx + 1 /\ s.txn = t /\ s.j = proc[p].j
        BY <1>1, <1>2 DEF Process
      <4>3. s.idx \in 1..Len(Required)
        <5>1. PICK n \in Nat : n = Len(Required)
          BY ConstantsAssumption
        <5>2. proc[p].idx \in 1..n /\ proc[p].idx # n
          BY <1>3, <3>2, <5>1
        <5> QED BY <4>2, <5>1, <5>2
      <4>4. Indexed(s) /\ Knows(s) /\ Says(s, proc[p].j)
        BY <1>2, <1>3, <4>2, <4>3
           DEF Indexed, Knows, Says, Preparing, Staging, RollingBack
      <4>5. Set(p, s)
        BY <1>4, <1>7, <3>2 DEF EnsureDirectory
      <4> QED BY <4>1, <4>2, <4>4, <4>5 DEF Preparing
    <3> QED BY <3>1, <3>2
  <2>3. Promises(t)'
    <3>1. journal'[t].state = "Committing"
      BY <1>2, <2>1 DEF IInv, TypeOK
    <3> QED
      BY <3>1, <1>2, <1>5, JournalKeepsPromises DEF Finished, planVars, ghostVars
  <2> QED
    BY <1>1, <1>2, <1>5, <2>1, <2>2, <2>3, OwnStep
       DEF ghostVars, envVars, IInv, TypeOK
<1> QED BY <1>6, <1>7


\* verify_precondition preserves the invariant.
LEMMA PreconditionStep ==
  ASSUME IInv, NEW p \in Procs, Precondition(p)
  PROVE  IInv'
<1>1. proc[p].pc = "precondition" /\ proc[p].pc \in Committing
  BY DEF Precondition, Committing
<1>2. PICK t \in Txns, i \in Files :
        /\ t = proc[p].txn /\ i = proc[p].idx /\ proc[p] \in Process
        /\ journal[t].state = "Committing" /\ At(proc[p]) /\ proc[p].j.state = "Committing"
  BY <1>1, Busy, CommittingFacts DEF At, Indexed
<1>3. UNCHANGED <<fsVars, storeVars, planVars, envVars, touched, released>>
  BY DEF Precondition
<1>4. CASE PreconditionHolds(t, i)
  <2>1. raced' = raced \ {p}
    BY <1>2, <1>4 DEF Precondition
  <2>2. PICK r \in Process : /\ Set(p, r) /\ r.txn = t /\ r.pc = "replace"
                             /\ r.idx = proc[p].idx /\ r.j = proc[p].j
    <3> DEFINE s == [proc[p] EXCEPT !.pc = "replace"]
    <3>1. s \in Process
      BY <1>2 DEF Process, Points
    <3>2. s.txn = t /\ s.pc = "replace" /\ s.idx = proc[p].idx /\ s.j = proc[p].j
      BY <1>2 DEF Process
    <3> QED BY <1>2, <1>4, <3>1, <3>2 DEF Precondition
  <2>3. Indexed(r)
    BY <1>1, <1>2, <2>2 DEF At, Indexed, Preparing, Staging
  <2>4. Knows(r)
    BY <1>1, <1>2, <2>2 DEF At, Knows, Committing
  <2>5. Says(r, journal[t])
    BY <1>2, <2>2 DEF Says, RollingBack
  <2> QED
    BY <1>1, <1>2, <1>3, <2>1, <2>2, <2>3, <2>4, <2>5, QuietStep
       DEF Preparing, fsVars, storeVars, envVars, IInv, TypeOK
<1>5. CASE ~PreconditionHolds(t, i)
  <2>1. FailCommit(p, Refusal(i)) /\ UNCHANGED raced
    BY <1>2, <1>5 DEF Precondition
  <2>2. Refusal(i) \in Results
    BY DEF Refusal, Results
  <2> QED
    BY <1>1, <1>3, <2>1, <2>2, FailCommitStep
       DEF CommitPoints, fsVars, storeVars, envVars, IInv, TypeOK
<1> QED BY <1>4, <1>5

-----------------------------------------------------------------------------
(* atomic_replace, for commit and for rollback.                            *)

\* What the durable journal says while rollback runs.
LEMMA RollingBackFacts ==
  ASSUME IInv, NEW p \in Procs, proc[p].pc \in RollingBack
  PROVE  /\ proc[p] \in Process /\ proc[p].txn \in Txns
         /\ journal[proc[p].txn] # NoJournal /\ journal[proc[p].txn].state = "RollingBack"
         /\ proc[p].j \in Journal /\ proc[p].j.committed \in 0..N
         /\ proc[p].op \in {"none", "apply", "resume", "rollback"}
<1>1. proc[p].pc # "idle"
  BY DEF RollingBack
<1>2. At(proc[p]) /\ proc[p] \in Process /\ proc[p].txn \in Txns
  BY <1>1, Busy
<1> QED
  BY <1>2 DEF At, Placed, Says, RollingBack, Preparing, Process, Journal

\* An error of rollback preserves the invariant.
LEMMA FailRollbackStep ==
  ASSUME IInv, NEW p \in Procs, NEW e \in Results, FailRollback(p, e),
         UNCHANGED <<target, temps, present, used, journal, staged, backup, planVars>>,
         UNCHANGED <<touched, released>>,
         dirs' \subseteq Dirs, faults' \in Nat, writes' \in Nat, raced' \subseteq Procs
  PROVE  IInv'
<1>1. PICK r \in Results : Return(p, r)
  BY DEF FailRollback, Results
<1> QED BY <1>1, ReturnStep

\* An error of atomic_replace preserves the invariant.
LEMMA FailReplaceStep ==
  ASSUME IInv, NEW p \in Procs, NEW e \in Results, FailReplace(p, e),
         proc[p].pc \in {"replace", "rename", "rbReplace", "rbRename"},
         UNCHANGED <<fsVars, storeVars, planVars, envVars, ghostVars>>
  PROVE  IInv'
<1> USE DEF fsVars, storeVars, planVars, envVars, ghostVars
<1>1. CASE proc[p].pc \in {"replace", "rename"}
  BY <1>1, FailCommitStep DEF FailReplace, Kind, CommitPoints, IInv, TypeOK
<1>2. CASE proc[p].pc \in {"rbReplace", "rbRename"}
  BY <1>2, FailRollbackStep DEF FailReplace, Kind, IInv, TypeOK
<1> QED BY <1>1, <1>2

\* atomic_replace keeps its process where it is: same file, same counts.
LEMMA ReplaceStep ==
  ASSUME IInv, NEW p \in Procs, NEW r \in Process, Set(p, r),
         proc[p].pc \in {"replace", "rbReplace"},
         r.pc = proc[p].pc
           \/ (proc[p].pc = "replace" /\ r.pc = "rename")
           \/ (proc[p].pc = "rbReplace" /\ r.pc = "rbRename"),
         r.txn = proc[p].txn, r.idx = proc[p].idx, r.j.state = proc[p].j.state,
         r.j.committed = proc[p].j.committed,
         UNCHANGED <<target, storeVars, planVars, envVars, ghostVars>>,
         temps' \subseteq TempFile, dirs' \subseteq Dirs
  PROVE  IInv'
<1>1. PICK t \in Txns : t = proc[p].txn /\ At(proc[p])
  BY Busy
<1>2. Indexed(r)
  BY <1>1 DEF At, Indexed, Preparing, Staging, Committing
<1>3. Says(r, journal[t])
  BY <1>1 DEF At, Says, Committing, RollingBack
<1>4. Knows(r)
  BY <1>1 DEF At, Knows, Committing
<1> QED
  BY <1>1, <1>2, <1>3, <1>4, QuietStep
     DEF Preparing, storeVars, envVars, ghostVars, IInv, TypeOK

\* Creating a missing parent directory preserves the invariant.
LEMMA MakeParentStep ==
  ASSUME IInv, NEW p \in Procs, MakeParent(p)
  PROVE  IInv'
<1>1. proc[p].pc \in {"replace", "rbReplace"}
  BY DEF MakeParent
<1>2. proc[p].idx \in Files /\ proc[p] \in Process
  BY <1>1, Busy DEF At, Indexed
<1>3. PICK path \in Seq(Dirs) : path = FilePath[proc[p].idx]
  BY <1>2, ConstantsAssumption DEF Files
<1>4. PICK d \in FirstLacking(path) :
        dirs' = dirs \cup {d} /\ Set(p, [proc[p] EXCEPT !.j.created = @ \cup {d}])
  BY <1>3 DEF MakeParent
<1>5. d \in Dirs
  BY FirstLackingIsDir
<1>6. PICK r \in Process :
        /\ Set(p, r) /\ r.pc = proc[p].pc /\ r.txn = proc[p].txn /\ r.idx = proc[p].idx
        /\ r.j.state = proc[p].j.state /\ r.j.committed = proc[p].j.committed
  <2> DEFINE s == [proc[p] EXCEPT !.j.created = @ \cup {d}]
  <2>1. s \in Process
    BY <1>2, <1>5 DEF Process, Journal
  <2>2. /\ s.pc = proc[p].pc /\ s.txn = proc[p].txn /\ s.idx = proc[p].idx
        /\ s.j.state = proc[p].j.state /\ s.j.committed = proc[p].j.committed
    BY <1>2 DEF Process, Journal
  <2> QED BY <1>4, <2>1, <2>2
<1>7. /\ UNCHANGED <<target, temps, storeVars, planVars, envVars, ghostVars>>
      /\ dirs' \subseteq Dirs /\ temps' \subseteq TempFile
  BY <1>4, <1>5 DEF MakeParent, IInv, TypeOK
<1> QED BY <1>1, <1>6, <1>7, ReplaceStep

\* The temporary a process writes has the type of one.
LEMMA TempOfType ==
  ASSUME NEW p, proc[p] \in Process, proc[p].idx \in Files, proc[p].txn \in Txns
  PROVE  TempOf(p) \in TempFile
<1>1. proc[p].j.committed \in 0..N /\ proc[p].idx \in 0..N
  BY ConstantsAssumption DEF Process, Journal, Files
<1>2. ParentDir(proc[p].idx) \in Dirs \cup {RootDir}
  <2>1. PICK path \in Seq(Dirs) : path = FilePath[proc[p].idx]
    BY ConstantsAssumption DEF Files
  <2>2. path # <<>> => path[Len(path)] \in Dirs
    OBVIOUS
  <2> QED BY <2>1, <2>2 DEF ParentDir
<1>3. Kind(p) \in {"commit", "rollback"}
  BY DEF Kind
<1> QED BY <1>1, <1>2, <1>3 DEF TempOf, TempFile

\* Writing the temporary preserves the invariant.
LEMMA WriteTempStep ==
  ASSUME IInv, NEW p \in Procs, WriteTemp(p)
  PROVE  IInv'
<1>1. proc[p].pc \in {"replace", "rbReplace"}
  BY DEF WriteTemp
<1>2. proc[p].idx \in Files /\ proc[p] \in Process /\ proc[p].txn \in Txns
  BY <1>1, Busy DEF At, Indexed
<1>3. UNCHANGED <<target, dirs, storeVars, planVars, envVars, ghostVars>>
  BY DEF WriteTemp
<1>4. CASE target[proc[p].idx] = Special \/ TempOf(p) \in temps
  <2>1. FailReplace(p, Refusal(proc[p].idx)) /\ UNCHANGED temps
    BY <1>4 DEF WriteTemp
  <2>2. Refusal(proc[p].idx) \in Results
    BY DEF Refusal, Results
  <2> QED BY <1>1, <1>3, <2>1, <2>2, FailReplaceStep DEF fsVars
<1>5. CASE ~(target[proc[p].idx] = Special \/ TempOf(p) \in temps)
  <2>1. PICK c \in {"rename", "rbRename"} :
          /\ c = IF proc[p].pc = "replace" THEN "rename" ELSE "rbRename"
          /\ Set(p, [proc[p] EXCEPT !.pc = c])
    <3>1. CASE proc[p].pc = "replace"
      BY <1>5, <3>1 DEF WriteTemp
    <3>2. CASE proc[p].pc # "replace"
      BY <1>5, <3>2 DEF WriteTemp
    <3> QED BY <3>1, <3>2
  <2>2. PICK r \in Process :
          /\ Set(p, r) /\ r.pc = c /\ r.txn = proc[p].txn /\ r.idx = proc[p].idx
          /\ r.j = proc[p].j
    <3> DEFINE s == [proc[p] EXCEPT !.pc = c]
    <3>1. s \in Process
      BY <1>2 DEF Process, Points
    <3>2. s.pc = c /\ s.txn = proc[p].txn /\ s.idx = proc[p].idx /\ s.j = proc[p].j
      BY <1>2 DEF Process
    <3> QED BY <2>1, <3>1, <3>2
  <2>3. temps' \subseteq TempFile /\ dirs' \subseteq Dirs
    BY <1>2, <1>3, <1>5, TempOfType DEF WriteTemp, IInv, TypeOK
  <2> QED BY <1>1, <1>3, <2>1, <2>2, <2>3, ReplaceStep
<1> QED BY <1>4, <1>5

\* A step of p that replaces or removes the target of one file of its own
\* transaction t.
LEMMA TargetStep ==
  ASSUME IInv, NEW p \in Procs, NEW t, t = proc[p].txn,
         proc[p].pc \notin {"idle", "cleanup"} \cup Preparing,
         NEW i \in Files, NEW v \in Target, target' = [target EXCEPT ![i] = v],
         Disturb(t, p, i),
         NEW r \in Process, Set(p, r), r.txn = t, r.pc \notin {"idle"} \cup Preparing,
         UNCHANGED <<dirs, storeVars, planVars, envVars, released>>, temps' \subseteq TempFile,
         Indexed(r), Says(r, journal[t]), Knows(r)', Promises(t)'
  PROVE  IInv'
<1> USE DEF planVars, storeVars, envVars
<1>1. t \in Txns /\ t \in present /\ journal[t] # NoJournal
      /\ \A q \in Procs : q # p => proc[q].txn # t
  BY Busy DEF At, Placed, Preparing
<1>2. /\ proc' \in [Procs -> Process] /\ proc'[p] = r
      /\ \A q \in Procs : q # p => proc'[q] = proc[q]
  BY SetUpdates
<1>3. TypeOK'
  <2>1. touched' \subseteq Txns \X Files /\ raced' \subseteq Procs
    BY DEF Disturb, IInv, TypeOK
  <2>2. target' \in [Files -> Target]
    BY DEF IInv, TypeOK
  <2> QED BY <1>2, <2>1, <2>2 DEF IInv, TypeOK
<1>4. Local(p, t)
  <2>1. \A u \in Txns, k \in Files :
          u # t /\ u \in present /\ <<u, k>> \notin touched' =>
            <<u, k>> \notin touched /\ k # i
    BY DEF Disturb
  <2>2. \A k \in Files : k # i => target'[k] = target[k]
    BY DEF IInv, TypeOK
  <2> QED BY <1>2, <2>1, <2>2 DEF Local
<1>5. At(r)'
  <2>1. Placed(r)'
    BY <1>1, ConstantsAssumption DEF Placed, Preparing, IInv, Structure
  <2> QED BY <2>1 DEF At, Indexed, Says
<1>6. At(proc[p])'
  BY <1>2, <1>5, AtNext
<1> QED
  BY <1>1, <1>2, <1>3, <1>4, <1>6, Combine DEF IInv, Structure

\* What such a step leaves of the facts about t.
OnlyFile(t, i) ==
  /\ \A k \in Files : /\ Own(t, k)' = Own(t, k) /\ Owns(t, k)' = Owns(t, k)
                      /\ NeedsBackup(t, k)' = NeedsBackup(t, k)
                      /\ BackupMatches(t, k)' = BackupMatches(t, k)
  /\ \A k \in Files : k # i =>
       /\ IsNew(t, k)' = IsNew(t, k) /\ IsOriginal(t, k)' = IsOriginal(t, k)
       /\ FilePromises(t, k)' = FilePromises(t, k)

\* Which facts about its own transaction survive such a step.
LEMMA TargetFacts ==
  ASSUME NEW p, NEW t, NEW i \in Files,
         \A k \in Files : k # i => target'[k] = target[k], Disturb(t, p, i),
         UNCHANGED <<storeVars, planVars, released>>
  PROVE  OnlyFile(t, i)
<1> USE DEF storeVars, planVars
<1>2. \A k \in Files : <<t, k>> \in touched' <=> <<t, k>> \in touched
  BY DEF Disturb
<1>3. \A k \in Files : /\ Own(t, k)' = Own(t, k) /\ Owns(t, k)' = Owns(t, k)
                       /\ NeedsBackup(t, k)' = NeedsBackup(t, k)
                       /\ BackupMatches(t, k)' = BackupMatches(t, k)
  BY <1>2 DEF Own, Owns, NeedsBackup, BackupMatches
<1>4. \A k \in Files : k # i =>
        IsNew(t, k)' = IsNew(t, k) /\ IsOriginal(t, k)' = IsOriginal(t, k)
  BY DEF IsNew, IsOriginal
<1>5. \A k \in Files : k # i => FilePromises(t, k)' = FilePromises(t, k)
  BY <1>3, <1>4 DEF FilePromises
<1> QED BY <1>3, <1>4, <1>5 DEF OnlyFile

\* The rename of commit.
LEMMA CommitRename ==
  ASSUME IInv, NEW p \in Procs, proc[p].pc = "rename",
         NEW t \in Txns, t = proc[p].txn, NEW i \in Files, i = proc[p].idx,
         target' = [target EXCEPT ![i] = new[t][i]], temps' = temps \ {TempOf(p)},
         Set(p, [proc[p] EXCEPT !.pc = "verify"]), Disturb(t, p, i),
         UNCHANGED <<dirs, storeVars, planVars, envVars, released>>
  PROVE  IInv'
<1>1. /\ proc[p] \in Process /\ journal[t].state = "Committing" /\ BackedUp(t)
      /\ proc[p].j.state = "Committing" /\ proc[p].j.committed \in 0..N /\ journal[t] # NoJournal
  BY CommittingFacts DEF Committing
<1>2. PICK c \in 0..N : /\ c = proc[p].j.committed /\ i = c + 1
                        /\ NewUpTo(t, c) /\ OriginalAbove(t, c) /\ Promises(t)
  BY <1>1, Busy DEF At, Knows, Indexed
<1>3. PICK r \in Process : /\ Set(p, r) /\ r.txn = t /\ r.pc = "verify" /\ r.idx = i
                           /\ r.j = proc[p].j
  <2> DEFINE s == [proc[p] EXCEPT !.pc = "verify"]
  <2>1. s \in Process
    BY <1>1 DEF Process, Points
  <2>2. s.txn = t /\ s.pc = "verify" /\ s.idx = i /\ s.j = proc[p].j
    BY <1>1 DEF Process
  <2> QED BY <2>1, <2>2
<1>0. target'[i] = new[t][i] /\ OnlyFile(t, i)
  <2>1. target'[i] = new[t][i] /\ \A k \in Files : k # i => target'[k] = target[k]
    BY DEF IInv, TypeOK
  <2> QED BY <2>1, TargetFacts
<1>4. IsNew(t, i)'
  BY <1>0 DEF IsNew, planVars
<1>5. NewUpTo(t, i)'
  BY <1>0, <1>2, <1>4 DEF OnlyFile, NewUpTo, Files
<1>6. OriginalAbove(t, i)'
  BY <1>0, <1>2 DEF OnlyFile, OriginalAbove, Files
<1>7. BackedUp(t)'
  BY <1>0, <1>1 DEF OnlyFile, BackedUp
<1>8. Knows(r)'
  BY <1>3, <1>5, <1>6, <1>7 DEF Knows
<1>9. Indexed(r) /\ Says(r, journal[t])
  BY <1>1, <1>2, <1>3 DEF Indexed, Says, Preparing, Staging, RollingBack
<1>10. Promises(t)'
  <2>1. FilePromises(t, i)'
    <3>1. orig'[t][i] = Absent \/ BackupMatches(t, i)'
      BY <1>7 DEF BackedUp, NeedsBackup
    <3>2. journal'[t].state = "Committing"
      BY <1>1 DEF storeVars
    <3> QED BY <1>4, <3>1, <3>2 DEF FilePromises
  <2>2. \A k \in Files : FilePromises(t, k)'
    BY <1>0, <1>2, <2>1 DEF OnlyFile, Promises
  <2>3. Prefix(t)'
    <3>0. i \in 0..N
      BY ConstantsAssumption DEF Files
    <3>1. SUFFICES ASSUME \A k \in Files : Owns(t, k)'
                   PROVE  \A k \in Files : IF k <= i THEN IsNew(t, k)' ELSE IsOriginal(t, k)'
      BY <3>0 DEF Prefix
    <3>2. \A k \in Files : Own(t, k)'
      BY <3>1 DEF Owns, Own
    <3> QED BY <1>5, <1>6, <3>2 DEF NewUpTo, OriginalAbove, Files
  <2> QED BY <2>2, <2>3 DEF Promises
<1>11. new[t][i] \in Target /\ temps' \subseteq TempFile
  BY DEF IInv, TypeOK, Target
<1> QED
  BY <1>3, <1>8, <1>9, <1>10, <1>11, TargetStep DEF Preparing

\* Rollback moves to the next file, or to the directories after the first.
LEMMA BeforeFileState ==
  ASSUME NEW r \in Process, r.idx \in Files, NEW t, t = r.txn,
         r.pc \in {"rbCheck", "rbRename", "rbRemove"}
  PROVE  \E s \in Process :
           /\ s = BeforeFile(r) /\ s.txn = t /\ s.pc \notin {"idle"} \cup Preparing
           /\ Indexed(s) /\ \A j : j.state = "RollingBack" => Says(s, j)
           /\ OriginalAbove(t, r.idx - 1) => Knows(s)
           /\ OriginalAbove(t, r.idx - 1)' => Knows(s)'
<1>1. CASE r.idx = 1
  <2> DEFINE s == [r EXCEPT !.pc = "rbDirs", !.idx = 0]
  <2>1. s \in Process
    BY DEF Process, Points
  <2>2. s.pc = "rbDirs" /\ s.txn = t
    BY DEF Process
  <2>3. Indexed(s) /\ \A j : j.state = "RollingBack" => Says(s, j)
    BY <2>2 DEF Indexed, Says, Preparing, Staging, Committing
  <2>4. /\ OriginalAbove(t, r.idx - 1) => Knows(s)
        /\ OriginalAbove(t, r.idx - 1)' => Knows(s)'
    BY <1>1, <2>2 DEF Knows, Committing
  <2> QED BY <1>1, <2>1, <2>2, <2>3, <2>4 DEF BeforeFile, Preparing
<1>2. CASE r.idx # 1
  <2>1. PICK n \in Files : n = r.idx - 1
    BY <1>2, ConstantsAssumption DEF Files
  <2> DEFINE s == [r EXCEPT !.pc = "rbCheck", !.idx = n]
  <2>2. s \in Process
    <3>1. n \in Nat
      BY DEF Files
    <3> QED BY <3>1 DEF Process, Points
  <2>3. s.pc = "rbCheck" /\ s.txn = t /\ s.idx = n
    BY DEF Process
  <2>4. Indexed(s) /\ \A j : j.state = "RollingBack" => Says(s, j)
    BY <2>3 DEF Indexed, Says, Preparing, Staging, Committing
  <2>5. /\ OriginalAbove(t, r.idx - 1) => Knows(s)
        /\ OriginalAbove(t, r.idx - 1)' => Knows(s)'
    BY <2>1, <2>3 DEF Knows, Committing
  <2> QED BY <1>2, <2>1, <2>2, <2>3, <2>4, <2>5 DEF BeforeFile, Preparing
<1> QED BY <1>1, <1>2

\* The rename, or the removal, of rollback.
LEMMA RollbackRename ==
  ASSUME IInv, NEW p \in Procs, proc[p].pc \in {"rbRename", "rbRemove"},
         NEW t \in Txns, t = proc[p].txn, NEW i \in Files, i = proc[p].idx,
         target' = [target EXCEPT ![i] = orig[t][i]], temps' \subseteq TempFile,
         Set(p, BeforeFile(proc[p])), Disturb(t, p, i),
         UNCHANGED <<dirs, storeVars, planVars, envVars, released>>
  PROVE  IInv'
<1>1. /\ proc[p] \in Process /\ journal[t].state = "RollingBack" /\ journal[t] # NoJournal
      /\ OriginalAbove(t, i) /\ Promises(t)
  BY RollingBackFacts, Busy DEF RollingBack, At, Knows
<1>0. target'[i] = orig[t][i] /\ OnlyFile(t, i)
  <2>1. target'[i] = orig[t][i] /\ \A k \in Files : k # i => target'[k] = target[k]
    BY DEF IInv, TypeOK
  <2> QED BY <2>1, TargetFacts
<1>2. IsOriginal(t, i)'
  BY <1>0 DEF IsOriginal, planVars
<1>3. OriginalAbove(t, i - 1)'
  BY <1>0, <1>1, <1>2 DEF OnlyFile, OriginalAbove, Files
<1>4. PICK r0 \in Process : r0 = proc[p]
  BY <1>1
<1>5. PICK r \in Process :
        /\ Set(p, r) /\ r.txn = t /\ r.pc \notin {"idle"} \cup Preparing
        /\ Indexed(r) /\ Says(r, journal[t]) /\ Knows(r)'
  <2>1. r0.idx = i /\ r0.txn = t /\ r0.pc \in {"rbCheck", "rbRename", "rbRemove"}
        /\ Set(p, BeforeFile(r0))
    BY <1>4
  <2>2. PICK s \in Process :
          /\ s = BeforeFile(r0) /\ s.txn = t /\ s.pc \notin {"idle"} \cup Preparing
          /\ Indexed(s) /\ \A j : j.state = "RollingBack" => Says(s, j)
          /\ OriginalAbove(t, r0.idx - 1)' => Knows(s)'
    BY <2>1, BeforeFileState
  <2> QED BY <1>1, <1>3, <2>1, <2>2
<1>6. Promises(t)'
  <2>1. FilePromises(t, i)'
    <3>1. journal'[t].state = "RollingBack"
      BY <1>1 DEF storeVars
    <3> QED BY <1>2, <3>1 DEF FilePromises
  <2>2. \A k \in Files : FilePromises(t, k)'
    BY <1>0, <1>1, <2>1 DEF OnlyFile, Promises
  <2>3. Prefix(t)'
    <3>1. SUFFICES ASSUME \A k \in Files : Owns(t, k)'
                   PROVE  \E n \in 0..N : \A k \in Files :
                            IF k <= n THEN IsNew(t, k)' ELSE IsOriginal(t, k)'
      BY DEF Prefix
    <3>2. PICK m \in 0..N : \A k \in Files :
                              IF k <= m THEN IsNew(t, k) ELSE IsOriginal(t, k)
      BY <1>0, <1>1, <3>1 DEF OnlyFile, Promises, Prefix
    <3>3. \A k \in Files : k >= i => IsOriginal(t, k)'
      <4>1. \A k \in Files : Own(t, k)'
        BY <3>1 DEF Owns, Own
      <4> QED BY <4>1, <1>3, ConstantsAssumption DEF OriginalAbove, Files
    <3>4. CASE m < i
      <4>1. \A k \in Files : IF k <= m THEN IsNew(t, k)' ELSE IsOriginal(t, k)'
        <5>1. \A k \in Files : k <= m => k # i /\ IsNew(t, k)'
          BY <3>2, <3>4, <1>0, ConstantsAssumption DEF OnlyFile, Files
        <5>2. \A k \in Files : ~(k <= m) => k = i \/ IsOriginal(t, k)'
          BY <3>2, <1>0 DEF OnlyFile
        <5> QED BY <5>1, <5>2, <1>2
      <4> QED BY <4>1
    <3>5. CASE ~(m < i)
      <4>1. i - 1 \in 0..N
        BY ConstantsAssumption DEF Files
      <4>2. \A k \in Files : IF k <= i - 1 THEN IsNew(t, k)' ELSE IsOriginal(t, k)'
        <5>1. \A k \in Files : k <= i - 1 => k <= m /\ k # i
          BY <3>5, ConstantsAssumption DEF Files
        <5>2. \A k \in Files : k <= i - 1 => IsNew(t, k)'
          BY <3>2, <5>1, <1>0 DEF OnlyFile
        <5>3. \A k \in Files : ~(k <= i - 1) => k >= i
          BY ConstantsAssumption DEF Files
        <5> QED BY <5>2, <5>3, <3>3
      <4> QED BY <4>1, <4>2
    <3> QED BY <3>4, <3>5
  <2> QED BY <2>2, <2>3 DEF Promises
<1>7. orig[t][i] \in Target
  BY DEF IInv, TypeOK, Target
<1> QED
  BY <1>5, <1>6, <1>7, TargetStep DEF Preparing

\* The rename of atomic_replace preserves the invariant.
LEMMA RenameStep ==
  ASSUME IInv, NEW p \in Procs, Rename(p)
  PROVE  IInv'
<1>1. proc[p].pc \in {"rename", "rbRename"}
  BY DEF Rename
<1>2. PICK t \in Txns, i \in Files : t = proc[p].txn /\ i = proc[p].idx
  BY <1>1, Busy DEF At, Indexed
<1>3. UNCHANGED <<dirs, storeVars, planVars, envVars>>
  BY DEF Rename
<1>4. CASE /\ target[i] = Special /\ FailReplace(p, "Io")
           /\ UNCHANGED <<target, temps, ghostVars>>
  BY <1>1, <1>3, <1>4, FailReplaceStep DEF fsVars, Results
<1>5. CASE /\ target' = [target EXCEPT ![i] = IF Kind(p) = "commit" THEN new[t][i]
                                                                   ELSE orig[t][i]]
           /\ temps' = temps \ {TempOf(p)}
           /\ Set(p, IF Kind(p) = "commit" THEN [proc[p] EXCEPT !.pc = "verify"]
                                           ELSE BeforeFile(proc[p]))
           /\ Disturb(t, p, i) /\ UNCHANGED released
  <2>1. CASE proc[p].pc = "rename"
    <3>1. Kind(p) = "commit"
      BY <2>1 DEF Kind
    <3> QED BY <1>2, <1>3, <1>5, <2>1, <3>1, CommitRename
  <2>2. CASE proc[p].pc = "rbRename"
    <3>1. Kind(p) # "commit" /\ temps' \subseteq TempFile
      BY <1>5, <2>2 DEF Kind, IInv, TypeOK
    <3> QED BY <1>2, <1>3, <1>5, <2>2, <3>1, RollbackRename
  <2> QED BY <1>1, <2>1, <2>2
<1> QED BY <1>2, <1>4, <1>5 DEF Rename

\* Reading back and counting a file preserves the invariant.
LEMMA VerifyCommittedStep ==
  ASSUME IInv, NEW p \in Procs, VerifyCommitted(p)
  PROVE  IInv'
<1>1. proc[p].pc = "verify" /\ proc[p].pc \in Committing
  BY DEF VerifyCommitted, Committing
<1>2. PICK t \in Txns, i \in Files :
        /\ t = proc[p].txn /\ i = proc[p].idx /\ proc[p] \in Process /\ journal[t] # NoJournal
        /\ journal[t].state = "Committing" /\ proc[p].j.state = "Committing" /\ BackedUp(t)
        /\ NewUpTo(t, i) /\ OriginalAbove(t, i) /\ proc[p].j \in Journal
  BY <1>1, Busy, CommittingFacts DEF At, Indexed, Knows
<1>3. UNCHANGED <<fsVars, present, used, staged, backup, planVars, envVars, ghostVars>>
  BY DEF VerifyCommitted
<1>4. CASE ~IsNew(t, i)
  <2>1. PICK e \in Results : FailCommit(p, e) /\ UNCHANGED journal
    BY <1>2, <1>4 DEF VerifyCommitted, Results
  <2> QED
    BY <1>1, <1>3, <2>1, FailCommitStep
       DEF CommitPoints, fsVars, envVars, ghostVars, IInv, TypeOK
<1>5. CASE IsNew(t, i)
  <2>1. PICK j \in Journal : /\ j = [proc[p].j EXCEPT !.committed = i]
                             /\ j.state = "Committing" /\ j.committed = i
    <3>1. i \in 0..N
      BY ConstantsAssumption DEF Files
    <3> QED BY <1>2, <3>1, WithCommitted
  <2>2. PICK r \in Process : /\ r = [proc[p] EXCEPT !.j.committed = i]
                             /\ r.j = j /\ r.txn = t
    <3> DEFINE s == [proc[p] EXCEPT !.j = j]
    <3>1. s \in Process /\ s.j = j /\ s.txn = t
      BY <1>2 DEF Process
    <3>2. s = [proc[p] EXCEPT !.j.committed = i]
      BY <2>1
    <3> QED BY <3>1, <3>2
  <2>3. Persist(p, t, r.j) /\ Set(p, AfterFile(r))
    BY <1>2, <1>5, <2>2 DEF VerifyCommitted, CommittedAfter
  <2>4. PICK s \in Process :
          /\ s = AfterFile(r) /\ s.txn = t /\ s.pc \notin {"idle"} \cup Preparing
          /\ Indexed(s) /\ Knows(s) /\ \A k : k.state = "Committing" => Says(s, k)
    <3>1. /\ r.j.state = "Committing" /\ NewUpTo(t, r.j.committed)
          /\ OriginalAbove(t, r.j.committed)
      BY <1>2, <2>1, <2>2
    <3> QED BY <1>2, <2>2, <3>1, AfterFileState
  <2>5. journal' = [journal EXCEPT ![t] = j] /\ Set(p, s) /\ Says(s, j)
    BY <2>1, <2>2, <2>3, <2>4 DEF Persist
  <2>6. Promises(t)'
    <3>1. journal'[t].state = "Committing"
      BY <2>1, <2>5 DEF IInv, TypeOK
    <3> QED
      BY <3>1, <1>2, <1>3, JournalKeepsPromises DEF Finished, fsVars, planVars, ghostVars
  <2> QED
    BY <1>1, <1>2, <1>3, <2>4, <2>5, <2>6, OwnStep
       DEF fsVars, ghostVars, envVars, Preparing, IInv, TypeOK
<1> QED BY <1>4, <1>5

\* When the prefix is the whole capsule, every owned file is new.
LEMMA AllNew ==
  ASSUME NEW t, NewUpTo(t, N)
  PROVE  \A i \in Files : Owns(t, i) => IsNew(t, i)
  BY ConstantsAssumption DEF NewUpTo, Owns, Own, Files

\* When the suffix is the whole capsule, every owned file is original.
LEMMA AllOriginal ==
  ASSUME NEW t, OriginalAbove(t, 0)
  PROVE  \A i \in Files : Owns(t, i) => IsOriginal(t, i)
  BY ConstantsAssumption DEF OriginalAbove, Owns, Own, Files

\* A journal that ends a transaction claims only what is known.
LEMMA FinalJournal ==
  ASSUME IInv, NEW t \in Txns, UNCHANGED <<target, touched, orig, new, backup, released>>,
         journal[t] # NoJournal,
         \/ journal'[t].state = "Committed" /\ NewUpTo(t, N)
         \/ journal'[t].state = "RolledBack" /\ OriginalAbove(t, 0)
  PROVE  Promises(t)'
<1>1. Promises(t)
  BY DEF IInv
<1>2. \A i \in Files : Owns(t, i)' => Owns(t, i)
  BY DEF Owns
<1>3. \A i \in Files : IsNew(t, i)' = IsNew(t, i) /\ IsOriginal(t, i)' = IsOriginal(t, i)
                        /\ BackupMatches(t, i)' = BackupMatches(t, i)
  BY DEF IsNew, IsOriginal, BackupMatches
<1>4. \A i \in Files : FilePromises(t, i)'
  <2>1. CASE journal'[t].state = "Committed" /\ NewUpTo(t, N)
    BY <2>1, <1>1, <1>2, <1>3, AllNew DEF Promises, FilePromises
  <2>2. CASE journal'[t].state = "RolledBack" /\ OriginalAbove(t, 0)
    BY <2>2, <1>1, <1>2, <1>3, AllOriginal DEF Promises, FilePromises
  <2> QED BY <2>1, <2>2
<1>5. Prefix(t)'
  BY <1>1, <1>2, <1>3 DEF Promises, Prefix
<1> QED BY <1>4, <1>5 DEF Promises

\* Returning to the caller after the last write of the journal.
LEMMA FinalReturn ==
  ASSUME IInv, NEW p \in Procs, NEW t, t = proc[p].txn, proc[p].pc \notin {"idle", "create"},
         NEW e \in Results, Return(p, e),
         UNCHANGED <<fsVars, present, used, staged, backup, planVars, envVars, ghostVars>>,
         NEW j \in Journal, journal' = [journal EXCEPT ![t] = j], Promises(t)'
  PROVE  IInv'
<1> USE DEF fsVars, planVars, envVars, ghostVars
<1>1. t \in Txns /\ t \in present /\ \A q \in Procs : q # p => proc[q].txn # t
  BY Busy
<1>2. /\ proc' \in [Procs -> Process] /\ proc'[p] = Idle(proc[p].op, e)
      /\ \A q \in Procs : q # p => proc'[q] = proc[q]
  BY ReturnUpdates
<1>3. TypeOK'
  BY <1>1, <1>2 DEF IInv, TypeOK
<1>4. Local(p, t)
  BY <1>2 DEF Local, IInv, TypeOK
<1>5. At(proc[p])' /\ proc'[p].txn = NoTxn
  <2>1. PICK op \in {"none", "apply", "resume", "rollback"} : op = proc[p].op
    BY DEF IInv, TypeOK, Process
  <2>2. Idle(op, e).pc = "idle" /\ Idle(op, e).txn = NoTxn /\ proc'[p] = Idle(op, e)
    BY <1>2, <2>1 DEF Idle
  <2> QED BY <2>2, IdlePoints, AtNext
<1> QED
  BY <1>1, <1>3, <1>4, <1>5, Combine DEF IInv, Structure

\* The Committed journal write preserves the invariant.
LEMMA PersistCommittedStep ==
  ASSUME IInv, NEW p \in Procs, PersistCommitted(p)
  PROVE  IInv'
<1>1. proc[p].pc = "persistCommitted" /\ proc[p].pc \in Committing
  BY DEF PersistCommitted, Committing
<1>2. PICK t \in Txns :
        /\ t = proc[p].txn /\ proc[p] \in Process /\ journal[t] # NoJournal
        /\ NewUpTo(t, N) /\ proc[p].j \in Journal
  BY <1>1, Busy, CommittingFacts DEF At, Indexed, Knows
<1>3. PICK j \in Journal : j = [proc[p].j EXCEPT !.state = "Committed"] /\ j.state = "Committed"
  <2>1. "Committed" \in TxnStates
    BY DEF TxnStates
  <2> QED BY <1>2, <2>1, WithState
<1>4. /\ journal' = [journal EXCEPT ![t] = j]
      /\ UNCHANGED <<fsVars, present, used, staged, backup, planVars, envVars, ghostVars>>
  BY <1>2, <1>3 DEF PersistCommitted, Persist
<1>5. Promises(t)'
  <2>1. journal'[t].state = "Committed"
    BY <1>3, <1>4 DEF IInv, TypeOK
  <2> QED BY <1>2, <1>4, <2>1, FinalJournal DEF fsVars, planVars, ghostVars
<1>6. CASE proc[p].op = "apply" /\ ~retain[t]
  <2>1. PICK r \in Process : /\ Set(p, r) /\ r.txn = t /\ r.pc = "cleanup"
                             /\ r.op = "apply" /\ r.res = "ok"
    <3> DEFINE s == [proc[p] EXCEPT !.pc = "cleanup", !.res = "ok", !.j = j]
    <3>0. "ok" \in Results /\ "cleanup" \in Points
      BY DEF Results, Points
    <3>1. s \in Process
      BY <1>2, <3>0 DEF Process
    <3>2. s.txn = t /\ s.pc = "cleanup" /\ s.op = "apply" /\ s.res = "ok"
      BY <1>2, <1>6 DEF Process
    <3>3. Set(p, s)
      BY <1>2, <1>3, <1>6 DEF PersistCommitted
    <3> QED BY <3>1, <3>2, <3>3
  <2>2. Indexed(r) /\ Says(r, j) /\ Knows(r)
    BY <2>1 DEF Indexed, Says, Knows, Preparing, Staging, Committing, RollingBack
  <2> QED
    BY <1>1, <1>2, <1>4, <1>5, <2>1, <2>2, OwnStep
       DEF fsVars, ghostVars, envVars, Preparing, IInv, TypeOK
<1>7. CASE ~(proc[p].op = "apply" /\ ~retain[t])
  <2>1. Return(p, "ok") /\ "ok" \in Results
    BY <1>2, <1>7 DEF PersistCommitted, Results
  <2> QED BY <1>1, <1>2, <1>4, <1>5, <2>1, FinalReturn
<1> QED BY <1>6, <1>7

-----------------------------------------------------------------------------
(* rollback.                                                               *)

\* The RollingBack journal write preserves the invariant.
LEMMA RollbackBeginStep ==
  ASSUME IInv, NEW p \in Procs, RollbackBegin(p)
  PROVE  IInv'
<1>1. proc[p].pc = "rbBegin"
  BY DEF RollbackBegin
<1>2. PICK t \in Txns :
        /\ t = proc[p].txn /\ proc[p] \in Process /\ journal[t] # NoJournal
        /\ OriginalAbove(t, PossibleCount(proc[p].j.committed))
        /\ proc[p].j \in Journal /\ proc[p].j.committed \in 0..N
  BY <1>1, Busy DEF At, Placed, Knows, Preparing, Process, Journal
<1>3. PICK j \in Journal : /\ j = [proc[p].j EXCEPT !.state = "RollingBack"]
                           /\ j.state = "RollingBack" /\ j.committed = proc[p].j.committed
  <2>1. "RollingBack" \in TxnStates
    BY DEF TxnStates
  <2> QED BY <1>2, <2>1, WithState
<1>4. PICK n \in Files : n = PossibleCount(j.committed)
  BY <1>2, <1>3, ConstantsAssumption DEF PossibleCount, Files
<1>5. PICK r \in Process : Set(p, r) /\ r.txn = t /\ r.pc = "rbCheck" /\ r.idx = n
  <2> DEFINE s == [proc[p] EXCEPT !.pc = "rbCheck", !.j = j, !.idx = n]
  <2>1. s \in Process
    <3>1. n \in Nat
      BY DEF Files
    <3> QED BY <1>2, <3>1 DEF Process, Points
  <2>2. s.txn = t /\ s.pc = "rbCheck" /\ s.idx = n
    BY <1>2 DEF Process
  <2>3. Set(p, s)
    BY <1>3, <1>4 DEF RollbackBegin
  <2> QED BY <2>1, <2>2, <2>3
<1>6. /\ journal' = [journal EXCEPT ![t] = j]
      /\ UNCHANGED <<fsVars, present, used, staged, backup, planVars, envVars, ghostVars>>
  BY <1>2, <1>3 DEF RollbackBegin, Persist
<1>7. Indexed(r) /\ Says(r, j) /\ Knows(r)
  BY <1>2, <1>3, <1>4, <1>5 DEF Indexed, Says, Knows, Preparing, Staging, Committing
<1>8. Promises(t)'
  <2>1. journal'[t].state = "RollingBack"
    BY <1>3, <1>6 DEF IInv, TypeOK
  <2> QED
    BY <2>1, <1>2, <1>6, JournalKeepsPromises DEF Finished, fsVars, planVars, ghostVars
<1> QED
  BY <1>1, <1>2, <1>5, <1>6, <1>7, <1>8, OwnStep
     DEF fsVars, ghostVars, envVars, Preparing, IInv, TypeOK

\* Removing directories leaves directories.
LEMMA RemainingDirsType ==
  ASSUME IInv, NEW p
  PROVE  RemainingDirs(p) \subseteq Dirs
  BY DEF IInv, TypeOK, RemainingDirs, RemoveEmpty

\* rollback's look at one target preserves the invariant.
LEMMA RollbackCheckStep ==
  ASSUME IInv, NEW p \in Procs, RollbackCheck(p)
  PROVE  IInv'
<1>1. proc[p].pc = "rbCheck" /\ proc[p].pc \in RollingBack
  BY DEF RollbackCheck, RollingBack
<1>2. PICK t \in Txns, i \in Files :
        /\ t = proc[p].txn /\ i = proc[p].idx /\ proc[p] \in Process /\ journal[t] # NoJournal
        /\ journal[t].state = "RollingBack" /\ OriginalAbove(t, i) /\ Promises(t)
  BY <1>1, Busy, RollingBackFacts DEF At, Indexed, Knows
<1>3. /\ UNCHANGED <<target, temps, storeVars, planVars, envVars, touched, released>>
      /\ raced' = raced \ {p}
  BY DEF RollbackCheck
<1>4. CASE \E e \in Results : FailRollback(p, e) /\ dirs' \in {dirs, RemainingDirs(p)}
  <2>1. dirs' \subseteq Dirs /\ raced' \subseteq Procs
    BY <1>3, <1>4, RemainingDirsType DEF IInv, TypeOK
  <2> QED
    BY <1>3, <1>4, <2>1, FailRollbackStep DEF storeVars, envVars, IInv, TypeOK
<1>5. CASE ~IsNew(t, i) /\ Set(p, BeforeFile(proc[p])) /\ UNCHANGED dirs
  <2>1. OriginalAbove(t, i - 1)
    <3>1. Own(t, i) => IsOriginal(t, i)
      BY <1>2, <1>5 DEF Promises, FilePromises, Owns, Own
    <3> QED BY <1>2, <3>1 DEF OriginalAbove, Files
  <2>2. PICK r0 \in Process : r0 = proc[p]
    BY <1>2
  <2>3. PICK s \in Process :
          /\ s = BeforeFile(r0) /\ s.txn = t /\ s.pc \notin {"idle"} \cup Preparing
          /\ Indexed(s) /\ \A j : j.state = "RollingBack" => Says(s, j)
          /\ OriginalAbove(t, r0.idx - 1) => Knows(s)
    BY <1>1, <1>2, <2>2, BeforeFileState
  <2>4. Knows(s) /\ Says(s, journal[t]) /\ Set(p, s)
    BY <1>2, <1>5, <2>1, <2>2, <2>3
  <2> QED
    BY <1>1, <1>2, <1>3, <1>5, <2>3, <2>4, QuietStep
       DEF Preparing, storeVars, envVars, IInv, TypeOK
<1>6. CASE /\ UNCHANGED dirs
           /\ \/ Set(p, [proc[p] EXCEPT !.pc = "rbRemove"]) /\ ~NeedsBackup(t, i)
              \/ Set(p, [proc[p] EXCEPT !.pc = "rbReplace"])
  <2>1. PICK c \in {"rbRemove", "rbReplace"} :
          /\ Set(p, [proc[p] EXCEPT !.pc = c])
          /\ c = "rbRemove" => ~NeedsBackup(t, i)
    BY <1>6
  <2>2. PICK r \in Process : Set(p, r) /\ r.txn = t /\ r.pc = c /\ r.idx = i
    <3> DEFINE s == [proc[p] EXCEPT !.pc = c]
    <3>1. s \in Process
      BY <1>2 DEF Process, Points
    <3>2. s.txn = t /\ s.pc = c /\ s.idx = i
      BY <1>2 DEF Process
    <3> QED BY <2>1, <3>1, <3>2
  <2>3. Indexed(r) /\ Says(r, journal[t])
    BY <1>2, <2>2 DEF Indexed, Says, Preparing, Staging, Committing
  <2>4. Knows(r)
    BY <1>2, <2>1, <2>2 DEF Knows, Committing
  <2> QED
    BY <1>1, <1>2, <1>3, <1>6, <2>2, <2>3, <2>4, QuietStep
       DEF Preparing, storeVars, envVars, IInv, TypeOK
<1> QED
  BY <1>2, <1>4, <1>5, <1>6 DEF RollbackCheck, Results

\* remove_target preserves the invariant.
LEMMA RemoveTargetStep ==
  ASSUME IInv, NEW p \in Procs, RemoveTarget(p)
  PROVE  IInv'
<1>1. proc[p].pc = "rbRemove"
  BY DEF RemoveTarget
<1>2. PICK t \in Txns, i \in Files : /\ t = proc[p].txn /\ i = proc[p].idx
                                     /\ ~NeedsBackup(t, i)
  BY <1>1, Busy DEF At, Indexed, Knows
<1>3. UNCHANGED <<dirs, temps, storeVars, planVars, envVars>>
  BY DEF RemoveTarget
<1>4. CASE target[i] = Special
  <2>1. FailRollback(p, "NotRegularFile") /\ UNCHANGED <<target, ghostVars>>
        /\ "NotRegularFile" \in Results
    BY <1>2, <1>4 DEF RemoveTarget, Results
  <2> QED
    BY <1>3, <2>1, FailRollbackStep DEF storeVars, envVars, ghostVars, IInv, TypeOK
<1>5. CASE target[i] # Special
  <2>1. orig[t][i] = Absent /\ temps' \subseteq TempFile
    BY <1>2, <1>3 DEF NeedsBackup, IInv, TypeOK
  <2>2. /\ target' = [target EXCEPT ![i] = orig[t][i]]
        /\ Set(p, BeforeFile(proc[p])) /\ Disturb(t, p, i) /\ UNCHANGED released
    BY <1>2, <1>5, <2>1 DEF RemoveTarget
  <2> QED BY <1>1, <1>2, <1>3, <2>1, <2>2, RollbackRename
<1> QED BY <1>4, <1>5

\* Removing the transaction's directories preserves the invariant.
LEMMA RollbackDirectoriesStep ==
  ASSUME IInv, NEW p \in Procs, RollbackDirectories(p)
  PROVE  IInv'
<1>1. proc[p].pc = "rbDirs" /\ proc[p].pc \in RollingBack
  BY DEF RollbackDirectories, RollingBack
<1>2. PICK t \in Txns :
        /\ t = proc[p].txn /\ proc[p] \in Process
        /\ journal[t].state = "RollingBack" /\ OriginalAbove(t, 0)
  BY <1>1, Busy, RollingBackFacts DEF At, Knows
<1>3. /\ UNCHANGED <<target, temps, storeVars, planVars, envVars, ghostVars>>
      /\ dirs' \subseteq Dirs
  BY RemainingDirsType DEF RollbackDirectories
<1>4. PICK r \in Process : Set(p, r) /\ r.txn = t /\ r.pc = "rbPersist"
  <2> DEFINE s == [proc[p] EXCEPT !.pc = "rbPersist"]
  <2>1. s \in Process
    BY <1>2 DEF Process, Points
  <2>2. s.txn = t /\ s.pc = "rbPersist"
    BY <1>2 DEF Process
  <2> QED BY <2>1, <2>2 DEF RollbackDirectories
<1>5. Indexed(r) /\ Says(r, journal[t]) /\ Knows(r)
  BY <1>2, <1>4 DEF Indexed, Says, Knows, Preparing, Staging, Committing
<1> QED
  BY <1>1, <1>2, <1>3, <1>4, <1>5, QuietStep
     DEF Preparing, storeVars, envVars, ghostVars, IInv, TypeOK

\* The RolledBack journal write preserves the invariant.
LEMMA PersistRolledBackStep ==
  ASSUME IInv, NEW p \in Procs, PersistRolledBack(p)
  PROVE  IInv'
<1>1. proc[p].pc = "rbPersist" /\ proc[p].pc \in RollingBack
  BY DEF PersistRolledBack, RollingBack
<1>2. PICK t \in Txns :
        /\ t = proc[p].txn /\ proc[p] \in Process /\ journal[t] # NoJournal
        /\ proc[p].j \in Journal /\ OriginalAbove(t, 0)
  BY <1>1, Busy, RollingBackFacts DEF At, Knows
<1>3. PICK j \in Journal :
        /\ j = [proc[p].j EXCEPT !.state = "RolledBack", !.committed = 0]
        /\ j.state = "RolledBack"
  <2> DEFINE k == [proc[p].j EXCEPT !.state = "RolledBack", !.committed = 0]
  <2>0. 0 \in 0..N
    BY ConstantsAssumption
  <2>1. k \in Journal
    BY <1>2, <2>0 DEF Journal, TxnStates
  <2>2. k.state = "RolledBack"
    BY <1>2 DEF Journal
  <2> QED BY <2>1, <2>2
<1>4. PICK e \in Results :
        Set(p, [proc[p] EXCEPT !.pc = "cleanup", !.j = j, !.res = e])
  <2>1. CASE proc[p].op = "rollback"
    BY <1>3, <2>1 DEF PersistRolledBack, Results
  <2>2. CASE proc[p].op # "rollback"
    <3>1. proc[p].res \in Results
      BY <1>2 DEF Process
    <3> QED BY <1>3, <2>2, <3>1 DEF PersistRolledBack
  <2> QED BY <2>1, <2>2
<1>5. PICK r \in Process : Set(p, r) /\ r.txn = t /\ r.pc = "cleanup"
  <2> DEFINE s == [proc[p] EXCEPT !.pc = "cleanup", !.j = j, !.res = e]
  <2>1. s \in Process
    BY <1>2 DEF Process, Points
  <2>2. s.txn = t /\ s.pc = "cleanup"
    BY <1>2 DEF Process
  <2> QED BY <1>4, <2>1, <2>2
<1>6. /\ journal' = [journal EXCEPT ![t] = j]
      /\ UNCHANGED <<fsVars, present, used, staged, backup, planVars, envVars, ghostVars>>
  BY <1>2, <1>3 DEF PersistRolledBack, Persist
<1>7. Indexed(r) /\ Says(r, j) /\ Knows(r)
  BY <1>2, <1>5 DEF Indexed, Says, Knows, Preparing, Staging, Committing, RollingBack
<1>8. Promises(t)'
  <2>1. journal'[t].state = "RolledBack"
    BY <1>3, <1>6 DEF IInv, TypeOK
  <2> QED BY <1>2, <1>6, <2>1, FinalJournal DEF fsVars, planVars, ghostVars
<1> QED
  BY <1>1, <1>2, <1>5, <1>6, <1>7, <1>8, OwnStep
     DEF fsVars, ghostVars, envVars, Preparing, IInv, TypeOK

-----------------------------------------------------------------------------
(* cleanup_transaction.                                                    *)

\* Every partial removal of the transaction directory preserves the invariant.
LEMMA CleanupTransactionStep ==
  ASSUME IInv, NEW p \in Procs, CleanupTransaction(p)
  PROVE  IInv'
<1> USE DEF fsVars, planVars, envVars
<1>1. proc[p].pc = "cleanup"
  BY DEF CleanupTransaction
<1>2. PICK t \in Txns :
        /\ t = proc[p].txn /\ proc[p] \in Process /\ t \in present
        /\ \A q \in Procs : q # p => proc[q].txn # t
        /\ (proc[p].op = "apply" /\ proc[p].res = "ok") \/ OriginalAbove(t, 0)
        /\ At(proc[p]) /\ Promises(t)
  BY <1>1, Busy DEF At, Knows
<1>3. /\ UNCHANGED <<fsVars, used, planVars, envVars, touched, raced>>
      /\ released' = IF proc[p].op = "apply" /\ proc[p].res = "ok"
                     THEN released \cup {t} ELSE released
  BY <1>2 DEF CleanupTransaction
<1>4. /\ released' \subseteq Txns /\ \A u \in Txns : u # t => (u \in released' <=> u \in released)
      /\ t \notin released' => OriginalAbove(t, 0) /\ t \notin released
  BY <1>2, <1>3 DEF IInv, TypeOK
<1>5. \A i \in Files : /\ Own(t, i)' = Own(t, i) /\ IsNew(t, i)' = IsNew(t, i)
                       /\ IsOriginal(t, i)' = IsOriginal(t, i)
  BY <1>3 DEF Own, IsNew, IsOriginal
<1>6. CASE UNCHANGED <<present, proc>>
  <2>1. /\ journal' = journal \/ journal' = [journal EXCEPT ![t] = NoJournal]
        /\ staged' = staged \/ staged' = [staged EXCEPT ![t] = {}]
        /\ backup' = backup \/ backup' = [backup EXCEPT ![t] = [i \in Files |-> Absent]]
    <3>1. proc[p].txn = t /\ (\A j : Return(p, j) => proc'[p] # proc[p])
      <4>1. \A j : Idle(proc[p].op, j).pc = "idle"
        BY DEF Idle
      <4> QED BY <1>1, <1>2, <4>1 DEF Return, Set, IInv, TypeOK
    <3> QED BY <1>6, <3>1 DEF CleanupTransaction
  <2>2. journal' \in [Txns -> Journal \cup {NoJournal}] /\ journal'[t] \in {journal[t], NoJournal}
        /\ \A u \in Txns : u # t => journal'[u] = journal[u]
    BY <2>1 DEF IInv, TypeOK
  <2>3. backup' \in [Txns -> [Files -> Snapshot \cup {Absent}]]
        /\ \A u \in Txns : u # t => backup'[u] = backup[u]
    <3>1. backup \in [Txns -> [Files -> Snapshot \cup {Absent}]]
      BY DEF IInv, TypeOK
    <3>2. PICK b \in [Files -> Snapshot \cup {Absent}] : b = [i \in Files |-> Absent]
      OBVIOUS
    <3>3. backup' = backup \/ backup' = [backup EXCEPT ![t] = b]
      BY <2>1, <3>2
    <3> QED BY <3>1, <3>3
  <2>4. staged' \in [Txns -> SUBSET Files]
    BY <2>1 DEF IInv, TypeOK
  <2>5. TypeOK'
    BY <1>3, <1>4, <1>6, <2>2, <2>3, <2>4 DEF IInv, TypeOK
  <2>6. Local(p, t)
    BY <1>3, <1>4, <1>6, <2>2, <2>3 DEF Local
  <2>7. At(proc[p])'
    <3>1. PICK r \in Process : r = proc[p]
      BY <1>2
    <3>2. r.pc = "cleanup" /\ r.txn = t /\ proc'[p] = r
          /\ ((r.op = "apply" /\ r.res = "ok") \/ OriginalAbove(t, 0))
      BY <1>1, <1>2, <1>6, <3>1
    <3>3. Placed(r)'
      BY <3>2, <1>2, <1>3, <1>6, ConstantsAssumption DEF Placed, Preparing, IInv, Structure
    <3>4. Indexed(r)' /\ Says(r, journal[r.txn])'
      BY <3>2 DEF Indexed, Says, Preparing, Staging, Committing, RollingBack
    <3>5. Knows(r)'
      BY <3>2, <1>5 DEF Knows, Committing, OriginalAbove
    <3> QED BY <3>2, <3>3, <3>4, <3>5, AtNext DEF At
  <2>8. Promises(t)'
    <3>1. CASE journal'[t] = NoJournal
      BY <3>1, NoJournalNoPromises
    <3>2. CASE journal'[t] = journal[t] /\ journal[t] # NoJournal
      <4>1. \A i \in Files : Owns(t, i)' = Owns(t, i)
        BY <3>2, <1>3 DEF Owns
      <4>2. \A i \in Files : FilePromises(t, i)'
        <5>1. CASE t \in released'
          BY <3>2, <4>1, <5>1, <1>2, <1>5 DEF Promises, FilePromises
        <5>2. CASE t \notin released'
          BY <3>2, <4>1, <5>2, <1>2, <1>4, <1>5, AllOriginal DEF Promises, FilePromises
        <5> QED BY <5>1, <5>2
      <4>3. Prefix(t)'
        BY <4>1, <1>2, <1>5 DEF Promises, Prefix
      <4> QED BY <4>2, <4>3 DEF Promises
    <3> QED BY <2>2, <3>1, <3>2
  <2>9. proc'[p].txn = t
    BY <1>2, <1>6
  <2> QED
    BY <1>2, <1>3, <1>6, <2>5, <2>6, <2>7, <2>8, <2>9, Combine DEF IInv, Structure
<1>7. CASE /\ journal[t] = NoJournal /\ present' = present \ {t}
           /\ Return(p, proc[p].res) /\ UNCHANGED <<journal, staged, backup>>
  <2>1. PICK e \in Results, op \in {"none", "apply", "resume", "rollback"} :
          e = proc[p].res /\ op = proc[p].op
    BY <1>2 DEF Process
  <2>2. /\ proc' \in [Procs -> Process] /\ proc'[p] = Idle(op, e)
        /\ \A q \in Procs : q # p => proc'[q] = proc[q]
    BY <1>7, <2>1, ReturnUpdates
  <2>3. TypeOK'
    BY <1>3, <1>4, <1>7, <2>2 DEF IInv, TypeOK
  <2>4. Local(p, t)
    BY <1>3, <1>4, <1>7, <2>2 DEF Local
  <2>5. At(proc[p])' /\ proc'[p].txn = NoTxn
    <3>1. Idle(op, e).pc = "idle" /\ Idle(op, e).txn = NoTxn
      BY DEF Idle
    <3> QED BY <2>2, <3>1, IdlePoints, AtNext
  <2>6. Promises(t)'
    BY <1>7, NoJournalNoPromises
  <2> QED
    BY <1>2, <1>3, <1>7, <2>3, <2>4, <2>5, <2>6, Combine DEF IInv, Structure
<1> QED BY <1>2, <1>6, <1>7 DEF CleanupTransaction

-----------------------------------------------------------------------------
(* resume_transaction and rollback_transaction.                            *)

\* Loading the journal for resume or rollback preserves the invariant.
LEMMA BeginRecoveryStep ==
  ASSUME IInv, NEW p \in Procs, NEW t \in Txns, NEW op \in {"resume", "rollback"},
         BeginRecovery(p, t, op)
  PROVE  IInv'
<1> USE DEF fsVars, storeVars, planVars, envVars, ghostVars
<1>1. /\ UNCHANGED <<fsVars, storeVars, planVars, envVars, ghostVars>>
      /\ proc[p].pc = "idle" /\ t \in present /\ \A q \in Procs : proc[q].txn # t
  BY DEF BeginRecovery, Abandoned
<1>2. CASE \E e \in Results : Set(p, Idle(op, e))
  <2>1. PICK e \in Results : Set(p, Idle(op, e))
    BY <1>2
  <2>2. Idle(op, e) \in Process
    BY IdleType
  <2>3. /\ proc' \in [Procs -> Process] /\ proc'[p] = Idle(op, e)
        /\ \A q \in Procs : q # p => proc'[q] = proc[q]
    BY <2>1, <2>2, SetUpdates
  <2>4. dirs' \subseteq Dirs /\ faults' \in Nat /\ writes' \in Nat /\ raced' \subseteq Procs
    BY <1>1 DEF IInv, TypeOK
  <2> QED BY <1>1, <2>3, <2>4, IdleReturn
<1>3. CASE /\ journal[t] # NoJournal
           /\ Set(p, [Idle(op, "none") EXCEPT !.pc = "reconcile", !.txn = t,
                                              !.idx = 1, !.j = journal[t]])
  <2>1. PICK j \in Journal : j = journal[t]
    BY <1>3 DEF IInv, TypeOK
  <2>2. PICK r \in Process : /\ Set(p, r) /\ r.txn = t /\ r.pc = "reconcile" /\ r.idx = 1
                             /\ r.j = j /\ r.count = 0 /\ r.saw = FALSE
    <3>1. PICK d \in Process : d = Idle(op, "none") /\ d.count = 0 /\ d.saw = FALSE
      BY IdleType DEF Idle, Results
    <3> DEFINE s == [d EXCEPT !.pc = "reconcile", !.txn = t, !.idx = 1, !.j = j]
    <3>2. s \in Process
      BY DEF Process, Points
    <3>3. /\ s.txn = t /\ s.pc = "reconcile" /\ s.idx = 1
          /\ s.j = j /\ s.count = 0 /\ s.saw = FALSE
      BY <3>1 DEF Process
    <3>4. Set(p, s)
      BY <1>3, <2>1, <3>1
    <3> QED BY <3>2, <3>3, <3>4
  <2>3. /\ proc' \in [Procs -> Process] /\ proc'[p] = r
        /\ \A q \in Procs : q # p => proc'[q] = proc[q]
    BY <2>2, SetUpdates
  <2>4. TypeOK'
    BY <1>1, <2>3 DEF IInv, TypeOK
  <2>5. Local(p, t)
    BY <1>1, <2>3 DEF Local
  <2>6. Placed(r)'
    BY <1>1, <1>3, <2>2, ConstantsAssumption DEF Placed, Preparing, IInv, Structure
  <2>7. Indexed(r)' /\ Says(r, journal[r.txn])'
    BY <1>1, <2>1, <2>2, ConstantsAssumption
       DEF Indexed, Says, Preparing, Staging, Committing, RollingBack, Files
  <2>8. Knows(r)'
    <3>1. NewUpTo(t, 0)' /\ OriginalBetween(t, 0, 1)'
      BY DEF NewUpTo, OriginalBetween, Files
    <3> QED BY <2>2, <3>1 DEF Knows, Committing
  <2>9. At(proc[p])'
    BY <2>3, <2>6, <2>7, <2>8, AtNext DEF At
  <2>10. Promises(t)'
    BY <1>1, JournalKeepsPromises
  <2> QED
    BY <1>1, <2>2, <2>3, <2>4, <2>5, <2>9, <2>10, Combine DEF IInv, Structure
<1> QED BY <1>2, <1>3 DEF BeginRecovery, Results

\* reconcile's look at one target preserves the invariant.
LEMMA ReconcileFileStep ==
  ASSUME IInv, NEW p \in Procs, ReconcileFile(p)
  PROVE  IInv'
<1>1. proc[p].pc = "reconcile"
  BY DEF ReconcileFile
<1>2. PICK r \in Process : r = proc[p]
  BY <1>1, Busy
<1>3. PICK t \in Txns, i \in Files :
        /\ t = r.txn /\ i = r.idx /\ journal[t] # NoJournal /\ journal[t].state = r.j.state
        /\ NewUpTo(t, r.count) /\ OriginalBetween(t, r.count, i)
        /\ r.count < i /\ (~r.saw => r.count = i - 1)
  BY <1>1, <1>2, Busy DEF At, Placed, Indexed, Says, Knows, Preparing
<1>4. UNCHANGED <<fsVars, present, used, staged, backup, planVars, envVars, ghostVars>>
  BY DEF ReconcileFile
<1> DEFINE counts == IsNew(t, i) /\ ~r.saw
<1>5. PICK n \in 0..N : n = (IF counts THEN r.count + 1 ELSE r.count)
  <2>1. r.count \in 0..N
    BY DEF Process
  <2> QED BY <1>3, <2>1, ConstantsAssumption DEF Files
<1>6. CASE ~counts /\ ~IsOriginal(t, i)
  <2>1. Return(p, Refusal(i)) /\ UNCHANGED journal
    BY <1>2, <1>3, <1>6 DEF ReconcileFile
  <2>2. Refusal(i) \in Results
    BY DEF Refusal, Results
  <2> QED BY <1>4, <2>1, <2>2, PureReturn DEF storeVars
<1>7. CASE ~(~counts /\ ~IsOriginal(t, i))
  <2>1. r.count \in Nat /\ i \in Nat
    BY ConstantsAssumption DEF Process, Files
  <2>2. /\ NewUpTo(t, n) /\ OriginalBetween(t, n, i + 1)
        /\ n < i + 1 /\ (counts => n = i)
    <3>1. CASE counts
      BY <1>3, <1>5, <2>1, <3>1 DEF NewUpTo, OriginalBetween, Files
    <3>2. CASE ~counts
      BY <1>3, <1>5, <1>7, <2>1, <3>2 DEF NewUpTo, OriginalBetween, Files
    <3> QED BY <3>1, <3>2
  <2>3. CASE i < N
    <3>1. Set(p, [r EXCEPT !.idx = i + 1, !.count = n, !.saw = ~counts]) /\ UNCHANGED journal
      BY <1>2, <1>3, <1>5, <1>7, <2>3 DEF ReconcileFile
    <3>2. PICK b \in BOOLEAN : b = ~counts
      OBVIOUS
    <3>3. PICK m \in Files : m = i + 1
      BY <2>3, ConstantsAssumption DEF Files
    <3>4. PICK s \in Process : /\ Set(p, s) /\ s.txn = t /\ s.pc = "reconcile" /\ s.idx = m
                               /\ s.count = n /\ s.saw = b /\ s.j = r.j
      <4> DEFINE s == [r EXCEPT !.idx = m, !.count = n, !.saw = b]
      <4>1. m \in Nat
        BY DEF Files
      <4>2. s \in Process
        BY <4>1 DEF Process
      <4>3. /\ s.txn = t /\ s.pc = "reconcile" /\ s.idx = m
            /\ s.count = n /\ s.saw = b /\ s.j = r.j
        BY <1>1, <1>2, <1>3 DEF Process
      <4>4. Set(p, s)
        BY <3>1, <3>2, <3>3
      <4> QED BY <4>2, <4>3, <4>4
    <3>5. Indexed(s)
      <4>1. s.count < s.idx /\ (~s.saw => s.count = s.idx - 1)
        <5>1. ~b => n = i
          BY <2>2, <3>2, Zenon
        <5>2. s.saw = b /\ s.count = n /\ s.idx = m
          BY <3>4
        <5>3. n < m /\ (n = i => n = m - 1)
          BY <2>1, <2>2, <3>3
        <5> QED BY <5>1, <5>2, <5>3, Zenon
      <4> QED BY <3>4, <4>1 DEF Indexed, Preparing, Staging, Committing
    <3>6. Says(s, journal[t]) /\ Knows(s)
      BY <1>3, <2>2, <3>3, <3>4 DEF Says, Knows, Committing, RollingBack
    <3> QED
      BY <1>1, <1>2, <1>3, <1>4, <3>1, <3>4, <3>5, <3>6, QuietStep
         DEF fsVars, ghostVars, envVars, Preparing, IInv, TypeOK
  <2>4. CASE ~(i < N)
    <3>1. OriginalAbove(t, n)
      BY <2>1, <2>2, <2>4, ConstantsAssumption DEF OriginalBetween, OriginalAbove, Files
    <3>2. OriginalAbove(t, PossibleCount(n))
      BY <3>1, ConstantsAssumption DEF OriginalAbove, PossibleCount, Files
    <3>3. PICK j \in Journal : /\ j = [r.j EXCEPT !.committed = n]
                               /\ j.state = r.j.state /\ j.committed = n
      <4>1. r.j \in Journal
        BY DEF Process
      <4> QED BY <4>1, WithCommitted
    <3>4. PICK c \in {"commit", "rbBegin"} :
            c = IF r.op = "resume" THEN "commit" ELSE "rbBegin"
      OBVIOUS
    <3>5. /\ Set(p, [r EXCEPT !.pc = c, !.j = j, !.count = 0, !.saw = FALSE])
          /\ journal' = [journal EXCEPT ![t] = j]
      BY <1>2, <1>3, <1>5, <1>7, <2>4, <3>3, <3>4 DEF ReconcileFile, Persist
    <3>6. PICK s \in Process : Set(p, s) /\ s.txn = t /\ s.pc = c /\ s.j = j
      <4> DEFINE s == [r EXCEPT !.pc = c, !.j = j, !.count = 0, !.saw = FALSE]
      <4>1. 0 \in 0..N
        BY ConstantsAssumption
      <4>2. s \in Process
        BY <4>1 DEF Process, Points
      <4>3. s.txn = t /\ s.pc = c /\ s.j = j
        BY <1>3 DEF Process
      <4> QED BY <3>5, <4>2, <4>3
    <3>7. Indexed(s) /\ Says(s, j)
      BY <3>6 DEF Indexed, Says, Preparing, Staging, Committing, RollingBack
    <3>8. Knows(s)
      BY <2>2, <3>1, <3>2, <3>3, <3>6 DEF Knows, Committing
    <3>9. Promises(t)'
      <4>1. journal'[t].state = journal[t].state
        BY <1>3, <3>3, <3>5 DEF IInv, TypeOK
      <4> QED
        BY <4>1, <1>3, <1>4, JournalKeepsPromises DEF fsVars, planVars, ghostVars
    <3> QED
      BY <1>1, <1>2, <1>3, <1>4, <3>5, <3>6, <3>7, <3>8, <3>9, OwnStep
         DEF fsVars, ghostVars, envVars, Preparing, IInv, TypeOK
  <2> QED BY <2>3, <2>4
<1> QED BY <1>6, <1>7

-----------------------------------------------------------------------------
(* The environment.                                                        *)

\* A crash at any point preserves the invariant.
LEMMA CrashStep ==
  ASSUME IInv, NEW p \in Procs, Crash(p)
  PROVE  IInv'
<1>1. /\ Return(p, "fault") /\ "fault" \in Results /\ faults' = faults + 1
      /\ UNCHANGED <<fsVars, storeVars, planVars, writes, ghostVars>>
  BY DEF Crash, Results
<1>2. faults' \in Nat /\ writes' \in Nat /\ dirs' \subseteq Dirs /\ raced' \subseteq Procs
  BY <1>1 DEF IInv, TypeOK, fsVars, ghostVars
<1> QED BY <1>1, <1>2, ReturnStep DEF fsVars, storeVars, ghostVars

\* A count that could not be persisted: rollback starts one file further.
LEMMA FailCountedStep ==
  ASSUME IInv, NEW p \in Procs, proc[p].pc = "verify", FailCounted(p),
         UNCHANGED <<target, dirs, temps, present, used, journal, staged, backup, planVars>>,
         UNCHANGED <<touched, released>>,
         faults' \in Nat, writes' \in Nat, raced' \subseteq Procs
  PROVE  IInv'
<1>1. PICK t \in Txns, i \in Files :
        /\ t = proc[p].txn /\ i = proc[p].idx /\ proc[p] \in Process
        /\ OriginalAbove(t, i) /\ proc[p].j \in Journal
  BY Busy DEF At, Indexed, Knows, Process
<1>2. i \in 0..N
  BY ConstantsAssumption DEF Files
<1>3. PICK j \in Journal : j = [proc[p].j EXCEPT !.committed = i] /\ j.committed = i
  BY <1>1, <1>2, WithCommitted
<1>4. PICK r \in Process : Set(p, r) /\ r.txn = t /\ r.pc = "rbBegin" /\ r.j = j
  <2> DEFINE s == [proc[p] EXCEPT !.pc = "rbBegin", !.res = "fault", !.j = j]
  <2>0. "fault" \in Results /\ "rbBegin" \in Points
    BY DEF Results, Points
  <2>1. s \in Process
    BY <1>1, <2>0 DEF Process
  <2>2. s.txn = t /\ s.pc = "rbBegin" /\ s.j = j
    BY <1>1 DEF Process
  <2>3. s = [proc[p] EXCEPT !.pc = "rbBegin", !.res = "fault", !.j.committed = i]
    BY <1>3
  <2> QED BY <1>1, <2>1, <2>2, <2>3 DEF FailCounted, CommittedAfter
<1>5. OriginalAbove(t, PossibleCount(r.j.committed))
  <2>1. \A k \in Files : k > PossibleCount(i) => k > i
    BY <1>2, ConstantsAssumption DEF PossibleCount, Files
  <2> QED BY <1>1, <1>3, <1>4, <2>1 DEF OriginalAbove
<1>6. Indexed(r) /\ Says(r, journal[t]) /\ Knows(r)
  BY <1>4, <1>5 DEF Indexed, Says, Knows, Preparing, Staging, Committing, RollingBack
<1> QED
  BY <1>1, <1>4, <1>6, QuietStep DEF Preparing, IInv, TypeOK

\* A refused filesystem step preserves the invariant.
LEMMA IoFailureStep ==
  ASSUME IInv, NEW p \in Procs, IoFailure(p)
  PROVE  IInv'
<1>1. /\ "fault" \in Results /\ faults' = faults + 1
      /\ UNCHANGED <<fsVars, storeVars, planVars, writes, ghostVars>>
  BY DEF IoFailure, Results
<1>2. /\ faults' \in Nat /\ writes' \in Nat /\ dirs' \subseteq Dirs /\ raced' \subseteq Procs
      /\ temps' \subseteq TempFile
  BY <1>1 DEF IInv, TypeOK, fsVars, ghostVars
<1>3. CASE proc[p].pc = "stage" /\ Set(p, [proc[p] EXCEPT !.pc = "cleanup", !.res = "fault"])
  <2>1. PICK t \in Txns : t = proc[p].txn /\ proc[p] \in Process /\ OriginalAbove(t, 0)
    BY <1>3, Busy DEF At, Knows
  <2>2. PICK r \in Process : Set(p, r) /\ r.txn = t /\ r.pc = "cleanup"
    <3> DEFINE s == [proc[p] EXCEPT !.pc = "cleanup", !.res = "fault"]
    <3>0. "fault" \in Results /\ "cleanup" \in Points
      BY DEF Results, Points
    <3>1. s \in Process
      BY <2>1, <3>0 DEF Process
    <3>2. s.txn = t /\ s.pc = "cleanup"
      BY <2>1 DEF Process
    <3> QED BY <1>3, <3>1, <3>2
  <2>3. Indexed(r) /\ Says(r, journal[t]) /\ Knows(r)
    BY <2>1, <2>2 DEF Indexed, Says, Knows, Preparing, Staging, Committing, RollingBack
  <2> QED
    BY <1>1, <1>2, <1>3, <2>1, <2>2, <2>3, QuietStep
       DEF fsVars, storeVars, ghostVars, Preparing
<1>4. CASE proc[p].pc \in CommitPoints /\ FailCommit(p, "fault")
  BY <1>1, <1>2, <1>4, FailCommitStep DEF fsVars, storeVars, ghostVars
<1>5. CASE FailRollback(p, "fault")
  BY <1>1, <1>2, <1>5, FailRollbackStep DEF fsVars, storeVars, ghostVars
<1>6. CASE Return(p, "fault")
  BY <1>1, <1>2, <1>6, ReturnStep DEF fsVars, storeVars, ghostVars
<1>7. CASE proc[p].pc = "verify" /\ FailCounted(p)
  BY <1>1, <1>2, <1>7, FailCountedStep DEF fsVars, storeVars, ghostVars
<1> QED BY <1>3, <1>4, <1>5, <1>6, <1>7 DEF IoFailure

\* There is always another value: the writer is not a process.
LEMMA Distinct == \A x : \E y : y # x
<1> SUFFICES ASSUME NEW x PROVE \E y : y # x
  OBVIOUS
<1>1. Absent # x \/ Special # x
  BY ConstantsAssumption
<1> QED BY <1>1

\* A change by the independent writer preserves the invariant.
LEMMA ExternalWriteStep ==
  ASSUME IInv, NEW i \in Files, NEW v \in WriterStates, ExternalWrite(i, v)
  PROVE  IInv'
<1> USE DEF storeVars, planVars
<1>1. /\ target' = [target EXCEPT ![i] = v] /\ writes' = writes + 1
      /\ touched' = touched \cup {<<u, i>> : u \in present \ {NoTxn}}
      /\ raced' \subseteq Procs
      /\ UNCHANGED <<dirs, temps, storeVars, planVars, proc, faults, released>>
  BY DEF ExternalWrite, Disturb, IInv, TypeOK
<1>2. TypeOK'
  <2>1. touched' \subseteq Txns \X Files
    BY <1>1 DEF IInv, TypeOK
  <2>2. target' \in [Files -> Target] /\ writes' \in Nat
    BY <1>1, ConstantsAssumption DEF IInv, TypeOK
  <2> QED BY <1>1, <2>1, <2>2 DEF IInv, TypeOK
<1>3. \A p, t : Local(p, t)
  <2>1. \A u \in Txns, k \in Files :
          u \in present /\ <<u, k>> \notin touched' => <<u, k>> \notin touched /\ k # i
    BY <1>1, ConstantsAssumption
  <2>2. \A k \in Files : k # i => target'[k] = target[k]
    BY <1>1 DEF IInv, TypeOK
  <2> QED BY <1>1, <2>1, <2>2 DEF Local
<1>4. \A q \in Procs : At(proc[q])'
  <2> SUFFICES ASSUME NEW q \in Procs PROVE At(proc[q])'
    OBVIOUS
  <2>1. \E p : p # q
    BY Distinct
  <2>2. \E t : proc[q].txn # t
    BY Distinct
  <2> QED BY <1>3, <2>1, <2>2, OthersKeepPoints
<1>5. \A u \in Txns : Promises(u)'
  BY <1>3, ConstantsAssumption, OthersKeepPromises
<1>6. Structure'
  BY <1>1 DEF IInv, Structure
<1> QED BY <1>2, <1>4, <1>5, <1>6 DEF IInv

-----------------------------------------------------------------------------
(* The theorems.                                                           *)

\* The initial states satisfy the invariant.
LEMMA InitEstablishes == Init => IInv
<1> SUFFICES ASSUME Init PROVE IInv
  OBVIOUS
<1>1. PICK c \in Capsules : c = (CHOOSE d \in Capsules : TRUE)
  BY ConstantsAssumption
<1>2. TypeOK
  <2>1. dirs \subseteq Dirs
    BY ConstantsAssumption DEF Init, SetOf, Files
  <2>2. target \in [Files -> Target]
    BY ConstantsAssumption DEF Init, Files
  <2>3. new \in [Txns -> [Files -> Snapshot]]
    BY <1>1, ConstantsAssumption DEF Init, Files
  <2>4. proc \in [Procs -> Process]
    BY IdleType DEF Init, Results
  <2> QED BY <2>1, <2>2, <2>3, <2>4 DEF Init, TypeOK
<1>3. \A p \in Procs : proc[p].pc = "idle" /\ proc[p].txn = NoTxn
  BY DEF Init, Idle
<1>4. Structure
  BY <1>3 DEF Init, Structure
<1>5. \A p \in Procs : At(proc[p])
  BY <1>3, NoKnowledge
     DEF At, Placed, Indexed, Says, Preparing, Staging, Committing, RollingBack
<1>6. \A t \in Txns : Promises(t)
  <2>1. \A t \in Txns, i \in Files : ~Owns(t, i)
    BY DEF Init, Owns
  <2>2. 1 \in Files
    BY ConstantsAssumption DEF Files
  <2> QED BY <2>1, <2>2 DEF Promises, FilePromises, Prefix
<1> QED BY <1>2, <1>4, <1>5, <1>6 DEF IInv

\* A stuttering step preserves the invariant.
LEMMA StutterStep ==
  ASSUME IInv, UNCHANGED vars
  PROVE  IInv'
<1> USE DEF vars, fsVars, storeVars, planVars, envVars, ghostVars
<1>1. TypeOK' /\ Structure'
  BY DEF IInv, TypeOK, Structure
<1>2. \A p, t : Local(p, t)
  BY DEF Local
<1>3. \A q \in Procs : At(proc[q])'
  <2> SUFFICES ASSUME NEW q \in Procs PROVE At(proc[q])'
    OBVIOUS
  <2>1. \E p : p # q
    BY Distinct
  <2>2. \E t : proc[q].txn # t
    BY Distinct
  <2> QED BY <1>2, <2>1, <2>2, OthersKeepPoints
<1>4. \A u \in Txns : Promises(u)'
  BY <1>2, ConstantsAssumption, OthersKeepPromises
<1> QED BY <1>1, <1>3, <1>4 DEF IInv

\* Every step of a running operation preserves the invariant.
LEMMA ProcessStep ==
  ASSUME IInv, NEW p \in Procs, Step(p)
  PROVE  IInv'
<1>1. CASE \E c \in Capsules, keep \in BOOLEAN : CreateTransaction(p, c, keep)
  BY <1>1, CreateTransactionStep
<1>2. CASE PrepareFile(p) \/ PersistPrepared(p) \/ StageFile(p) \/ PersistStaged(p)
  BY <1>2, PrepareFileStep, PersistPreparedStep, StageFileStep, PersistStagedStep
<1>3. CASE CommitBegin(p) \/ EnsureDirectory(p) \/ Precondition(p)
  BY <1>3, CommitBeginStep, EnsureDirectoryStep, PreconditionStep
<1>4. CASE MakeParent(p) \/ WriteTemp(p) \/ Rename(p)
  BY <1>4, MakeParentStep, WriteTempStep, RenameStep
<1>5. CASE VerifyCommitted(p) \/ PersistCommitted(p)
  BY <1>5, VerifyCommittedStep, PersistCommittedStep
<1>6. CASE RollbackBegin(p) \/ RollbackCheck(p) \/ RemoveTarget(p)
  BY <1>6, RollbackBeginStep, RollbackCheckStep, RemoveTargetStep
<1>7. CASE RollbackDirectories(p) \/ PersistRolledBack(p)
  BY <1>7, RollbackDirectoriesStep, PersistRolledBackStep
<1>8. CASE CleanupTransaction(p) \/ ReconcileFile(p)
  BY <1>8, CleanupTransactionStep, ReconcileFileStep
<1> QED BY <1>1, <1>2, <1>3, <1>4, <1>5, <1>6, <1>7, <1>8 DEF Step

\* Every step preserves the invariant.
LEMMA NextPreserves == IInv /\ [Next]_vars => IInv'
<1> SUFFICES ASSUME IInv, [Next]_vars PROVE IInv'
  OBVIOUS
<1>1. ASSUME NEW p \in Procs, BeginApply(p) PROVE IInv'
  BY <1>1, BeginApplyStep
<1>2. ASSUME NEW p \in Procs, Step(p) PROVE IInv'
  BY <1>2, ProcessStep
<1>3. ASSUME NEW p \in Procs, Crash(p) \/ IoFailure(p) PROVE IInv'
  BY <1>3, CrashStep, IoFailureStep
<1>4. ASSUME NEW p \in Procs, NEW t \in Txns,
             ResumeTransaction(p, t) \/ RollbackTransaction(p, t)
      PROVE  IInv'
  BY <1>4, BeginRecoveryStep DEF ResumeTransaction, RollbackTransaction
<1>5. ASSUME NEW i \in Files, NEW v \in WriterStates, ExternalWrite(i, v) PROVE IInv'
  BY <1>5, ExternalWriteStep
<1>6. CASE UNCHANGED vars
  BY <1>6, StutterStep
<1> QED BY <1>1, <1>2, <1>3, <1>4, <1>5, <1>6 DEF Next

\* IInv holds in every reachable state, for every number of processes,
\* transactions and files, every capsule and every tree.
THEOREM Invariance == Spec => []IInv
  BY InitEstablishes, NextPreserves, PTL DEF Spec

\* Type correctness of the transaction engine: in particular no counter of
\* the journal or index of commit, rollback and reconcile leaves its range.
THEOREM TypeCorrect == Spec => []TypeOK
<1>1. IInv => TypeOK
  BY DEF IInv
<1> QED BY <1>1, Invariance, PTL

\* No crash point of apply, resume or rollback loses original data.
THEOREM OriginalsAreSafe == Spec => []OriginalRecoverable
<1>1. IInv => OriginalRecoverable
  BY DEF IInv, Promises, FilePromises, OriginalRecoverable
<1> QED BY <1>1, Invariance, PTL

\* A journal in state Committed means that every file nobody else changed is
\* the capsule's, however often the commit was interrupted and resumed.
THEOREM CommittedTellsTheTruth == Spec => []CommittedIsNew
<1>1. IInv => CommittedIsNew
  BY DEF IInv, Promises, FilePromises, CommittedIsNew
<1> QED BY <1>1, Invariance, PTL

\* A journal in state RolledBack means that every file nobody else changed is
\* what prepare recorded.
THEOREM RolledBackTellsTheTruth == Spec => []RolledBackIsOriginal
<1>1. IInv => RolledBackIsOriginal
  BY DEF IInv, Promises, FilePromises, RolledBackIsOriginal
<1> QED BY <1>1, Invariance, PTL

\* At every crash point the files of a transaction are a prefix of new ones
\* followed by original ones: the shape reconcile accepts.
THEOREM ReconcileAccepts == Spec => []PrefixShape
<1>1. IInv => PrefixShape
  BY DEF IInv, Promises, Prefix, PrefixShape
<1> QED BY <1>1, Invariance, PTL

-----------------------------------------------------------------------------
(* Foreign data: what a check saw holds until the write that follows it,   *)
(* unless the file changed in between.                                     *)

WritePoints == {"replace", "rename", "rbReplace", "rbRename", "rbRemove"}

\* Between its check and its write a process that was not raced has the file
\* as the check saw it.
Checked(p) ==
  LET t == proc[p].txn  i == proc[p].idx IN
  p \notin raced =>
    /\ proc[p].pc \in {"replace", "rename"} => IsOriginal(t, i)
    /\ proc[p].pc \in {"rbReplace", "rbRename", "rbRemove"} => IsNew(t, i)

AllChecked == \A p \in Procs : Checked(p)

\* The step is one of process p: the other processes stay, and one of them
\* whose file changes is marked as raced.
StepOf(p) ==
  /\ proc' = [proc EXCEPT ![p] = proc'[p]]
  /\ \A q \in Procs \ {p} : q \in raced => q \in raced'
  /\ \A q \in Procs \ {p} :
       proc[q].pc \in WritePoints /\ target'[proc[q].idx] # target[proc[q].idx] => q \in raced'
  /\ \A u \in Txns : u # proc[p].txn => orig'[u] = orig[u] /\ new'[u] = new[u]

\* The others keep what their checks saw.
LEMMA OthersChecked ==
  ASSUME IInv, AllChecked, NEW p \in Procs, StepOf(p), Checked(p)'
  PROVE  AllChecked'
<1> SUFFICES ASSUME NEW q \in Procs \ {p}  PROVE Checked(q)'
  BY DEF AllChecked
<1>1. proc'[q] = proc[q]
  BY DEF StepOf, IInv, TypeOK
<1>2. CASE proc[q].pc \notin WritePoints
  BY <1>1, <1>2 DEF Checked, WritePoints
<1>3. CASE proc[q].pc \in WritePoints
  <2>1. proc[q].txn \in Txns /\ proc[q].txn # proc[p].txn
    BY <1>3, Busy DEF WritePoints
  <2>2. orig'[proc[q].txn] = orig[proc[q].txn] /\ new'[proc[q].txn] = new[proc[q].txn]
    BY <2>1 DEF StepOf
  <2>3. q \notin raced' => q \notin raced /\ target'[proc[q].idx] = target[proc[q].idx]
    BY <1>3 DEF StepOf
  <2> QED  BY <1>1, <2>2, <2>3 DEF AllChecked, Checked, IsOriginal, IsNew
<1> QED  BY <1>2, <1>3

\* A process off the write points has checked nothing.
LEMMA NothingChecked ==
  ASSUME NEW p, proc[p].pc \notin WritePoints
  PROVE  Checked(p)
BY DEF Checked, WritePoints

\* Setting changes one process.
LEMMA SetMoves ==
  ASSUME IInv, NEW p \in Procs, NEW r, Set(p, r)
  PROVE  proc' = [proc EXCEPT ![p] = proc'[p]] /\ proc'[p] = r
BY DEF Set, IInv, TypeOK

\* A process that returns is off the write points.
LEMMA ReturnMoves ==
  ASSUME IInv, NEW p \in Procs, NEW e, Return(p, e)
  PROVE  proc' = [proc EXCEPT ![p] = proc'[p]] /\ proc'[p].pc \notin WritePoints
<1>1. Idle(proc[p].op, e).pc = "idle"
  BY DEF Idle
<1> QED  BY <1>1, SetMoves DEF Return, WritePoints

\* So is one whose commit, rollback or replacement fails.
LEMMA FailMoves ==
  ASSUME IInv, NEW p \in Procs, NEW e, FailCommit(p, e) \/ FailRollback(p, e) \/ FailReplace(p, e)
  PROVE  proc' = [proc EXCEPT ![p] = proc'[p]] /\ proc'[p].pc \notin WritePoints
<1>1. ASSUME NEW f, FailRollback(p, f)
      PROVE  proc' = [proc EXCEPT ![p] = proc'[p]] /\ proc'[p].pc \notin WritePoints
  BY <1>1, ReturnMoves DEF FailRollback
<1>2. ASSUME NEW f, FailCommit(p, f)
      PROVE  proc' = [proc EXCEPT ![p] = proc'[p]] /\ proc'[p].pc \notin WritePoints
  <2>1. proc[p] \in Process
    BY DEF IInv, TypeOK
  <2>2. [proc[p] EXCEPT !.pc = "rbBegin", !.res = f].pc = "rbBegin"
    BY <2>1 DEF Process
  <2> QED  BY <1>2, <2>2, ReturnMoves, SetMoves DEF FailCommit, WritePoints
<1> QED  BY <1>1, <1>2 DEF FailReplace

\* A step that changes no file, and leaves its process off the write points.
LEMMA QuietChecked ==
  ASSUME IInv, AllChecked, NEW p \in Procs, UNCHANGED <<target, orig, new, raced>>,
         proc' = [proc EXCEPT ![p] = proc'[p]], proc'[p].pc \notin WritePoints
  PROVE  AllChecked'
<1>1. StepOf(p)
  BY DEF StepOf
<1>2. Checked(p)'
  BY NothingChecked DEF Checked, WritePoints
<1> QED  BY <1>1, <1>2, OthersChecked

\* Setting a process to a state off the write points changes no file.
LEMMA QuietSet ==
  ASSUME IInv, AllChecked, NEW p \in Procs, UNCHANGED <<target, orig, new, raced>>,
         NEW r, Set(p, r), r.pc \notin WritePoints
  PROVE  AllChecked'
BY SetMoves, QuietChecked

\* A process that returns or fails changes no file.
LEMMA QuietFailure ==
  ASSUME IInv, AllChecked, NEW p \in Procs, UNCHANGED <<target, orig, new, raced>>,
         NEW e, Return(p, e) \/ FailCommit(p, e) \/ FailRollback(p, e) \/ FailReplace(p, e)
  PROVE  AllChecked'
BY ReturnMoves, FailMoves, QuietChecked

\* The fields of a changed process.
LEMMA ChangedFields ==
  ASSUME NEW r \in Process, NEW c, NEW n, NEW j, NEW e
  PROVE  /\ [r EXCEPT !.pc = c].pc = c
         /\ [r EXCEPT !.pc = c, !.idx = n].pc = c
         /\ [r EXCEPT !.pc = c, !.j = j].pc = c
         /\ [r EXCEPT !.pc = c, !.res = e].pc = c
         /\ [r EXCEPT !.pc = c, !.j = j, !.idx = n].pc = c
         /\ [r EXCEPT !.pc = c, !.res = e, !.j = j].pc = c
         /\ [r EXCEPT !.pc = c, !.j = j, !.res = e].pc = c
         /\ [r EXCEPT !.idx = n].pc = r.pc
         /\ [r EXCEPT !.j = j].pc = r.pc
BY DEF Process

\* The next lemmas are the steps that change no file: the beginning of apply.
LEMMA BeginChecked ==
  ASSUME IInv, AllChecked, NEW p \in Procs, BeginApply(p)
  PROVE  AllChecked'
<1>1. Idle("apply", "IncompleteTransaction").pc = "idle"
  BY DEF Idle
<1>2. ASSUME NEW t PROVE [Idle("apply", "none") EXCEPT !.pc = "create", !.txn = t].pc = "create"
  BY DEF Idle
<1> QED
  BY <1>1, <1>2, QuietSet DEF BeginApply, fsVars, planVars, ghostVars, WritePoints

\* The beginning of resume and rollback.
LEMMA RecoveryChecked ==
  ASSUME IInv, AllChecked, NEW p \in Procs, NEW t, NEW op, BeginRecovery(p, t, op)
  PROVE  AllChecked'
<1>1. ASSUME NEW e PROVE Idle(op, e).pc = "idle"
  BY DEF Idle
<1>2. [Idle(op, "none") EXCEPT !.pc = "reconcile", !.txn = t, !.idx = 1, !.j = journal[t]].pc
        = "reconcile"
  BY DEF Idle
<1>3. PICK r : Set(p, r) /\ r.pc \in {"idle", "reconcile"}
  BY <1>1, <1>2 DEF BeginRecovery
<1>4. UNCHANGED <<target, orig, new, raced>>
  BY DEF BeginRecovery, fsVars, planVars, ghostVars
<1> QED  BY <1>3, <1>4, QuietSet DEF WritePoints

\* Persisting the plan, and stage.
LEMMA PrepareChecked ==
  ASSUME IInv, AllChecked, NEW p \in Procs, PersistPrepared(p) \/ StageFile(p) \/ PersistStaged(p)
  PROVE  AllChecked'
<1>1. proc[p] \in Process
  BY DEF IInv, TypeOK
<1>2. UNCHANGED <<target, orig, new, raced>>
  BY DEF PersistPrepared, StageFile, PersistStaged, fsVars, planVars, ghostVars
<1>3. CASE PersistPrepared(p)
  <2>1. [proc[p] EXCEPT !.pc = "stage", !.idx = 1].pc = "stage"
    BY <1>1, ChangedFields
  <2> QED  BY <1>2, <1>3, <2>1, QuietSet DEF PersistPrepared, WritePoints
<1>4. CASE StageFile(p)
  <2>1. \A e : [proc[p] EXCEPT !.pc = "cleanup", !.res = e].pc = "cleanup"
    BY <1>1, ChangedFields
  <2>2. [proc[p] EXCEPT !.pc = "persistStaged"].pc = "persistStaged"
    BY <1>1, ChangedFields
  <2>3. \A n : [proc[p] EXCEPT !.idx = n].pc = proc[p].pc
    BY <1>1, ChangedFields
  <2>4. \/ Set(p, [proc[p] EXCEPT !.pc = "cleanup", !.res = Refusal(proc[p].idx)])
        \/ Set(p, [proc[p] EXCEPT !.pc = "persistStaged"])
        \/ Set(p, [proc[p] EXCEPT !.idx = proc[p].idx + 1])
    BY <1>4, Zenon DEF StageFile
  <2>5. proc[p].pc = "stage"
    BY <1>4 DEF StageFile
  <2> QED  BY <1>2, <2>1, <2>2, <2>3, <2>4, <2>5, QuietSet DEF WritePoints
<1>5. CASE PersistStaged(p)
  <2>1. \A j : [proc[p] EXCEPT !.pc = "commit", !.j = j].pc = "commit"
    BY <1>1, ChangedFields
  <2> QED  BY <1>2, <1>5, <2>1, QuietSet DEF PersistStaged, WritePoints
<1> QED  BY <1>3, <1>4, <1>5

\* The file loop of commit goes on off the write points.
LEMMA AfterFileMoves ==
  ASSUME NEW r \in Process  PROVE AfterFile(r).pc \notin WritePoints
BY DEF AfterFile, Process, WritePoints

\* So does the file loop of rollback.
LEMMA BeforeFileMoves ==
  ASSUME NEW r \in Process  PROVE BeforeFile(r).pc \notin WritePoints
BY DEF BeforeFile, Process, WritePoints

\* The beginning of commit and its directories.
LEMMA CommitChecked ==
  ASSUME IInv, AllChecked, NEW p \in Procs, CommitBegin(p) \/ EnsureDirectory(p)
  PROVE  AllChecked'
<1>1. proc[p] \in Process /\ proc[p].j \in Journal
  BY DEF IInv, TypeOK, Process
<1>2. UNCHANGED <<target, orig, new, raced>>
  BY DEF CommitBegin, EnsureDirectory, fsVars, planVars, ghostVars
<1>3. CASE CommitBegin(p)
  <2>1. PICK k \in Journal : k = [proc[p].j EXCEPT !.state = "Committing"]
    BY <1>1, WithState DEF TxnStates
  <2> DEFINE r == [proc[p] EXCEPT !.j = k]
  <2>2. r \in Process
    BY <1>1 DEF Process
  <2>3. [r EXCEPT !.pc = "ensure", !.idx = 1].pc = "ensure" /\ AfterFile(r).pc \notin WritePoints
    BY <2>2, ChangedFields, AfterFileMoves
  <2>4. \/ Set(p, AfterFile(r))
        \/ Set(p, [r EXCEPT !.pc = "ensure", !.idx = 1])
        \/ FailCommit(p, "Io")
    BY <1>3, <2>1, Zenon DEF CommitBegin
  <2> QED  BY <1>2, <2>3, <2>4, QuietSet, QuietFailure DEF WritePoints
<1>4. CASE EnsureDirectory(p)
  <2>1. /\ AfterFile(proc[p]).pc \notin WritePoints
        /\ \A d : [proc[p] EXCEPT !.j.created = proc[p].j.created \cup {d}].pc = proc[p].pc
        /\ [proc[p] EXCEPT !.idx = proc[p].idx + 1].pc = proc[p].pc
    BY <1>1, AfterFileMoves DEF Process
  <2>2. \/ Set(p, AfterFile(proc[p]))
        \/ \E d : Set(p, [proc[p] EXCEPT !.j.created = proc[p].j.created \cup {d}])
        \/ Set(p, [proc[p] EXCEPT !.idx = proc[p].idx + 1])
    BY <1>4, Zenon DEF EnsureDirectory
  <2>3. proc[p].pc \notin WritePoints
    BY <1>4 DEF EnsureDirectory, WritePoints
  <2> QED  BY <1>2, <2>1, <2>2, <2>3, QuietSet DEF WritePoints
<1> QED  BY <1>3, <1>4

\* Reading a file back, and the last persist.
LEMMA CountChecked ==
  ASSUME IInv, AllChecked, NEW p \in Procs, VerifyCommitted(p) \/ PersistCommitted(p)
  PROVE  AllChecked'
<1>1. proc[p] \in Process /\ proc[p].j \in Journal
  BY DEF IInv, TypeOK, Process
<1>2. UNCHANGED <<target, orig, new, raced>>
  BY DEF VerifyCommitted, PersistCommitted, fsVars, planVars, ghostVars
<1>3. CASE VerifyCommitted(p)
  <2>1. proc[p].idx \in 0..N
    <3>1. proc[p].pc = "verify"
      BY <1>3 DEF VerifyCommitted
    <3>2. proc[p].idx \in Files
      BY <3>1 DEF IInv, At, Indexed
    <3> QED  BY <3>2, ConstantsAssumption DEF Files
  <2>2. PICK k \in Journal : k = [proc[p].j EXCEPT !.committed = CommittedAfter(proc[p].idx)]
    BY <1>1, <2>1, WithCommitted DEF CommittedAfter
  <2>3. [proc[p] EXCEPT !.j.committed = CommittedAfter(proc[p].idx)] \in Process
    BY <1>1, <2>2 DEF Process
  <2>4. AfterFile([proc[p] EXCEPT !.j.committed = CommittedAfter(proc[p].idx)]).pc \notin WritePoints
    BY <2>3, AfterFileMoves
  <2>5. \/ Set(p, AfterFile([proc[p] EXCEPT !.j.committed = CommittedAfter(proc[p].idx)]))
        \/ \E e : FailCommit(p, e)
    BY <1>3, Zenon DEF VerifyCommitted
  <2> QED  BY <1>2, <2>4, <2>5, QuietSet, QuietFailure
<1>4. CASE PersistCommitted(p)
  <2>1. \A j : [proc[p] EXCEPT !.pc = "cleanup", !.res = "ok", !.j = j].pc = "cleanup"
    BY <1>1, ChangedFields
  <2>2. \/ \E j : Set(p, [proc[p] EXCEPT !.pc = "cleanup", !.res = "ok", !.j = j])
        \/ Return(p, "ok")
    BY <1>4, Zenon DEF PersistCommitted
  <2> QED  BY <1>2, <2>1, <2>2, QuietSet, QuietFailure DEF WritePoints
<1> QED  BY <1>3, <1>4

\* The beginning and the end of rollback.
LEMMA RollbackChecked ==
  ASSUME IInv, AllChecked, NEW p \in Procs,
         RollbackBegin(p) \/ RollbackDirectories(p) \/ PersistRolledBack(p)
  PROVE  AllChecked'
<1>1. proc[p] \in Process
  BY DEF IInv, TypeOK
<1>2. UNCHANGED <<target, orig, new, raced>>
  BY DEF RollbackBegin, RollbackDirectories, PersistRolledBack, fsVars, planVars, ghostVars
<1>3. \/ \E j, n : Set(p, [proc[p] EXCEPT !.pc = "rbCheck", !.j = j, !.idx = n])
      \/ Set(p, [proc[p] EXCEPT !.pc = "rbPersist"])
      \/ \E j, e : Set(p, [proc[p] EXCEPT !.pc = "cleanup", !.j = j, !.res = e])
  BY Zenon DEF RollbackBegin, RollbackDirectories, PersistRolledBack
<1>4. /\ \A j, n : [proc[p] EXCEPT !.pc = "rbCheck", !.j = j, !.idx = n].pc = "rbCheck"
      /\ [proc[p] EXCEPT !.pc = "rbPersist"].pc = "rbPersist"
      /\ \A j, e : [proc[p] EXCEPT !.pc = "cleanup", !.j = j, !.res = e].pc = "cleanup"
  BY <1>1, ChangedFields
<1> QED  BY <1>2, <1>3, <1>4, QuietSet DEF WritePoints

\* Removing the transaction directory.
LEMMA CleanupChecked ==
  ASSUME IInv, AllChecked, NEW p \in Procs, CleanupTransaction(p)
  PROVE  AllChecked'
<1>1. UNCHANGED <<target, orig, new, raced>> /\ (Return(p, proc[p].res) \/ UNCHANGED proc)
  BY DEF CleanupTransaction, fsVars, planVars
<1>2. CASE UNCHANGED proc
  BY <1>1, <1>2 DEF AllChecked, Checked, IsOriginal, IsNew
<1> QED  BY <1>1, <1>2, QuietFailure

\* Reconciling one file.
LEMMA ReconcileChecked ==
  ASSUME IInv, AllChecked, NEW p \in Procs, ReconcileFile(p)
  PROVE  AllChecked'
<1>1. proc[p] \in Process /\ proc[p].pc = "reconcile"
  BY DEF IInv, TypeOK, ReconcileFile
<1>2. UNCHANGED <<target, orig, new, raced>>
  BY DEF ReconcileFile, fsVars, planVars, ghostVars
<1>3. PICK q \in {"commit", "rbBegin"} : q = IF proc[p].op = "resume" THEN "commit" ELSE "rbBegin"
  OBVIOUS
<1>4. \/ \E e : Return(p, e)
      \/ \E n, c, s : Set(p, [proc[p] EXCEPT !.idx = n, !.count = c, !.saw = s])
      \/ \E j : Set(p, [proc[p] EXCEPT !.pc = q, !.j = j, !.count = 0, !.saw = FALSE])
  BY <1>3, Zenon DEF ReconcileFile
<1>5. /\ \A n, c, s : [proc[p] EXCEPT !.idx = n, !.count = c, !.saw = s].pc = "reconcile"
      /\ \A j : [proc[p] EXCEPT !.pc = q, !.j = j, !.count = 0, !.saw = FALSE].pc = q
  BY <1>1 DEF Process
<1>6. CASE \E n, c, s : Set(p, [proc[p] EXCEPT !.idx = n, !.count = c, !.saw = s])
  BY <1>2, <1>5, <1>6, QuietSet DEF WritePoints
<1>7. CASE \E j : Set(p, [proc[p] EXCEPT !.pc = q, !.j = j, !.count = 0, !.saw = FALSE])
  BY <1>2, <1>5, <1>7, QuietSet DEF WritePoints
<1> QED  BY <1>2, <1>4, <1>6, <1>7, QuietFailure

\* A crash or an I/O error.
LEMMA FaultChecked ==
  ASSUME IInv, AllChecked, NEW p \in Procs, Crash(p) \/ IoFailure(p)
  PROVE  AllChecked'
<1>1. proc[p] \in Process
  BY DEF IInv, TypeOK
<1>2. UNCHANGED <<target, orig, new, raced>>
  BY DEF Crash, IoFailure, fsVars, planVars, ghostVars
<1>3. \/ Return(p, "fault") \/ FailCommit(p, "fault") \/ FailRollback(p, "fault")
      \/ Set(p, [proc[p] EXCEPT !.pc = "cleanup", !.res = "fault"])
      \/ Set(p, [proc[p] EXCEPT !.pc = "rbBegin", !.res = "fault",
                                !.j.committed = CommittedAfter(proc[p].idx)])
  BY Zenon DEF Crash, IoFailure, FailCounted
<1>4. /\ [proc[p] EXCEPT !.pc = "cleanup", !.res = "fault"].pc = "cleanup"
      /\ [proc[p] EXCEPT !.pc = "rbBegin", !.res = "fault",
                         !.j.committed = CommittedAfter(proc[p].idx)].pc = "rbBegin"
  BY <1>1 DEF Process
<1> QED  BY <1>2, <1>3, <1>4, QuietSet, QuietFailure DEF WritePoints

\* create_transaction and prepare write only the plan of their own
\* transaction.
LEMMA PlanChecked ==
  ASSUME IInv, AllChecked, NEW p \in Procs,
         (\E c, keep : CreateTransaction(p, c, keep)) \/ PrepareFile(p)
  PROVE  AllChecked'
<1>1. proc[p] \in Process
  BY DEF IInv, TypeOK
<1>2. UNCHANGED <<target, raced>>
  BY DEF CreateTransaction, PrepareFile, fsVars, ghostVars
<1>3. \A u \in Txns : u # proc[p].txn => orig'[u] = orig[u] /\ new'[u] = new[u]
  BY DEF CreateTransaction, PrepareFile, IInv, TypeOK
<1>4. proc' = [proc EXCEPT ![p] = proc'[p]] /\ proc'[p].pc \notin WritePoints
  <2>1. CASE \E c, keep : CreateTransaction(p, c, keep)
    <3>1. [proc[p] EXCEPT !.pc = "prepare", !.idx = 1].pc = "prepare"
      BY <1>1, ChangedFields
    <3> QED  BY <2>1, <3>1, SetMoves DEF CreateTransaction, WritePoints
  <2>2. CASE PrepareFile(p)
    <3>1. /\ [proc[p] EXCEPT !.pc = "persistPrepared"].pc = "persistPrepared"
          /\ [proc[p] EXCEPT !.idx = proc[p].idx + 1].pc = proc[p].pc
      BY <1>1, ChangedFields
    <3>2. \/ Return(p, "NotRegularFile")
          \/ Set(p, [proc[p] EXCEPT !.pc = "persistPrepared"])
          \/ Set(p, [proc[p] EXCEPT !.idx = proc[p].idx + 1])
      BY <2>2, Zenon DEF PrepareFile
    <3>3. proc[p].pc = "prepare"
      BY <2>2 DEF PrepareFile
    <3> QED  BY <3>1, <3>2, <3>3, SetMoves, ReturnMoves DEF WritePoints
  <2> QED  BY <2>1, <2>2
<1>5. StepOf(p)
  BY <1>2, <1>3, <1>4 DEF StepOf
<1>6. Checked(p)'
  BY <1>4 DEF Checked, WritePoints
<1> QED  BY <1>5, <1>6, OthersChecked

\* verify_precondition passes only a file that is still the original.
LEMMA PreconditionChecked ==
  ASSUME IInv, AllChecked, NEW p \in Procs, Precondition(p)
  PROVE  AllChecked'
<1>1. proc[p] \in Process
  BY DEF IInv, TypeOK
<1>2. UNCHANGED <<target, orig, new>>
  BY DEF Precondition, fsVars, planVars
<1>3. CASE IsOriginal(proc[p].txn, proc[p].idx)
  <2> DEFINE r == [proc[p] EXCEPT !.pc = "replace"]
  <2>1. r.pc = "replace" /\ r.txn = proc[p].txn /\ r.idx = proc[p].idx
    BY <1>1 DEF Process
  <2>2. proc' = [proc EXCEPT ![p] = proc'[p]] /\ proc'[p] = r /\ raced' = raced \ {p}
    BY <1>3, SetMoves DEF Precondition, PreconditionHolds
  <2>3. StepOf(p)
    BY <1>2, <2>2 DEF StepOf
  <2>4. Checked(p)'
    BY <1>2, <1>3, <2>1, <2>2 DEF Checked, IsOriginal, IsNew
  <2> QED  BY <2>3, <2>4, OthersChecked
<1>4. CASE ~IsOriginal(proc[p].txn, proc[p].idx)
  BY <1>2, <1>4, QuietFailure DEF Precondition, PreconditionHolds
<1> QED  BY <1>3, <1>4

\* rollback goes on to replace or remove only a file that is the capsule's.
LEMMA RollbackCheckChecked ==
  ASSUME IInv, AllChecked, NEW p \in Procs, RollbackCheck(p)
  PROVE  AllChecked'
<1> DEFINE t == proc[p].txn
           i == proc[p].idx
<1>1. proc[p] \in Process
  BY DEF IInv, TypeOK
<1>2. UNCHANGED <<target, orig, new>> /\ raced' = raced \ {p}
  BY DEF RollbackCheck, planVars
<1>3. /\ \A c : /\ [proc[p] EXCEPT !.pc = c].pc = c
               /\ [proc[p] EXCEPT !.pc = c].txn = t
               /\ [proc[p] EXCEPT !.pc = c].idx = i
      /\ BeforeFile(proc[p]).pc \notin WritePoints
  BY <1>1, BeforeFileMoves DEF Process
<1>4. \/ \E e : FailRollback(p, e)
      \/ Set(p, BeforeFile(proc[p]))
      \/ IsNew(t, i) /\ Set(p, [proc[p] EXCEPT !.pc = "rbRemove"])
      \/ IsNew(t, i) /\ Set(p, [proc[p] EXCEPT !.pc = "rbReplace"])
  BY Zenon DEF RollbackCheck
<1>5. /\ proc' = [proc EXCEPT ![p] = proc'[p]]
      /\ \/ proc'[p].pc \notin WritePoints
         \/ /\ IsNew(t, i) /\ proc'[p].pc \in {"rbRemove", "rbReplace"}
            /\ proc'[p].txn = t /\ proc'[p].idx = i
  <2>1. ASSUME NEW e, FailRollback(p, e)
        PROVE  proc' = [proc EXCEPT ![p] = proc'[p]] /\ proc'[p].pc \notin WritePoints
    BY <2>1, FailMoves
  <2>2. ASSUME NEW r, Set(p, r)
        PROVE  proc' = [proc EXCEPT ![p] = proc'[p]] /\ proc'[p] = r
    BY <2>2, SetMoves
  <2> QED  BY <1>3, <1>4, <2>1, <2>2
<1>6. StepOf(p)
  BY <1>2, <1>5 DEF StepOf
<1>7. Checked(p)'
  BY <1>2, <1>5 DEF Checked, WritePoints, IsNew, IsOriginal
<1> QED  BY <1>6, <1>7, OthersChecked

\* Making the parent and writing the temporary keep what the check saw.
LEMMA ReplaceChecked ==
  ASSUME IInv, AllChecked, NEW p \in Procs, MakeParent(p) \/ WriteTemp(p)
  PROVE  AllChecked'
<1> DEFINE t == proc[p].txn
           i == proc[p].idx
<1>1. proc[p] \in Process /\ Checked(p)
  BY DEF IInv, TypeOK, AllChecked
<1>2. UNCHANGED <<target, orig, new, raced>>
  BY DEF MakeParent, WriteTemp, planVars, ghostVars
<1>3. proc[p].pc \in {"replace", "rbReplace"}
  BY DEF MakeParent, WriteTemp
<1>0. PICK c : c = IF proc[p].pc = "replace" THEN "rename" ELSE "rbRename"
  OBVIOUS
<1>4. \/ \E d : Set(p, [proc[p] EXCEPT !.j.created = proc[p].j.created \cup {d}])
      \/ \E e : FailReplace(p, e)
      \/ Set(p, [proc[p] EXCEPT !.pc = c])
  BY <1>0, Zenon DEF MakeParent, WriteTemp
<1>5. /\ \A d : LET r == [proc[p] EXCEPT !.j.created = proc[p].j.created \cup {d}]
             IN  r.pc = proc[p].pc /\ r.txn = t /\ r.idx = i
      /\ LET r == [proc[p] EXCEPT !.pc = c]
         IN  r.pc = c /\ r.txn = t /\ r.idx = i
  BY <1>1 DEF Process
<1>6. /\ proc' = [proc EXCEPT ![p] = proc'[p]]
      /\ \/ proc'[p].pc \notin WritePoints
         \/ /\ proc'[p].txn = t /\ proc'[p].idx = i
            /\ proc'[p].pc \in {proc[p].pc, c}
  <2>1. ASSUME NEW e, FailReplace(p, e)
        PROVE  proc' = [proc EXCEPT ![p] = proc'[p]] /\ proc'[p].pc \notin WritePoints
    BY <2>1, FailMoves
  <2>2. ASSUME NEW r, Set(p, r)
        PROVE  proc' = [proc EXCEPT ![p] = proc'[p]] /\ proc'[p] = r
    BY <2>2, SetMoves
  <2> QED  BY <1>4, <1>5, <2>1, <2>2
<1>7. StepOf(p)
  BY <1>2, <1>6 DEF StepOf
<1>8. Checked(p)'
  <2>1. CASE proc'[p].pc \notin WritePoints
    BY <2>1 DEF Checked, WritePoints
  <2>2. CASE proc'[p].pc \in WritePoints
    <3>1. proc'[p].txn = t /\ proc'[p].idx = i
      BY <1>6, <2>2
    <3>2. /\ proc[p].pc = "replace" => proc'[p].pc \in {"replace", "rename"}
          /\ proc[p].pc = "rbReplace" => proc'[p].pc \in {"rbReplace", "rbRename"}
      BY <1>0, <1>6, <2>2
    <3> QED  BY <1>1, <1>2, <1>3, <3>1, <3>2 DEF Checked, IsOriginal, IsNew
  <2> QED  BY <2>1, <2>2
<1> QED  BY <1>7, <1>8, OthersChecked

\* A process that changes its file marks the others that are about to write
\* it, and is off the write points itself.
LEMMA WriteChecked ==
  ASSUME IInv, AllChecked, NEW p \in Procs, Rename(p) \/ RemoveTarget(p)
  PROVE  AllChecked'
<1> DEFINE t == proc[p].txn
           i == proc[p].idx
<1>1. proc[p] \in Process
  BY DEF IInv, TypeOK
<1>2. UNCHANGED <<orig, new>>
  BY DEF Rename, RemoveTarget, planVars
<1>3. CASE UNCHANGED target /\ UNCHANGED raced
  <2>1. \/ Set(p, BeforeFile(proc[p])) \/ Set(p, [proc[p] EXCEPT !.pc = "verify"])
        \/ \E e : FailReplace(p, e) \/ FailRollback(p, e)
    BY Zenon DEF Rename, RemoveTarget
  <2>2. BeforeFile(proc[p]).pc \notin WritePoints /\ [proc[p] EXCEPT !.pc = "verify"].pc = "verify"
    BY <1>1, ChangedFields, BeforeFileMoves
  <2> QED  BY <1>2, <1>3, <2>1, <2>2, QuietSet, QuietFailure DEF WritePoints
<1>4. CASE ~(UNCHANGED target /\ UNCHANGED raced)
  <2>1. /\ Disturb(t, p, i)
        /\ \E v : target' = [target EXCEPT ![i] = v]
        /\ Set(p, BeforeFile(proc[p])) \/ Set(p, [proc[p] EXCEPT !.pc = "verify"])
    BY <1>4, Zenon DEF Rename, RemoveTarget, ghostVars
  <2>2. proc' = [proc EXCEPT ![p] = proc'[p]] /\ proc'[p].pc \notin WritePoints
    <3>1. BeforeFile(proc[p]).pc \notin WritePoints /\ [proc[p] EXCEPT !.pc = "verify"].pc = "verify"
      BY <1>1, ChangedFields, BeforeFileMoves
    <3>2. CASE Set(p, BeforeFile(proc[p]))
      BY <3>1, <3>2, SetMoves
    <3>3. CASE Set(p, [proc[p] EXCEPT !.pc = "verify"])
      BY <3>1, <3>3, SetMoves DEF WritePoints
    <3> QED  BY <2>1, <3>2, <3>3
  <2>3. \A k : k # i => target'[k] = target[k]
    BY <2>1 DEF IInv, TypeOK
  <2>4. StepOf(p)
    BY <1>2, <2>1, <2>2, <2>3 DEF StepOf, Disturb, WritePoints
  <2>5. Checked(p)'
    BY <2>2 DEF Checked, WritePoints
  <2> QED  BY <2>4, <2>5, OthersChecked
<1> QED  BY <1>3, <1>4

\* So does the independent writer.
LEMMA ExternalChecked ==
  ASSUME IInv, AllChecked, NEW i \in Files, NEW v, ExternalWrite(i, v)
  PROVE  AllChecked'
<1> SUFFICES ASSUME NEW q \in Procs  PROVE Checked(q)'
  BY DEF AllChecked
<1>1. UNCHANGED <<proc, orig, new>> /\ Disturb(NoTxn, NoTxn, i)
  BY DEF ExternalWrite, planVars
<1>2. \A k : k # i => target'[k] = target[k]
  BY DEF ExternalWrite, IInv, TypeOK
<1>3. q # NoTxn
  BY ConstantsAssumption
<1>4. q \notin raced' => q \notin raced
  BY <1>1 DEF Disturb
<1>5. q \notin raced' /\ proc[q].pc \in WritePoints => target'[proc[q].idx] = target[proc[q].idx]
  BY <1>1, <1>2, <1>3 DEF Disturb, WritePoints
<1>6. Checked(q)
  BY DEF AllChecked
<1> QED  BY <1>1, <1>4, <1>5, <1>6 DEF Checked, WritePoints, IsOriginal, IsNew

\* What the checks saw holds until the write, or the process was raced.
LEMMA CheckedPreserved ==
  ASSUME IInv, AllChecked, [Next]_vars
  PROVE  AllChecked'
<1>1. ASSUME NEW p \in Procs, BeginApply(p) PROVE AllChecked'
  BY <1>1, BeginChecked
<1>2. ASSUME NEW p \in Procs, Step(p) PROVE AllChecked'
  <2>1. CASE (\E c \in Capsules, keep \in BOOLEAN : CreateTransaction(p, c, keep)) \/ PrepareFile(p)
    BY <1>2, <2>1, PlanChecked
  <2>2. CASE PersistPrepared(p) \/ StageFile(p) \/ PersistStaged(p)
    BY <1>2, <2>2, PrepareChecked
  <2>3. CASE CommitBegin(p) \/ EnsureDirectory(p) \/ Precondition(p)
    BY <1>2, <2>3, CommitChecked, PreconditionChecked
  <2>4. CASE MakeParent(p) \/ WriteTemp(p) \/ Rename(p) \/ RemoveTarget(p)
    BY <1>2, <2>4, ReplaceChecked, WriteChecked
  <2>5. CASE VerifyCommitted(p) \/ PersistCommitted(p)
    BY <1>2, <2>5, CountChecked
  <2>6. CASE RollbackBegin(p) \/ RollbackCheck(p) \/ RollbackDirectories(p) \/ PersistRolledBack(p)
    BY <1>2, <2>6, RollbackChecked, RollbackCheckChecked
  <2>7. CASE CleanupTransaction(p) \/ ReconcileFile(p)
    BY <1>2, <2>7, CleanupChecked, ReconcileChecked
  <2> QED  BY <1>2, <2>1, <2>2, <2>3, <2>4, <2>5, <2>6, <2>7, Zenon DEF Step
<1>3. ASSUME NEW p \in Procs, Crash(p) \/ IoFailure(p) PROVE AllChecked'
  BY <1>3, FaultChecked
<1>4. ASSUME NEW p \in Procs, NEW t \in Txns,
             ResumeTransaction(p, t) \/ RollbackTransaction(p, t)
      PROVE  AllChecked'
  BY <1>4, RecoveryChecked DEF ResumeTransaction, RollbackTransaction
<1>5. ASSUME NEW i \in Files, NEW v \in WriterStates, ExternalWrite(i, v) PROVE AllChecked'
  BY <1>5, ExternalChecked
<1>6. CASE UNCHANGED vars
  BY <1>6 DEF vars, fsVars, planVars, ghostVars, AllChecked, Checked, IsOriginal, IsNew
<1> QED BY <1>1, <1>2, <1>3, <1>4, <1>5, <1>6 DEF Next

\* A process changes a file only at a write point, and only its own.
LEMMA WritesAtPoints ==
  ASSUME IInv, [Next]_vars, NEW p \in Procs, NEW i \in Files,
         proc'[p] # proc[p], target'[i] # target[i]
  PROVE  proc[p].pc \in WritePoints /\ proc[p].idx = i
<1>1. ASSUME NEW q \in Procs, Rename(q) \/ RemoveTarget(q)
      PROVE  proc[p].pc \in WritePoints /\ proc[p].idx = i
  <2>1. \/ \E r : Set(q, r)
        \/ \E e : FailReplace(q, e) \/ FailRollback(q, e)
    BY <1>1, Zenon DEF Rename, RemoveTarget
  <2>2. proc' = [proc EXCEPT ![q] = proc'[q]]
    <3>1. ASSUME NEW r, Set(q, r)  PROVE proc' = [proc EXCEPT ![q] = proc'[q]]
      BY <3>1, SetMoves
    <3>2. ASSUME NEW e, FailReplace(q, e) \/ FailRollback(q, e)
          PROVE  proc' = [proc EXCEPT ![q] = proc'[q]]
      BY <3>2, FailMoves
    <3> QED  BY <2>1, <3>1, <3>2
  <2>3. p = q
    BY <2>2 DEF IInv, TypeOK
  <2>4. proc[q].idx = i
    BY <1>1 DEF Rename, RemoveTarget, IInv, TypeOK
  <2> QED  BY <1>1, <2>3, <2>4 DEF Rename, RemoveTarget, WritePoints
<1>2. ASSUME NEW k, NEW v, ExternalWrite(k, v)  PROVE FALSE
  BY <1>2 DEF ExternalWrite
<1>3. ASSUME NEW q \in Procs, Step(q), ~Rename(q), ~RemoveTarget(q)  PROVE FALSE
  <2>1. UNCHANGED target
    BY <1>3 DEF Step, fsVars, CreateTransaction, PrepareFile, PersistPrepared, StageFile,
      PersistStaged, CommitBegin, EnsureDirectory, Precondition, MakeParent, WriteTemp,
      VerifyCommitted, PersistCommitted, RollbackBegin, RollbackCheck, RollbackDirectories,
      PersistRolledBack, CleanupTransaction, ReconcileFile
  <2> QED  BY <2>1
<1>4. ASSUME NEW q \in Procs, NEW t,
             \/ BeginApply(q) \/ Crash(q) \/ IoFailure(q)
             \/ ResumeTransaction(q, t) \/ RollbackTransaction(q, t)
      PROVE  FALSE
  BY <1>4 DEF BeginApply, Crash, IoFailure, ResumeTransaction, RollbackTransaction,
     BeginRecovery, fsVars
<1>5. ~UNCHANGED vars
  BY DEF vars, fsVars
<1> QED  BY <1>1, <1>2, <1>3, <1>4, <1>5 DEF Next

\* Data of others is never overwritten or deleted by commit or rollback, for
\* any number of processes and any independent writer: a write finds the file
\* as the check before it saw it, unless the file changed in between.
THEOREM ForeignDataIsSafe == Spec => NoForeignOverwrite
<1> DEFINE Keeps == \A p \in Procs, i \in Files :
             (proc[p].txn # NoTxn /\ proc'[p] # proc[p] /\ target'[i] # target[i] /\ p \notin raced)
               => IsOriginal(proc[p].txn, i) \/ IsNew(proc[p].txn, i)
<1>1. Init => AllChecked
  BY DEF Init, AllChecked, Checked, Idle
<1>2. IInv /\ AllChecked /\ [Next]_vars => AllChecked'
  BY CheckedPreserved
<1>3. IInv /\ AllChecked /\ [Next]_vars => [Keeps]_vars
  <2> SUFFICES ASSUME IInv, AllChecked, [Next]_vars, NEW p \in Procs, NEW i \in Files,
                      proc'[p] # proc[p], target'[i] # target[i], p \notin raced
               PROVE  IsOriginal(proc[p].txn, i) \/ IsNew(proc[p].txn, i)
    OBVIOUS
  <2>1. proc[p].pc \in WritePoints /\ proc[p].idx = i
    BY WritesAtPoints
  <2> QED  BY <2>1 DEF AllChecked, Checked, WritePoints
<1> QED  BY <1>1, <1>2, <1>3, Invariance, PTL DEF Spec, NoForeignOverwrite

-----------------------------------------------------------------------------
(* Recovery where faults leave no debris: rollback is never refused, and   *)
(* what is left behind can be inspected.                                   *)

\* The points at which an interruption leaves a transaction without a journal,
\* without its backups or with a temporary in the way of rollback, which is
\* what the documents' promise does not survive.
RecoverableFaults ==
  FaultPoints \cap {"prepare", "persistPrepared", "stage", "rbRename", "cleanup"} = {}

\* Nobody puts a link or another non regular file at a target.
RegularTrees ==
  /\ \A tree \in InitialTargets, i \in Files : tree[i] # Special
  /\ Special \notin WriterStates

Regular == \A i \in Files : target[i] # Special

\* A transaction on disk has its journal and its backups, except while the
\* process that makes or removes it is at work.
Unsettled == {"prepare", "persistPrepared", "stage", "cleanup"}
StoredWell(t) ==
  t \in present =>
    \/ \E p \in Procs : proc[p].txn = t /\ proc[p].pc \in Unsettled
    \/ journal[t] # NoJournal /\ BackedUp(t)

\* A temporary of rollback is that of a process about to rename it.
StrayFree ==
  \A f \in temps : f.kind = "rollback" => \E p \in Procs : proc[p].pc = "rbRename" /\ f = TempOf(p)

\* Someone changed a file of a transaction whose plan stands.
Settled(t) == t \in used /\ \A p \in Procs : proc[p].txn = t => proc[p].pc \notin {"create", "prepare"}
ForeignHand == \E t \in Txns, i \in Files : <<t, i>> \in touched /\ Settled(t)

\* What a process in state r knows beyond IInv.
RollbackRuns == {"reconcile", "cleanup"} \cup RollbackPoints
Recovering(r) ==
  /\ r.op = "rollback" => r.pc = "idle" \/ r.pc \in RollbackRuns
  /\ r.op = "rollback" /\ r.pc = "cleanup" => r.res = "ok"
  /\ r.op = "rollback" /\ r.pc = "idle" => r.res \in {"ok", "fault"} \/ ForeignHand
  /\ r.pc = "stage" => \A i \in Files : i < r.idx /\ NeedsBackup(r.txn, i) => BackupMatches(r.txn, i)
  /\ r.pc = "reconcile" /\ r.saw =>
       r.count + 1 < r.idx /\ (Own(r.txn, r.count + 1) => ~IsNew(r.txn, r.count + 1))

RInv ==
  /\ Regular
  /\ \A t \in Txns : StoredWell(t)
  /\ StrayFree
  /\ \A p \in Procs : Recovering(proc[p])

\* A step of p, which works on t, if there are such: the other processes and
\* transactions stay, and a changed file is marked for them.
Around(p, t) ==
  /\ p \in Procs => proc[p].txn \in {t, NoTxn} /\ proc'[p].txn \in {t, NoTxn}
  /\ \A q \in Procs : q # p => proc'[q] = proc[q] /\ (t \in Txns => proc[q].txn # t)
  /\ used \subseteq used'
  /\ \A u \in Txns : u # t =>
       /\ journal'[u] = journal[u] /\ backup'[u] = backup[u]
       /\ orig'[u] = orig[u] /\ new'[u] = new[u]
       /\ u \in present' => u \in present
       /\ \A i \in Files : /\ <<u, i>> \in touched => <<u, i>> \in touched'
                           /\ u \in present /\ target'[i] # target[i] => <<u, i>> \in touched'

\* A settled change by someone else stays one.
LEMMA HandKept ==
  ASSUME IInv, ForeignHand, NEW p, NEW t, Around(p, t),
         \/ p \in Procs /\ proc[p].pc \in {"create", "prepare"}
         \/ \A i \in Files : <<t, i>> \in touched => <<t, i>> \in touched',
         p \in Procs /\ proc'[p].pc \in {"create", "prepare"} =>
           proc[p].pc \in {"create", "prepare"} \/ t \notin used
  PROVE  ForeignHand'
<1>1. PICK u \in Txns, i \in Files : <<u, i>> \in touched /\ Settled(u)
  BY DEF ForeignHand
<1>2. \A q \in Procs : q # p => proc'[q] = proc[q]
  BY DEF Around
<1>3. p \in Procs /\ proc[p].pc \in {"create", "prepare"} => proc[p].txn = t
  BY Busy, ConstantsAssumption DEF Around
<1>4. <<u, i>> \in touched'
  BY <1>1, <1>3 DEF Around, Settled
<1>5. Settled(u)'
  <2>1. u \in used'
    BY <1>1 DEF Settled, Around
  <2>2. ASSUME NEW q \in Procs, proc'[q].txn = u  PROVE proc'[q].pc \notin {"create", "prepare"}
    <3>1. CASE q # p
      BY <1>1, <1>2, <2>2, <3>1 DEF Settled
    <3>2. CASE q = p
      <4>1. u = t
        BY <2>2, <3>2, ConstantsAssumption DEF Around
      <4> QED  BY <1>1, <1>3, <3>2, <4>1 DEF Settled
    <3> QED  BY <3>1, <3>2
  <2> QED  BY <2>1, <2>2 DEF Settled
<1> QED  BY <1>4, <1>5 DEF ForeignHand

\* Replacing a constant by the process state it is equal to.
LEMMA RecoveringNext ==
  ASSUME NEW p, NEW r, r = proc'[p], Recovering(r)'
  PROVE  Recovering(proc[p])'
BY DEF Recovering

\* The parts of the invariant that are not about p and t.
LEMMA OthersRecover ==
  ASSUME IInv, RInv, NEW p, NEW t, Around(p, t), ForeignHand => ForeignHand'
  PROVE  /\ \A q \in Procs : q # p => Recovering(proc[q])'
         /\ \A u \in Txns : u # t => StoredWell(u)'
<1>1. \A q \in Procs : q # p => proc'[q] = proc[q] /\ (t \in Txns => proc[q].txn # t)
  BY DEF Around
<1>2. ASSUME NEW q \in Procs, q # p  PROVE Recovering(proc[q])'
  <2>1. PICK r \in Process : r = proc[q] /\ r = proc'[q]
    BY <1>1, <1>2 DEF IInv, TypeOK
  <2>2. Recovering(r)
    BY <2>1 DEF RInv
  <2>3. CASE r.pc \notin {"stage", "reconcile"}
    <3>1. Recovering(r)'
      BY <2>2, <2>3 DEF Recovering
    <3> QED  BY <2>1, <3>1, RecoveringNext
  <2>4. CASE r.pc \in {"stage", "reconcile"}
    <3>1. PICK u \in Txns : u = r.txn /\ u \in present /\ u # t
      BY <1>1, <1>2, <2>1, <2>4, Busy
    <3>2. backup'[u] = backup[u] /\ orig'[u] = orig[u] /\ new'[u] = new[u]
      BY <3>1 DEF Around
    <3>3. \A i \in Files : Own(u, i)' => Own(u, i) /\ target'[i] = target[i]
      BY <3>1 DEF Around, Own
    <3>4. \A i \in Files : NeedsBackup(u, i)' = NeedsBackup(u, i) /\ BackupMatches(u, i)' = BackupMatches(u, i)
      BY <3>2 DEF NeedsBackup, BackupMatches
    <3>5. \A i \in Files : (Own(u, i) => ~IsNew(u, i)) => (Own(u, i)' => ~IsNew(u, i)')
      BY <3>2, <3>3 DEF IsNew
    <3>6. r.pc = "reconcile" => r.idx \in Files /\ r.count \in 0..N
      BY <2>1, <2>4, Busy DEF At, Indexed, Process
    <3>7. r.pc = "reconcile" /\ r.saw => r.count + 1 \in Files
      BY <2>2, <3>6, ConstantsAssumption DEF Recovering, Files
    <3>8. Recovering(r)'
      BY <2>2, <3>1, <3>4, <3>5, <3>7 DEF Recovering
    <3> QED  BY <2>1, <3>8, RecoveringNext
  <2> QED  BY <2>3, <2>4
<1>3. ASSUME NEW u \in Txns, u # t, u \in present'
      PROVE  \/ \E q \in Procs : proc'[q].txn = u /\ proc'[q].pc \in Unsettled
             \/ journal'[u] # NoJournal /\ BackedUp(u)'
  <2>1. u \in present /\ journal'[u] = journal[u] /\ backup'[u] = backup[u] /\ orig'[u] = orig[u]
    BY <1>3 DEF Around
  <2>2. BackedUp(u)' = BackedUp(u)
    BY <2>1 DEF BackedUp, NeedsBackup, BackupMatches
  <2>3. CASE \E q \in Procs : proc[q].txn = u /\ proc[q].pc \in Unsettled
    <3>1. PICK q \in Procs : proc[q].txn = u /\ proc[q].pc \in Unsettled
      BY <2>3
    <3>2. q # p
      BY <1>3, <3>1, ConstantsAssumption DEF Around
    <3> QED  BY <1>1, <3>1, <3>2
  <2> QED  BY <1>3, <2>1, <2>2, <2>3 DEF RInv, StoredWell
<1> QED  BY <1>2, <1>3 DEF StoredWell

\* The invariant from the parts of p and t.
LEMMA RCombine ==
  ASSUME IInv, RInv, NEW p, NEW t, Around(p, t), ForeignHand => ForeignHand',
         Regular', t \in Txns => StoredWell(t)', StrayFree', p \in Procs => Recovering(proc[p])'
  PROVE  RInv'
BY OthersRecover DEF RInv

\* Steps that touch no temporary of rollback.
LEMMA StrayKept ==
  ASSUME IInv, StrayFree, NEW p \in Procs, proc' = [proc EXCEPT ![p] = proc'[p]],
         \A f \in temps' : f \in temps \/ f.kind = "commit", proc[p].pc # "rbRename"
  PROVE  StrayFree'
<1> SUFFICES ASSUME NEW f \in temps', f.kind = "rollback"
             PROVE  \E q \in Procs : proc'[q].pc = "rbRename" /\ f = TempOf(q)'
  BY DEF StrayFree
<1>1. PICK q \in Procs : proc[q].pc = "rbRename" /\ f = TempOf(q)
  BY DEF StrayFree
<1>2. proc'[q] = proc[q]
  BY <1>1 DEF IInv, TypeOK
<1>3. f = TempOf(q)'
  BY <1>1, <1>2 DEF TempOf, Kind
<1> QED  BY <1>1, <1>2, <1>3

\* A running step that leaves the files, the backups and the plans alone.
Plain(p) ==
  /\ proc[p].pc \notin {"idle", "rbRename"}
  /\ UNCHANGED <<target, present, used, backup, orig, new, touched, temps>>
  /\ proc' = [proc EXCEPT ![p] = proc'[p]]
  /\ proc'[p].txn \in {proc[p].txn, NoTxn}
  /\ journal' = journal \/ \E j \in Journal : journal' = [journal EXCEPT ![proc[p].txn] = j]
  /\ proc[p].pc \in Unsettled => proc'[p].pc \in Unsettled /\ proc'[p].txn = proc[p].txn
  /\ proc'[p].pc \notin {"create", "prepare"}

\* Such a step is one around its transaction.
LEMMA PlainAround ==
  ASSUME IInv, NEW p \in Procs, Plain(p)
  PROVE  Around(p, proc[p].txn) /\ proc[p].txn \in Txns /\ (ForeignHand => ForeignHand')
<1> DEFINE t == proc[p].txn
<1>1. t \in Txns /\ \A q \in Procs : q # p => proc[q].txn # t
  BY Busy DEF Plain
<1>2. \A u \in Txns : u # t => journal'[u] = journal[u]
  BY DEF Plain, IInv, TypeOK
<1>3. Around(p, t)
  <2>1. \A q \in Procs : q # p => proc'[q] = proc[q]
    BY DEF Plain, IInv, TypeOK
  <2> QED  BY <1>1, <1>2, <2>1 DEF Around, Plain
<1>4. ForeignHand => ForeignHand'
  BY <1>1, <1>3, HandKept DEF Plain
<1> QED  BY <1>1, <1>3, <1>4

\* Such a step keeps the invariant, if it keeps what its process knows.
LEMMA PlainRecovers ==
  ASSUME IInv, RInv, NEW p \in Procs, Plain(p), Recovering(proc[p])'
  PROVE  RInv'
<1>1. PICK t \in Txns : t = proc[p].txn /\ Around(p, t) /\ (ForeignHand => ForeignHand')
  BY PlainAround
<1>2. Regular' /\ StrayFree'
  <2>1. Regular'
    BY DEF RInv, Regular, Plain
  <2>2. StrayFree'
    BY StrayKept DEF RInv, Plain
  <2> QED  BY <2>1, <2>2
<1>3. StoredWell(t)'
  <2> SUFFICES ASSUME t \in present'
               PROVE  \/ \E q \in Procs : proc'[q].txn = t /\ proc'[q].pc \in Unsettled
                      \/ journal'[t] # NoJournal /\ BackedUp(t)'
    BY DEF StoredWell
  <2>1. CASE proc[p].pc \in Unsettled
    BY <1>1, <2>1 DEF Plain
  <2>2. CASE proc[p].pc \notin Unsettled
    <3>1. ~\E q \in Procs : proc[q].txn = t /\ proc[q].pc \in Unsettled
      BY <1>1, <2>2 DEF Around
    <3>2. journal[t] # NoJournal /\ BackedUp(t)
      BY <1>1, <3>1 DEF RInv, StoredWell, Plain
    <3>3. journal'[t] # NoJournal
      BY <1>1, <3>2, ConstantsAssumption DEF Plain, IInv, TypeOK
    <3>4. BackedUp(t)'
      BY <1>1, <3>2 DEF Plain, BackedUp, NeedsBackup, BackupMatches
    <3> QED  BY <3>3, <3>4
  <2> QED  BY <2>1, <2>2
<1> QED  BY <1>1, <1>2, <1>3, RCombine


-----------------------------------------------------------------------------
(* The steps that leave files, backups and plans alone.                    *)

FilesStill == UNCHANGED <<target, present, used, backup, orig, new, touched, temps>>
JournalWrite(p) == journal' = journal \/ \E j \in Journal : journal' = [journal EXCEPT ![proc[p].txn] = j]

\* A process that runs on, off the points that know more.
LEMMA RunsOn ==
  ASSUME NEW s, s.pc \notin {"idle", "cleanup", "stage", "reconcile"},
         s.op = "rollback" => s.pc \in RollbackPoints
  PROVE  Recovering(s)'
BY DEF Recovering, RollbackRuns

\* A process that stops, or cleans up, without having refused a rollback.
LEMMA Stops ==
  ASSUME NEW s, s.pc \in {"idle", "cleanup"},
         s.op = "rollback" => s.res = "ok" \/ (s.pc = "idle" /\ s.res = "fault")
  PROVE  Recovering(s)'
BY DEF Recovering, RollbackRuns

\* Only apply and resume are at a point of prepare, stage or commit.
LEMMA NotRollingBack ==
  ASSUME RInv, NEW p \in Procs, proc[p].pc # "idle", proc[p].pc \notin RollbackRuns
  PROVE  proc[p].op # "rollback"
BY DEF RInv, Recovering

\* A step of a settled transaction that leaves everything but the journal.
LEMMA PlainStep ==
  ASSUME IInv, RInv, NEW p \in Procs, FilesStill, JournalWrite(p),
         proc[p].pc \notin {"idle", "rbRename"} \cup Unsettled, NEW s, Set(p, s),
         s.txn \in {proc[p].txn, NoTxn}, s.pc \notin {"create", "prepare"}, Recovering(s)'
  PROVE  RInv'
<1>1. proc' = [proc EXCEPT ![p] = proc'[p]] /\ proc'[p] = s
  BY SetMoves
<1>2. Plain(p)
  BY <1>1 DEF Plain, FilesStill, JournalWrite
<1>3. Recovering(proc[p])'
  BY <1>1, RecoveringNext
<1> QED  BY <1>2, <1>3, PlainRecovers

\* Returning, without having refused a rollback.
LEMMA ReturnRecovers ==
  ASSUME IInv, RInv, NEW p \in Procs, FilesStill, journal' = journal,
         proc[p].pc \notin {"idle", "rbRename"} \cup Unsettled, NEW e, Return(p, e),
         proc[p].op = "rollback" => e \in {"ok", "fault"}
  PROVE  RInv'
<1>1. PICK s : s = Idle(proc[p].op, e)
  OBVIOUS
<1>2. s.pc = "idle" /\ s.txn = NoTxn /\ s.op = proc[p].op /\ s.res = e
  BY <1>1 DEF Idle
<1>3. Recovering(s)'
  BY <1>2, Stops
<1>4. Set(p, s)
  BY <1>1 DEF Return
<1> QED  BY <1>2, <1>3, <1>4, PlainStep DEF JournalWrite

\* A commit that fails.
LEMMA FailCommitRecovers ==
  ASSUME IInv, RInv, NEW p \in Procs, FilesStill, journal' = journal,
         proc[p].pc \notin {"idle", "rbRename"} \cup Unsettled \cup RollbackRuns,
         NEW e, FailCommit(p, e)
  PROVE  RInv'
<1>1. proc[p].op # "rollback" /\ proc[p] \in Process
  BY NotRollingBack DEF IInv, TypeOK
<1>2. CASE proc[p].op = "apply"
  <2>1. PICK s : s = [proc[p] EXCEPT !.pc = "rbBegin", !.res = e]
    OBVIOUS
  <2>2. s.pc = "rbBegin" /\ s.op = "apply" /\ s.txn = proc[p].txn
    BY <1>1, <1>2, <2>1 DEF Process
  <2>3. Recovering(s)'
    BY <2>2, RunsOn
  <2> QED  BY <1>2, <2>1, <2>2, <2>3, PlainStep DEF FailCommit, JournalWrite
<1>3. CASE proc[p].op # "apply"
  BY <1>1, <1>3, ReturnRecovers DEF FailCommit
<1> QED  BY <1>2, <1>3

\* A rollback that meets an I/O error, or that apply runs.
LEMMA FailRollbackRecovers ==
  ASSUME IInv, RInv, NEW p \in Procs, FilesStill, journal' = journal,
         proc[p].pc \notin {"idle", "rbRename"} \cup Unsettled, NEW e, FailRollback(p, e),
         proc[p].op = "rollback" => e \in {"ok", "fault"}
  PROVE  RInv'
BY ReturnRecovers DEF FailRollback

\* The steps that persist the plan and the end of stage.
LEMMA PersistPreparedRecovers ==
  ASSUME IInv, RInv, NEW p \in Procs, PersistPrepared(p)
  PROVE  RInv'
<1>1. proc[p].pc = "persistPrepared" /\ proc[p] \in Process /\ proc[p].op = "apply" /\ proc[p].j = EmptyJournal
  BY Busy DEF PersistPrepared, At, Indexed, Preparing
<1>2. PICK s : s = [proc[p] EXCEPT !.pc = "stage", !.idx = 1]
  OBVIOUS
<1>3. s.pc = "stage" /\ s.idx = 1 /\ s.op = "apply" /\ s.txn = proc[p].txn
  BY <1>1, <1>2 DEF Process
<1>4. Recovering(s)'
  BY <1>3 DEF Recovering, Files
<1>5. proc' = [proc EXCEPT ![p] = proc'[p]] /\ proc'[p] = s
  BY <1>2, SetMoves DEF PersistPrepared
<1>6. Plain(p)
  BY <1>1, <1>3, <1>5, EmptyJournalType
  DEF Plain, PersistPrepared, Persist, fsVars, planVars, ghostVars, Unsettled
<1> QED  BY <1>4, <1>5, <1>6, PlainRecovers, RecoveringNext

\* After stage the backups are in place.
LEMMA PersistStagedRecovers ==
  ASSUME IInv, RInv, NEW p \in Procs, PersistStaged(p)
  PROVE  RInv'
<1>1. proc[p].pc = "persistStaged" /\ proc[p] \in Process /\ proc[p].op # "rollback" /\ proc[p].j \in Journal
  BY Busy, NotRollingBack DEF PersistStaged, RollbackRuns, RollbackPoints, Process
<1>2. PICK j \in Journal : j = [proc[p].j EXCEPT !.state = "Staged"]
  BY <1>1, WithState DEF TxnStates
<1>3. PICK s : s = [proc[p] EXCEPT !.pc = "commit", !.j = j]
  OBVIOUS
<1>4. s.pc = "commit" /\ s.op = proc[p].op /\ s.txn = proc[p].txn
  BY <1>1, <1>3 DEF Process
<1>5. Recovering(s)'
  BY <1>1, <1>4, RunsOn
<1>6. Set(p, s) /\ FilesStill /\ JournalWrite(p)
  BY <1>2, <1>3 DEF PersistStaged, Persist, FilesStill, JournalWrite, fsVars, planVars, ghostVars
<1> QED  BY <1>1, <1>4, <1>5, <1>6, PlainStep DEF Unsettled

\* The file loops keep the operation and the transaction.
LEMMA AfterFileKeeps ==
  ASSUME NEW r \in Process
  PROVE  /\ AfterFile(r).pc \in {"precondition", "persistCommitted"}
         /\ AfterFile(r).op = r.op /\ AfterFile(r).txn = r.txn
BY DEF AfterFile, Process

\* So does the file loop of rollback.
LEMMA BeforeFileKeeps ==
  ASSUME NEW r \in Process
  PROVE  /\ BeforeFile(r).pc \in {"rbDirs", "rbCheck"}
         /\ BeforeFile(r).op = r.op /\ BeforeFile(r).txn = r.txn
BY DEF BeforeFile, Process

\* A process of commit goes on.
LEMMA CommitGoesOn ==
  ASSUME IInv, RInv, NEW p \in Procs, FilesStill, JournalWrite(p),
         proc[p].pc \in CommitPoints, NEW s, Set(p, s), s.pc \in CommitPoints \cup {"persistCommitted"},
         s.op = proc[p].op, s.txn = proc[p].txn
  PROVE  RInv'
<1>1. proc[p].op # "rollback"
  BY NotRollingBack DEF RollbackRuns, RollbackPoints, CommitPoints
<1>2. Recovering(s)'
  BY <1>1, RunsOn DEF CommitPoints
<1> QED  BY <1>2, PlainStep DEF CommitPoints, Unsettled

\* A process of rollback goes on.
LEMMA RollbackGoesOn ==
  ASSUME IInv, RInv, NEW p \in Procs, FilesStill, JournalWrite(p),
         proc[p].pc \in RollbackPoints \ {"rbRename"}, NEW s, Set(p, s), s.pc \in RollbackPoints,
         s.op = proc[p].op, s.txn = proc[p].txn
  PROVE  RInv'
<1>1. Recovering(s)'
  BY RunsOn DEF RollbackPoints
<1> QED  BY <1>1, PlainStep DEF RollbackPoints, Unsettled

\* The steps of commit that write no target.
LEMMA CommitBeginRecovers ==
  ASSUME IInv, RInv, NEW p \in Procs, CommitBegin(p)
  PROVE  RInv'
<1>1. proc[p].pc = "commit" /\ proc[p] \in Process /\ proc[p].j \in Journal
  BY Busy DEF CommitBegin, Process
<1>2. FilesStill
  BY DEF CommitBegin, FilesStill, fsVars, planVars, ghostVars
<1>3. PICK j \in Journal : j = [proc[p].j EXCEPT !.state = "Committing"]
  BY <1>1, WithState DEF TxnStates
<1>4. PICK r \in Process : r = [proc[p] EXCEPT !.j = j]
  BY <1>1 DEF Process
<1>5. r.op = proc[p].op /\ r.txn = proc[p].txn
  BY <1>1, <1>4 DEF Process
<1>6. CASE FullyStaged(proc[p].txn)
  <2>1. JournalWrite(p)
    BY <1>3, <1>6 DEF CommitBegin, Persist, JournalWrite
  <2>2. CASE Required = <<>>
    <3>1. Set(p, AfterFile(r))
      BY <1>3, <1>4, <1>6, <2>2 DEF CommitBegin
    <3> QED  BY <1>1, <1>2, <1>5, <2>1, <3>1, AfterFileKeeps, CommitGoesOn DEF CommitPoints
  <2>3. CASE Required # <<>>
    <3>1. PICK s : s = [r EXCEPT !.pc = "ensure", !.idx = 1]
      OBVIOUS
    <3>2. s.pc = "ensure" /\ s.op = r.op /\ s.txn = r.txn
      BY <3>1 DEF Process
    <3>3. Set(p, s)
      BY <1>3, <1>4, <1>6, <2>3, <3>1 DEF CommitBegin
    <3> QED  BY <1>1, <1>2, <1>5, <2>1, <3>2, <3>3, CommitGoesOn DEF CommitPoints
  <2> QED  BY <2>2, <2>3
<1>7. CASE ~FullyStaged(proc[p].txn)
  BY <1>1, <1>2, <1>7, FailCommitRecovers DEF CommitBegin, Unsettled, RollbackRuns, RollbackPoints
<1> QED  BY <1>6, <1>7

\* ensure_directory.
LEMMA EnsureDirectoryRecovers ==
  ASSUME IInv, RInv, NEW p \in Procs, EnsureDirectory(p)
  PROVE  RInv'
<1>1. PICK r \in Process : r = proc[p] /\ r.pc = "ensure" /\ r.j \in Journal
  BY Busy DEF EnsureDirectory, Process
<1>2. FilesStill
  BY DEF EnsureDirectory, FilesStill, planVars, ghostVars
<1>3. CASE Lacking(DirPath[Required[r.idx]]) # {}
  <2>1. PICK d : Set(p, [r EXCEPT !.j.created = @ \cup {d}])
    BY <1>1, <1>3 DEF EnsureDirectory
  <2>2. PICK s : s = [r EXCEPT !.j.created = @ \cup {d}]
    OBVIOUS
  <2>3. s.pc = "ensure" /\ s.op = r.op /\ s.txn = r.txn
    BY <1>1, <2>2 DEF Process
  <2>4. JournalWrite(p)
    BY <1>1, <1>3 DEF EnsureDirectory, JournalWrite
  <2> QED  BY <1>1, <1>2, <2>1, <2>2, <2>3, <2>4, CommitGoesOn DEF CommitPoints
<1>4. CASE Lacking(DirPath[Required[r.idx]]) = {}
  <2>1. JournalWrite(p)
    BY <1>1, <1>4 DEF EnsureDirectory, Persist, JournalWrite
  <2>2. CASE r.idx = Len(Required)
    <3>1. Set(p, AfterFile(r))
      BY <1>1, <1>4, <2>2 DEF EnsureDirectory
    <3> QED  BY <1>1, <1>2, <2>1, <3>1, AfterFileKeeps, CommitGoesOn DEF CommitPoints
  <2>3. CASE r.idx # Len(Required)
    <3>1. PICK s : s = [r EXCEPT !.idx = @ + 1]
      OBVIOUS
    <3>2. s.pc = "ensure" /\ s.op = r.op /\ s.txn = r.txn
      BY <1>1, <3>1 DEF Process
    <3>3. Set(p, s)
      BY <1>1, <1>4, <2>3, <3>1 DEF EnsureDirectory
    <3> QED  BY <1>1, <1>2, <2>1, <3>2, <3>3, CommitGoesOn DEF CommitPoints
  <2> QED  BY <2>2, <2>3
<1> QED  BY <1>3, <1>4

\* verify_precondition.
LEMMA PreconditionRecovers ==
  ASSUME IInv, RInv, NEW p \in Procs, Precondition(p)
  PROVE  RInv'
<1>1. proc[p].pc = "precondition" /\ proc[p] \in Process
  BY Busy DEF Precondition
<1>2. FilesStill /\ journal' = journal
  BY DEF Precondition, FilesStill, fsVars, storeVars, planVars
<1>3. CASE PreconditionHolds(proc[p].txn, proc[p].idx)
  <2>1. PICK s : s = [proc[p] EXCEPT !.pc = "replace"]
    OBVIOUS
  <2>2. s.pc = "replace" /\ s.op = proc[p].op /\ s.txn = proc[p].txn
    BY <1>1, <2>1 DEF Process
  <2>3. Set(p, s)
    BY <1>3, <2>1 DEF Precondition
  <2> QED  BY <1>1, <1>2, <2>2, <2>3, CommitGoesOn DEF CommitPoints, JournalWrite
<1>4. CASE ~PreconditionHolds(proc[p].txn, proc[p].idx)
  BY <1>1, <1>2, <1>4, FailCommitRecovers DEF Precondition, Unsettled, RollbackRuns, RollbackPoints
<1> QED  BY <1>3, <1>4

\* open_parent, in commit and in rollback.
LEMMA MakeParentRecovers ==
  ASSUME IInv, RInv, NEW p \in Procs, MakeParent(p)
  PROVE  RInv'
<1>1. proc[p].pc \in {"replace", "rbReplace"} /\ proc[p] \in Process /\ proc[p].j \in Journal
  BY Busy DEF MakeParent, Process
<1>2. FilesStill /\ JournalWrite(p)
  BY DEF MakeParent, FilesStill, JournalWrite, storeVars, planVars, ghostVars
<1>3. PICK d : Set(p, [proc[p] EXCEPT !.j.created = @ \cup {d}])
  BY DEF MakeParent
<1>4. PICK s : s = [proc[p] EXCEPT !.j.created = @ \cup {d}]
  OBVIOUS
<1>5. s.pc = proc[p].pc /\ s.op = proc[p].op /\ s.txn = proc[p].txn
  BY <1>1, <1>4 DEF Process
<1> QED
  BY <1>1, <1>2, <1>3, <1>4, <1>5, CommitGoesOn, RollbackGoesOn DEF CommitPoints, RollbackPoints

\* The count of a file that was read back.
LEMMA VerifyCommittedRecovers ==
  ASSUME IInv, RInv, NEW p \in Procs, VerifyCommitted(p)
  PROVE  RInv'
<1>1. proc[p].pc = "verify" /\ proc[p] \in Process /\ proc[p].j \in Journal /\ proc[p].idx \in Files
  BY Busy DEF VerifyCommitted, Process, At, Indexed
<1>2. FilesStill
  BY DEF VerifyCommitted, FilesStill, fsVars, planVars, ghostVars
<1>3. CASE IsNew(proc[p].txn, proc[p].idx)
  <2>1. PICK r \in Process : r = [proc[p] EXCEPT !.j.committed = CommittedAfter(proc[p].idx)]
    <3>1. proc[p].idx \in 0..N
      BY <1>1, ConstantsAssumption DEF Files
    <3>2. PICK j \in Journal : j = [proc[p].j EXCEPT !.committed = proc[p].idx]
      BY <1>1, <3>1, WithCommitted
    <3>3. [proc[p] EXCEPT !.j = j] \in Process
      BY <1>1 DEF Process
    <3>4. [proc[p] EXCEPT !.j = j] = [proc[p] EXCEPT !.j.committed = CommittedAfter(proc[p].idx)]
      BY <3>2 DEF CommittedAfter
    <3> QED  BY <3>3, <3>4
  <2>2. r.op = proc[p].op /\ r.txn = proc[p].txn /\ r.j \in Journal
    BY <1>1, <2>1 DEF Process
  <2>3. JournalWrite(p) /\ Set(p, AfterFile(r))
    BY <1>3, <2>1, <2>2 DEF VerifyCommitted, Persist, JournalWrite
  <2> QED  BY <1>1, <1>2, <2>2, <2>3, AfterFileKeeps, CommitGoesOn DEF CommitPoints
<1>4. CASE ~IsNew(proc[p].txn, proc[p].idx)
  BY <1>1, <1>2, <1>4, FailCommitRecovers DEF VerifyCommitted, Unsettled, RollbackRuns, RollbackPoints
<1> QED  BY <1>3, <1>4

\* The end of commit.
LEMMA PersistCommittedRecovers ==
  ASSUME IInv, RInv, NEW p \in Procs, PersistCommitted(p)
  PROVE  RInv'
<1>1. proc[p].pc = "persistCommitted" /\ proc[p] \in Process /\ proc[p].j \in Journal /\ proc[p].op # "rollback"
  BY Busy, NotRollingBack DEF PersistCommitted, Process, RollbackRuns, RollbackPoints
<1>2. PICK j \in Journal : j = [proc[p].j EXCEPT !.state = "Committed"]
  BY <1>1, WithState DEF TxnStates
<1>3. FilesStill /\ JournalWrite(p)
  BY <1>2 DEF PersistCommitted, Persist, FilesStill, JournalWrite, fsVars, planVars, ghostVars
<1>4. PICK s : /\ s = [proc[p] EXCEPT !.pc = "cleanup", !.res = "ok", !.j = j] \/ s = Idle(proc[p].op, "ok")
               /\ Set(p, s)
  BY <1>2 DEF PersistCommitted, Return
<1>5. s.pc \in {"cleanup", "idle"} /\ s.op = proc[p].op /\ s.txn \in {proc[p].txn, NoTxn}
  <2>1. CASE s = Idle(proc[p].op, "ok")
    BY <2>1 DEF Idle
  <2>2. CASE s = [proc[p] EXCEPT !.pc = "cleanup", !.res = "ok", !.j = j]
    BY <1>1, <2>2 DEF Process
  <2> QED  BY <1>4, <2>1, <2>2
<1>6. Recovering(s)'
  BY <1>1, <1>5, Stops
<1> QED  BY <1>1, <1>3, <1>4, <1>5, <1>6, PlainStep DEF Unsettled

\* The steps of rollback that write no target.
LEMMA RollbackBeginRecovers ==
  ASSUME IInv, RInv, NEW p \in Procs, RollbackBegin(p)
  PROVE  RInv'
<1>1. proc[p].pc = "rbBegin" /\ proc[p] \in Process /\ proc[p].j \in Journal
  BY Busy DEF RollbackBegin, Process
<1>2. PICK j \in Journal : j = [proc[p].j EXCEPT !.state = "RollingBack"]
  BY <1>1, WithState DEF TxnStates
<1>3. FilesStill /\ JournalWrite(p)
  BY <1>2 DEF RollbackBegin, Persist, FilesStill, JournalWrite, fsVars, planVars, ghostVars
<1>4. PICK s : s = [proc[p] EXCEPT !.pc = "rbCheck", !.j = j, !.idx = PossibleCount(j.committed)]
  OBVIOUS
<1>5. s.pc = "rbCheck" /\ s.op = proc[p].op /\ s.txn = proc[p].txn
  BY <1>1, <1>4 DEF Process
<1>6. Set(p, s)
  BY <1>2, <1>4 DEF RollbackBegin
<1> QED  BY <1>1, <1>3, <1>5, <1>6, RollbackGoesOn DEF RollbackPoints

\* The directories of rollback.
LEMMA RollbackDirectoriesRecovers ==
  ASSUME IInv, RInv, NEW p \in Procs, RollbackDirectories(p)
  PROVE  RInv'
<1>1. proc[p].pc = "rbDirs" /\ proc[p] \in Process
  BY Busy DEF RollbackDirectories
<1>2. FilesStill /\ JournalWrite(p)
  BY DEF RollbackDirectories, FilesStill, JournalWrite, storeVars, planVars, ghostVars
<1>3. PICK s : s = [proc[p] EXCEPT !.pc = "rbPersist"]
  OBVIOUS
<1>4. s.pc = "rbPersist" /\ s.op = proc[p].op /\ s.txn = proc[p].txn
  BY <1>1, <1>3 DEF Process
<1> QED  BY <1>1, <1>2, <1>3, <1>4, RollbackGoesOn DEF RollbackDirectories, RollbackPoints

\* The end of rollback, whose result is ok.
LEMMA PersistRolledBackRecovers ==
  ASSUME IInv, RInv, NEW p \in Procs, PersistRolledBack(p)
  PROVE  RInv'
<1>1. proc[p].pc = "rbPersist" /\ proc[p] \in Process /\ proc[p].j \in Journal
  BY Busy DEF PersistRolledBack, Process
<1>2. PICK j \in Journal : j = [proc[p].j EXCEPT !.state = "RolledBack", !.committed = 0]
  <2> DEFINE k == [proc[p].j EXCEPT !.state = "RolledBack", !.committed = 0]
  <2>1. 0 \in 0..N
    BY ConstantsAssumption
  <2>2. k \in Journal
    BY <1>1, <2>1 DEF Journal, TxnStates
  <2> QED  BY <2>2
<1>3. FilesStill /\ JournalWrite(p)
  BY <1>2 DEF PersistRolledBack, Persist, FilesStill, JournalWrite, fsVars, planVars, ghostVars
<1>4. PICK s : s = [proc[p] EXCEPT !.pc = "cleanup", !.j = j,
                                   !.res = IF proc[p].op = "rollback" THEN "ok" ELSE @]
  OBVIOUS
<1>5. s.pc = "cleanup" /\ s.op = proc[p].op /\ s.txn = proc[p].txn /\ (s.op = "rollback" => s.res = "ok")
  BY <1>1, <1>4 DEF Process
<1>6. Set(p, s)
  BY <1>2, <1>4 DEF PersistRolledBack
<1>7. Recovering(s)'
  BY <1>5, Stops
<1> QED  BY <1>1, <1>3, <1>5, <1>6, <1>7, PlainStep DEF Unsettled

-----------------------------------------------------------------------------
(* The steps that may refuse, and the faults.                              *)

\* A transaction someone works on has its backups, once it is staged.
LEMMA Recoverable ==
  ASSUME IInv, RInv, NEW p \in Procs, proc[p].pc \notin {"idle", "create"} \cup Unsettled
  PROVE  BackedUp(proc[p].txn) /\ journal[proc[p].txn] # NoJournal
<1>1. proc[p].txn \in Txns /\ proc[p].txn \in present /\ \A q \in Procs : q # p => proc[q].txn # proc[p].txn
  BY Busy
<1>2. StoredWell(proc[p].txn)
  BY <1>1 DEF RInv
<1> QED  BY <1>1, <1>2 DEF StoredWell

\* A change of its files by someone else is a settled one.
LEMMA HandSeen ==
  ASSUME IInv, NEW p \in Procs, proc[p].pc \notin {"idle", "create", "prepare"},
         NEW i \in Files, ~Own(proc[p].txn, i)
  PROVE  ForeignHand
<1>1. PICK t \in Txns : t = proc[p].txn
  BY Busy
<1>2. Settled(t)
  BY <1>1, Busy DEF Settled
<1> QED  BY <1>1, <1>2 DEF ForeignHand, Own

\* Returning with a refusal that someone else's change explains.
LEMMA RefusalRecovers ==
  ASSUME IInv, RInv, NEW p \in Procs, FilesStill, journal' = journal,
         proc[p].pc \notin {"idle", "rbRename"} \cup Unsettled, NEW e, Return(p, e), ForeignHand
  PROVE  RInv'
<1>1. PICK s : s = Idle(proc[p].op, e)
  OBVIOUS
<1>2. s.pc = "idle" /\ s.txn = NoTxn
  BY <1>1 DEF Idle
<1>3. Set(p, s)
  BY <1>1 DEF Return
<1>4. proc' = [proc EXCEPT ![p] = proc'[p]] /\ proc'[p] = s
  BY <1>3, SetMoves
<1>5. Plain(p)
  BY <1>2, <1>4 DEF Plain, FilesStill
<1>6. ForeignHand'
  BY <1>5, PlainAround
<1>7. Recovering(s)'
  BY <1>2, <1>6 DEF Recovering
<1> QED  BY <1>2, <1>3, <1>7, PlainStep DEF JournalWrite

\* rollback meets a conflict only on a file someone else has changed.
LEMMA RollbackCheckRecovers ==
  ASSUME IInv, RInv, NEW p \in Procs, RollbackCheck(p)
  PROVE  RInv'
<1>1. PICK t \in Txns, i \in Files :
        /\ t = proc[p].txn /\ i = proc[p].idx /\ proc[p].pc = "rbCheck" /\ proc[p] \in Process
        /\ Promises(t)
  BY Busy DEF RollbackCheck, At, Indexed
<1>2. BackedUp(t) /\ journal[t] # NoJournal
  BY <1>1, Recoverable DEF Unsettled
<1>3. FilesStill /\ journal' = journal
  BY DEF RollbackCheck, FilesStill, storeVars, planVars
<1>4. target[i] # Special
  BY DEF RInv, Regular
<1>5. CASE Set(p, BeforeFile(proc[p]))
  BY <1>1, <1>3, <1>5, BeforeFileKeeps, RollbackGoesOn DEF RollbackPoints, JournalWrite
<1>6. ASSUME NEW c \in {"rbRemove", "rbReplace"}, Set(p, [proc[p] EXCEPT !.pc = c])
      PROVE  RInv'
  <2>1. PICK s : s = [proc[p] EXCEPT !.pc = c]
    OBVIOUS
  <2>2. s.pc = c /\ s.op = proc[p].op /\ s.txn = proc[p].txn
    BY <1>1, <2>1 DEF Process
  <2> QED  BY <1>1, <1>3, <1>6, <2>1, <2>2, RollbackGoesOn DEF RollbackPoints, JournalWrite
<1>7. CASE FailRollback(p, "Conflict") /\ ~IsNew(t, i) /\ ~LeftAlone(p, t, i)
  <2>1. ~Own(t, i)
    BY <1>1, <1>2, <1>7 DEF Promises, FilePromises, Owns, Own, LeftAlone
  <2>2. ForeignHand
    BY <1>1, <2>1, HandSeen
  <2> QED  BY <1>1, <1>3, <1>7, <2>2, RefusalRecovers DEF FailRollback, Unsettled
<1>8. NeedsBackup(t, i) => BackupMatches(t, i)
  BY <1>2 DEF BackedUp
<1> QED  BY <1>1, <1>4, <1>5, <1>6, <1>7, <1>8 DEF RollbackCheck

\* reconcile refuses only what someone else has changed: the files nobody
\* changed are a prefix of new ones, and the first that was not new is known.
LEMMA ReconcileRefusal ==
  ASSUME IInv, RInv, NEW p \in Procs, proc[p].pc = "reconcile",
         ~(IsNew(proc[p].txn, proc[p].idx) /\ ~proc[p].saw), ~IsOriginal(proc[p].txn, proc[p].idx)
  PROVE  ForeignHand
<1>1. PICK r \in Process, t \in Txns, i \in Files :
        r = proc[p] /\ t = r.txn /\ i = r.idx /\ Promises(t) /\ r.pc = "reconcile" /\ At(r)
  BY Busy DEF At, Indexed
<1>2. journal[t] # NoJournal /\ r.count \in 0..N
  BY <1>1, Recoverable DEF Unsettled, Process
<1>3. SUFFICES ASSUME \A k \in Files : Own(t, k)  PROVE FALSE
  BY <1>1, HandSeen
<1>4. \A k \in Files : Owns(t, k)
  BY <1>2, <1>3 DEF Own, Owns
<1>5. IsNew(t, i) /\ r.saw
  BY <1>1, <1>4 DEF Promises, FilePromises
<1>6. r.count + 1 < i /\ ~IsNew(t, r.count + 1) /\ r.count + 1 \in Files
  <2>1. Recovering(r)
    BY <1>1 DEF RInv
  <2>2. r.count + 1 < i
    BY <1>1, <1>5, <2>1 DEF Recovering
  <2>3. r.count + 1 \in Files
    BY <1>1, <1>2, <2>2, ConstantsAssumption DEF Files
  <2> QED  BY <1>1, <1>3, <1>5, <2>1, <2>2, <2>3 DEF Recovering
<1>7. PICK k \in 0..N : \A m \in Files : IF m <= k THEN IsNew(t, m) ELSE IsOriginal(t, m)
  BY <1>1, <1>4 DEF Promises, Prefix
<1>8. i <= k
  BY <1>1, <1>7
<1>9. r.count + 1 <= k
  BY <1>2, <1>6, <1>7, <1>8 DEF Files
<1> QED  BY <1>6, <1>7, <1>9

\* One round of reconcile.
LEMMA ReconcileFileRecovers ==
  ASSUME IInv, RInv, NEW p \in Procs, ReconcileFile(p)
  PROVE  RInv'
<1>1. PICK r \in Process, t \in Txns, i \in Files :
        r = proc[p] /\ t = r.txn /\ i = r.idx /\ r.pc = "reconcile" /\ At(r) /\ r.j \in Journal
  BY Busy DEF ReconcileFile, At, Indexed, Process
<1>2. FilesStill
  BY DEF ReconcileFile, FilesStill, fsVars, planVars, ghostVars
<1>3. PICK b \in BOOLEAN : b = (IsNew(t, i) /\ ~r.saw)
  BY DEF IsNew
<1>4. PICK c \in 0..N : c = IF b THEN r.count + 1 ELSE r.count
  BY <1>1, <1>3, ConstantsAssumption DEF At, Indexed, Files, Process
<1>5. CASE ~b /\ ~IsOriginal(t, i)
  <2>1. PICK e : Return(p, e) /\ journal' = journal
    BY <1>1, <1>3, <1>5 DEF ReconcileFile
  <2>2. ForeignHand
    BY <1>1, <1>3, <1>5, ReconcileRefusal
  <2> QED  BY <1>1, <1>2, <2>1, <2>2, RefusalRecovers DEF Unsettled
<1>6. CASE ~(~b /\ ~IsOriginal(t, i)) /\ i < N
  <2>1. PICK s : s = [r EXCEPT !.idx = i + 1, !.count = c, !.saw = ~b]
    OBVIOUS
  <2>2. Set(p, s) /\ journal' = journal
    BY <1>1, <1>3, <1>4, <1>6, <2>1 DEF ReconcileFile
  <2>3. s.pc = "reconcile" /\ s.op = r.op /\ s.txn = t /\ s.idx = i + 1 /\ s.count = c /\ s.saw = ~b /\ s.res = r.res
    BY <1>1, <2>1 DEF Process
  <2>4. ~b => c + 1 < i + 1 /\ (Own(t, c + 1) => ~IsNew(t, c + 1))
    <3>1. CASE r.saw
      BY <1>1, <1>3, <1>4, <3>1 DEF RInv, Recovering, Files
    <3>2. CASE ~r.saw /\ ~b
      <4>1. c = i - 1
        BY <1>1, <1>4, <3>2 DEF At, Indexed
      <4>2. c + 1 = i /\ c + 1 < i + 1
        BY <4>1 DEF Files
      <4>3. ~IsNew(t, i)
        BY <1>3, <3>2
      <4> QED  BY <4>2, <4>3
    <3> QED  BY <3>1, <3>2
  <2>5. \A k : Own(t, k)' = Own(t, k) /\ IsNew(t, k)' = IsNew(t, k)
    BY <1>2 DEF FilesStill, Own, IsNew
  <2>6. Recovering(s)'
    BY <2>3, <2>4, <2>5 DEF Recovering, RollbackRuns
  <2> QED  BY <1>1, <1>2, <2>2, <2>3, <2>6, PlainStep DEF Unsettled, JournalWrite
<1>7. CASE ~(~b /\ ~IsOriginal(t, i)) /\ ~(i < N)
  <2>1. PICK j \in Journal : j = [r.j EXCEPT !.committed = c]
    BY <1>1, WithCommitted
  <2>2. PICK s : s = [r EXCEPT !.pc = IF r.op = "resume" THEN "commit" ELSE "rbBegin",
                               !.j = j, !.count = 0, !.saw = FALSE]
    OBVIOUS
  <2>3. Set(p, s) /\ JournalWrite(p)
    BY <1>1, <1>3, <1>4, <1>7, <2>1, <2>2 DEF ReconcileFile, Persist, JournalWrite
  <2>4. s.pc = (IF r.op = "resume" THEN "commit" ELSE "rbBegin") /\ s.op = r.op /\ s.txn = t
    BY <1>1, <2>2 DEF Process
  <2>5. Recovering(s)'
    BY <2>4, RunsOn DEF RollbackPoints
  <2> QED  BY <1>1, <1>2, <2>3, <2>4, <2>5, PlainStep DEF Unsettled
<1> QED  BY <1>5, <1>6, <1>7

\* A fault at a point that leaves no debris.
LEMMA CrashRecovers ==
  ASSUME IInv, RInv, RecoverableFaults, NEW p \in Procs, Crash(p)
  PROVE  RInv'
<1>1. proc[p].pc \notin {"idle", "rbRename"} \cup Unsettled
  BY DEF Crash, RecoverableFaults, Unsettled
<1>2. FilesStill /\ journal' = journal /\ Return(p, "fault")
  BY DEF Crash, FilesStill, fsVars, storeVars, planVars, ghostVars
<1> QED  BY <1>1, <1>2, ReturnRecovers

\* The same for an I/O error: a rollback that fails by it reports it.
LEMMA IoFailureRecovers ==
  ASSUME IInv, RInv, RecoverableFaults, NEW p \in Procs, IoFailure(p)
  PROVE  RInv'
<1>1. proc[p].pc \notin {"idle", "rbRename"} \cup Unsettled
  BY DEF IoFailure, RecoverableFaults, Unsettled
<1>2. FilesStill /\ journal' = journal
  BY DEF IoFailure, FilesStill, fsVars, storeVars, planVars, ghostVars
<1>3. CASE Return(p, "fault") \/ FailRollback(p, "fault")
  BY <1>1, <1>2, <1>3, ReturnRecovers, FailRollbackRecovers
<1>4. CASE proc[p].pc \in CommitPoints /\ FailCommit(p, "fault")
  BY <1>1, <1>2, <1>4, FailCommitRecovers DEF CommitPoints, RollbackRuns, RollbackPoints
<1>5. CASE proc[p].pc = "verify" /\ FailCounted(p)
  <2>1. proc[p] \in Process /\ proc[p].op = "apply"
    BY <1>5 DEF FailCounted, IInv, TypeOK
  <2>2. PICK s : s = [proc[p] EXCEPT !.pc = "rbBegin", !.res = "fault",
                                     !.j.committed = CommittedAfter(proc[p].idx)]
    OBVIOUS
  <2>3. s.pc = "rbBegin" /\ s.op = "apply" /\ s.txn = proc[p].txn
    BY <2>1, <2>2 DEF Process
  <2>4. Recovering(s)'
    BY <2>3, RunsOn
  <2> QED  BY <1>1, <1>2, <1>5, <2>2, <2>3, <2>4, PlainStep DEF FailCounted, JournalWrite
<1> QED  BY <1>1, <1>3, <1>4, <1>5 DEF IoFailure, Unsettled

-----------------------------------------------------------------------------
(* The steps that write files, backups, plans and temporaries.             *)

\* The change of p and t that a step makes, when the rest stands still.
LEMMA SetAround ==
  ASSUME IInv, NEW p \in Procs, NEW t, NEW s, Set(p, s),
         proc[p].txn \in {t, NoTxn}, s.txn \in {t, NoTxn},
         \A q \in Procs : q # p => (t \in Txns => proc[q].txn # t), used \subseteq used',
         \A u \in Txns : u # t =>
           /\ journal'[u] = journal[u] /\ backup'[u] = backup[u]
           /\ orig'[u] = orig[u] /\ new'[u] = new[u]
           /\ u \in present' => u \in present
           /\ \A i \in Files : /\ <<u, i>> \in touched => <<u, i>> \in touched'
                               /\ u \in present /\ target'[i] # target[i] => <<u, i>> \in touched'
  PROVE  Around(p, t) /\ proc'[p] = s /\ proc' = [proc EXCEPT ![p] = proc'[p]]
<1>1. proc' = [proc EXCEPT ![p] = proc'[p]] /\ proc'[p] = s
  BY SetMoves
<1>2. \A q \in Procs : q # p => proc'[q] = proc[q]
  BY DEF Set, IInv, TypeOK
<1> QED  BY <1>1, <1>2 DEF Around

\* A process that sets nothing but its temporary in place.
LEMMA WriteTempRecovers ==
  ASSUME IInv, RInv, NEW p \in Procs, WriteTemp(p)
  PROVE  RInv'
<1>1. PICK t \in Txns, i \in Files :
        /\ t = proc[p].txn /\ i = proc[p].idx /\ proc[p].pc \in {"replace", "rbReplace"}
        /\ proc[p] \in Process /\ t \in present /\ \A q \in Procs : q # p => proc[q].txn # t
  BY Busy DEF WriteTemp, At, Indexed
<1>2. target[i] # Special
  BY DEF RInv, Regular
<1>3. UNCHANGED <<target, present, used, journal, backup, orig, new, touched>>
  BY DEF WriteTemp, storeVars, planVars, ghostVars
<1>4. CASE TempOf(p) \in temps
  <2>1. FailReplace(p, Refusal(i)) /\ FilesStill
    BY <1>1, <1>3, <1>4 DEF WriteTemp, FilesStill
  <2>2. Kind(p) = "commit"
    <3> SUFFICES ASSUME Kind(p) # "commit"  PROVE FALSE
      OBVIOUS
    <3>1. TempOf(p).kind = "rollback"
      BY DEF TempOf, Kind
    <3>2. PICK q \in Procs : proc[q].pc = "rbRename" /\ TempOf(p) = TempOf(q)
      BY <1>4, <3>1 DEF RInv, StrayFree
    <3>3. proc[q].txn = t
      BY <1>1, <3>2 DEF TempOf
    <3> QED  BY <1>1, <3>2, <3>3
  <2>3. proc[p].pc = "replace"
    BY <1>1, <2>2 DEF Kind
  <2> QED
    BY <1>3, <2>1, <2>2, <2>3, FailCommitRecovers
    DEF FailReplace, Unsettled, RollbackRuns, RollbackPoints
<1>5. CASE TempOf(p) \notin temps
  <2>1. PICK s : s = [proc[p] EXCEPT !.pc = IF @ = "replace" THEN "rename" ELSE "rbRename"]
    OBVIOUS
  <2>2. /\ s.pc = IF proc[p].pc = "replace" THEN "rename" ELSE "rbRename"
        /\ s.op = proc[p].op /\ s.txn = t /\ s.idx = proc[p].idx /\ s.j = proc[p].j
    BY <1>1, <2>1 DEF Process
  <2>3. Set(p, s) /\ temps' = temps \cup {TempOf(p)}
    BY <1>1, <1>2, <1>5, <2>1 DEF WriteTemp
  <2>4. Around(p, t) /\ proc'[p] = s /\ proc' = [proc EXCEPT ![p] = proc'[p]]
    BY <1>1, <1>3, <2>2, <2>3, SetAround
  <2>5. ForeignHand => ForeignHand'
    BY <1>3, <2>2, <2>4, HandKept
  <2>6. Regular'
    BY <1>3 DEF RInv, Regular
  <2>7. StoredWell(t)'
    <3>1. BackedUp(t) /\ journal[t] # NoJournal
      BY <1>1, Recoverable DEF Unsettled
    <3>2. BackedUp(t)'
      BY <1>3, <3>1 DEF BackedUp, NeedsBackup, BackupMatches
    <3> QED  BY <1>3, <3>1, <3>2 DEF StoredWell
  <2>8. StrayFree'
    <3> SUFFICES ASSUME NEW f \in temps', f.kind = "rollback"
                 PROVE  \E q \in Procs : proc'[q].pc = "rbRename" /\ f = TempOf(q)'
      BY DEF StrayFree
    <3>1. CASE f \in temps
      <4>1. PICK q \in Procs : proc[q].pc = "rbRename" /\ f = TempOf(q)
        BY <3>1 DEF RInv, StrayFree
      <4>2. proc'[q] = proc[q]
        BY <1>1, <2>4, <4>1 DEF IInv, TypeOK
      <4>3. f = TempOf(q)'
        BY <4>1, <4>2 DEF TempOf, Kind
      <4> QED  BY <4>1, <4>2, <4>3
    <3>2. CASE f = TempOf(p)
      <4>1. proc[p].pc = "rbReplace"
        BY <1>1, <3>2 DEF TempOf, Kind
      <4>2. proc'[p].pc = "rbRename"
        BY <2>2, <2>4, <4>1
      <4>3. f = TempOf(p)'
        BY <1>1, <2>2, <2>4, <3>2, <4>1, <4>2 DEF TempOf, Kind
      <4> QED  BY <4>2, <4>3
    <3> QED  BY <2>3, <3>1, <3>2
  <2>9. Recovering(proc[p])'
    <3>1. s.op = "rollback" => s.pc = "rbRename"
      BY <1>1, <2>2, NotRollingBack DEF RollbackRuns, RollbackPoints
    <3>2. Recovering(s)'
      BY <2>2, <3>1, RunsOn DEF RollbackPoints
    <3> QED  BY <2>4, <3>2, RecoveringNext
  <2> QED  BY <2>4, <2>5, <2>6, <2>7, <2>8, <2>9, RCombine
<1> QED  BY <1>4, <1>5

\* A write of target i by p, which works on t, marks i for the others.
LEMMA WriteRecovers ==
  ASSUME IInv, RInv, NEW p \in Procs, proc[p].pc \in {"rename", "rbRename", "rbRemove"},
         NEW t \in Txns, t = proc[p].txn, NEW i \in Files, NEW v, v # Special,
         target' = [target EXCEPT ![i] = v], Disturb(t, p, i),
         UNCHANGED <<present, used, journal, backup, orig, new>>,
         NEW s, Set(p, s), s.txn = t, s.pc \notin {"create", "prepare"},
         Recovering(s)', StrayFree'
  PROVE  RInv'
<1>1. proc[p].pc \notin {"idle", "create", "prepare"} \cup Unsettled
  BY DEF Unsettled
<1>2. t \in present /\ \A q \in Procs : q # p => proc[q].txn # t
  BY <1>1, Busy
<1>3. \A k \in Files : target'[k] # target[k] => k = i
  BY DEF IInv, TypeOK
<1>4. \A u \in Txns, k \in Files : <<u, k>> \in touched => <<u, k>> \in touched'
  BY DEF Disturb
<1>5. \A u \in Txns : u # t /\ u \in present => <<u, i>> \in touched'
  BY DEF Disturb
<1>6. Around(p, t) /\ proc'[p] = s /\ proc' = [proc EXCEPT ![p] = proc'[p]]
  BY <1>2, <1>3, <1>4, <1>5, SetAround
<1>7. ForeignHand => ForeignHand'
  BY <1>4, <1>6, HandKept
<1>8. Regular'
  BY DEF RInv, Regular, IInv, TypeOK
<1>9. StoredWell(t)'
  <2>1. BackedUp(t) /\ journal[t] # NoJournal
    BY <1>1, Recoverable
  <2>2. BackedUp(t)'
    BY <2>1 DEF BackedUp, NeedsBackup, BackupMatches
  <2> QED  BY <2>1, <2>2 DEF StoredWell
<1>10. Recovering(proc[p])'
  BY <1>6, RecoveringNext
<1> QED  BY <1>6, <1>7, <1>8, <1>9, <1>10, RCombine

\* The rename of commit and of rollback.
LEMMA RenameRecovers ==
  ASSUME IInv, RInv, NEW p \in Procs, Rename(p)
  PROVE  RInv'
<1>1. PICK t \in Txns, i \in Files :
        /\ t = proc[p].txn /\ i = proc[p].idx /\ proc[p].pc \in {"rename", "rbRename"}
        /\ proc[p] \in Process
  BY Busy DEF Rename, At, Indexed
<1>2. target[i] # Special
  BY DEF RInv, Regular
<1>3. UNCHANGED <<present, used, journal, backup, orig, new>>
  BY DEF Rename, storeVars, planVars
<1>4. PICK v : v = IF Kind(p) = "commit" THEN new[t][i] ELSE orig[t][i]
  OBVIOUS
<1>5. v # Special
  BY <1>4, ConstantsAssumption DEF IInv, TypeOK
<1>6. PICK s : s = IF Kind(p) = "commit" THEN [proc[p] EXCEPT !.pc = "verify"] ELSE BeforeFile(proc[p])
  OBVIOUS
<1>7. /\ target' = [target EXCEPT ![i] = v] /\ temps' = temps \ {TempOf(p)}
      /\ Set(p, s) /\ Disturb(t, p, i)
  BY <1>1, <1>2, <1>4, <1>6 DEF Rename
<1>8. s.op = proc[p].op /\ s.txn = t /\ (IF proc[p].pc = "rename" THEN s.pc = "verify" ELSE s.pc \in {"rbDirs", "rbCheck"})
  <2>1. CASE proc[p].pc = "rename"
    BY <1>1, <1>6, <2>1 DEF Process, Kind
  <2>2. CASE proc[p].pc = "rbRename"
    BY <1>1, <1>6, <2>2, BeforeFileKeeps DEF Kind
  <2> QED  BY <1>1, <2>1, <2>2
<1>9. Recovering(s)'
  <2>1. s.op = "rollback" => proc[p].pc # "rename"
    BY <1>8, NotRollingBack DEF RollbackRuns, RollbackPoints
  <2> QED  BY <1>1, <1>8, <2>1, RunsOn DEF RollbackPoints
<1>10. StrayFree'
  <2> SUFFICES ASSUME NEW f \in temps', f.kind = "rollback"
               PROVE  \E q \in Procs : proc'[q].pc = "rbRename" /\ f = TempOf(q)'
    BY DEF StrayFree
  <2>1. PICK q \in Procs : proc[q].pc = "rbRename" /\ f = TempOf(q)
    BY <1>7 DEF RInv, StrayFree
  <2>2. q # p
    BY <1>7, <2>1
  <2>3. proc'[q] = proc[q]
    BY <1>7, <2>2 DEF Set, IInv, TypeOK
  <2>4. f = TempOf(q)'
    BY <2>1, <2>3 DEF TempOf, Kind
  <2> QED  BY <2>1, <2>3, <2>4
<1> QED  BY <1>1, <1>3, <1>5, <1>7, <1>8, <1>9, <1>10, WriteRecovers

\* The removal of a file that did not exist before.
LEMMA RemoveTargetRecovers ==
  ASSUME IInv, RInv, NEW p \in Procs, RemoveTarget(p)
  PROVE  RInv'
<1>1. PICK t \in Txns, i \in Files :
        t = proc[p].txn /\ i = proc[p].idx /\ proc[p].pc = "rbRemove" /\ proc[p] \in Process
  BY Busy DEF RemoveTarget, At, Indexed
<1>2. target[i] # Special
  BY DEF RInv, Regular
<1>3. UNCHANGED <<present, used, journal, backup, orig, new, temps>>
  BY DEF RemoveTarget, storeVars, planVars
<1>4. PICK s : s = BeforeFile(proc[p])
  OBVIOUS
<1>5. target' = [target EXCEPT ![i] = Absent] /\ Set(p, s) /\ Disturb(t, p, i)
  BY <1>1, <1>2, <1>4 DEF RemoveTarget
<1>6. s.op = proc[p].op /\ s.txn = t /\ s.pc \in {"rbDirs", "rbCheck"}
  BY <1>1, <1>4, BeforeFileKeeps
<1>7. Recovering(s)'
  BY <1>6, RunsOn DEF RollbackPoints
<1>8. StrayFree'
  BY <1>1, <1>3, <1>5, SetMoves, StrayKept DEF RInv
<1>9. Absent # Special
  BY ConstantsAssumption
<1> QED  BY <1>1, <1>3, <1>5, <1>6, <1>7, <1>8, <1>9, WriteRecovers

\* A step of an idle process that does no more than to return.
LEMMA IdleRecovers ==
  ASSUME IInv, RInv, NEW p \in Procs, proc[p].pc = "idle", FilesStill, journal' = journal,
         NEW s, Set(p, s), s.pc = "idle", s.txn = NoTxn, s.op # "rollback"
  PROVE  RInv'
<1>1. proc[p].txn = NoTxn
  BY DEF IInv, At, Placed
<1>2. Around(p, NoTxn) /\ proc'[p] = s /\ proc' = [proc EXCEPT ![p] = proc'[p]]
  BY <1>1, SetAround, ConstantsAssumption DEF FilesStill
<1>3. ForeignHand => ForeignHand'
  BY <1>2, HandKept DEF FilesStill
<1>4. Regular'
  BY DEF RInv, Regular, FilesStill
<1>5. StrayFree'
  BY <1>2, StrayKept DEF RInv, FilesStill
<1>6. Recovering(s)'
  BY Stops
<1> QED  BY <1>2, <1>3, <1>4, <1>5, <1>6, RecoveringNext, RCombine, ConstantsAssumption

\* The beginning of apply draws a fresh identifier.
LEMMA BeginApplyRecovers ==
  ASSUME IInv, RInv, NEW p \in Procs, BeginApply(p)
  PROVE  RInv'
<1>1. proc[p].pc = "idle" /\ proc[p].txn = NoTxn
  BY DEF BeginApply, IInv, At, Placed
<1>2. UNCHANGED <<target, temps, present, journal, backup, orig, new, touched>>
  BY DEF BeginApply, fsVars, planVars, ghostVars
<1>3. CASE \E u \in present : Incomplete(u)
  <2>1. PICK s : s = Idle("apply", "IncompleteTransaction")
    OBVIOUS
  <2>2. s.pc = "idle" /\ s.txn = NoTxn /\ s.op = "apply"
    BY <2>1 DEF Idle
  <2>3. Set(p, s) /\ FilesStill
    BY <1>2, <1>3, <2>1 DEF BeginApply, FilesStill
  <2> QED  BY <1>1, <1>2, <2>2, <2>3, IdleRecovers
<1>4. CASE ~\E u \in present : Incomplete(u)
  <2>1. PICK t \in Txns \ used : /\ used' = used \cup {t}
                                 /\ Set(p, [Idle("apply", "none") EXCEPT !.pc = "create", !.txn = t])
    BY <1>4 DEF BeginApply
  <2>2. PICK s : s = [Idle("apply", "none") EXCEPT !.pc = "create", !.txn = t]
    OBVIOUS
  <2>3. s.pc = "create" /\ s.txn = t /\ s.op = "apply"
    BY <2>2 DEF Idle
  <2>4. \A q \in Procs : proc[q].txn # t
    BY <2>1, ConstantsAssumption DEF IInv, At, Placed
  <2>5. t \notin present
    BY <2>1 DEF IInv, Structure
  <2>6. Around(p, t) /\ proc'[p] = s /\ proc' = [proc EXCEPT ![p] = proc'[p]]
    <3>1. Set(p, s) /\ used \subseteq used'
      BY <2>1, <2>2
    <3> QED  BY <1>1, <1>2, <2>3, <2>4, <3>1, SetAround
  <2>7. ForeignHand => ForeignHand'
    BY <1>2, <2>1, <2>6, HandKept
  <2>8. Regular' /\ StoredWell(t)'
    BY <1>2, <2>5 DEF RInv, Regular, StoredWell
  <2>9. StrayFree'
    BY <1>1, <1>2, <2>6, StrayKept DEF RInv
  <2>10. Recovering(s)'
    BY <2>3, RunsOn
  <2> QED  BY <2>6, <2>7, <2>8, <2>9, <2>10, RecoveringNext, RCombine
<1> QED  BY <1>3, <1>4

\* create_transaction: the transaction is on disk, in the hands of p.
LEMMA CreateTransactionRecovers ==
  ASSUME IInv, RInv, NEW p \in Procs, NEW c, NEW keep, CreateTransaction(p, c, keep)
  PROVE  RInv'
<1>1. PICK t \in Txns :
        /\ t = proc[p].txn /\ proc[p].pc = "create" /\ proc[p] \in Process
        /\ \A q \in Procs : q # p => proc[q].txn # t
  BY Busy DEF CreateTransaction
<1>2. UNCHANGED <<target, temps, used, journal, backup, orig, touched>> /\ present' = present \cup {t}
  BY <1>1 DEF CreateTransaction, fsVars, ghostVars
<1>3. \A u \in Txns : u # t => new'[u] = new[u]
  BY <1>1 DEF CreateTransaction, IInv, TypeOK
<1>4. PICK s : s = [proc[p] EXCEPT !.pc = "prepare", !.idx = 1]
  OBVIOUS
<1>5. s.pc = "prepare" /\ s.txn = t /\ s.op # "rollback"
  BY <1>1, <1>4, NotRollingBack DEF Process, RollbackRuns, RollbackPoints
<1>6. Around(p, t) /\ proc'[p] = s /\ proc' = [proc EXCEPT ![p] = proc'[p]]
  <2>1. Set(p, s)
    BY <1>4 DEF CreateTransaction
  <2> QED  BY <1>1, <1>2, <1>3, <1>5, <2>1, SetAround
<1>7. ForeignHand => ForeignHand'
  BY <1>1, <1>2, <1>6, HandKept
<1>8. Regular' /\ StoredWell(t)'
  BY <1>2, <1>5, <1>6 DEF RInv, Regular, StoredWell, Unsettled
<1>9. StrayFree'
  BY <1>1, <1>2, <1>6, StrayKept DEF RInv
<1>10. Recovering(s)'
  BY <1>5, RunsOn
<1> QED  BY <1>6, <1>7, <1>8, <1>9, <1>10, RecoveringNext, RCombine

\* prepare records one file, which is regular.
LEMMA PrepareFileRecovers ==
  ASSUME IInv, RInv, NEW p \in Procs, PrepareFile(p)
  PROVE  RInv'
<1>1. PICK t \in Txns, i \in Files :
        /\ t = proc[p].txn /\ i = proc[p].idx /\ proc[p].pc = "prepare" /\ proc[p] \in Process
        /\ \A q \in Procs : q # p => proc[q].txn # t
  BY Busy DEF PrepareFile, At, Indexed
<1>2. target[i] # Special
  BY DEF RInv, Regular
<1>3. UNCHANGED <<target, temps, present, used, journal, backup, new>>
  BY DEF PrepareFile, fsVars, storeVars
<1>4. orig' = [orig EXCEPT ![t][i] = target[i]] /\ touched' = touched \ {<<t, i>>}
  BY <1>1, <1>2 DEF PrepareFile
<1>5. \A u \in Txns : u # t => orig'[u] = orig[u] /\ \A k \in Files : <<u, k>> \in touched => <<u, k>> \in touched'
  BY <1>4 DEF IInv, TypeOK
<1>6. PICK s : s = IF i = N THEN [proc[p] EXCEPT !.pc = "persistPrepared"] ELSE [proc[p] EXCEPT !.idx = i + 1]
  OBVIOUS
<1>7. s.pc \in {"prepare", "persistPrepared"} /\ s.txn = t /\ s.op # "rollback"
  BY <1>1, <1>6, NotRollingBack DEF Process, RollbackRuns, RollbackPoints
<1>8. Around(p, t) /\ proc'[p] = s /\ proc' = [proc EXCEPT ![p] = proc'[p]]
  <2>1. Set(p, s)
    BY <1>1, <1>2, <1>6 DEF PrepareFile
  <2> QED  BY <1>1, <1>3, <1>5, <1>7, <2>1, SetAround
<1>9. ForeignHand => ForeignHand'
  BY <1>1, <1>8, HandKept
<1>10. Regular' /\ StoredWell(t)'
  BY <1>3, <1>7, <1>8 DEF RInv, Regular, StoredWell, Unsettled
<1>11. StrayFree'
  BY <1>1, <1>3, <1>8, StrayKept DEF RInv
<1>12. Recovering(s)'
  BY <1>7, RunsOn
<1> QED  BY <1>8, <1>9, <1>10, <1>11, <1>12, RecoveringNext, RCombine

\* stage copies one file; after the last one every backup is in place.
LEMMA StageFileRecovers ==
  ASSUME IInv, RInv, NEW p \in Procs, StageFile(p)
  PROVE  RInv'
<1>1. PICK t \in Txns, i \in Files :
        /\ t = proc[p].txn /\ i = proc[p].idx /\ proc[p].pc = "stage" /\ proc[p] \in Process
        /\ \A q \in Procs : q # p => proc[q].txn # t
        /\ proc[p].op = "apply" /\ journal[t] # NoJournal
  BY Busy DEF StageFile, At, Indexed, Placed, Staging, Preparing
<1>2. UNCHANGED <<target, temps, present, used, journal, orig, new, touched>>
  BY DEF StageFile, fsVars, planVars, ghostVars
<1>3. \A u \in Txns : u # t => backup'[u] = backup[u]
  BY <1>1 DEF StageFile, IInv, TypeOK
<1>4. PICK s : s \in {[proc[p] EXCEPT !.pc = "cleanup", !.res = Refusal(i)],
                      [proc[p] EXCEPT !.pc = "persistStaged"], [proc[p] EXCEPT !.idx = i + 1]}
               /\ Set(p, s)
               /\ (s.pc # "cleanup" => /\ NeedsBackup(t, i) => BackupAllowed(t, i)
                                       /\ backup' = IF NeedsBackup(t, i) THEN [backup EXCEPT ![t][i] = target[i]]
                                                                        ELSE backup
                                       /\ IF i = N THEN s.pc = "persistStaged" ELSE s.pc = "stage" /\ s.idx = i + 1)
  <2>1. CASE NeedsBackup(t, i) /\ ~BackupAllowed(t, i)
    <3>1. Set(p, [proc[p] EXCEPT !.pc = "cleanup", !.res = Refusal(i)])
      BY <1>1, <2>1 DEF StageFile
    <3>2. [proc[p] EXCEPT !.pc = "cleanup", !.res = Refusal(i)].pc = "cleanup"
      BY <1>1 DEF Process
    <3> QED  BY <3>1, <3>2
  <2>2. CASE ~(NeedsBackup(t, i) /\ ~BackupAllowed(t, i))
    <3>1. /\ backup' = IF NeedsBackup(t, i) THEN [backup EXCEPT ![t][i] = target[i]] ELSE backup
          /\ Set(p, IF i = N THEN [proc[p] EXCEPT !.pc = "persistStaged"] ELSE [proc[p] EXCEPT !.idx = i + 1])
      BY <1>1, <2>2 DEF StageFile
    <3>2. /\ [proc[p] EXCEPT !.pc = "persistStaged"].pc = "persistStaged"
          /\ [proc[p] EXCEPT !.idx = i + 1].pc = "stage" /\ [proc[p] EXCEPT !.idx = i + 1].idx = i + 1
      BY <1>1 DEF Process
    <3> QED  BY <2>2, <3>1, <3>2
  <2> QED  BY <2>1, <2>2
<1>5. s.pc \in {"stage", "persistStaged", "cleanup"} /\ s.txn = t /\ s.op = "apply"
  BY <1>1, <1>4 DEF Process
<1>6. Around(p, t) /\ proc'[p] = s /\ proc' = [proc EXCEPT ![p] = proc'[p]]
  BY <1>1, <1>2, <1>3, <1>4, <1>5, SetAround
<1>7. ForeignHand => ForeignHand'
  BY <1>2, <1>5, <1>6, HandKept
<1>8. Regular'
  BY <1>2 DEF RInv, Regular
<1>9. StrayFree'
  BY <1>1, <1>2, <1>6, StrayKept DEF RInv
<1>10. s.pc # "cleanup" => \A k \in Files : k <= i /\ NeedsBackup(t, k)' => BackupMatches(t, k)'
  <2> SUFFICES ASSUME s.pc # "cleanup", NEW k \in Files, k <= i, NeedsBackup(t, k)
               PROVE  BackupMatches(t, k)'
    BY <1>2 DEF NeedsBackup
  <2>1. CASE k = i
    <3>1. backup'[t][i] = target[i] /\ target[i] \in Snapshot /\ target[i].bytes = orig[t][i].bytes
      BY <1>4, <2>1 DEF BackupAllowed, IInv, TypeOK
    <3> QED  BY <1>2, <2>1, <3>1, ConstantsAssumption DEF BackupMatches
  <2>2. CASE k # i
    <3>1. k < i
      BY <2>2 DEF Files
    <3>2. BackupMatches(t, k)
      BY <1>1, <3>1 DEF RInv, Recovering
    <3>3. backup'[t][k] = backup[t][k]
      BY <1>4, <2>2 DEF IInv, TypeOK
    <3> QED  BY <1>2, <3>2, <3>3 DEF BackupMatches
  <2> QED  BY <2>1, <2>2
<1>11. StoredWell(t)'
  <2>1. CASE s.pc = "persistStaged"
    <3>1. i = N
      BY <1>4, <2>1
    <3>2. BackedUp(t)'
      BY <1>10, <2>1, <3>1 DEF BackedUp, Files
    <3> QED  BY <1>1, <1>2, <3>2 DEF StoredWell
  <2>2. CASE s.pc # "persistStaged"
    BY <1>5, <1>6, <2>2 DEF StoredWell, Unsettled
  <2> QED  BY <2>1, <2>2
<1>12. Recovering(s)'
  <2>1. CASE s.pc # "stage"
    BY <1>5, <2>1, RunsOn, Stops
  <2>2. CASE s.pc = "stage"
    <3>1. s.idx = i + 1
      BY <1>4, <2>2
    <3>2. \A k \in Files : k < i + 1 => k <= i
      BY DEF Files
    <3> QED  BY <1>5, <1>10, <2>2, <3>1, <3>2 DEF Recovering
  <2> QED  BY <2>1, <2>2
<1> QED  BY <1>6, <1>7, <1>8, <1>9, <1>11, <1>12, RecoveringNext, RCombine

\* Cleaning up takes the transaction apart, and its directory last.
LEMMA CleanupTransactionRecovers ==
  ASSUME IInv, RInv, NEW p \in Procs, CleanupTransaction(p)
  PROVE  RInv'
<1>1. PICK t \in Txns :
        /\ t = proc[p].txn /\ proc[p].pc = "cleanup" /\ proc[p] \in Process
        /\ \A q \in Procs : q # p => proc[q].txn # t
  BY Busy DEF CleanupTransaction
<1>2. UNCHANGED <<target, temps, used, orig, new, touched>>
  BY DEF CleanupTransaction, fsVars, planVars
<1>3. \A u \in Txns : u # t => /\ backup'[u] = backup[u] /\ journal'[u] = journal[u]
                               /\ u \in present' => u \in present
  BY <1>1 DEF CleanupTransaction, IInv, TypeOK
<1>4. PICK s : /\ Set(p, s) /\ s.op = proc[p].op /\ s.res = proc[p].res
               /\ \/ s.pc = "cleanup" /\ s.txn = t
                  \/ s.pc = "idle" /\ s.txn = NoTxn /\ t \notin present'
  <2>1. CASE proc' = proc
    <3>1. Set(p, proc[p])
      BY <2>1 DEF Set, IInv, TypeOK
    <3> QED  BY <1>1, <3>1
  <2>2. CASE present' = present \ {t} /\ Return(p, proc[p].res)
    <3>1. PICK s : s = Idle(proc[p].op, proc[p].res)
      OBVIOUS
    <3>2. s.pc = "idle" /\ s.txn = NoTxn /\ s.op = proc[p].op /\ s.res = proc[p].res
      BY <3>1 DEF Idle
    <3> QED  BY <2>2, <3>1, <3>2 DEF Return
  <2> QED  BY <1>1, <2>1, <2>2 DEF CleanupTransaction
<1>5. Around(p, t) /\ proc'[p] = s /\ proc' = [proc EXCEPT ![p] = proc'[p]]
  BY <1>1, <1>2, <1>3, <1>4, SetAround
<1>6. ForeignHand => ForeignHand'
  BY <1>2, <1>4, <1>5, HandKept
<1>7. Regular'
  BY <1>2 DEF RInv, Regular
<1>8. StrayFree'
  BY <1>1, <1>2, <1>5, StrayKept DEF RInv
<1>9. StoredWell(t)'
  BY <1>4, <1>5 DEF StoredWell, Unsettled
<1>10. Recovering(s)'
  <2>1. s.op = "rollback" => s.res = "ok"
    BY <1>1, <1>4 DEF RInv, Recovering
  <2> QED  BY <1>4, <2>1, Stops
<1> QED  BY <1>5, <1>6, <1>7, <1>8, <1>9, <1>10, RecoveringNext, RCombine

\* Recovery begins on a transaction nobody works on, which has its journal.
LEMMA BeginRecoveryRecovers ==
  ASSUME IInv, RInv, NEW p \in Procs, NEW t \in Txns, NEW op \in {"resume", "rollback"},
         BeginRecovery(p, t, op)
  PROVE  RInv'
<1>1. proc[p].pc = "idle" /\ proc[p].txn = NoTxn /\ t \in present /\ \A q \in Procs : proc[q].txn # t
  BY DEF BeginRecovery, Abandoned, IInv, At, Placed
<1>2. FilesStill /\ journal' = journal
  BY DEF BeginRecovery, FilesStill, fsVars, storeVars, planVars, ghostVars
<1>3. journal[t] # NoJournal /\ BackedUp(t)
  BY <1>1 DEF RInv, StoredWell
<1>4. CASE op = "resume" /\ journal[t].state \in Finished
  <2>1. PICK s : s = Idle(op, "TransactionFinished")
    OBVIOUS
  <2>2. s.pc = "idle" /\ s.txn = NoTxn /\ s.op = op
    BY <2>1 DEF Idle
  <2>3. Set(p, s)
    BY <1>3, <1>4, <2>1 DEF BeginRecovery
  <2> QED  BY <1>1, <1>2, <1>4, <2>2, <2>3, IdleRecovers
<1>5. CASE ~(op = "resume" /\ journal[t].state \in Finished)
  <2>1. PICK s : s = [Idle(op, "none") EXCEPT !.pc = "reconcile", !.txn = t, !.idx = 1, !.j = journal[t]]
    OBVIOUS
  <2>2. s.pc = "reconcile" /\ s.txn = t /\ s.op = op /\ ~s.saw
    BY <2>1 DEF Idle
  <2>3. Set(p, s)
    BY <1>3, <1>5, <2>1 DEF BeginRecovery
  <2>4. Around(p, t) /\ proc'[p] = s /\ proc' = [proc EXCEPT ![p] = proc'[p]]
    BY <1>1, <1>2, <2>2, <2>3, SetAround DEF FilesStill
  <2>5. ForeignHand => ForeignHand'
    BY <1>2, <2>2, <2>4, HandKept DEF FilesStill
  <2>6. Regular'
    BY <1>2 DEF RInv, Regular, FilesStill
  <2>7. StrayFree'
    BY <1>1, <1>2, <2>4, StrayKept DEF RInv, FilesStill
  <2>8. StoredWell(t)'
    BY <1>2, <1>3 DEF StoredWell, FilesStill, BackedUp, NeedsBackup, BackupMatches
  <2>9. Recovering(s)'
    BY <2>2 DEF Recovering, RollbackRuns
  <2> QED  BY <2>4, <2>5, <2>6, <2>7, <2>8, <2>9, RecoveringNext, RCombine
<1> QED  BY <1>4, <1>5

\* Another program's write marks the file for every transaction.
LEMMA ExternalWriteRecovers ==
  ASSUME IInv, RInv, RegularTrees, NEW i \in Files, NEW v \in WriterStates, ExternalWrite(i, v)
  PROVE  RInv'
<1>1. UNCHANGED <<temps, present, used, journal, backup, orig, new, proc>>
  BY DEF ExternalWrite, storeVars, planVars
<1>2. \A k \in Files : target'[k] # target[k] => k = i
  BY DEF ExternalWrite, IInv, TypeOK
<1>3. \A u \in Txns, k \in Files : <<u, k>> \in touched => <<u, k>> \in touched'
  BY DEF ExternalWrite, Disturb
<1>4. \A u \in Txns : u \in present => <<u, i>> \in touched'
  BY ConstantsAssumption DEF ExternalWrite, Disturb
<1>5. Around(NoTxn, NoTxn)
  BY <1>1, <1>2, <1>3, <1>4, ConstantsAssumption DEF Around
<1>6. ForeignHand => ForeignHand'
  BY <1>1, <1>3 DEF ForeignHand, Settled
<1>7. Regular'
  BY DEF RInv, Regular, RegularTrees, ExternalWrite, IInv, TypeOK
<1>8. StrayFree'
  BY <1>1 DEF RInv, StrayFree, TempOf, Kind
<1> QED  BY <1>5, <1>6, <1>7, <1>8, RCombine, ConstantsAssumption

\* A stuttering step changes nothing.
LEMMA StutterRecovers ==
  ASSUME IInv, RInv, UNCHANGED vars
  PROVE  RInv'
<1>1. UNCHANGED <<target, temps, present, used, journal, backup, orig, new, touched, proc>>
  BY DEF vars, fsVars, storeVars, planVars, ghostVars
<1>2. Around(NoTxn, NoTxn) /\ (ForeignHand => ForeignHand')
  BY <1>1, ConstantsAssumption DEF Around, ForeignHand, Settled
<1>3. Regular' /\ StrayFree'
  BY <1>1 DEF RInv, Regular, StrayFree, TempOf, Kind
<1> QED  BY <1>2, <1>3, RCombine, ConstantsAssumption

\* Before the first operation there is nothing to recover.
LEMMA InitRecovers ==
  ASSUME RegularTrees, Init
  PROVE  RInv
<1>1. Regular
  BY DEF Init, RegularTrees, Regular
<1>2. (\A t \in Txns : StoredWell(t)) /\ StrayFree
  BY DEF Init, StoredWell, StrayFree
<1>3. PICK s : s = Idle("none", "none")
  OBVIOUS
<1>4. s.op = "none" /\ s.pc = "idle"
  BY <1>3 DEF Idle
<1>5. \A p \in Procs : proc[p] = s
  BY <1>3 DEF Init
<1> QED  BY <1>1, <1>2, <1>4, <1>5 DEF RInv, Recovering

\* Every step of a running operation keeps what recovery rests on.
LEMMA ProcessRecovers ==
  ASSUME IInv, RInv, NEW p \in Procs, Step(p)
  PROVE  RInv'
<1>1. CASE \E c \in Capsules, keep \in BOOLEAN : CreateTransaction(p, c, keep)
  BY <1>1, CreateTransactionRecovers
<1>2. CASE PrepareFile(p) \/ PersistPrepared(p) \/ StageFile(p) \/ PersistStaged(p)
  BY <1>2, PrepareFileRecovers, PersistPreparedRecovers, StageFileRecovers, PersistStagedRecovers
<1>3. CASE CommitBegin(p) \/ EnsureDirectory(p) \/ Precondition(p)
  BY <1>3, CommitBeginRecovers, EnsureDirectoryRecovers, PreconditionRecovers
<1>4. CASE MakeParent(p) \/ WriteTemp(p) \/ Rename(p)
  BY <1>4, MakeParentRecovers, WriteTempRecovers, RenameRecovers
<1>5. CASE VerifyCommitted(p) \/ PersistCommitted(p)
  BY <1>5, VerifyCommittedRecovers, PersistCommittedRecovers
<1>6. CASE RollbackBegin(p) \/ RollbackCheck(p) \/ RemoveTarget(p)
  BY <1>6, RollbackBeginRecovers, RollbackCheckRecovers, RemoveTargetRecovers
<1>7. CASE RollbackDirectories(p) \/ PersistRolledBack(p)
  BY <1>7, RollbackDirectoriesRecovers, PersistRolledBackRecovers
<1>8. CASE CleanupTransaction(p) \/ ReconcileFile(p)
  BY <1>8, CleanupTransactionRecovers, ReconcileFileRecovers
<1> QED  BY <1>1, <1>2, <1>3, <1>4, <1>5, <1>6, <1>7, <1>8 DEF Step

\* Every step keeps what recovery rests on.
LEMMA RecoveryPreserved ==
  ASSUME RecoverableFaults, RegularTrees, IInv, RInv, [Next]_vars
  PROVE  RInv'
<1>1. ASSUME NEW p \in Procs, BeginApply(p) PROVE RInv'
  BY <1>1, BeginApplyRecovers
<1>2. ASSUME NEW p \in Procs, Step(p) PROVE RInv'
  BY <1>2, ProcessRecovers
<1>3. ASSUME NEW p \in Procs, Crash(p) \/ IoFailure(p) PROVE RInv'
  BY <1>3, CrashRecovers, IoFailureRecovers
<1>4. ASSUME NEW p \in Procs, NEW t \in Txns,
             ResumeTransaction(p, t) \/ RollbackTransaction(p, t)
      PROVE  RInv'
  BY <1>4, BeginRecoveryRecovers DEF ResumeTransaction, RollbackTransaction
<1>5. ASSUME NEW i \in Files, NEW v \in WriterStates, ExternalWrite(i, v) PROVE RInv'
  BY <1>5, ExternalWriteRecovers
<1>6. CASE UNCHANGED vars
  BY <1>6, StutterRecovers
<1> QED  BY <1>1, <1>2, <1>3, <1>4, <1>5, <1>6 DEF Next

\* RInv holds in every reachable state, if no fault falls on a point that
\* leaves debris and the trees hold regular files only.
THEOREM RecoveryInvariance ==
  ASSUME RecoverableFaults, RegularTrees
  PROVE  Spec => []RInv
<1>1. Init => RInv
  BY InitRecovers
<1>2. IInv /\ RInv /\ [Next]_vars => RInv'
  BY RecoveryPreserved
<1> QED  BY <1>1, <1>2, Invariance, PTL DEF Spec

\* rollback_transaction is never refused on files that only the transaction
\* itself has changed, however many processes, crashes and I/O errors there
\* are, if none of the faults falls on a point that leaves debris: the journal
\* is there, reconcile accepts what it finds, every backup it needs is intact
\* and no temporary stands in its way.
THEOREM RollbackIsNotRefused ==
  ASSUME RecoverableFaults, RegularTrees
  PROVE  Spec => []RollbackNotRefused
<1>1. RInv => RollbackNotRefused
  BY DEF RInv, Recovering, ForeignHand, RollbackNotRefused
<1> QED  BY <1>1, RecoveryInvariance, PTL

\* Under the same conditions every transaction an interrupted or failed
\* operation leaves behind has a journal that list_transactions can read.
THEOREM LeftoversAreInspectable ==
  ASSUME RecoverableFaults, RegularTrees
  PROVE  Spec => []LeftoversInspectable
<1>1. IInv /\ RInv => LeftoversInspectable
  <2> SUFFICES ASSUME IInv, RInv, Quiet, NEW t \in present  PROVE journal[t] # NoJournal
    BY DEF LeftoversInspectable, ListTransactionsSucceeds
  <2>1. StoredWell(t)
    BY DEF IInv, TypeOK, RInv
  <2> QED  BY <2>1 DEF StoredWell, Quiet, Unsettled
<1> QED  BY <1>1, Invariance, RecoveryInvariance, PTL

=============================================================================
