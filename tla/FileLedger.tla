----------------------------- MODULE FileLedger -----------------------------
(***************************************************************************)
(* The append-only file ledger of one witness                              *)
(* (crates/rebyte-cli/src/release_ledger.rs), as `chain release grant`     *)
(* uses it: every run of the command opens and locks the file, parses it,  *)
(* authorizes one request and writes the grant.                            *)
(*                                                                         *)
(* The file is what the processes read (cache) and what the disk holds.    *)
(* A killed process leaves the cache; a power loss leaves on disk a prefix *)
(* of the cache that contains what was synced.  Digests of the record      *)
(* chain are collision free, so a record is valid or torn.                 *)
(***************************************************************************)
EXTENDS Naturals, Sequences, FiniteSets

CONSTANTS
  Procs,          \* processes running `chain release grant` with this ledger
  Requests, Scopes, ScopeOf, Limit, NoLimit,
  MaxRecords,     \* MAX_RECORDS
  NoFile,         \* the path does not exist
  NoProc,         \* nobody holds the lock
  Environments,   \* what the processes may meet: see Environment
  MaxFaults       \* bound on killed processes and I/O errors

LedgerRecord == [req : Requests, ordinal : 1..MaxRecords]
File == [head : {"empty", "torn", "full"}, recs : Seq(LedgerRecord), torn : BOOLEAN]

EmptyFile == [head |-> "empty", recs |-> <<>>, torn |-> FALSE]
TornHeader == [EmptyFile EXCEPT !.head = "torn"]

Points ==
  {"idle", "header", "syncHeader", "syncParent", "parse", "syncTrim",
   "authorize", "append", "sync", "write"}
Results ==
  {"none", "granted", "ReleaseAuthorityUnavailable", "ReleaseLimitReached", "fault"}

\* The points at which a process may be killed or meet an I/O error, and the
\* number of power losses.
Environment == [points : SUBSET Points, losses : Nat]

Process ==
  [pc : Points, req : Requests \cup {NoProc}, recs : Seq(LedgerRecord),
   ordinal : 0..MaxRecords, res : Results]

ASSUME FileLedgerAssumption ==
  /\ ScopeOf \in [Requests -> Scopes]
  /\ Limit \in [Scopes -> Nat \cup {NoLimit}]
  /\ MaxRecords \in Nat /\ MaxFaults \in Nat
  /\ Environments \subseteq Environment
  /\ NoFile \notin File /\ NoProc \notin Procs

VARIABLES
  cache,    \* the file every process sees
  disk,     \* the content that survives a power loss
  entry,    \* the directory entry survives a power loss
  lock,     \* holder of the advisory lock
  proc,     \* the processes
  granted,  \* <<r, n>>: the grant of r with ordinal n was written out
  env,      \* the environment of this behaviour
  faults, losses

fileVars == <<cache, disk, entry>>
vars == <<fileVars, lock, proc, granted, env, faults, losses>>

-----------------------------------------------------------------------------
Idle(r) == [pc |-> "idle", req |-> NoProc, recs |-> <<>>, ordinal |-> 0, res |-> r]
Goto(p, pc) == proc' = [proc EXCEPT ![p].pc = pc]

\* The command ends; its file handle is closed and the lock with it.
Exit(p, r) == proc' = [proc EXCEPT ![p] = Idle(r)] /\ lock' = NoProc

Scope(rec) == ScopeOf[rec.req]

\* The places of the records of scope s among recs, and their number.
PlacesOf(recs, s) == {k \in 1..Len(recs) : Scope(recs[k]) = s}
CountOf(recs, s) == Cardinality(PlacesOf(recs, s))

\* The per record checks of parse_ledger: the next ordinal, a new request.
Consistent(recs) ==
  \A k \in 1..Len(recs) :
    LET before == SubSeq(recs, 1, k - 1) IN
    /\ recs[k].ordinal = CountOf(before, Scope(recs[k])) + 1
    /\ \A m \in 1..(k - 1) : before[m].req # recs[k].req

\* Mutant: a torn last record is an error.
ParsesWhole(f) ==
  /\ f.head = "full" /\ ~f.torn
  /\ Len(f.recs) <= MaxRecords
  /\ Consistent(f.recs)

\* parse_ledger accepts the bytes.
Parses(f) ==
  /\ f.head = "full"
  /\ Len(f.recs) <= MaxRecords
  /\ Consistent(f.recs)

Init ==
  /\ cache = NoFile /\ disk = EmptyFile /\ entry = FALSE
  /\ lock = NoProc
  /\ proc = [p \in Procs |-> Idle("none")]
  /\ granted = {}
  /\ env \in Environments
  /\ faults = 0 /\ losses = 0

-----------------------------------------------------------------------------
(* FileReleaseLedger::open                                                 *)

\* Create the file when it is missing, lock it and look at its length.
Open(p, r) ==
  LET f == IF cache = NoFile THEN EmptyFile ELSE cache IN
  /\ proc[p].pc = "idle" /\ lock = NoProc
  /\ lock' = p
  /\ cache' = f
  /\ proc' = [proc EXCEPT ![p] =
       [Idle("none") EXCEPT !.req = r, !.pc = IF f = EmptyFile THEN "header" ELSE "parse"]]
  /\ UNCHANGED <<disk, entry, granted, faults, env, losses>>

\* The header is written in several pieces.
WriteHeader(p) ==
  /\ proc[p].pc = "header"
  /\ \/ /\ cache' = TornHeader /\ cache.head = "empty" /\ UNCHANGED proc
     \/ /\ cache' = [EmptyFile EXCEPT !.head = "full"] /\ cache.head = "torn"
        /\ Goto(p, "syncHeader")
  /\ UNCHANGED <<disk, entry, lock, granted, faults, env, losses>>

SyncHeader(p) ==
  /\ proc[p].pc = "syncHeader"
  /\ disk' = cache
  /\ Goto(p, "syncParent")
  /\ UNCHANGED <<cache, entry, lock, granted, faults, env, losses>>

SyncParent(p) ==
  /\ proc[p].pc = "syncParent"
  /\ entry' = TRUE
  /\ Goto(p, "parse")
  /\ UNCHANGED <<cache, disk, lock, granted, faults, env, losses>>

\* An incomplete last record is cut off, anything else wrong is an error.
Parse(p) ==
  /\ proc[p].pc = "parse"
  /\ IF ~Parses(cache)
     THEN Exit(p, "ReleaseAuthorityUnavailable") /\ UNCHANGED cache
     ELSE /\ cache' = [cache EXCEPT !.torn = FALSE]
          /\ proc' = [proc EXCEPT ![p].pc = IF cache.torn THEN "syncTrim" ELSE "authorize",
                                  ![p].recs = cache.recs]
          /\ UNCHANGED lock
  /\ UNCHANGED <<disk, entry, granted, faults, env, losses>>

SyncTrim(p) ==
  /\ proc[p].pc = "syncTrim"
  /\ disk' = cache
  /\ Goto(p, "authorize")
  /\ UNCHANGED <<cache, entry, lock, granted, faults, env, losses>>

-----------------------------------------------------------------------------
(* FileReleaseLedger::authorize                                            *)

\* The ordinal of a fresh request.
NextOrdinal(recs, r) == CountOf(recs, ScopeOf[r]) + 1

\* Mutant: the comparison admits one more.
ExhaustedLate(recs, r) ==
  Limit[ScopeOf[r]] # NoLimit /\ CountOf(recs, ScopeOf[r]) > Limit[ScopeOf[r]]

Exhausted(recs, r) ==
  Limit[ScopeOf[r]] # NoLimit /\ CountOf(recs, ScopeOf[r]) >= Limit[ScopeOf[r]]

\* Mutant: a repeated request is treated as a new one.
RecordedNever(recs, r) == {}

\* The record of an earlier authorization of the same request.
Recorded(recs, r) == {k \in 1..Len(recs) : recs[k].req = r}

\* Mutant: one record too many.
FullLate(recs) == Len(recs) > MaxRecords

Full(recs) == Len(recs) >= MaxRecords

\* A recorded request is issued again with its ordinal; a new one is issued
\* in memory, then appended.
Authorize(p) ==
  LET q == proc[p] IN
  /\ q.pc = "authorize"
  /\ \/ \E k \in Recorded(q.recs, q.req) :
          /\ proc' = [proc EXCEPT ![p].pc = "write", ![p].ordinal = q.recs[k].ordinal]
          /\ UNCHANGED lock
     \/ /\ Recorded(q.recs, q.req) = {} /\ Full(q.recs)
        /\ Exit(p, "ReleaseAuthorityUnavailable")
     \/ /\ Recorded(q.recs, q.req) = {} /\ ~Full(q.recs)
        /\ Exhausted(q.recs, q.req)
        /\ Exit(p, "ReleaseLimitReached")
     \/ /\ Recorded(q.recs, q.req) = {} /\ ~Full(q.recs)
        /\ ~Exhausted(q.recs, q.req)
        /\ proc' = [proc EXCEPT ![p].pc = "append",
                                ![p].ordinal = NextOrdinal(q.recs, q.req)]
        /\ UNCHANGED lock
  /\ UNCHANGED <<fileVars, granted, faults, env, losses>>

\* Mutant: the record is not synced.
AfterAppendUnsynced == "write"

\* What authorize does once the record is written.
AfterAppend == "sync"

\* The body and the digest are two writes.
AppendRecord(p) ==
  LET q == proc[p] IN
  /\ q.pc = "append"
  /\ \/ /\ ~cache.torn
        /\ cache' = [cache EXCEPT !.torn = TRUE]
        /\ UNCHANGED proc
     \/ /\ cache.torn
        /\ cache' = [cache EXCEPT !.torn = FALSE,
                       !.recs = Append(@, [req |-> q.req, ordinal |-> q.ordinal])]
        /\ Goto(p, AfterAppend)
  /\ UNCHANGED <<disk, entry, lock, granted, faults, env, losses>>

SyncRecord(p) ==
  /\ proc[p].pc = "sync"
  /\ disk' = cache
  /\ Goto(p, "write")
  /\ UNCHANGED <<cache, entry, lock, granted, faults, env, losses>>

\* The command writes the grant, still holding the lock, and ends.
WriteGrant(p) ==
  /\ proc[p].pc = "write"
  /\ granted' = granted \cup {<<proc[p].req, proc[p].ordinal>>}
  /\ Exit(p, "granted")
  /\ UNCHANGED <<fileVars, faults, env, losses>>

-----------------------------------------------------------------------------
(* Faults                                                                  *)

\* The process is killed, the grant cannot be constructed, or another step
\* fails with `?`: nothing is undone.
Stop(p) ==
  /\ proc[p].pc \in env.points \ {"idle"}
  /\ faults < MaxFaults
  /\ faults' = faults + 1
  /\ Exit(p, "fault")
  /\ UNCHANGED <<fileVars, granted, env, losses>>

\* A write or the sync fails: authorize cuts the file back, if it can.
WriteError(p) ==
  LET back == [cache EXCEPT !.recs = proc[p].recs, !.torn = FALSE] IN
  /\ proc[p].pc \in env.points \cap {"append", "sync"}
  /\ faults < MaxFaults
  /\ faults' = faults + 1
  /\ cache' \in {cache, back}
  /\ disk' \in {disk, cache, cache'}
  /\ Exit(p, "ReleaseAuthorityUnavailable")
  /\ UNCHANGED <<entry, granted, env, losses>>

\* The beginnings of a file, byte by byte as far as parse_ledger can tell.
Beginnings(f) ==
  {EmptyFile}
    \cup (IF f.head = "empty" THEN {} ELSE {TornHeader})
    \cup (IF f.head # "full" THEN {}
          ELSE {g \in {[head |-> "full", recs |-> SubSeq(f.recs, 1, k), torn |-> b] :
                         k \in 0..Len(f.recs), b \in BOOLEAN} :
                  g.torn => Len(g.recs) < Len(f.recs) \/ f.torn})

\* What may be found after a power loss.
Survivors ==
  IF cache = NoFile THEN {NoFile}
  ELSE {f \in Beginnings(cache) : disk \in Beginnings(f)}
         \cup {disk, cache}
         \cup (IF entry THEN {} ELSE {NoFile})

PowerLoss ==
  /\ losses < env.losses
  /\ losses' = losses + 1
  /\ cache' \in Survivors
  /\ disk' = IF cache' = NoFile THEN EmptyFile ELSE cache'
  /\ entry' = (cache' # NoFile)
  /\ lock' = NoProc
  /\ proc' = [p \in Procs |-> Idle("fault")]
  /\ UNCHANGED <<granted, env, faults>>

Step(p) ==
  \/ WriteHeader(p) \/ SyncHeader(p) \/ SyncParent(p) \/ Parse(p) \/ SyncTrim(p)
  \/ Authorize(p) \/ AppendRecord(p) \/ SyncRecord(p) \/ WriteGrant(p)

Next ==
  \/ \E p \in Procs : Step(p) \/ Stop(p) \/ WriteError(p) \/ \E r \in Requests : Open(p, r)
  \/ PowerLoss

Spec == Init /\ [][Next]_vars

\* A running command keeps running, and a recipient without a grant keeps
\* asking the witness for it.
FairSpec ==
  /\ Spec
  /\ \A p \in Procs : WF_vars(Step(p))
  /\ \A r \in Requests : SF_vars(\E p \in Procs : Open(p, r))

-----------------------------------------------------------------------------
(* Properties                                                              *)

\* The ledger never locks its witness out: whatever authorize, an interrupted
\* authorize or a power loss leaves behind a complete header is accepted by
\* the checks of parse_ledger (record count, ordinals, duplicates).
ParseAccepts ==
  \A f \in {cache, disk} : f # NoFile /\ f.head = "full" => Parses(f)

\* What the next command may find at the path.
Findable == {cache} \cup (IF losses < env.losses THEN Survivors ELSE {})

OnRecord(f, g) ==
  /\ f # NoFile
  /\ [req |-> g[1], ordinal |-> g[2]] \in {f.recs[k] : k \in 1..Len(f.recs)}

\* A grant that left the witness is on record, with the ordinal the recipient
\* was given, in whatever a later command may find after the kills, I/O errors
\* and power losses of this environment: authorize records before it returns.
GrantsSurvive == \A g \in granted : \A f \in Findable : OnRecord(f, g)

\* A grant that left the witness is on record where a power loss cannot reach
\* it, with the ordinal the recipient was given: the decision is recorded
\* before it is returned, by the command that took it or an earlier one.
GrantedIsDurable == granted # {} => entry /\ \A g \in granted : OnRecord(disk, g)

\* The record of scope s with ordinal n.
PlaceOf(recs, s, n) == CHOOSE k \in PlacesOf(recs, s) : recs[k].ordinal = n

\* The requests of scope s in the records of f, by ordinal.
RequestsOf(f, s) ==
  IF f = NoFile THEN <<>>
  ELSE [n \in 1..CountOf(f.recs, s) |-> f.recs[PlaceOf(f.recs, s, n)].req]

Trait == INSTANCE LimitedLedger
           WITH requests <- [s \in Scopes |-> RequestsOf(cache, s)]

\* The file ledger implements the ReleaseLedger trait: one ordinal per
\* request, handed out again on every repetition, consecutive within a scope,
\* never above the contract's maximum, and undone only while no grant is out.
ImplementsTrait == Trait!Spec

\* The grants of one witness agree with each other, through every crash and
\* power loss: one ordinal per request, one request per ordinal of a scope,
\* none above the contract's maximum.
GrantsAgree == Trait!GrantsAgree

Answered(r) ==
  \/ \E n \in 1..MaxRecords : <<r, n>> \in granted
  \/ cache # NoFile /\ (cache.head = "torn" \/ Full(cache.recs) \/ Exhausted(cache.recs, r))

\* A request that is repeated is granted in the end, or refused for a reason
\* that stays: a torn tail, a lost lock holder or an authorization whose grant
\* was lost does not keep it from being granted.  (A header torn by a crash of
\* the very first command does.)
RequestsAnswered == \A r \in Requests : <>[]Answered(r)

=============================================================================
