-------------------------- MODULE FileLedgerProofs --------------------------
(***************************************************************************)
(* The file ledger of one witness, for any number of processes, requests,  *)
(* scopes, maximums, records, faults and power losses: what it holds is    *)
(* always accepted by parse_ledger, the grants that left the witness are   *)
(* on record and agree with each other, and the file implements the        *)
(* ReleaseLedger trait.                                                    *)
(***************************************************************************)
EXTENDS FileLedger, FiniteSetTheorems, SequenceTheorems, TLAPS

-----------------------------------------------------------------------------
(* The inductive invariant of every environment: the content of the file.  *)

TypeOK ==
  /\ cache \in File \cup {NoFile} /\ disk \in File
  /\ entry \in BOOLEAN
  /\ proc \in [Procs -> Process]
  /\ granted \subseteq Requests \X (1..MaxRecords)
  /\ env \in Environments
  /\ losses \in Nat

\* The ordinals of a scope have no gap.
Numbered(recs) ==
  \A s \in Scopes : \A n \in 1..CountOf(recs, s) :
    \E k \in PlacesOf(recs, s) : recs[k].ordinal = n

\* No scope exceeds its maximum.
WithinLimits(recs) ==
  \A s \in Scopes : Limit[s] # NoLimit => CountOf(recs, s) <= Limit[s]

GoodRecs(recs) ==
  /\ recs \in Seq(LedgerRecord)
  /\ Len(recs) <= MaxRecords
  /\ Consistent(recs)
  /\ Numbered(recs)
  /\ WithinLimits(recs)

\* Records follow a complete header.
GoodFile(f) ==
  /\ f \in File
  /\ GoodRecs(f.recs)
  /\ f.head # "full" => f.recs = <<>>

FilesGood == GoodFile(disk) /\ (cache # NoFile => GoodFile(cache))

\* A command that is off idle holds the lock, and there is a file.
Locked ==
  \A p \in Procs : proc[p].pc # "idle" =>
    lock = p /\ cache # NoFile /\ proc[p].req \in Requests

\* The request may be appended to recs with the ordinal.
Fresh(recs, r, n) ==
  /\ Recorded(recs, r) = {}
  /\ ~Full(recs)
  /\ ~Exhausted(recs, r)
  /\ n = NextOrdinal(recs, r)

\* What the command in state q, holding the lock, knows of the file f.
Knows(q, f) ==
  /\ q.pc = "header" => f.head \in {"empty", "torn"}
  /\ q.pc \in {"syncHeader", "syncParent"} => f.head = "full" /\ f.recs = <<>>
  /\ q.pc \in {"syncTrim", "authorize", "append", "sync", "write"} => f.head = "full"
  /\ q.pc \in {"syncTrim", "authorize", "append"} => q.recs = f.recs
  /\ q.pc \in {"append", "sync"} => GoodRecs(q.recs) /\ Fresh(q.recs, q.req, q.ordinal)
  /\ q.pc = "sync" => f.recs = Append(q.recs, [req |-> q.req, ordinal |-> q.ordinal])
  /\ q.pc = "write" => OnRecord(f, <<q.req, q.ordinal>>)

ContentInv == TypeOK /\ FilesGood /\ Locked /\ \A p \in Procs : Knows(proc[p], cache)

-----------------------------------------------------------------------------
(* The inductive invariant of the grants.                                  *)

\* Points between a complete write and its sync.
Unsynced == {"syncHeader", "syncParent", "sync"}

\* No process stops between a complete write and its sync and then the power
\* fails: the combination in which GrantedIsDurable does not hold.
SyncedEnvironments ==
  \A e \in Environments : e.losses = 0 \/ e.points \cap Unsynced = {}

\* A grant that left the witness is in the file the processes see, and was
\* there before the record that is being written.
GrantsRecorded ==
  \A g \in granted :
    /\ OnRecord(cache, g)
    /\ \A p \in Procs : proc[p].pc = "sync" => g[1] # proc[p].req

\* The disk holds every record but the one that is being written.
DiskRecs ==
  IF cache = NoFile THEN disk.recs = <<>>
  ELSE \/ disk.recs = cache.recs
       \/ \E p \in Procs : proc[p].pc = "sync" /\ disk.recs = proc[p].recs

\* The directory entry of a complete header was synced, or is about to be.
EntryKept ==
  \/ entry \/ cache = NoFile \/ cache.head # "full"
  \/ \E p \in Procs : proc[p].pc \in {"syncHeader", "syncParent"}

\* Where the power may fail, the disk keeps up.
DiskKeepsUp == env.losses > 0 => DiskRecs /\ EntryKept

GrantInv == ContentInv /\ GrantsRecorded /\ DiskKeepsUp

-----------------------------------------------------------------------------
(* Records: counting and prefixes.                                         *)

\* The places of scope s before place k.
Before(recs, k, s) == {m \in 1..(k - 1) : Scope(recs[m]) = s}

\* A record belongs to one scope.
LEMMA RecordType ==
  ASSUME NEW recs \in Seq(LedgerRecord), NEW k \in 1..Len(recs)
  PROVE  /\ recs[k] \in LedgerRecord /\ recs[k].req \in Requests
         /\ recs[k].ordinal \in 1..MaxRecords /\ Scope(recs[k]) \in Scopes
<1>1. recs[k] \in LedgerRecord
  BY ElementOfSeq
<1>2. recs[k].req \in Requests /\ recs[k].ordinal \in 1..MaxRecords
  BY <1>1 DEF LedgerRecord
<1>3. ScopeOf \in [Requests -> Scopes]
  BY FileLedgerAssumption
<1> QED  BY <1>1, <1>2, <1>3 DEF Scope

\* The records before a place are a finite set of places, fewer than all.
LEMMA CountType ==
  ASSUME NEW recs \in Seq(LedgerRecord), NEW s
  PROVE  /\ IsFiniteSet(PlacesOf(recs, s))
         /\ CountOf(recs, s) \in Nat /\ CountOf(recs, s) <= Len(recs)
<1>1. Len(recs) \in Nat
  BY LenProperties
<1>2. IsFiniteSet(1..Len(recs)) /\ Cardinality(1..Len(recs)) = Len(recs)
  <2>1. 1 \in Int /\ Len(recs) \in Int
    BY <1>1
  <2>2. /\ IsFiniteSet(1..Len(recs))
        /\ Cardinality(1..Len(recs)) = IF 1 > Len(recs) THEN 0 ELSE Len(recs) - 1 + 1
    BY <2>1, FS_Interval
  <2> QED  BY <1>1, <2>2
<1>3. PlacesOf(recs, s) \in SUBSET (1..Len(recs))
  BY DEF PlacesOf
<1>4. /\ IsFiniteSet(PlacesOf(recs, s))
      /\ Cardinality(PlacesOf(recs, s)) <= Cardinality(1..Len(recs))
  BY <1>2, <1>3, FS_Subset
<1>5. Cardinality(PlacesOf(recs, s)) \in Nat
  BY <1>4, FS_CardinalityType
<1> QED  BY <1>2, <1>4, <1>5 DEF CountOf

\* The records of a prefix.
LEMMA PrefixRecs ==
  ASSUME NEW recs \in Seq(LedgerRecord), NEW n \in 0..Len(recs)
  PROVE  /\ SubSeq(recs, 1, n) \in Seq(LedgerRecord)
         /\ Len(SubSeq(recs, 1, n)) = n
         /\ \A k \in 1..n : SubSeq(recs, 1, n)[k] = recs[k]
<1>1. Len(recs) \in Nat /\ n \in Nat
  BY LenProperties
<1>2. \A k \in 1..n : recs[k] \in LedgerRecord
  BY <1>1, RecordType
<1>3. /\ SubSeq(recs, 1, n) \in Seq(LedgerRecord)
      /\ Len(SubSeq(recs, 1, n)) = IF 1 <= n THEN n - 1 + 1 ELSE 0
      /\ \A k \in 1..(n - 1 + 1) : SubSeq(recs, 1, n)[k] = recs[1 + k - 1]
  BY <1>1, <1>2, SubSeqProperties
<1>4. n - 1 + 1 = n /\ (\A k \in 1..n : 1 + k - 1 = k)
  BY <1>1
<1> QED  BY <1>1, <1>3, <1>4

\* The places of a scope in a prefix.
LEMMA PrefixPlaces ==
  ASSUME NEW recs \in Seq(LedgerRecord), NEW n \in 0..Len(recs), NEW s
  PROVE  PlacesOf(SubSeq(recs, 1, n), s) = Before(recs, n + 1, s)
<1>1. Len(recs) \in Nat /\ n \in Nat /\ n + 1 - 1 = n
  BY LenProperties
<1> QED  BY <1>1, PrefixRecs DEF PlacesOf, Before

\* The records of a ledger with one more.
LEMMA AppendRecs ==
  ASSUME NEW recs \in Seq(LedgerRecord), NEW rec \in LedgerRecord
  PROVE  /\ Append(recs, rec) \in Seq(LedgerRecord)
         /\ Len(Append(recs, rec)) = Len(recs) + 1
         /\ \A k \in 1..Len(recs) : Append(recs, rec)[k] = recs[k]
         /\ Append(recs, rec)[Len(recs) + 1] = rec
BY AppendProperties

\* One more record adds one place to its scope, and none to the others.
LEMMA AppendPlaces ==
  ASSUME NEW recs \in Seq(LedgerRecord), NEW rec \in LedgerRecord, NEW s
  PROVE  /\ PlacesOf(Append(recs, rec), s) =
              IF Scope(rec) = s THEN PlacesOf(recs, s) \cup {Len(recs) + 1}
              ELSE PlacesOf(recs, s)
         /\ CountOf(Append(recs, rec), s) =
              IF Scope(rec) = s THEN CountOf(recs, s) + 1 ELSE CountOf(recs, s)
<1>1. Len(recs) \in Nat
  BY LenProperties
<1>2. PlacesOf(Append(recs, rec), s) =
        IF Scope(rec) = s THEN PlacesOf(recs, s) \cup {Len(recs) + 1}
        ELSE PlacesOf(recs, s)
  BY <1>1, AppendRecs DEF PlacesOf
<1>3. Len(recs) + 1 \notin PlacesOf(recs, s)
  BY <1>1 DEF PlacesOf
<1>4. IsFiniteSet(PlacesOf(recs, s))
  BY CountType
<1>5. Cardinality(PlacesOf(recs, s) \cup {Len(recs) + 1}) = Cardinality(PlacesOf(recs, s)) + 1
  BY <1>3, <1>4, FS_AddElement
<1> QED  BY <1>2, <1>5 DEF CountOf

\* The checks of parse_ledger place by place.
LEMMA ConsistentPlaces ==
  ASSUME NEW recs \in Seq(LedgerRecord)
  PROVE  Consistent(recs) <=>
           \A k \in 1..Len(recs) :
             /\ recs[k].ordinal = Cardinality(Before(recs, k, Scope(recs[k]))) + 1
             /\ \A m \in 1..(k - 1) : recs[m].req # recs[k].req
<1> SUFFICES ASSUME NEW k \in 1..Len(recs)
             PROVE  /\ CountOf(SubSeq(recs, 1, k - 1), Scope(recs[k])) =
                         Cardinality(Before(recs, k, Scope(recs[k])))
                    /\ \A m \in 1..(k - 1) : SubSeq(recs, 1, k - 1)[m] = recs[m]
  BY DEF Consistent
<1>1. Len(recs) \in Nat
  BY LenProperties
<1>2. k - 1 \in 0..Len(recs) /\ k - 1 + 1 = k
  BY <1>1
<1> QED  BY <1>2, PrefixRecs, PrefixPlaces DEF CountOf

\* Fewer places lie before an earlier place; a record of the same scope in
\* between makes the difference.
LEMMA BeforeGrows ==
  ASSUME NEW recs \in Seq(LedgerRecord), NEW k \in 1..(Len(recs) + 1),
         NEW m \in 1..(Len(recs) + 1), k <= m, NEW s
  PROVE  /\ IsFiniteSet(Before(recs, m, s))
         /\ Cardinality(Before(recs, k, s)) \in Nat
         /\ Cardinality(Before(recs, m, s)) \in Nat
         /\ Cardinality(Before(recs, k, s)) <= Cardinality(Before(recs, m, s))
         /\ k < m /\ Scope(recs[k]) = s =>
              Cardinality(Before(recs, k, s)) < Cardinality(Before(recs, m, s))
<1>1. Len(recs) \in Nat /\ k \in Nat /\ m \in Nat
  BY LenProperties
<1>2. IsFiniteSet(PlacesOf(recs, s))
  BY CountType
<1>3. Before(recs, m, s) \in SUBSET PlacesOf(recs, s)
  BY <1>1 DEF Before, PlacesOf
<1>4. IsFiniteSet(Before(recs, m, s))
  BY <1>2, <1>3, FS_Subset
<1>5. Before(recs, k, s) \in SUBSET Before(recs, m, s)
  BY <1>1 DEF Before
<1>6. /\ IsFiniteSet(Before(recs, k, s))
      /\ Cardinality(Before(recs, k, s)) <= Cardinality(Before(recs, m, s))
      /\ Cardinality(Before(recs, m, s)) = Cardinality(Before(recs, k, s)) =>
           Before(recs, m, s) = Before(recs, k, s)
  BY <1>4, <1>5, FS_Subset
<1>7. Cardinality(Before(recs, k, s)) \in Nat /\ Cardinality(Before(recs, m, s)) \in Nat
  BY <1>4, <1>6, FS_CardinalityType
<1>8. k < m /\ Scope(recs[k]) = s => k \in Before(recs, m, s) /\ k \notin Before(recs, k, s)
  BY <1>1 DEF Before
<1> QED  BY <1>4, <1>6, <1>7, <1>8

\* All places of a scope come before the end.
LEMMA BeforeEnd ==
  ASSUME NEW recs \in Seq(LedgerRecord), NEW s
  PROVE  Before(recs, Len(recs) + 1, s) = PlacesOf(recs, s)
<1>1. Len(recs) \in Nat /\ Len(recs) + 1 - 1 = Len(recs)
  BY LenProperties
<1> QED  BY <1>1 DEF Before, PlacesOf

\* The ordinal of a record lies within the count of its scope.
LEMMA OrdinalBound ==
  ASSUME NEW recs \in Seq(LedgerRecord), Consistent(recs), NEW k \in 1..Len(recs)
  PROVE  recs[k].ordinal \in 1..CountOf(recs, Scope(recs[k]))
<1>1. Len(recs) \in Nat /\ k \in 1..(Len(recs) + 1) /\ Len(recs) + 1 \in 1..(Len(recs) + 1)
      /\ k < Len(recs) + 1
  BY LenProperties
<1>2. recs[k].ordinal = Cardinality(Before(recs, k, Scope(recs[k]))) + 1
  BY ConsistentPlaces
<1>3. /\ Cardinality(Before(recs, k, Scope(recs[k]))) \in Nat
      /\ Cardinality(Before(recs, Len(recs) + 1, Scope(recs[k]))) \in Nat
      /\ Cardinality(Before(recs, k, Scope(recs[k]))) <
           Cardinality(Before(recs, Len(recs) + 1, Scope(recs[k])))
  BY <1>1, BeforeGrows
<1>4. CountOf(recs, Scope(recs[k])) =
        Cardinality(Before(recs, Len(recs) + 1, Scope(recs[k])))
  BY BeforeEnd DEF CountOf
<1> QED  BY <1>2, <1>3, <1>4

\* One record per ordinal of a scope, one record per request.
LEMMA OneRecord ==
  ASSUME NEW recs \in Seq(LedgerRecord), Consistent(recs),
         NEW k \in 1..Len(recs), NEW m \in 1..Len(recs)
  PROVE  /\ Scope(recs[k]) = Scope(recs[m]) /\ recs[k].ordinal = recs[m].ordinal => k = m
         /\ recs[k].req = recs[m].req => k = m
<1>1. Len(recs) \in Nat
  BY LenProperties
<1>2. ASSUME NEW i \in 1..Len(recs), NEW j \in 1..Len(recs), i < j
      PROVE  /\ recs[i].req # recs[j].req
             /\ Scope(recs[i]) = Scope(recs[j]) => recs[i].ordinal # recs[j].ordinal
  <2>1. i \in 1..(j - 1) /\ i \in 1..(Len(recs) + 1) /\ j \in 1..(Len(recs) + 1) /\ i <= j
    BY <1>1, <1>2
  <2>2. recs[i].req # recs[j].req
    BY <2>1, ConsistentPlaces
  <2>3. /\ recs[i].ordinal = Cardinality(Before(recs, i, Scope(recs[i]))) + 1
        /\ recs[j].ordinal = Cardinality(Before(recs, j, Scope(recs[j]))) + 1
    BY ConsistentPlaces
  <2>4. /\ Cardinality(Before(recs, i, Scope(recs[i]))) \in Nat
        /\ Cardinality(Before(recs, j, Scope(recs[i]))) \in Nat
        /\ Cardinality(Before(recs, i, Scope(recs[i]))) <
             Cardinality(Before(recs, j, Scope(recs[i])))
    BY <1>2, <2>1, BeforeGrows
  <2> QED  BY <2>2, <2>3, <2>4
<1>3. k < m \/ m < k \/ k = m
  BY <1>1
<1> QED  BY <1>2, <1>3

\* An empty ledger is good.
LEMMA EmptyGood == GoodRecs(<<>>)
<1>1. <<>> \in Seq(LedgerRecord) /\ Len(<<>>) = 0
  BY EmptySeq
<1>2. \A s : PlacesOf(<<>>, s) = {}
  BY <1>1 DEF PlacesOf
<1>3. \A s : CountOf(<<>>, s) = 0
  BY <1>2, FS_EmptySet DEF CountOf
<1>4. MaxRecords \in Nat /\ \A s \in Scopes : Limit[s] \in Nat \cup {NoLimit}
  BY FileLedgerAssumption
<1>5. Consistent(<<>>)
  BY <1>1 DEF Consistent
<1>6. Numbered(<<>>)
  BY <1>3 DEF Numbered
<1>7. WithinLimits(<<>>)
  BY <1>3, <1>4 DEF WithinLimits
<1> QED  BY <1>1, <1>4, <1>5, <1>6, <1>7 DEF GoodRecs

\* A prefix of a good ledger is good.
LEMMA PrefixGood ==
  ASSUME NEW recs, GoodRecs(recs), NEW n \in 0..Len(recs)
  PROVE  GoodRecs(SubSeq(recs, 1, n))
<1> DEFINE pre == SubSeq(recs, 1, n)
<1>1. /\ recs \in Seq(LedgerRecord) /\ Consistent(recs) /\ Numbered(recs)
      /\ WithinLimits(recs) /\ Len(recs) <= MaxRecords /\ MaxRecords \in Nat
  BY FileLedgerAssumption DEF GoodRecs
<1>2. Len(recs) \in Nat /\ n \in Nat /\ n <= Len(recs)
  BY <1>1, LenProperties
<1>3. pre \in Seq(LedgerRecord) /\ Len(pre) = n /\ \A k \in 1..n : pre[k] = recs[k]
  BY <1>1, PrefixRecs
<1>4. \A s : CountOf(pre, s) = Cardinality(Before(recs, n + 1, s))
  BY <1>1, PrefixPlaces DEF CountOf
<1>5. \A s : CountOf(recs, s) = Cardinality(Before(recs, Len(recs) + 1, s))
  BY <1>1, BeforeEnd DEF CountOf
<1> HIDE DEF pre
<1>6. \A s : /\ CountOf(pre, s) \in Nat /\ CountOf(recs, s) \in Nat
             /\ CountOf(pre, s) <= CountOf(recs, s)
  <2>1. /\ n + 1 \in 1..(Len(recs) + 1) /\ Len(recs) + 1 \in 1..(Len(recs) + 1)
        /\ n + 1 <= Len(recs) + 1
    BY <1>2
  <2> QED  BY <1>1, <1>4, <1>5, <2>1, BeforeGrows
<1>7. Consistent(pre)
  <2> SUFFICES ASSUME NEW k \in 1..n
               PROVE  /\ pre[k].ordinal = Cardinality(Before(pre, k, Scope(pre[k]))) + 1
                      /\ \A m \in 1..(k - 1) : pre[m].req # pre[k].req
    BY <1>3, ConsistentPlaces
  <2>1. k \in 1..Len(recs) /\ \A m \in 1..(k - 1) : m \in 1..n
    BY <1>2
  <2>2. Before(pre, k, Scope(pre[k])) = Before(recs, k, Scope(recs[k]))
    BY <1>3, <2>1 DEF Before
  <2>3. /\ recs[k].ordinal = Cardinality(Before(recs, k, Scope(recs[k]))) + 1
        /\ \A m \in 1..(k - 1) : recs[m].req # recs[k].req
    BY <1>1, <2>1, ConsistentPlaces
  <2>4. pre[k] = recs[k] /\ \A m \in 1..(k - 1) : pre[m] = recs[m]
    BY <1>3, <2>1
  <2> QED  BY <2>2, <2>3, <2>4
<1>8. Numbered(pre)
  <2> SUFFICES ASSUME NEW s \in Scopes, NEW i \in 1..CountOf(pre, s)
               PROVE  \E k \in PlacesOf(pre, s) : pre[k].ordinal = i
    BY DEF Numbered
  <2>1. i \in 1..CountOf(recs, s)
    BY <1>6
  <2>2. PICK k \in PlacesOf(recs, s) : recs[k].ordinal = i
    BY <1>1, <2>1 DEF Numbered
  <2>3. k \in 1..Len(recs) /\ Scope(recs[k]) = s
    BY <2>2 DEF PlacesOf
  <2>4. k \in 1..n
    <3> SUFFICES ASSUME k > n  PROVE FALSE
      BY <1>2, <2>3
    <3>1. k \in 1..(Len(recs) + 1) /\ n + 1 \in 1..(Len(recs) + 1) /\ n + 1 <= k
      BY <1>2, <2>3
    <3>2. /\ Cardinality(Before(recs, n + 1, s)) \in Nat
          /\ Cardinality(Before(recs, k, s)) \in Nat
          /\ Cardinality(Before(recs, n + 1, s)) <= Cardinality(Before(recs, k, s))
      BY <1>1, <3>1, BeforeGrows
    <3>3. i = Cardinality(Before(recs, k, s)) + 1
      BY <1>1, <2>2, <2>3, ConsistentPlaces
    <3> QED  BY <1>4, <3>2, <3>3
  <2>5. k \in PlacesOf(pre, s) /\ pre[k].ordinal = i
    BY <1>3, <2>2, <2>3, <2>4 DEF PlacesOf
  <2> QED  BY <2>5
<1>9. WithinLimits(pre)
  <2> SUFFICES ASSUME NEW s \in Scopes, Limit[s] # NoLimit
               PROVE  CountOf(pre, s) <= Limit[s]
    BY DEF WithinLimits
  <2>1. Limit[s] \in Nat
    BY FileLedgerAssumption
  <2> QED  BY <1>1, <1>6, <2>1 DEF WithinLimits
<1> QED  BY <1>1, <1>2, <1>3, <1>7, <1>8, <1>9 DEF GoodRecs, pre

\* A fresh request appended with its ordinal leaves the ledger good.
LEMMA AppendGood ==
  ASSUME NEW recs, GoodRecs(recs), NEW r \in Requests, NEW n, Fresh(recs, r, n)
  PROVE  /\ [req |-> r, ordinal |-> n] \in LedgerRecord
         /\ GoodRecs(Append(recs, [req |-> r, ordinal |-> n]))
<1> DEFINE rec == [req |-> r, ordinal |-> n]
           new == Append(recs, rec)
           s0 == ScopeOf[r]
<1>1. /\ recs \in Seq(LedgerRecord) /\ Consistent(recs) /\ Numbered(recs)
      /\ WithinLimits(recs) /\ Len(recs) \in Nat
      /\ MaxRecords \in Nat /\ s0 \in Scopes
  BY FileLedgerAssumption, LenProperties DEF GoodRecs
<1>2. Len(recs) < MaxRecords
  BY <1>1 DEF Fresh, Full
<1>3. n = CountOf(recs, s0) + 1 /\ CountOf(recs, s0) \in Nat /\ CountOf(recs, s0) <= Len(recs)
  BY <1>1, CountType DEF Fresh, NextOrdinal
<1>4. n \in 1..MaxRecords
  BY <1>1, <1>2, <1>3
<1>5. rec \in LedgerRecord /\ rec.req = r /\ rec.ordinal = n /\ Scope(rec) = s0
  BY <1>4 DEF LedgerRecord, Scope
<1>6. /\ new \in Seq(LedgerRecord) /\ Len(new) = Len(recs) + 1
      /\ (\A k \in 1..Len(recs) : new[k] = recs[k]) /\ new[Len(recs) + 1] = rec
  BY <1>1, <1>5, AppendRecs
<1> HIDE DEF new, rec, s0
<1>7. \A s : /\ PlacesOf(new, s) = IF s0 = s THEN PlacesOf(recs, s) \cup {Len(recs) + 1}
                                   ELSE PlacesOf(recs, s)
             /\ CountOf(new, s) = IF s0 = s THEN CountOf(recs, s) + 1 ELSE CountOf(recs, s)
  BY <1>1, <1>5, AppendPlaces DEF new
<1>8. \A k \in 1..Len(recs) : recs[k].req # r
  BY DEF Fresh, Recorded
<1>9. Consistent(new)
  <2> SUFFICES ASSUME NEW k \in 1..Len(new)
               PROVE  /\ new[k].ordinal = Cardinality(Before(new, k, Scope(new[k]))) + 1
                      /\ \A m \in 1..(k - 1) : new[m].req # new[k].req
    BY <1>6, ConsistentPlaces
  <2>1. \A s : Before(new, k, s) = Before(recs, k, s)
    <3>1. \A m \in 1..(k - 1) : m \in 1..Len(recs)
      BY <1>1, <1>6
    <3> QED  BY <1>6, <3>1 DEF Before
  <2>2. CASE k \in 1..Len(recs)
    <3>1. \A m \in 1..(k - 1) : m \in 1..Len(recs)
      BY <1>1, <2>2
    <3> QED  BY <1>1, <1>6, <2>1, <2>2, <3>1, ConsistentPlaces
  <2>3. CASE k = Len(recs) + 1
    <3>1. k - 1 = Len(recs)
      BY <1>1, <2>3
    <3>2. Cardinality(Before(recs, k, s0)) = CountOf(recs, s0)
      BY <1>1, <2>3, BeforeEnd DEF CountOf
    <3> QED  BY <1>3, <1>5, <1>6, <1>8, <2>1, <2>3, <3>1, <3>2
  <2> QED  BY <1>1, <1>6, <2>2, <2>3
<1>10. Numbered(new)
  <2> SUFFICES ASSUME NEW s \in Scopes, NEW i \in 1..CountOf(new, s)
               PROVE  \E k \in PlacesOf(new, s) : new[k].ordinal = i
    BY DEF Numbered
  <2>1. CASE i \in 1..CountOf(recs, s)
    <3>1. PICK k \in PlacesOf(recs, s) : recs[k].ordinal = i
      BY <1>1, <2>1 DEF Numbered
    <3>2. k \in 1..Len(recs) /\ k \in PlacesOf(new, s)
      BY <1>7, <3>1 DEF PlacesOf
    <3> QED  BY <1>6, <3>1, <3>2
  <2>2. CASE i \notin 1..CountOf(recs, s)
    <3>1. s = s0 /\ i = CountOf(recs, s0) + 1
      BY <1>3, <1>7, <2>2
    <3>2. Len(recs) + 1 \in PlacesOf(new, s)
      BY <1>7, <3>1
    <3> QED  BY <1>3, <1>5, <1>6, <3>1, <3>2
  <2> QED  BY <2>1, <2>2
<1>11. WithinLimits(new)
  <2> SUFFICES ASSUME NEW s \in Scopes, Limit[s] # NoLimit
               PROVE  CountOf(new, s) <= Limit[s]
    BY DEF WithinLimits
  <2>1. Limit[s] \in Nat
    BY FileLedgerAssumption
  <2>2. CASE s # s0
    BY <1>1, <1>7, <2>2 DEF WithinLimits
  <2>3. CASE s = s0
    <3>1. ~(CountOf(recs, s0) >= Limit[s0])
      BY <2>3 DEF Fresh, Exhausted, s0
    <3> QED  BY <1>3, <1>7, <2>1, <2>3, <3>1
  <2> QED  BY <2>2, <2>3
<1> QED  BY <1>1, <1>2, <1>5, <1>6, <1>9, <1>10, <1>11 DEF GoodRecs, new, rec

-----------------------------------------------------------------------------
(* The content of the file.                                                *)

\* Only the holder of the lock is off idle.
LEMMA OnlyRunner ==
  ASSUME ContentInv, NEW p \in Procs, proc[p].pc # "idle"
  PROVE  /\ lock = p /\ cache \in File /\ GoodFile(cache)
         /\ proc[p] \in Process /\ proc[p].req \in Requests
         /\ \A o \in Procs \ {p} : proc[o].pc = "idle"
<1>1. lock = p /\ cache # NoFile /\ proc[p].req \in Requests
  BY DEF ContentInv, Locked
<1>2. cache \in File /\ GoodFile(cache) /\ proc[p] \in Process
  BY <1>1 DEF ContentInv, TypeOK, FilesGood
<1>3. \A o \in Procs \ {p} : proc[o].pc = "idle"
  BY <1>1 DEF ContentInv, Locked
<1> QED  BY <1>1, <1>2, <1>3

\* An idle process knows nothing it has to keep true.
LEMMA IdleKnows ==
  ASSUME NEW q, q.pc = "idle", NEW f
  PROVE  Knows(q, f)
BY DEF Knows

\* What a step of one process has to establish.
LEMMA ContentStep ==
  ASSUME ContentInv, NEW p \in Procs, \A o \in Procs \ {p} : proc[o].pc = "idle",
         NEW q \in Process, proc' = [proc EXCEPT ![p] = q],
         q.pc # "idle" => lock' = p /\ cache' # NoFile /\ q.req \in Requests,
         Knows(q, cache'),
         GoodFile(disk'), cache' = NoFile \/ GoodFile(cache'),
         entry' \in BOOLEAN, granted' \subseteq Requests \X (1..MaxRecords),
         env' = env, losses' = losses
  PROVE  ContentInv'
<1>1. proc' \in [Procs -> Process] /\ proc'[p] = q
      /\ \A o \in Procs \ {p} : proc'[o] = proc[o]
  BY DEF ContentInv, TypeOK
<1>2. disk' \in File /\ cache' \in File \cup {NoFile}
  BY DEF GoodFile
<1>3. TypeOK'
  BY <1>1, <1>2 DEF ContentInv, TypeOK
<1>4. FilesGood'
  BY DEF FilesGood
<1>5. Locked'
  BY <1>1 DEF Locked
<1>6. \A o \in Procs : Knows(proc'[o], cache')
  BY <1>1, IdleKnows
<1> QED  BY <1>3, <1>4, <1>5, <1>6 DEF ContentInv

\* An idle process.
LEMMA IdleType ==
  ASSUME NEW r \in Results
  PROVE  Idle(r) \in Process /\ Idle(r).pc = "idle"
<1>1. 0 \in 0..MaxRecords /\ <<>> \in Seq(LedgerRecord)
  BY FileLedgerAssumption, EmptySeq
<1> QED  BY <1>1 DEF Idle, Process, Points

\* The beginnings of the life of a file.
LEMMA EmptyFiles ==
  /\ GoodFile(EmptyFile) /\ GoodFile(TornHeader) /\ GoodFile([EmptyFile EXCEPT !.head = "full"])
  /\ EmptyFile # NoFile
  /\ EmptyFile.recs = <<>> /\ EmptyFile.head = "empty"
  /\ TornHeader.recs = <<>> /\ TornHeader.head = "torn"
<1>1. <<>> \in Seq(LedgerRecord)
  BY EmptySeq
<1>2. EmptyFile \in File /\ TornHeader \in File /\ [EmptyFile EXCEPT !.head = "full"] \in File
  BY <1>1 DEF EmptyFile, TornHeader, File
<1>3. EmptyFile # NoFile
  BY <1>2, FileLedgerAssumption
<1> QED  BY <1>2, <1>3, EmptyGood DEF EmptyFile, TornHeader, GoodFile

\* Ending a command leaves the file as the step that ends it makes it.
LEMMA ContentExit ==
  ASSUME ContentInv, NEW p \in Procs, \A o \in Procs \ {p} : proc[o].pc = "idle",
         NEW r \in Results, Exit(p, r),
         GoodFile(disk'), cache' = NoFile \/ GoodFile(cache'),
         entry' \in BOOLEAN, granted' \subseteq Requests \X (1..MaxRecords),
         env' = env, losses' = losses
  PROVE  ContentInv'
<1>1. Idle(r) \in Process /\ Idle(r).pc = "idle"
  BY IdleType
<1>2. proc' = [proc EXCEPT ![p] = Idle(r)]
  BY DEF Exit
<1>3. Knows(Idle(r), cache')
  BY <1>1, IdleKnows
<1> QED  BY <1>1, <1>2, <1>3, ContentStep

\* Going on to another point.
LEMMA GotoState ==
  ASSUME NEW p \in Procs, TypeOK, NEW c \in Points, Goto(p, c)
  PROVE  /\ [proc[p] EXCEPT !.pc = c] \in Process
         /\ proc' = [proc EXCEPT ![p] = [proc[p] EXCEPT !.pc = c]]
BY DEF TypeOK, Goto, Process

\* Opening creates an empty file at most.
LEMMA OpenContent ==
  ASSUME ContentInv, NEW p \in Procs, NEW r \in Requests, Open(p, r)
  PROVE  ContentInv'
<1> DEFINE f == IF cache = NoFile THEN EmptyFile ELSE cache
           q == [Idle("none") EXCEPT !.req = r, !.pc = IF f = EmptyFile THEN "header" ELSE "parse"]
<1>1. /\ proc[p].pc = "idle" /\ lock = NoProc /\ lock' = p /\ cache' = f
      /\ proc' = [proc EXCEPT ![p] = q]
      /\ disk' = disk /\ entry' = entry /\ granted' = granted /\ env' = env /\ losses' = losses
  BY DEF Open
<1>2. GoodFile(f) /\ f # NoFile
  BY EmptyFiles DEF ContentInv, FilesGood
<1>3. q \in Process /\ q.req = r /\ q.pc = IF f = EmptyFile THEN "header" ELSE "parse"
  <2>1. Idle("none") \in Process
    BY IdleType DEF Results
  <2> QED  BY <2>1 DEF Process, Points, Idle
<1>4. \A o \in Procs \ {p} : proc[o].pc = "idle"
  BY <1>1, FileLedgerAssumption DEF ContentInv, Locked
<1>5. f = EmptyFile => f.head = "empty"
  BY EmptyFiles
<1> HIDE DEF f, q
<1>6. Knows(q, f)
  BY <1>3, <1>5 DEF Knows
<1> QED  BY <1>1, <1>2, <1>3, <1>4, <1>6, ContentStep DEF ContentInv, TypeOK, FilesGood

\* The header is written in front of no record.
LEMMA WriteHeaderContent ==
  ASSUME ContentInv, NEW p \in Procs, WriteHeader(p)
  PROVE  ContentInv'
<1>1. /\ proc[p].pc = "header" /\ lock' = lock
      /\ disk' = disk /\ entry' = entry /\ granted' = granted /\ env' = env /\ losses' = losses
  BY DEF WriteHeader
<1>2. /\ lock = p /\ proc[p] \in Process /\ proc[p].req \in Requests
      /\ \A o \in Procs \ {p} : proc[o].pc = "idle"
  BY <1>1, OnlyRunner
<1>3. GoodFile(disk) /\ entry \in BOOLEAN /\ granted \subseteq Requests \X (1..MaxRecords)
  BY DEF ContentInv, TypeOK, FilesGood
<1>4. CASE cache' = TornHeader /\ UNCHANGED proc
  <2>1. proc' = [proc EXCEPT ![p] = proc[p]]
    BY <1>4 DEF ContentInv, TypeOK
  <2>2. GoodFile(cache') /\ cache' # NoFile /\ cache'.head = "torn"
    BY <1>4, EmptyFiles, FileLedgerAssumption DEF GoodFile
  <2>3. Knows(proc[p], cache')
    BY <1>1, <2>2 DEF Knows
  <2> QED  BY <1>1, <1>2, <1>3, <2>1, <2>2, <2>3, ContentStep
<1>5. CASE cache' = [EmptyFile EXCEPT !.head = "full"] /\ Goto(p, "syncHeader")
  <2> DEFINE q == [proc[p] EXCEPT !.pc = "syncHeader"]
  <2>1. q \in Process /\ proc' = [proc EXCEPT ![p] = q]
    BY <1>5, GotoState DEF ContentInv, Points
  <2>2. q.pc = "syncHeader" /\ q.req = proc[p].req
    BY <1>2 DEF Process
  <2>3. GoodFile(cache') /\ cache' # NoFile /\ cache'.head = "full" /\ cache'.recs = <<>>
    BY <1>5, EmptyFiles, FileLedgerAssumption DEF GoodFile, EmptyFile
  <2> HIDE DEF q
  <2>4. Knows(q, cache')
    BY <2>2, <2>3 DEF Knows
  <2> QED  BY <1>1, <1>2, <1>3, <2>1, <2>2, <2>3, <2>4, ContentStep
<1> QED  BY <1>4, <1>5 DEF WriteHeader

\* The steps that sync, and go on.
LEMMA SyncContent ==
  ASSUME ContentInv, NEW p \in Procs,
         SyncHeader(p) \/ SyncParent(p) \/ SyncTrim(p) \/ SyncRecord(p)
  PROVE  ContentInv'
<1>1. /\ proc[p].pc \in {"syncHeader", "syncParent", "syncTrim", "sync"}
      /\ cache' = cache /\ lock' = lock /\ granted' = granted /\ env' = env /\ losses' = losses
      /\ disk' \in {disk, cache} /\ entry' \in {entry, TRUE}
  BY DEF SyncHeader, SyncParent, SyncTrim, SyncRecord
<1>2. /\ lock = p /\ proc[p] \in Process /\ proc[p].req \in Requests /\ GoodFile(cache)
      /\ \A o \in Procs \ {p} : proc[o].pc = "idle"
  BY <1>1, OnlyRunner
<1>3. PICK c \in Points \ {"idle"} :
        /\ Goto(p, c)
        /\ \/ proc[p].pc = "syncHeader" /\ c = "syncParent"
           \/ proc[p].pc = "syncParent" /\ c = "parse"
           \/ proc[p].pc = "syncTrim" /\ c = "authorize"
           \/ proc[p].pc = "sync" /\ c = "write"
  BY DEF SyncHeader, SyncParent, SyncTrim, SyncRecord, Points
<1> DEFINE q == [proc[p] EXCEPT !.pc = c]
<1>4. q \in Process /\ proc' = [proc EXCEPT ![p] = q]
  BY <1>3, GotoState DEF ContentInv
<1>5. q.pc = c /\ q.req = proc[p].req /\ q.recs = proc[p].recs /\ q.ordinal = proc[p].ordinal
  BY <1>2 DEF Process
<1>6. Knows(proc[p], cache)
  BY DEF ContentInv
<1>7. proc[p].pc = "sync" => OnRecord(cache, <<proc[p].req, proc[p].ordinal>>)
  <2> SUFFICES ASSUME proc[p].pc = "sync"
               PROVE  OnRecord(cache, <<proc[p].req, proc[p].ordinal>>)
    OBVIOUS
  <2> DEFINE rec == [req |-> proc[p].req, ordinal |-> proc[p].ordinal]
  <2>1. /\ GoodRecs(proc[p].recs) /\ Fresh(proc[p].recs, proc[p].req, proc[p].ordinal)
        /\ cache.recs = Append(proc[p].recs, rec)
    BY <1>6 DEF Knows
  <2>2. rec \in LedgerRecord /\ proc[p].recs \in Seq(LedgerRecord)
    BY <1>2, <2>1, AppendGood DEF GoodRecs
  <2>3. Len(proc[p].recs) \in Nat
    BY <2>2, LenProperties
  <2>4. /\ Len(cache.recs) = Len(proc[p].recs) + 1
        /\ cache.recs[Len(proc[p].recs) + 1] = rec
    BY <2>1, <2>2, AppendRecs
  <2>5. Len(cache.recs) \in 1..Len(cache.recs) /\ cache.recs[Len(cache.recs)] = rec
    BY <2>3, <2>4
  <2>6. cache # NoFile
    BY <1>1, <1>2, FileLedgerAssumption DEF GoodFile
  <2> QED  BY <2>5, <2>6 DEF OnRecord
<1> HIDE DEF q
<1>8. Knows(q, cache)
  BY <1>3, <1>5, <1>6, <1>7 DEF Knows
<1>9. GoodFile(disk') /\ entry' \in BOOLEAN /\ granted \subseteq Requests \X (1..MaxRecords)
  BY <1>1, <1>2 DEF ContentInv, TypeOK, FilesGood
<1>10. cache # NoFile
  BY <1>2, FileLedgerAssumption DEF GoodFile
<1> QED  BY <1>1, <1>2, <1>4, <1>5, <1>8, <1>9, <1>10, ContentStep

\* Parsing cuts off a torn tail only.
LEMMA ParseContent ==
  ASSUME ContentInv, NEW p \in Procs, Parse(p)
  PROVE  ContentInv'
<1>1. /\ proc[p].pc = "parse"
      /\ disk' = disk /\ entry' = entry /\ granted' = granted /\ env' = env /\ losses' = losses
  BY DEF Parse
<1>2. /\ lock = p /\ proc[p] \in Process /\ proc[p].req \in Requests
      /\ cache \in File /\ GoodFile(cache) /\ cache # NoFile
      /\ \A o \in Procs \ {p} : proc[o].pc = "idle"
  BY <1>1, OnlyRunner, FileLedgerAssumption
<1>3. GoodFile(disk) /\ entry \in BOOLEAN /\ granted \subseteq Requests \X (1..MaxRecords)
  BY DEF ContentInv, TypeOK, FilesGood
<1>4. CASE ~Parses(cache)
  BY <1>1, <1>2, <1>3, <1>4, ContentExit DEF Parse, Results
<1>5. CASE Parses(cache)
  <2> DEFINE c == IF cache.torn THEN "syncTrim" ELSE "authorize"
             f == [cache EXCEPT !.torn = FALSE]
             q == [proc[p] EXCEPT !.pc = c, !.recs = cache.recs]
  <2>1. cache' = f /\ proc' = [proc EXCEPT ![p] = q] /\ lock' = lock
    BY <1>2, <1>5 DEF Parse, ContentInv, TypeOK, Process
  <2>2. f \in File /\ f.recs = cache.recs /\ f.head = cache.head
    BY <1>2 DEF File
  <2>3. GoodFile(f) /\ f # NoFile
    BY <1>2, <2>2, FileLedgerAssumption DEF GoodFile
  <2>4. cache.recs \in Seq(LedgerRecord) /\ cache.head = "full"
    BY <1>2, <1>5 DEF File, Parses
  <2>5. /\ q \in Process /\ q.pc \in {"syncTrim", "authorize"}
        /\ q.req = proc[p].req /\ q.recs = cache.recs
    BY <1>2, <2>4 DEF Process, Points
  <2> HIDE DEF q, f
  <2>6. Knows(q, f)
    BY <2>2, <2>4, <2>5 DEF Knows
  <2> QED  BY <1>1, <1>2, <1>3, <2>1, <2>3, <2>5, <2>6, ContentStep
<1> QED  BY <1>4, <1>5

\* What authorize decides holds of the records it read.
LEMMA AuthorizeContent ==
  ASSUME ContentInv, NEW p \in Procs, Authorize(p)
  PROVE  ContentInv'
<1> DEFINE q == proc[p]
<1>1. /\ q.pc = "authorize" /\ cache' = cache
      /\ disk' = disk /\ entry' = entry /\ granted' = granted /\ env' = env /\ losses' = losses
  BY DEF Authorize, fileVars
<1>2. /\ lock = p /\ q \in Process /\ q.req \in Requests
      /\ cache \in File /\ GoodFile(cache) /\ cache # NoFile
      /\ \A o \in Procs \ {p} : proc[o].pc = "idle"
  BY <1>1, OnlyRunner, FileLedgerAssumption
<1>3. GoodFile(disk) /\ entry \in BOOLEAN /\ granted \subseteq Requests \X (1..MaxRecords)
  BY DEF ContentInv, TypeOK, FilesGood
<1>4. cache.head = "full" /\ q.recs = cache.recs /\ GoodRecs(q.recs)
  BY <1>1, <1>2 DEF ContentInv, Knows, GoodFile
<1>5. ASSUME NEW r \in Results, Exit(p, r)  PROVE ContentInv'
  BY <1>1, <1>2, <1>3, <1>5, ContentExit
<1>6. ASSUME NEW k \in Recorded(q.recs, q.req), lock' = lock,
             proc' = [proc EXCEPT ![p].pc = "write", ![p].ordinal = q.recs[k].ordinal]
      PROVE  ContentInv'
  <2> DEFINE q1 == [q EXCEPT !.pc = "write", !.ordinal = q.recs[k].ordinal]
  <2>1. k \in 1..Len(q.recs) /\ q.recs[k].req = q.req
    BY DEF Recorded
  <2>2. q.recs[k] \in LedgerRecord /\ q.recs[k].ordinal \in 1..MaxRecords
    BY <1>4, <2>1, RecordType DEF GoodRecs
  <2>3. q.recs[k].ordinal \in 0..MaxRecords
    BY <2>2, FileLedgerAssumption
  <2>4. /\ q1 \in Process /\ q1.pc = "write" /\ q1.req = q.req
        /\ q1.ordinal = q.recs[k].ordinal /\ proc' = [proc EXCEPT ![p] = q1]
    BY <1>2, <1>6, <2>3 DEF Process, Points, ContentInv, TypeOK
  <2>5. [req |-> q1.req, ordinal |-> q1.ordinal] = cache.recs[k]
    BY <1>4, <2>1, <2>2, <2>4 DEF LedgerRecord
  <2> HIDE DEF q1
  <2>6. OnRecord(cache, <<q1.req, q1.ordinal>>)
    BY <1>2, <1>4, <2>1, <2>5 DEF OnRecord
  <2>7. Knows(q1, cache)
    BY <1>4, <2>4, <2>6 DEF Knows
  <2> QED  BY <1>1, <1>2, <1>3, <1>6, <2>4, <2>7, ContentStep
<1>7. ASSUME Recorded(q.recs, q.req) = {}, ~Full(q.recs), ~Exhausted(q.recs, q.req), lock' = lock,
             proc' = [proc EXCEPT ![p].pc = "append", ![p].ordinal = NextOrdinal(q.recs, q.req)]
      PROVE  ContentInv'
  <2> DEFINE n == NextOrdinal(q.recs, q.req)
             q1 == [q EXCEPT !.pc = "append", !.ordinal = n]
  <2>1. Fresh(q.recs, q.req, n)
    BY <1>7 DEF Fresh
  <2>2. n \in 0..MaxRecords
    <3>1. [req |-> q.req, ordinal |-> n] \in LedgerRecord
      BY <1>2, <1>4, <2>1, AppendGood
    <3>2. n \in 1..MaxRecords /\ MaxRecords \in Nat
      BY <3>1, FileLedgerAssumption DEF LedgerRecord
    <3> QED  BY <3>2
  <2> HIDE DEF n
  <2>3. /\ q1 \in Process /\ q1.pc = "append" /\ q1.req = q.req /\ q1.recs = q.recs
        /\ q1.ordinal = n /\ proc' = [proc EXCEPT ![p] = q1]
    BY <1>2, <1>7, <2>2 DEF Process, Points, ContentInv, TypeOK, n
  <2> HIDE DEF q1
  <2>4. Knows(q1, cache)
    BY <1>4, <2>1, <2>3 DEF Knows
  <2> QED  BY <1>1, <1>2, <1>3, <1>7, <2>3, <2>4, ContentStep
<1> QED  BY <1>5, <1>6, <1>7 DEF Authorize, Results

\* The record of a fresh request follows the records that were read.
LEMMA AppendRecordContent ==
  ASSUME ContentInv, NEW p \in Procs, AppendRecord(p)
  PROVE  ContentInv'
<1> DEFINE q == proc[p]
           rec == [req |-> q.req, ordinal |-> q.ordinal]
<1>1. /\ q.pc = "append" /\ lock' = lock
      /\ disk' = disk /\ entry' = entry /\ granted' = granted /\ env' = env /\ losses' = losses
  BY DEF AppendRecord
<1>2. /\ lock = p /\ q \in Process /\ q.req \in Requests
      /\ cache \in File /\ GoodFile(cache)
      /\ \A o \in Procs \ {p} : proc[o].pc = "idle"
  BY <1>1, OnlyRunner
<1>3. GoodFile(disk) /\ entry \in BOOLEAN /\ granted \subseteq Requests \X (1..MaxRecords)
  BY DEF ContentInv, TypeOK, FilesGood
<1>4. /\ cache.head = "full" /\ q.recs = cache.recs
      /\ GoodRecs(q.recs) /\ Fresh(q.recs, q.req, q.ordinal)
  BY <1>1 DEF ContentInv, Knows
<1>5. ASSUME cache' = [cache EXCEPT !.torn = TRUE], UNCHANGED proc
      PROVE  ContentInv'
  <2>1. cache' \in File /\ cache'.recs = cache.recs /\ cache'.head = "full"
    BY <1>2, <1>4, <1>5 DEF File
  <2>2. GoodFile(cache') /\ cache' # NoFile
    BY <1>2, <2>1, FileLedgerAssumption DEF GoodFile
  <2>3. proc' = [proc EXCEPT ![p] = q]
    BY <1>5 DEF ContentInv, TypeOK
  <2>4. Knows(q, cache')
    BY <1>1, <1>4, <2>1 DEF Knows
  <2> QED  BY <1>1, <1>2, <1>3, <2>2, <2>3, <2>4, ContentStep
<1>6. ASSUME cache' = [cache EXCEPT !.torn = FALSE, !.recs = Append(@, rec)], Goto(p, AfterAppend)
      PROVE  ContentInv'
  <2> DEFINE q1 == [q EXCEPT !.pc = "sync"]
  <2>1. rec \in LedgerRecord /\ GoodRecs(Append(q.recs, rec))
    BY <1>2, <1>4, AppendGood
  <2>2. Append(cache.recs, rec) \in Seq(LedgerRecord)
    BY <1>4, <2>1 DEF GoodRecs
  <2>3. cache' \in File /\ cache'.recs = Append(q.recs, rec) /\ cache'.head = "full"
    BY <1>2, <1>4, <1>6, <2>2 DEF File
  <2>4. GoodFile(cache') /\ cache' # NoFile
    BY <2>1, <2>3, FileLedgerAssumption DEF GoodFile
  <2>5. q1 \in Process /\ proc' = [proc EXCEPT ![p] = q1]
    BY <1>6, GotoState DEF ContentInv, Points, AfterAppend
  <2>6. q1.pc = "sync" /\ q1.req = q.req /\ q1.recs = q.recs /\ q1.ordinal = q.ordinal
    BY <1>2 DEF Process
  <2> HIDE DEF q1
  <2>7. Knows(q1, cache')
    BY <1>4, <2>3, <2>6 DEF Knows
  <2> QED  BY <1>1, <1>2, <1>3, <2>4, <2>5, <2>6, <2>7, ContentStep
<1> QED  BY <1>5, <1>6 DEF AppendRecord

\* A grant that is written out is a record of the file.
LEMMA WriteGrantContent ==
  ASSUME ContentInv, NEW p \in Procs, WriteGrant(p)
  PROVE  ContentInv'
<1> DEFINE g == <<proc[p].req, proc[p].ordinal>>
<1>1. /\ proc[p].pc = "write" /\ cache' = cache /\ disk' = disk /\ entry' = entry
      /\ granted' = granted \cup {g} /\ env' = env /\ losses' = losses
      /\ Exit(p, "granted")
  BY DEF WriteGrant, fileVars
<1>2. /\ proc[p].req \in Requests /\ GoodFile(cache)
      /\ \A o \in Procs \ {p} : proc[o].pc = "idle"
  BY <1>1, OnlyRunner
<1>3. OnRecord(cache, g)
  BY <1>1 DEF ContentInv, Knows
<1>4. PICK k \in 1..Len(cache.recs) : [req |-> g[1], ordinal |-> g[2]] = cache.recs[k]
  BY <1>3 DEF OnRecord
<1>5. cache.recs[k] \in LedgerRecord
  BY <1>2, RecordType DEF GoodFile, GoodRecs
<1>6. g \in Requests \X (1..MaxRecords)
  BY <1>2, <1>4, <1>5 DEF LedgerRecord
<1> HIDE DEF g
<1>7. GoodFile(disk) /\ entry \in BOOLEAN /\ granted' \subseteq Requests \X (1..MaxRecords)
  BY <1>1, <1>6 DEF ContentInv, TypeOK, FilesGood
<1>8. "granted" \in Results
  BY DEF Results
<1> QED  BY <1>1, <1>2, <1>7, <1>8, ContentExit

\* A killed process leaves the file as it is.
LEMMA StopContent ==
  ASSUME ContentInv, NEW p \in Procs, Stop(p)
  PROVE  ContentInv'
<1>1. /\ proc[p].pc # "idle" /\ cache' = cache /\ disk' = disk /\ entry' = entry
      /\ granted' = granted /\ env' = env /\ losses' = losses /\ Exit(p, "fault")
  BY DEF Stop, fileVars
<1>2. GoodFile(cache) /\ \A o \in Procs \ {p} : proc[o].pc = "idle"
  BY <1>1, OnlyRunner
<1>3. GoodFile(disk) /\ entry \in BOOLEAN /\ granted \subseteq Requests \X (1..MaxRecords)
  BY DEF ContentInv, TypeOK, FilesGood
<1>4. "fault" \in Results
  BY DEF Results
<1> QED  BY <1>1, <1>2, <1>3, <1>4, ContentExit

\* The file as authorize cuts it back.
Back(p) == [cache EXCEPT !.recs = proc[p].recs, !.torn = FALSE]

\* Cut back, the file holds the records that were read.
LEMMA BackFile ==
  ASSUME ContentInv, NEW p \in Procs, proc[p].pc \in {"append", "sync"}
  PROVE  /\ Back(p) \in File /\ GoodFile(Back(p)) /\ Back(p) # NoFile
         /\ Back(p).recs = proc[p].recs /\ Back(p).head = "full"
<1>1. cache \in File /\ GoodFile(cache) /\ proc[p] \in Process
  BY OnlyRunner
<1>2. cache.head = "full" /\ GoodRecs(proc[p].recs)
  BY DEF ContentInv, Knows
<1>3. Back(p) \in File /\ Back(p).recs = proc[p].recs /\ Back(p).head = "full"
  BY <1>1, <1>2 DEF Back, File, Process
<1> QED  BY <1>2, <1>3, FileLedgerAssumption DEF GoodFile

\* A failed write leaves the file as it is, or cut back.
LEMMA WriteErrorContent ==
  ASSUME ContentInv, NEW p \in Procs, WriteError(p)
  PROVE  ContentInv'
<1>1. /\ proc[p].pc \in {"append", "sync"} /\ cache' \in {cache, Back(p)}
      /\ disk' \in {disk, cache, cache'}
      /\ entry' = entry /\ granted' = granted /\ env' = env /\ losses' = losses
      /\ Exit(p, "ReleaseAuthorityUnavailable")
  BY DEF WriteError, Back
<1>2. GoodFile(cache) /\ \A o \in Procs \ {p} : proc[o].pc = "idle"
  BY <1>1, OnlyRunner
<1>3. GoodFile(Back(p))
  BY <1>1, BackFile
<1>4. GoodFile(disk) /\ entry \in BOOLEAN /\ granted \subseteq Requests \X (1..MaxRecords)
  BY DEF ContentInv, TypeOK, FilesGood
<1>5. "ReleaseAuthorityUnavailable" \in Results
  BY DEF Results
<1> QED  BY <1>1, <1>2, <1>3, <1>4, <1>5, ContentExit

\* The beginnings of a file hold a prefix of its records.
LEMMA BeginningsPrefix ==
  ASSUME NEW f \in File, NEW g \in Beginnings(f)
  PROVE  /\ g \in File
         /\ g.head # "full" => g.recs = <<>>
         /\ \E n \in 0..Len(f.recs) : g.recs = SubSeq(f.recs, 1, n)
<1>1. f.recs \in Seq(LedgerRecord)
  BY DEF File
<1>2. Len(f.recs) \in Nat
  BY <1>1, LenProperties
<1>3. CASE g = EmptyFile \/ g = TornHeader
  <2>1. g \in File /\ g.recs = <<>>
    BY <1>3, EmptyFiles DEF GoodFile
  <2>2. SubSeq(f.recs, 1, 0) = <<>>
    BY SubSeqEmpty
  <2> QED  BY <1>2, <2>1, <2>2
<1>4. CASE \E n \in 0..Len(f.recs), b \in BOOLEAN :
             g = [head |-> "full", recs |-> SubSeq(f.recs, 1, n), torn |-> b]
  <2>1. PICK n \in 0..Len(f.recs), b \in BOOLEAN :
             g = [head |-> "full", recs |-> SubSeq(f.recs, 1, n), torn |-> b]
    BY <1>4
  <2>2. SubSeq(f.recs, 1, n) \in Seq(LedgerRecord)
    BY <1>1, PrefixRecs
  <2> QED  BY <2>1, <2>2 DEF File
<1> QED  BY <1>3, <1>4 DEF Beginnings

\* A power loss leaves no file, what the disk held, or a beginning of what the
\* processes saw.
LEMMA SurvivorsGood ==
  ASSUME ContentInv, NEW f \in Survivors
  PROVE  f = NoFile \/ GoodFile(f)
<1>1. CASE cache = NoFile \/ f = NoFile \/ f = cache \/ f = disk
  BY <1>1 DEF Survivors, ContentInv, FilesGood
<1>2. CASE cache # NoFile /\ f \in Beginnings(cache)
  <2>1. cache \in File /\ GoodRecs(cache.recs)
    BY <1>2 DEF ContentInv, TypeOK, FilesGood, GoodFile
  <2>2. PICK n \in 0..Len(cache.recs) : f.recs = SubSeq(cache.recs, 1, n)
    BY <1>2, <2>1, BeginningsPrefix
  <2>3. GoodRecs(f.recs)
    BY <2>1, <2>2, PrefixGood
  <2> QED  BY <1>2, <2>1, <2>3, BeginningsPrefix DEF GoodFile
<1> QED  BY <1>1, <1>2 DEF Survivors

\* Every command is gone.
LEMMA LossFacts ==
  ASSUME PowerLoss
  PROVE  /\ cache' \in Survivors /\ losses < env.losses
         /\ disk' = IF cache' = NoFile THEN EmptyFile ELSE cache'
         /\ entry' = (cache' # NoFile)
         /\ proc' = [p \in Procs |-> Idle("fault")]
         /\ proc' \in [Procs -> Process] /\ (\A p \in Procs : proc'[p].pc = "idle")
         /\ granted' = granted /\ env' = env /\ losses' = losses + 1
<1>1. Idle("fault") \in Process /\ Idle("fault").pc = "idle"
  BY IdleType DEF Results
<1> QED  BY <1>1 DEF PowerLoss

\* A power loss leaves a good file and no process.
LEMMA PowerLossContent ==
  ASSUME ContentInv, PowerLoss
  PROVE  ContentInv'
<1>1. cache' = NoFile \/ GoodFile(cache')
  BY LossFacts, SurvivorsGood
<1>2. GoodFile(disk')
  BY <1>1, LossFacts, EmptyFiles
<1>3. FilesGood'
  BY <1>1, <1>2 DEF FilesGood
<1>4. TypeOK'
  <2>1. cache' \in File \cup {NoFile} /\ disk' \in File
    BY <1>1, <1>2 DEF GoodFile
  <2>2. entry' \in BOOLEAN
    BY LossFacts
  <2>3. losses' \in Nat
    BY LossFacts DEF ContentInv, TypeOK
  <2> QED  BY <2>1, <2>2, <2>3, LossFacts DEF ContentInv, TypeOK
<1>5. Locked'
  BY LossFacts DEF Locked
<1>6. \A p \in Procs : Knows(proc'[p], cache')
  BY LossFacts, IdleKnows
<1> QED  BY <1>3, <1>4, <1>5, <1>6 DEF ContentInv

\* The invariant of the content holds before the first command.
LEMMA ContentInit ==
  ASSUME Init
  PROVE  ContentInv
<1>1. Idle("none") \in Process /\ Idle("none").pc = "idle"
  BY IdleType DEF Results
<1>2. /\ cache = NoFile /\ disk = EmptyFile /\ entry = FALSE /\ granted = {}
      /\ env \in Environments /\ losses = 0
      /\ proc \in [Procs -> Process] /\ \A p \in Procs : proc[p].pc = "idle"
  BY <1>1 DEF Init
<1>3. TypeOK
  BY <1>2, EmptyFiles DEF TypeOK, GoodFile
<1>4. FilesGood /\ Locked
  BY <1>2, EmptyFiles DEF FilesGood, Locked
<1>5. \A p \in Procs : Knows(proc[p], cache)
  BY <1>2, IdleKnows
<1> QED  BY <1>3, <1>4, <1>5 DEF ContentInv

\* Every step keeps the invariant of the content.
LEMMA ContentNext ==
  ASSUME ContentInv, [Next]_vars
  PROVE  ContentInv'
<1>1. CASE UNCHANGED vars
  BY <1>1 DEF vars, fileVars, ContentInv, TypeOK, FilesGood, Locked
<1>2. ASSUME NEW p \in Procs, Step(p)  PROVE ContentInv'
  BY <1>2, WriteHeaderContent, SyncContent, ParseContent, AuthorizeContent,
     AppendRecordContent, WriteGrantContent DEF Step
<1>3. ASSUME NEW p \in Procs, Stop(p) \/ WriteError(p) \/ \E r \in Requests : Open(p, r)
      PROVE ContentInv'
  BY <1>3, StopContent, WriteErrorContent, OpenContent
<1>4. CASE PowerLoss
  BY <1>4, PowerLossContent
<1> QED  BY <1>1, <1>2, <1>3, <1>4 DEF Next

\* The invariant of the content, in every environment.
LEMMA ContentAlways == Spec => []ContentInv
BY ContentInit, ContentNext, PTL DEF Spec

\* The ledger never locks its witness out: for any processes, maximums and
\* record limit, and through any kills, I/O errors and power losses, whatever
\* has a complete header passes every check of parse_ledger.
THEOREM ParseAcceptsTheorem == Spec => []ParseAccepts
<1>1. ContentInv => ParseAccepts
  BY DEF ContentInv, FilesGood, GoodFile, GoodRecs, ParseAccepts, Parses
<1> QED  BY <1>1, ContentAlways, PTL
-----------------------------------------------------------------------------
(* The grants.                                                             *)

\* Where the power may fail, no process stops before its sync.
LEMMA LossEnvironment ==
  ASSUME SyncedEnvironments, TypeOK, env.losses > 0
  PROVE  env.points \cap Unsynced = {}
<1>1. env \in Environment
  BY FileLedgerAssumption DEF TypeOK
<1>2. env.losses \in Nat
  BY <1>1 DEF Environment
<1> QED  BY <1>2 DEF SyncedEnvironments, TypeOK

\* What is on record stays so while the records stay.
LEMMA GrantsKept ==
  ASSUME GrantsRecorded, granted' = granted,
         cache # NoFile => cache' # NoFile /\ cache'.recs = cache.recs,
         \A p \in Procs : proc'[p].pc = "sync" => proc[p].pc = "sync" /\ proc'[p].req = proc[p].req
  PROVE  GrantsRecorded'
BY DEF GrantsRecorded, OnRecord

\* At a sync the grants are on record before the new record.
LEMMA GrantsBefore ==
  ASSUME ContentInv, GrantsRecorded, NEW p \in Procs, proc[p].pc = "sync", NEW g \in granted
  PROVE  \E k \in 1..Len(proc[p].recs) : proc[p].recs[k] = [req |-> g[1], ordinal |-> g[2]]
<1> DEFINE q == proc[p]
           rec == [req |-> q.req, ordinal |-> q.ordinal]
           gr == [req |-> g[1], ordinal |-> g[2]]
<1>1. /\ GoodRecs(q.recs) /\ Fresh(q.recs, q.req, q.ordinal) /\ cache.recs = Append(q.recs, rec)
      /\ q.req \in Requests
  BY OnlyRunner DEF ContentInv, Knows
<1>2. q.recs \in Seq(LedgerRecord) /\ rec \in LedgerRecord
  BY <1>1, AppendGood DEF GoodRecs
<1>3. Len(q.recs) \in Nat
  BY <1>2, LenProperties
<1>4. PICK k \in 1..Len(cache.recs) : cache.recs[k] = gr
  BY DEF GrantsRecorded, OnRecord
<1>5. g[1] # q.req
  BY DEF GrantsRecorded
<1>6. /\ Len(cache.recs) = Len(q.recs) + 1 /\ cache.recs[Len(q.recs) + 1] = rec
      /\ \A j \in 1..Len(q.recs) : cache.recs[j] = q.recs[j]
  BY <1>1, <1>2, AppendRecs
<1>7. rec.req # gr.req
  BY <1>5
<1> HIDE DEF rec, gr
<1>8. k # Len(q.recs) + 1
  BY <1>4, <1>6, <1>7
<1>9. k \in 1..Len(q.recs)
  BY <1>3, <1>4, <1>6, <1>8
<1> QED  BY <1>4, <1>6, <1>9 DEF gr

\* Cutting the file back to the records before a sync keeps every grant.
LEMMA BeforeOnRecord ==
  ASSUME ContentInv, GrantsRecorded, NEW p \in Procs, proc[p].pc = "sync", NEW g \in granted,
         NEW f, f # NoFile, f.recs = proc[p].recs
  PROVE  OnRecord(f, g)
BY GrantsBefore DEF OnRecord

\* What a power loss leaves has every record but the one being written.
LEMMA SurvivorsKeep ==
  ASSUME GrantInv, env.losses > 0, NEW f \in Survivors
  PROVE  /\ f = NoFile => granted = {} /\ (cache # NoFile => cache.recs = <<>>)
         /\ f # NoFile => \/ cache # NoFile /\ f.recs = cache.recs
                          \/ cache # NoFile /\ \E p \in Procs : proc[p].pc = "sync" /\ f.recs = proc[p].recs
<1> USE DEF GrantInv
<1>1. DiskRecs /\ EntryKept
  BY DEF DiskKeepsUp
<1>2. CASE cache = NoFile
  BY <1>2 DEF Survivors, GrantsRecorded, OnRecord
<1>3. CASE cache # NoFile /\ f = NoFile
  <2>1. cache \in File /\ disk \in File /\ GoodFile(cache) /\ NoFile \notin File
    BY <1>3, FileLedgerAssumption DEF ContentInv, TypeOK, FilesGood
  <2>2. NoFile \notin Beginnings(cache)
    BY <2>1, BeginningsPrefix
  <2>3. entry = FALSE
    BY <1>3, <2>1, <2>2 DEF Survivors, ContentInv, TypeOK
  <2>4. cache.head # "full" \/ \E p \in Procs : proc[p].pc \in {"syncHeader", "syncParent"}
    BY <1>1, <1>3, <2>3 DEF EntryKept
  <2>5. cache.recs = <<>>
    BY <2>1, <2>4 DEF ContentInv, Knows, GoodFile
  <2>6. Len(cache.recs) = 0
    BY <2>5, EmptySeq
  <2>7. granted = {}
    BY <2>6 DEF GrantsRecorded, OnRecord
  <2> QED  BY <1>3, <2>5, <2>7
<1>4. CASE cache # NoFile /\ f # NoFile /\ f \in {cache, disk}
  BY <1>1, <1>4 DEF DiskRecs
<1>5. CASE cache # NoFile /\ f \in Beginnings(cache) /\ disk \in Beginnings(f)
  <2>1. cache \in File /\ GoodFile(cache) /\ cache.recs \in Seq(LedgerRecord)
    BY <1>5 DEF ContentInv, TypeOK, FilesGood, File
  <2>2. f \in File /\ f.recs \in Seq(LedgerRecord)
    BY <1>5, <2>1, BeginningsPrefix DEF File
  <2>3. PICK n \in 0..Len(cache.recs) : f.recs = SubSeq(cache.recs, 1, n)
    BY <1>5, <2>1, BeginningsPrefix
  <2>4. PICK m \in 0..Len(f.recs) : disk.recs = SubSeq(f.recs, 1, m)
    BY <1>5, <2>2, BeginningsPrefix
  <2>5. Len(f.recs) = n /\ Len(disk.recs) = m /\ Len(cache.recs) \in Nat /\ f # NoFile
    BY <2>1, <2>2, <2>3, <2>4, PrefixRecs, LenProperties, FileLedgerAssumption
  <2>6. CASE n = Len(cache.recs)
    BY <1>5, <2>1, <2>3, <2>5, <2>6, SubSeqFull
  <2>7. CASE n < Len(cache.recs)
    <3>1. disk.recs # cache.recs
      BY <2>4, <2>5, <2>7
    <3>2. PICK p \in Procs : proc[p].pc = "sync" /\ disk.recs = proc[p].recs
      BY <1>1, <1>5, <3>1 DEF DiskRecs
    <3> DEFINE q == proc[p]
               rec == [req |-> q.req, ordinal |-> q.ordinal]
    <3>3. /\ GoodRecs(q.recs) /\ Fresh(q.recs, q.req, q.ordinal) /\ cache.recs = Append(q.recs, rec)
          /\ q.req \in Requests
      BY <3>2, OnlyRunner DEF ContentInv, Knows
    <3>4. q.recs \in Seq(LedgerRecord) /\ rec \in LedgerRecord
      BY <3>3, AppendGood DEF GoodRecs
    <3>5. /\ Len(cache.recs) = Len(q.recs) + 1 /\ Len(q.recs) \in Nat
          /\ \A j \in 1..Len(q.recs) : cache.recs[j] = q.recs[j]
      BY <3>3, <3>4, AppendRecs, LenProperties
    <3>6. n = Len(q.recs)
      BY <2>4, <2>5, <2>7, <3>2, <3>5
    <3>7. \A j \in 1..Len(f.recs) : f.recs[j] = q.recs[j]
      BY <2>1, <2>3, <2>5, <3>5, <3>6, PrefixRecs
    <3>8. f.recs = q.recs
      BY <2>2, <2>5, <3>4, <3>6, <3>7, SeqEqual
    <3> QED  BY <1>5, <2>5, <3>2, <3>8
  <2> QED  BY <2>5, <2>6, <2>7
<1> QED  BY <1>2, <1>3, <1>4, <1>5 DEF Survivors

\* Only the process that moves can be between a write and its sync.
LEMMA OthersIdle ==
  ASSUME ContentInv, NEW p \in Procs, NEW q, proc' = [proc EXCEPT ![p] = q],
         \A o \in Procs \ {p} : proc[o].pc = "idle"
  PROVE  /\ proc'[p] = q
         /\ \A o \in Procs : proc[o].pc # "idle" => o = p
         /\ \A o \in Procs : proc'[o].pc # "idle" => o = p
BY DEF ContentInv, TypeOK

\* Only the process that ends, or goes on, changes.
LEMMA ExitMoves ==
  ASSUME TypeOK, NEW p \in Procs, NEW r, Exit(p, r)
  PROVE  proc' = [proc EXCEPT ![p] = proc'[p]] /\ proc'[p].pc = "idle"
<1>1. proc' = [proc EXCEPT ![p] = Idle(r)] /\ proc'[p] = Idle(r)
  BY DEF Exit, TypeOK
<1>2. Idle(r).pc = "idle"
  BY DEF Idle
<1> QED  BY <1>1, <1>2

\* The point a process goes on to.
LEMMA GotoMoves ==
  ASSUME TypeOK, NEW p \in Procs, NEW c, Goto(p, c)
  PROVE  proc' = [proc EXCEPT ![p] = proc'[p]] /\ proc'[p].pc = c
<1>1. proc' = [proc EXCEPT ![p] = [proc[p] EXCEPT !.pc = c]]
  BY DEF Goto, TypeOK
<1>2. proc'[p] = [proc[p] EXCEPT !.pc = c] /\ proc[p] \in Process
  BY <1>1 DEF TypeOK
<1> QED  BY <1>1, <1>2 DEF Process

\* A missing file has no grant to lose.
LEMMA OpenGrants ==
  ASSUME GrantInv, NEW p \in Procs, NEW r \in Requests, Open(p, r)
  PROVE  GrantsRecorded' /\ DiskKeepsUp'
<1> USE DEF GrantInv
<1> DEFINE f == IF cache = NoFile THEN EmptyFile ELSE cache
           q == [Idle("none") EXCEPT !.req = r, !.pc = IF f = EmptyFile THEN "header" ELSE "parse"]
<1>1. /\ lock = NoProc /\ cache' = f /\ proc' = [proc EXCEPT ![p] = q]
      /\ disk' = disk /\ entry' = entry /\ granted' = granted /\ env' = env
  BY DEF Open
<1>2. \A o \in Procs : proc[o].pc = "idle"
  BY <1>1, FileLedgerAssumption DEF ContentInv, Locked
<1>3. q.pc \in {"header", "parse"}
  BY DEF Idle
<1> HIDE DEF q
<1>4. \A o \in Procs : proc'[o].pc # "sync"
  BY <1>1, <1>2, <1>3, OthersIdle
<1>5. f # NoFile /\ EmptyFile.recs = <<>> /\ EmptyFile.head = "empty"
  BY EmptyFiles
<1>6. GrantsRecorded'
  BY <1>1, <1>4, <1>5, GrantsKept
<1>7. DiskKeepsUp'
  BY <1>1, <1>2, <1>5 DEF DiskKeepsUp, DiskRecs, EntryKept
<1> QED  BY <1>6, <1>7

\* A file without a complete header has no grant to lose.
LEMMA WriteHeaderGrants ==
  ASSUME GrantInv, NEW p \in Procs, WriteHeader(p)
  PROVE  GrantsRecorded' /\ DiskKeepsUp'
<1> USE DEF GrantInv
<1>1. /\ proc[p].pc = "header"
      /\ disk' = disk /\ entry' = entry /\ granted' = granted /\ env' = env
  BY DEF WriteHeader
<1>2. GoodFile(cache) /\ cache # NoFile /\ \A o \in Procs \ {p} : proc[o].pc = "idle"
  BY <1>1, OnlyRunner, FileLedgerAssumption
<1>3. cache.recs = <<>>
  BY <1>1, <1>2 DEF ContentInv, Knows, GoodFile
<1> DEFINE q == proc'[p]
<1>4. /\ proc' = [proc EXCEPT ![p] = q]
      /\ q.pc \in {"header", "syncHeader"}
      /\ q.pc = "header" => cache' = TornHeader
      /\ q.pc = "syncHeader" => cache' = [EmptyFile EXCEPT !.head = "full"]
  <2>1. proc = [proc EXCEPT ![p] = proc[p]]
    BY DEF ContentInv, TypeOK
  <2>2. CASE cache' = TornHeader /\ UNCHANGED proc
    BY <1>1, <2>1, <2>2
  <2>3. CASE cache' = [EmptyFile EXCEPT !.head = "full"] /\ Goto(p, "syncHeader")
    BY <2>3, GotoMoves DEF ContentInv
  <2> QED  BY <2>2, <2>3 DEF WriteHeader
<1> HIDE DEF q
<1>5. cache' # NoFile /\ cache'.recs = <<>> /\ (q.pc = "header" => cache'.head = "torn")
  BY <1>4, EmptyFiles, FileLedgerAssumption DEF GoodFile, EmptyFile
<1>6. /\ proc'[p] = q /\ (\A o \in Procs : proc'[o].pc # "sync")
      /\ \A o \in Procs : proc[o].pc # "sync"
  <2>1. /\ proc'[p] = q
        /\ \A o \in Procs : proc[o].pc # "idle" => o = p
        /\ \A o \in Procs : proc'[o].pc # "idle" => o = p
    BY <1>2, <1>4, OthersIdle
  <2> QED  BY <1>1, <1>4, <2>1
<1>7. GrantsRecorded'
  BY <1>1, <1>2, <1>3, <1>5, <1>6, GrantsKept
<1>8. DiskKeepsUp'
  BY <1>1, <1>2, <1>3, <1>4, <1>5, <1>6 DEF DiskKeepsUp, DiskRecs, EntryKept
<1> QED  BY <1>7, <1>8

\* A step that leaves the process off the points before a sync, and the
\* records as they are.
LEMMA QuietGrants ==
  ASSUME GrantInv, NEW p \in Procs, \A o \in Procs \ {p} : proc[o].pc = "idle",
         cache # NoFile, proc[p].pc \notin Unsynced,
         NEW q, proc' = [proc EXCEPT ![p] = q], q.pc \notin Unsynced,
         cache' # NoFile, cache'.recs = cache.recs, cache'.head = cache.head,
         disk'.recs \in {disk.recs, cache.recs}, entry' = entry, granted' = granted, env' = env
  PROVE  GrantsRecorded' /\ DiskKeepsUp'
<1> USE DEF GrantInv
<1>1. /\ \A o \in Procs : proc[o].pc \notin Unsynced
      /\ \A o \in Procs : proc'[o].pc \notin Unsynced
  BY OthersIdle DEF Unsynced
<1>2. GrantsRecorded'
  BY <1>1, GrantsKept DEF Unsynced
<1>3. DiskKeepsUp'
  BY <1>1 DEF DiskKeepsUp, DiskRecs, EntryKept, Unsynced
<1> QED  BY <1>2, <1>3

\* A sync brings the disk up to date.
LEMMA SyncGrants ==
  ASSUME GrantInv, NEW p \in Procs,
         SyncHeader(p) \/ SyncParent(p) \/ SyncTrim(p) \/ SyncRecord(p)
  PROVE  GrantsRecorded' /\ DiskKeepsUp'
<1> USE DEF GrantInv
<1>1. /\ proc[p].pc # "idle"
      /\ cache' = cache /\ granted' = granted /\ env' = env
  BY DEF SyncHeader, SyncParent, SyncTrim, SyncRecord
<1>2. /\ cache # NoFile /\ proc[p] \in Process
      /\ \A o \in Procs \ {p} : proc[o].pc = "idle"
  BY <1>1, OnlyRunner, FileLedgerAssumption
<1>3. PICK c \in Points :
        /\ Goto(p, c)
        /\ \/ /\ proc[p].pc = "syncHeader" /\ c = "syncParent" /\ disk' = cache /\ entry' = entry
           \/ /\ proc[p].pc = "syncParent" /\ c = "parse" /\ disk' = disk /\ entry' = TRUE
           \/ /\ proc[p].pc \in {"syncTrim", "sync"} /\ c \in {"authorize", "write"}
              /\ disk' = cache /\ entry' = entry
  BY DEF SyncHeader, SyncParent, SyncTrim, SyncRecord, Points
<1> DEFINE q == proc'[p]
<1>4. proc' = [proc EXCEPT ![p] = q] /\ q.pc = c
  BY <1>3, GotoMoves DEF ContentInv
<1> HIDE DEF q
<1>5. /\ proc'[p] = q /\ (\A o \in Procs : proc'[o].pc # "idle" => o = p)
      /\ (\A o \in Procs : proc[o].pc # "idle" => o = p)
  BY <1>2, <1>4, OthersIdle
<1>6. \A o \in Procs : proc'[o].pc # "sync"
  BY <1>3, <1>4, <1>5
<1>7. GrantsRecorded'
  BY <1>1, <1>2, <1>6, GrantsKept
<1>8. DiskRecs /\ env.losses > 0 => DiskRecs'
  BY <1>1, <1>2, <1>3, <1>5 DEF DiskRecs
<1>9. EntryKept => EntryKept'
  BY <1>1, <1>2, <1>3, <1>4, <1>5 DEF EntryKept
<1> QED  BY <1>1, <1>7, <1>8, <1>9 DEF DiskKeepsUp

\* Parsing keeps the records.
LEMMA ParseGrants ==
  ASSUME GrantInv, NEW p \in Procs, Parse(p)
  PROVE  GrantsRecorded' /\ DiskKeepsUp'
<1> USE DEF GrantInv
<1>1. /\ proc[p].pc = "parse"
      /\ disk' = disk /\ entry' = entry /\ granted' = granted /\ env' = env
  BY DEF Parse
<1>2. /\ cache \in File /\ cache # NoFile /\ proc[p] \in Process
      /\ \A o \in Procs \ {p} : proc[o].pc = "idle"
  BY <1>1, OnlyRunner, FileLedgerAssumption
<1>3. /\ cache' \in File /\ cache' # NoFile /\ cache'.recs = cache.recs /\ cache'.head = cache.head
  BY <1>2, FileLedgerAssumption DEF Parse, File
<1> DEFINE q == proc'[p]
<1>4. proc' = [proc EXCEPT ![p] = q] /\ q.pc \in {"idle", "syncTrim", "authorize"}
  <2>1. CASE ~Parses(cache)
    BY <2>1, ExitMoves DEF Parse, ContentInv
  <2>2. CASE Parses(cache)
    <3> DEFINE q1 == [proc[p] EXCEPT !.pc = IF cache.torn THEN "syncTrim" ELSE "authorize",
                                     !.recs = cache.recs]
    <3>1. proc' = [proc EXCEPT ![p] = q1] /\ q = q1
      BY <1>2, <2>2 DEF Parse, ContentInv, TypeOK, Process
    <3>2. q1.pc \in {"syncTrim", "authorize"}
      BY <1>2 DEF Process
    <3> QED  BY <3>1, <3>2
  <2> QED  BY <2>1, <2>2
<1> HIDE DEF q
<1> QED  BY <1>1, <1>2, <1>3, <1>4, QuietGrants DEF Unsynced

\* Authorizing keeps the file.
LEMMA AuthorizeGrants ==
  ASSUME GrantInv, NEW p \in Procs, Authorize(p)
  PROVE  GrantsRecorded' /\ DiskKeepsUp'
<1> USE DEF GrantInv
<1>1. /\ proc[p].pc = "authorize" /\ cache' = cache
      /\ disk' = disk /\ entry' = entry /\ granted' = granted /\ env' = env
  BY DEF Authorize, fileVars
<1>2. /\ cache # NoFile /\ proc[p] \in Process
      /\ \A o \in Procs \ {p} : proc[o].pc = "idle"
  BY <1>1, OnlyRunner, FileLedgerAssumption
<1> DEFINE q == proc'[p]
<1>3. proc' = [proc EXCEPT ![p] = q] /\ q.pc \in {"idle", "write", "append"}
  <2>1. ASSUME NEW r, Exit(p, r)
        PROVE  proc' = [proc EXCEPT ![p] = q] /\ q.pc = "idle"
    BY <2>1, ExitMoves DEF ContentInv
  <2>2. ASSUME NEW c, NEW n, proc' = [proc EXCEPT ![p].pc = c, ![p].ordinal = n]
        PROVE  proc' = [proc EXCEPT ![p] = q] /\ q.pc = c
    <3>1. proc' = [proc EXCEPT ![p] = [proc[p] EXCEPT !.pc = c, !.ordinal = n]]
      BY <2>2 DEF ContentInv, TypeOK
    <3>2. q = [proc[p] EXCEPT !.pc = c, !.ordinal = n]
      BY <3>1 DEF ContentInv, TypeOK
    <3> QED  BY <1>2, <3>1, <3>2 DEF Process
  <2> HIDE DEF q
  <2> QED  BY <2>1, <2>2 DEF Authorize
<1> HIDE DEF q
<1> QED  BY <1>1, <1>2, <1>3, QuietGrants DEF Unsynced

\* The new record is of a request without a grant.
LEMMA AppendRecordGrants ==
  ASSUME GrantInv, NEW p \in Procs, AppendRecord(p)
  PROVE  GrantsRecorded' /\ DiskKeepsUp'
<1> USE DEF GrantInv
<1> DEFINE q == proc[p]
           rec == [req |-> q.req, ordinal |-> q.ordinal]
<1>1. /\ q.pc = "append"
      /\ disk' = disk /\ entry' = entry /\ granted' = granted /\ env' = env
  BY DEF AppendRecord
<1>2. /\ cache \in File /\ cache # NoFile /\ q \in Process /\ q.req \in Requests
      /\ \A o \in Procs \ {p} : proc[o].pc = "idle"
  BY <1>1, OnlyRunner, FileLedgerAssumption
<1>3. CASE cache' = [cache EXCEPT !.torn = TRUE] /\ UNCHANGED proc
  <2>1. cache' \in File /\ cache' # NoFile /\ cache'.recs = cache.recs /\ cache'.head = cache.head
    BY <1>2, <1>3, FileLedgerAssumption DEF File
  <2>2. proc' = [proc EXCEPT ![p] = q]
    BY <1>3 DEF ContentInv, TypeOK
  <2> QED  BY <1>1, <1>2, <2>1, <2>2, QuietGrants DEF Unsynced
<1>4. CASE cache' = [cache EXCEPT !.torn = FALSE, !.recs = Append(@, rec)] /\ Goto(p, AfterAppend)
  <2> DEFINE q1 == [q EXCEPT !.pc = "sync"]
  <2>1. /\ cache.head = "full" /\ q.recs = cache.recs
        /\ GoodRecs(q.recs) /\ Fresh(q.recs, q.req, q.ordinal)
    BY <1>1 DEF ContentInv, Knows
  <2>2. rec \in LedgerRecord /\ GoodRecs(Append(q.recs, rec))
    BY <1>2, <2>1, AppendGood
  <2>3. cache' \in File /\ cache'.recs = Append(q.recs, rec) /\ cache'.head = "full"
    BY <1>2, <1>4, <2>1, <2>2 DEF File, GoodRecs
  <2>4. cache' # NoFile
    BY <2>3, FileLedgerAssumption
  <2>5. proc' = [proc EXCEPT ![p] = q1]
    BY <1>4, GotoState DEF ContentInv, Points, AfterAppend
  <2>6. q1.pc = "sync" /\ q1.req = q.req /\ q1.recs = q.recs
    BY <1>2 DEF Process
  <2> HIDE DEF q1
  <2>7. /\ proc'[p] = q1 /\ (\A o \in Procs : proc'[o].pc # "idle" => o = p)
        /\ (\A o \in Procs : proc[o].pc # "idle" => o = p)
    BY <1>2, <2>5, OthersIdle
  <2>8. GrantsRecorded'
    <3> SUFFICES ASSUME NEW g \in granted
                 PROVE  OnRecord(cache', g) /\ g[1] # q.req
      BY <1>1, <2>6, <2>7 DEF GrantsRecorded
    <3>1. PICK k \in 1..Len(q.recs) : q.recs[k] = [req |-> g[1], ordinal |-> g[2]]
      BY <2>1 DEF GrantsRecorded, OnRecord
    <3>2. q.recs[k].req = g[1]
      BY <3>1
    <3>3. g[1] # q.req
      BY <2>1, <3>1, <3>2 DEF Fresh, Recorded
    <3>4. Len(cache'.recs) = Len(q.recs) + 1 /\ Len(q.recs) \in Nat /\ cache'.recs[k] = q.recs[k]
      BY <2>1, <2>2, <2>3, AppendRecs, LenProperties DEF GoodRecs
    <3>5. k \in 1..Len(cache'.recs)
      BY <3>4
    <3> QED  BY <2>4, <3>1, <3>3, <3>4, <3>5 DEF OnRecord
  <2>9. DiskKeepsUp'
    BY <1>1, <1>2, <2>1, <2>3, <2>4, <2>6, <2>7 DEF DiskKeepsUp, DiskRecs, EntryKept
  <2> QED  BY <2>8, <2>9
<1> QED  BY <1>3, <1>4 DEF AppendRecord

\* A grant is written out when its record is synced.
LEMMA WriteGrantGrants ==
  ASSUME GrantInv, NEW p \in Procs, WriteGrant(p)
  PROVE  GrantsRecorded' /\ DiskKeepsUp'
<1> USE DEF GrantInv
<1> DEFINE g == <<proc[p].req, proc[p].ordinal>>
<1>1. /\ proc[p].pc = "write" /\ cache' = cache /\ disk' = disk /\ entry' = entry
      /\ granted' = granted \cup {g} /\ env' = env
      /\ Exit(p, "granted")
  BY DEF WriteGrant, fileVars
<1>2. \A o \in Procs \ {p} : proc[o].pc = "idle"
  BY <1>1, OnlyRunner
<1>3. OnRecord(cache, g)
  BY <1>1 DEF ContentInv, Knows
<1> HIDE DEF g
<1>4. proc' = [proc EXCEPT ![p] = proc'[p]] /\ proc'[p].pc = "idle"
  BY <1>1, ExitMoves DEF ContentInv
<1>5. /\ \A o \in Procs : proc[o].pc \notin Unsynced
      /\ \A o \in Procs : proc'[o].pc \notin Unsynced
  BY <1>1, <1>2, <1>4, OthersIdle DEF Unsynced
<1>6. GrantsRecorded'
  BY <1>1, <1>3, <1>5 DEF GrantsRecorded, Unsynced
<1>7. DiskKeepsUp'
  BY <1>1, <1>5 DEF DiskKeepsUp, DiskRecs, EntryKept, Unsynced
<1> QED  BY <1>6, <1>7

\* A process that is stopped before its sync is stopped on a machine that
\* stays up.
LEMMA StopGrants ==
  ASSUME SyncedEnvironments, GrantInv, NEW p \in Procs, Stop(p)
  PROVE  GrantsRecorded' /\ DiskKeepsUp'
<1> USE DEF GrantInv
<1>1. /\ proc[p].pc # "idle" /\ proc[p].pc \in env.points
      /\ cache' = cache /\ disk' = disk /\ entry' = entry
      /\ granted' = granted /\ env' = env /\ Exit(p, "fault")
  BY DEF Stop, fileVars
<1>2. cache # NoFile /\ \A o \in Procs \ {p} : proc[o].pc = "idle"
  BY <1>1, OnlyRunner, FileLedgerAssumption
<1>3. proc' = [proc EXCEPT ![p] = proc'[p]] /\ proc'[p].pc = "idle"
  BY <1>1, ExitMoves DEF ContentInv
<1>4. CASE proc[p].pc \notin Unsynced
  BY <1>1, <1>2, <1>3, <1>4, QuietGrants DEF Unsynced
<1>5. CASE proc[p].pc \in Unsynced
  <2>1. ~(env.losses > 0)
    BY <1>1, <1>5, LossEnvironment DEF ContentInv
  <2>2. \A o \in Procs : proc'[o].pc # "sync"
    BY <1>2, <1>3, OthersIdle
  <2>3. GrantsRecorded'
    BY <1>1, <2>2, GrantsKept
  <2> QED  BY <1>1, <2>1, <2>3 DEF DiskKeepsUp
<1> QED  BY <1>4, <1>5

\* Cutting the file back loses no record of a grant.
LEMMA WriteErrorGrants ==
  ASSUME SyncedEnvironments, GrantInv, NEW p \in Procs, WriteError(p)
  PROVE  GrantsRecorded' /\ DiskKeepsUp'
<1> USE DEF GrantInv
<1>1. /\ proc[p].pc \in {"append", "sync"} /\ proc[p].pc \in env.points
      /\ cache' \in {cache, Back(p)} /\ disk' \in {disk, cache, cache'}
      /\ entry' = entry /\ granted' = granted /\ env' = env
      /\ Exit(p, "ReleaseAuthorityUnavailable")
  BY DEF WriteError, Back
<1>2. cache # NoFile /\ \A o \in Procs \ {p} : proc[o].pc = "idle"
  BY <1>1, OnlyRunner, FileLedgerAssumption
<1>3. proc' = [proc EXCEPT ![p] = proc'[p]] /\ proc'[p].pc = "idle"
  BY <1>1, ExitMoves DEF ContentInv
<1>4. Back(p) # NoFile /\ Back(p).recs = proc[p].recs /\ Back(p).head = "full"
  BY <1>1, BackFile
<1>5. cache.head = "full"
  BY <1>1 DEF ContentInv, Knows
<1>6. CASE proc[p].pc = "append"
  <2>1. proc[p].recs = cache.recs
    BY <1>6 DEF ContentInv, Knows
  <2>2. cache' # NoFile /\ cache'.recs = cache.recs /\ cache'.head = cache.head
    BY <1>1, <1>2, <1>4, <1>5, <2>1
  <2>3. disk'.recs \in {disk.recs, cache.recs}
    BY <1>1, <2>2
  <2> QED  BY <1>1, <1>2, <1>3, <1>6, <2>2, <2>3, QuietGrants DEF Unsynced
<1>7. CASE proc[p].pc = "sync"
  <2>1. ~(env.losses > 0)
    BY <1>1, <1>7, LossEnvironment DEF ContentInv, Unsynced
  <2>2. \A o \in Procs : proc'[o].pc # "sync"
    BY <1>2, <1>3, OthersIdle
  <2>3. \A g \in granted : OnRecord(cache', g)
    BY <1>1, <1>4, <1>7, BeforeOnRecord DEF GrantsRecorded
  <2> QED  BY <1>1, <2>1, <2>2, <2>3 DEF DiskKeepsUp, GrantsRecorded
<1> QED  BY <1>1, <1>6, <1>7

\* A power loss loses no record of a grant.
LEMMA PowerLossGrants ==
  ASSUME GrantInv, PowerLoss
  PROVE  GrantsRecorded' /\ DiskKeepsUp'
<1> USE DEF GrantInv
<1>1. env.losses > 0
  <2>1. env \in Environment
    BY FileLedgerAssumption DEF ContentInv, TypeOK
  <2>2. env.losses \in Nat /\ losses \in Nat
    BY <2>1 DEF Environment, ContentInv, TypeOK
  <2> QED  BY <2>2, LossFacts
<1>2. cache' \in Survivors /\ granted' = granted /\ env' = env
  BY LossFacts
<1>3. \A g \in granted : OnRecord(cache', g)
  <2> SUFFICES ASSUME NEW g \in granted  PROVE OnRecord(cache', g)
    OBVIOUS
  <2>1. cache' # NoFile
    BY <1>1, <1>2, SurvivorsKeep
  <2>2. CASE cache # NoFile /\ cache'.recs = cache.recs
    BY <2>1, <2>2 DEF GrantsRecorded, OnRecord
  <2>3. CASE \E p \in Procs : proc[p].pc = "sync" /\ cache'.recs = proc[p].recs
    BY <2>1, <2>3, BeforeOnRecord
  <2> QED  BY <1>1, <1>2, <2>1, <2>2, <2>3, SurvivorsKeep
<1>4. GrantsRecorded'
  BY <1>2, <1>3, LossFacts DEF GrantsRecorded
<1>5. DiskRecs'
  BY LossFacts, EmptyFiles DEF DiskRecs
<1>6. EntryKept'
  BY LossFacts DEF EntryKept
<1> QED  BY <1>4, <1>5, <1>6 DEF DiskKeepsUp

\* Before the first command there is no grant.
LEMMA GrantInit ==
  ASSUME Init
  PROVE  GrantInv
<1>1. ContentInv
  BY ContentInit
<1>2. GrantsRecorded /\ DiskKeepsUp
  BY EmptyFiles DEF Init, GrantsRecorded, DiskKeepsUp, DiskRecs, EntryKept
<1> QED  BY <1>1, <1>2 DEF GrantInv

\* Every step keeps the invariant of the grants.
LEMMA GrantNext ==
  ASSUME SyncedEnvironments, GrantInv, [Next]_vars
  PROVE  GrantInv'
<1>1. ContentInv'
  BY ContentNext DEF GrantInv
<1>2. CASE UNCHANGED vars
  BY <1>1, <1>2 DEF vars, fileVars, GrantInv, GrantsRecorded, DiskKeepsUp, DiskRecs, EntryKept
<1>3. ASSUME NEW p \in Procs, Step(p)  PROVE GrantInv'
  BY <1>1, <1>3, WriteHeaderGrants, SyncGrants, ParseGrants, AuthorizeGrants,
     AppendRecordGrants, WriteGrantGrants DEF Step, GrantInv
<1>4. ASSUME NEW p \in Procs, Stop(p) \/ WriteError(p) \/ \E r \in Requests : Open(p, r)
      PROVE GrantInv'
  BY <1>1, <1>4, StopGrants, WriteErrorGrants, OpenGrants DEF GrantInv
<1>5. CASE PowerLoss
  BY <1>1, <1>5, PowerLossGrants DEF GrantInv
<1> QED  BY <1>2, <1>3, <1>4, <1>5 DEF Next

\* The invariant of the grants.
LEMMA GrantAlways ==
  ASSUME SyncedEnvironments
  PROVE  Spec => []GrantInv
BY GrantInit, GrantNext, PTL DEF Spec

\* A grant that left the witness is on record, with its ordinal, in whatever a
\* later command may find, for any number of kills, I/O errors and power
\* losses, unless a process is stopped between a write and its sync and the
\* power fails after that.
THEOREM GrantsSurviveTheorem ==
  ASSUME SyncedEnvironments
  PROVE  Spec => []GrantsSurvive
<1>1. GrantInv => GrantsSurvive
  <2> SUFFICES ASSUME GrantInv, NEW g \in granted, NEW f \in Findable
               PROVE  OnRecord(f, g)
    BY DEF GrantsSurvive
  <2>1. CASE f = cache
    BY <2>1 DEF GrantInv, GrantsRecorded
  <2>2. CASE losses < env.losses /\ f \in Survivors
    <3>1. env.losses > 0
      <4>1. env \in Environment
        BY FileLedgerAssumption DEF GrantInv, ContentInv, TypeOK
      <4>2. env.losses \in Nat /\ losses \in Nat
        BY <4>1 DEF Environment, GrantInv, ContentInv, TypeOK
      <4> QED  BY <2>2, <4>2
    <3>2. f # NoFile
      BY <2>2, <3>1, SurvivorsKeep
    <3>3. CASE cache # NoFile /\ f.recs = cache.recs
      BY <3>2, <3>3 DEF GrantInv, GrantsRecorded, OnRecord
    <3>4. CASE \E p \in Procs : proc[p].pc = "sync" /\ f.recs = proc[p].recs
      BY <3>2, <3>4, BeforeOnRecord DEF GrantInv
    <3> QED  BY <2>2, <3>1, <3>2, <3>3, <3>4, SurvivorsKeep
  <2> QED  BY <2>1, <2>2 DEF Findable
<1> QED  BY <1>1, GrantAlways, PTL
-----------------------------------------------------------------------------
(* The trait.                                                              *)

\* The refinement mapping, for the records of a file.
ReqsOf(recs, s) == [n \in 1..CountOf(recs, s) |-> recs[PlaceOf(recs, s, n)].req]

\* It lists the requests of the scope by ordinal.
LEMMA ReqsOfRecords ==
  ASSUME NEW recs, GoodRecs(recs), NEW s \in Scopes
  PROVE  /\ ReqsOf(recs, s) \in Seq(Requests)
         /\ Len(ReqsOf(recs, s)) = CountOf(recs, s)
         /\ \A n \in 1..CountOf(recs, s) :
              \E k \in PlacesOf(recs, s) : recs[k].ordinal = n /\ ReqsOf(recs, s)[n] = recs[k].req
         /\ \A k \in PlacesOf(recs, s) :
              /\ recs[k].ordinal \in 1..CountOf(recs, s)
              /\ ReqsOf(recs, s)[recs[k].ordinal] = recs[k].req
<1>1. recs \in Seq(LedgerRecord) /\ Consistent(recs) /\ Numbered(recs)
  BY DEF GoodRecs
<1>2. CountOf(recs, s) \in Nat
  BY <1>1, CountType
<1>3. \A n \in 1..CountOf(recs, s) :
        PlaceOf(recs, s, n) \in PlacesOf(recs, s) /\ recs[PlaceOf(recs, s, n)].ordinal = n
  BY <1>1 DEF Numbered, PlaceOf
<1>4. \A k \in PlacesOf(recs, s) : k \in 1..Len(recs) /\ Scope(recs[k]) = s
  BY DEF PlacesOf
<1>5. \A k \in PlacesOf(recs, s) : recs[k].req \in Requests
  BY <1>1, <1>4, RecordType
<1>6. ReqsOf(recs, s) \in [1..CountOf(recs, s) -> Requests]
  BY <1>3, <1>5 DEF ReqsOf
<1>7. ReqsOf(recs, s) \in Seq(Requests) /\ Len(ReqsOf(recs, s)) = CountOf(recs, s)
  BY <1>2, <1>6
<1>8. \A n \in 1..CountOf(recs, s) : ReqsOf(recs, s)[n] = recs[PlaceOf(recs, s, n)].req
  BY DEF ReqsOf
<1>9. ASSUME NEW k \in PlacesOf(recs, s)
      PROVE  /\ recs[k].ordinal \in 1..CountOf(recs, s)
             /\ ReqsOf(recs, s)[recs[k].ordinal] = recs[k].req
  <2>1. recs[k].ordinal \in 1..CountOf(recs, s)
    BY <1>1, <1>4, OrdinalBound
  <2>2. PlaceOf(recs, s, recs[k].ordinal) = k
    BY <1>1, <1>3, <1>4, <2>1, OneRecord
  <2> QED  BY <1>8, <2>1, <2>2
<1> QED  BY <1>3, <1>7, <1>8, <1>9

\* An empty ledger has no requests.
LEMMA ReqsOfEmpty ==
  ASSUME NEW s \in Scopes
  PROVE  ReqsOf(<<>>, s) = <<>>
<1>1. <<>> \in Seq(LedgerRecord) /\ Len(<<>>) = 0
  BY EmptySeq
<1>2. CountOf(<<>>, s) = 0
  <2>1. CountOf(<<>>, s) \in Nat /\ CountOf(<<>>, s) <= Len(<<>>)
    BY <1>1, CountType
  <2> QED  BY <1>1, <2>1
<1>3. ReqsOf(<<>>, s) \in Seq(Requests) /\ Len(ReqsOf(<<>>, s)) = 0
  BY <1>2, EmptyGood, ReqsOfRecords
<1> QED  BY <1>3, EmptySeq

\* A new record adds its request to the end of its scope.
LEMMA ReqsOfAppend ==
  ASSUME NEW recs, GoodRecs(recs), NEW r \in Requests, NEW n, Fresh(recs, r, n),
         NEW s \in Scopes
  PROVE  ReqsOf(Append(recs, [req |-> r, ordinal |-> n]), s) =
           IF s = ScopeOf[r] THEN Append(ReqsOf(recs, s), r) ELSE ReqsOf(recs, s)
<1> DEFINE rec == [req |-> r, ordinal |-> n]
           new == Append(recs, rec)
           old == ReqsOf(recs, s)
<1>1. rec \in LedgerRecord /\ GoodRecs(new) /\ rec.req = r /\ rec.ordinal = n
  BY AppendGood
<1>2. recs \in Seq(LedgerRecord) /\ n = CountOf(recs, ScopeOf[r]) + 1 /\ Scope(rec) = ScopeOf[r]
  BY <1>1 DEF GoodRecs, Fresh, NextOrdinal, Scope
<1>3. /\ (\A k \in 1..Len(recs) : new[k] = recs[k]) /\ new[Len(recs) + 1] = rec
  BY <1>1, <1>2, AppendRecs
<1>4. Len(recs) \in Nat /\ CountOf(recs, s) \in Nat
  BY <1>2, LenProperties, CountType
<1> HIDE DEF rec
<1>5. /\ PlacesOf(new, s) = IF ScopeOf[r] = s THEN PlacesOf(recs, s) \cup {Len(recs) + 1}
                            ELSE PlacesOf(recs, s)
      /\ CountOf(new, s) = IF ScopeOf[r] = s THEN CountOf(recs, s) + 1 ELSE CountOf(recs, s)
  BY <1>1, <1>2, AppendPlaces
<1> HIDE DEF new
<1>6. /\ old \in Seq(Requests) /\ Len(old) = CountOf(recs, s)
      /\ ReqsOf(new, s) \in Seq(Requests) /\ Len(ReqsOf(new, s)) = CountOf(new, s)
  BY <1>1, ReqsOfRecords
<1>7. \A i \in 1..CountOf(recs, s) : ReqsOf(new, s)[i] = old[i]
  <2> SUFFICES ASSUME NEW i \in 1..CountOf(recs, s)  PROVE ReqsOf(new, s)[i] = old[i]
    OBVIOUS
  <2>1. PICK k \in PlacesOf(recs, s) : recs[k].ordinal = i /\ old[i] = recs[k].req
    BY ReqsOfRecords
  <2>2. k \in PlacesOf(new, s) /\ new[k] = recs[k]
    BY <1>3, <1>5 DEF PlacesOf
  <2>3. ReqsOf(new, s)[new[k].ordinal] = new[k].req
    BY <1>1, <2>2, ReqsOfRecords
  <2> QED  BY <2>1, <2>2, <2>3
<1>8. CASE s # ScopeOf[r]
  <2>1. ReqsOf(new, s) = old
    BY <1>5, <1>6, <1>7, <1>8, SeqEqual
  <2> QED  BY <1>8, <2>1 DEF new, rec
<1>9. CASE s = ScopeOf[r]
  <2>1. Len(recs) + 1 \in PlacesOf(new, s)
    BY <1>5, <1>9
  <2>2. ReqsOf(new, s)[n] = r
    BY <1>1, <1>3, <2>1, ReqsOfRecords
  <2>3. /\ Append(old, r) \in Seq(Requests) /\ Len(Append(old, r)) = CountOf(recs, s) + 1
        /\ \A i \in 1..CountOf(recs, s) : Append(old, r)[i] = old[i]
        /\ Append(old, r)[CountOf(recs, s) + 1] = r
    BY <1>6, AppendProperties
  <2> HIDE DEF old
  <2>4. ASSUME NEW i \in 1..Len(ReqsOf(new, s))
        PROVE  ReqsOf(new, s)[i] = Append(old, r)[i]
    <3>1. i \in 1..CountOf(recs, s) \/ i = CountOf(recs, s) + 1
      BY <1>4, <1>5, <1>6, <1>9
    <3> QED  BY <1>2, <1>7, <1>9, <2>2, <2>3, <3>1
  <2>5. Len(ReqsOf(new, s)) = Len(Append(old, r))
    BY <1>5, <1>6, <1>9, <2>3
  <2>6. ReqsOf(new, s) = Append(old, r)
    BY <1>6, <2>3, <2>4, <2>5, SeqEqual
  <2> QED  BY <1>9, <2>6 DEF new, rec, old
<1> QED  BY <1>8, <1>9

\* The mapping of the file is the mapping of its records.
LEMMA RequestsOfFile ==
  ASSUME NEW f, NEW s \in Scopes
  PROVE  /\ f # NoFile => RequestsOf(f, s) = ReqsOf(f.recs, s)
         /\ f = NoFile => RequestsOf(f, s) = ReqsOf(<<>>, s)
BY ReqsOfEmpty DEF RequestsOf, ReqsOf

\* A grant is one record of the file.
LEMMA GrantRecord ==
  ASSUME GrantInv, NEW g \in granted
  PROVE  /\ cache # NoFile /\ GoodRecs(cache.recs) /\ g[1] \in Requests
         /\ \E k \in 1..Len(cache.recs) :
              /\ cache.recs[k].req = g[1] /\ cache.recs[k].ordinal = g[2]
              /\ Scope(cache.recs[k]) = ScopeOf[g[1]]
<1>1. OnRecord(cache, g) /\ cache # NoFile
  BY DEF GrantInv, GrantsRecorded, OnRecord
<1>2. PICK k \in 1..Len(cache.recs) : cache.recs[k] = [req |-> g[1], ordinal |-> g[2]]
  BY <1>1 DEF OnRecord
<1>3. GoodRecs(cache.recs) /\ g[1] \in Requests
  BY <1>1 DEF GrantInv, ContentInv, TypeOK, FilesGood, GoodFile
<1>4. /\ cache.recs[k].req = g[1] /\ cache.recs[k].ordinal = g[2]
      /\ Scope(cache.recs[k]) = ScopeOf[g[1]]
  BY <1>2 DEF Scope
<1> QED  BY <1>1, <1>3, <1>4

\* The grants of one witness agree: one ordinal per request, one request per
\* ordinal of a scope, none above the contract's maximum, through every crash
\* and power loss the witness survives with its grants.
THEOREM GrantsAgreeTheorem ==
  ASSUME SyncedEnvironments
  PROVE  Spec => []GrantsAgree
<1>1. GrantInv => GrantsAgree
  <2> SUFFICES ASSUME GrantInv, NEW g \in granted, NEW h \in granted
               PROVE  /\ g[1] = h[1] => g[2] = h[2]
                      /\ ScopeOf[g[1]] = ScopeOf[h[1]] /\ g[2] = h[2] => g[1] = h[1]
                      /\ Limit[ScopeOf[g[1]]] = NoLimit \/ g[2] <= Limit[ScopeOf[g[1]]]
    BY DEF GrantsAgree, Trait!GrantsAgree
  <2> DEFINE recs == cache.recs
  <2>1. PICK k \in 1..Len(recs) : /\ recs[k].req = g[1] /\ recs[k].ordinal = g[2]
                                  /\ Scope(recs[k]) = ScopeOf[g[1]]
    BY GrantRecord
  <2>2. PICK m \in 1..Len(recs) : /\ recs[m].req = h[1] /\ recs[m].ordinal = h[2]
                                  /\ Scope(recs[m]) = ScopeOf[h[1]]
    BY GrantRecord
  <2>3. /\ recs \in Seq(LedgerRecord) /\ Consistent(recs) /\ WithinLimits(recs)
        /\ g[1] \in Requests
    BY GrantRecord DEF GoodRecs
  <2> HIDE DEF recs
  <2>4. g[1] = h[1] => g[2] = h[2]
    BY <2>1, <2>2, <2>3, OneRecord
  <2>5. ScopeOf[g[1]] = ScopeOf[h[1]] /\ g[2] = h[2] => g[1] = h[1]
    BY <2>1, <2>2, <2>3, OneRecord
  <2>6. ASSUME Limit[ScopeOf[g[1]]] # NoLimit
        PROVE  g[2] <= Limit[ScopeOf[g[1]]]
    <3> DEFINE s == ScopeOf[g[1]]
    <3>1. s \in Scopes /\ Limit[s] \in Nat
      BY <2>3, <2>6, FileLedgerAssumption
    <3>2. g[2] \in 1..CountOf(recs, s) /\ CountOf(recs, s) \in Nat
      BY <2>1, <2>3, OrdinalBound, CountType
    <3>3. CountOf(recs, s) <= Limit[s]
      BY <2>3, <2>6, <3>1 DEF WithinLimits
    <3> HIDE DEF s
    <3>4. g[2] <= Limit[s]
      BY <3>1, <3>2, <3>3
    <3> QED  BY <3>4 DEF s
  <2> QED  BY <2>4, <2>5, <2>6
<1> QED  BY <1>1, GrantAlways, PTL

\* The refinement mapping, as a state function.
Reqs == [s \in Scopes |-> RequestsOf(cache, s)]

\* The records the processes see.
CacheRecs == IF cache = NoFile THEN <<>> ELSE cache.recs

\* The mapping depends on the records only.
LEMMA ReqsAre == Reqs = [s \in Scopes |-> ReqsOf(CacheRecs, s)]
BY RequestsOfFile DEF Reqs, CacheRecs

\* A step that leaves the records alone is a stutter of the trait.
LEMMA ReqsKept ==
  ASSUME CacheRecs' = CacheRecs
  PROVE  Reqs' = Reqs
<1>1. Reqs' = [s \in Scopes |-> ReqsOf(CacheRecs', s)]
  BY RequestsOfFile DEF Reqs, CacheRecs
<1> QED  BY <1>1, ReqsAre

\* Appending the record of a fresh request is the trait's Record.
LEMMA RecordsAreRecorded ==
  ASSUME NEW r \in Requests, NEW n, GoodRecs(CacheRecs), Fresh(CacheRecs, r, n),
         CacheRecs' = Append(CacheRecs, [req |-> r, ordinal |-> n]), granted' = granted
  PROVE  Trait!Record(r)
<1> DEFINE s == ScopeOf[r]
           old == CacheRecs
<1>1. s \in Scopes
  BY FileLedgerAssumption
<1>2. Reqs = [t \in Scopes |-> ReqsOf(old, t)]
  BY ReqsAre
<1>3. Reqs' = [t \in Scopes |-> ReqsOf(CacheRecs', t)]
  BY RequestsOfFile DEF Reqs, CacheRecs
<1>4. \A t \in Scopes : ReqsOf(CacheRecs', t) =
        IF t = s THEN Append(ReqsOf(old, t), r) ELSE ReqsOf(old, t)
  BY ReqsOfAppend
<1>5. Reqs' = [Reqs EXCEPT ![s] = Append(@, r)]
  BY <1>1, <1>2, <1>3, <1>4
<1>6. Reqs[s] = ReqsOf(old, s) /\ Len(Reqs[s]) = CountOf(old, s)
  BY <1>1, <1>2, ReqsOfRecords
<1>7. \A i \in 1..Len(Reqs[s]) : Reqs[s][i] # r
  <2> SUFFICES ASSUME NEW i \in 1..CountOf(old, s)  PROVE ReqsOf(old, s)[i] # r
    BY <1>6
  <2>1. PICK k \in PlacesOf(old, s) : ReqsOf(old, s)[i] = old[k].req
    BY <1>1, ReqsOfRecords
  <2> QED  BY <2>1 DEF PlacesOf, Fresh, Recorded
<1>8. Limit[s] = NoLimit \/ Len(Reqs[s]) < Limit[s]
  <2> SUFFICES ASSUME Limit[s] # NoLimit  PROVE CountOf(old, s) < Limit[s]
    BY <1>6
  <2>1. Limit[s] \in Nat /\ CountOf(old, s) \in Nat
    BY <1>1, FileLedgerAssumption, CountType DEF GoodRecs
  <2>2. ~(CountOf(old, s) >= Limit[s])
    BY DEF Fresh, Exhausted
  <2> QED  BY <2>1, <2>2
<1> QED  BY <1>5, <1>7, <1>8 DEF Trait!Record, Trait!Authorized, Trait!WithinLimit, Reqs

\* Losing the newest record, of which no grant is out, is the trait's Undo.
LEMMA LostRecordIsUndone ==
  ASSUME NEW recs, NEW r \in Requests, NEW n, GoodRecs(recs), Fresh(recs, r, n),
         CacheRecs = Append(recs, [req |-> r, ordinal |-> n]), CacheRecs' = recs,
         granted' = granted, \A g \in granted : g[1] # r
  PROVE  Trait!Undo(r)
<1> DEFINE s == ScopeOf[r]
           old == ReqsOf(recs, s)
           l == Len(old) + 1
<1>1. s \in Scopes
  BY FileLedgerAssumption
<1>2. Reqs = [t \in Scopes |-> ReqsOf(CacheRecs, t)]
  BY ReqsAre
<1>3. Reqs' = [t \in Scopes |-> ReqsOf(recs, t)]
  BY RequestsOfFile DEF Reqs, CacheRecs
<1>4. \A t \in Scopes : ReqsOf(CacheRecs, t) =
        IF t = s THEN Append(ReqsOf(recs, t), r) ELSE ReqsOf(recs, t)
  BY ReqsOfAppend
<1>5. old \in Seq(Requests) /\ Len(old) \in Nat
  BY <1>1, ReqsOfRecords, LenProperties
<1>6. /\ Append(old, r) \in Seq(Requests) /\ Len(Append(old, r)) = l
      /\ Append(old, r)[l] = r /\ \A i \in 1..Len(old) : Append(old, r)[i] = old[i]
  BY <1>5, AppendProperties
<1> HIDE DEF old
<1>7. SubSeq(Append(old, r), 1, l - 1) = old
  <2>1. l - 1 = Len(old) /\ 1 \in Int /\ l - 1 \in Int
    BY <1>5
  <2>2. \A i \in 1..(l - 1) : Append(old, r)[i] \in Requests
    BY <1>5, <1>6, <2>1, ElementOfSeq
  <2>3. /\ SubSeq(Append(old, r), 1, l - 1) \in Seq(Requests)
        /\ Len(SubSeq(Append(old, r), 1, l - 1)) = IF 1 <= l - 1 THEN l - 1 - 1 + 1 ELSE 0
        /\ \A i \in 1..(l - 1 - 1 + 1) : SubSeq(Append(old, r), 1, l - 1)[i] = Append(old, r)[1 + i - 1]
    BY <2>1, <2>2, SubSeqProperties
  <2>4. Len(SubSeq(Append(old, r), 1, l - 1)) = Len(old)
    BY <1>5, <2>1, <2>3
  <2>5. \A i \in 1..Len(old) : SubSeq(Append(old, r), 1, l - 1)[i] = old[i]
    <3>1. l - 1 - 1 + 1 = Len(old) /\ \A i \in 1..Len(old) : 1 + i - 1 = i
      BY <1>5
    <3> QED  BY <1>6, <2>3, <3>1
  <2> QED  BY <1>5, <2>3, <2>4, <2>5, SeqEqual
<1>8. Reqs[s] = Append(old, r) /\ Len(Reqs[s]) = l
  BY <1>1, <1>2, <1>4, <1>6 DEF old
<1>9. Reqs' = [Reqs EXCEPT ![s] = old]
  BY <1>1, <1>2, <1>3, <1>4 DEF old
<1>10. /\ Len(Reqs[s]) > 0 /\ Reqs[s][Len(Reqs[s])] = r
       /\ <<r, Len(Reqs[s])>> \notin granted
       /\ Reqs' = [Reqs EXCEPT ![s] = SubSeq(@, 1, Len(Reqs[s]) - 1)]
  <2>1. Len(Reqs[s]) > 0
    BY <1>5, <1>8
  <2>2. <<r, Len(Reqs[s])>> \notin granted
    <3>1. <<r, Len(Reqs[s])>>[1] = r
      OBVIOUS
    <3> QED  BY <3>1
  <2>3. SubSeq(Reqs[s], 1, Len(Reqs[s]) - 1) = old
    BY <1>7, <1>8
  <2>4. Reqs' = [Reqs EXCEPT ![s] = SubSeq(Reqs[s], 1, Len(Reqs[s]) - 1)]
    BY <1>9, <2>3
  <2> QED  BY <1>6, <1>8, <2>1, <2>2, <2>4
<1> QED  BY <1>10 DEF Trait!Undo, Reqs

\* Writing out a grant of a recorded request is the trait's Hand.
LEMMA GrantIsHanded ==
  ASSUME GrantInv, NEW p \in Procs, WriteGrant(p)
  PROVE  Trait!Hand(proc[p].req)
<1> DEFINE r == proc[p].req
           n == proc[p].ordinal
           s == ScopeOf[r]
<1>1. /\ proc[p].pc = "write" /\ cache' = cache /\ granted' = granted \cup {<<r, n>>}
  BY DEF WriteGrant, fileVars
<1>2. cache # NoFile /\ GoodRecs(cache.recs) /\ r \in Requests
  BY <1>1, OnlyRunner, FileLedgerAssumption DEF GrantInv, GoodFile
<1>3. PICK k \in 1..Len(cache.recs) : cache.recs[k] = [req |-> r, ordinal |-> n]
  BY <1>1 DEF GrantInv, ContentInv, Knows, OnRecord
<1>4. cache.recs[k].req = r /\ cache.recs[k].ordinal = n
  BY <1>3
<1>5. k \in PlacesOf(cache.recs, s) /\ s \in Scopes
  BY <1>2, <1>4, FileLedgerAssumption DEF PlacesOf, Scope
<1>6. /\ n \in 1..Len(ReqsOf(cache.recs, s)) /\ ReqsOf(cache.recs, s)[n] = r
  BY <1>2, <1>4, <1>5, ReqsOfRecords
<1>7. Reqs[s] = ReqsOf(cache.recs, s)
  BY <1>2, <1>5, RequestsOfFile DEF Reqs
<1>8. Reqs' = Reqs
  BY <1>1, ReqsKept DEF CacheRecs
<1> QED  BY <1>1, <1>6, <1>7, <1>8 DEF Trait!Hand, Reqs

\* The record that is being written, and the records before it.
LEMMA WritingRecord ==
  ASSUME GrantInv, NEW p \in Procs, proc[p].pc = "sync"
  PROVE  /\ GoodRecs(proc[p].recs) /\ Fresh(proc[p].recs, proc[p].req, proc[p].ordinal)
         /\ proc[p].req \in Requests
         /\ CacheRecs = Append(proc[p].recs, [req |-> proc[p].req, ordinal |-> proc[p].ordinal])
         /\ \A g \in granted : g[1] # proc[p].req
<1>1. cache # NoFile /\ proc[p].req \in Requests
  BY OnlyRunner, FileLedgerAssumption DEF GrantInv
<1>2. /\ GoodRecs(proc[p].recs) /\ Fresh(proc[p].recs, proc[p].req, proc[p].ordinal)
      /\ cache.recs = Append(proc[p].recs, [req |-> proc[p].req, ordinal |-> proc[p].ordinal])
  BY DEF GrantInv, ContentInv, Knows
<1> QED  BY <1>1, <1>2 DEF CacheRecs, GrantInv, GrantsRecorded

\* The steps that change neither the records nor the grants.
LEMMA QuietSteps ==
  ASSUME GrantInv, NEW p \in Procs,
         \/ \E r \in Requests : Open(p, r)
         \/ WriteHeader(p)
         \/ SyncHeader(p) \/ SyncParent(p) \/ SyncTrim(p) \/ SyncRecord(p)
         \/ Parse(p) \/ Authorize(p) \/ Stop(p)
  PROVE  CacheRecs' = CacheRecs /\ granted' = granted
<1> USE DEF GrantInv
<1>1. CASE \E r \in Requests : Open(p, r)
  <2>1. cache' = (IF cache = NoFile THEN EmptyFile ELSE cache) /\ granted' = granted
    BY <1>1 DEF Open
  <2> QED  BY <2>1, EmptyFiles DEF CacheRecs
<1>2. CASE WriteHeader(p)
  <2>1. /\ proc[p].pc = "header" /\ granted' = granted
        /\ cache' \in {TornHeader, [EmptyFile EXCEPT !.head = "full"]}
    BY <1>2 DEF WriteHeader
  <2>2. cache # NoFile /\ GoodFile(cache) /\ cache.head # "full"
    BY <2>1, OnlyRunner, FileLedgerAssumption DEF ContentInv, Knows
  <2>3. cache.recs = <<>>
    BY <2>2 DEF GoodFile
  <2>4. cache' # NoFile /\ cache'.recs = <<>>
    BY <2>1, EmptyFiles, FileLedgerAssumption DEF GoodFile, EmptyFile
  <2> QED  BY <2>1, <2>2, <2>3, <2>4 DEF CacheRecs
<1>3. CASE SyncHeader(p) \/ SyncParent(p) \/ SyncTrim(p) \/ SyncRecord(p) \/ Authorize(p) \/ Stop(p)
  BY <1>3 DEF SyncHeader, SyncParent, SyncTrim, SyncRecord, Authorize, Stop, CacheRecs, fileVars
<1>4. CASE Parse(p)
  <2>1. proc[p].pc = "parse" /\ granted' = granted
    BY <1>4 DEF Parse
  <2>2. cache \in File
    BY <2>1, OnlyRunner
  <2>3. cache' \in File /\ cache'.recs = cache.recs
    BY <1>4, <2>2 DEF Parse, File
  <2> QED  BY <2>1, <2>2, <2>3, FileLedgerAssumption DEF CacheRecs
<1> QED  BY <1>1, <1>2, <1>3, <1>4

\* Appending is a Record of the trait, or not yet.
LEMMA TraitAppend ==
  ASSUME GrantInv, NEW p \in Procs, AppendRecord(p)
  PROVE  \/ CacheRecs' = CacheRecs /\ granted' = granted
         \/ \E r \in Requests : Trait!Record(r)
<1> USE DEF GrantInv
<1> DEFINE q == proc[p]
           rec == [req |-> q.req, ordinal |-> q.ordinal]
<1>1. q.pc = "append" /\ granted' = granted
  BY DEF AppendRecord
<1>2. cache \in File /\ cache # NoFile /\ q.req \in Requests
  BY <1>1, OnlyRunner, FileLedgerAssumption
<1>3. /\ q.recs = cache.recs
      /\ GoodRecs(q.recs) /\ Fresh(q.recs, q.req, q.ordinal)
  BY <1>1 DEF ContentInv, Knows
<1>4. CASE cache' = [cache EXCEPT !.torn = TRUE]
  <2>1. cache' \in File /\ cache'.recs = cache.recs
    BY <1>2, <1>4 DEF File
  <2> QED  BY <1>1, <1>2, <2>1, FileLedgerAssumption DEF CacheRecs
<1>5. CASE cache' = [cache EXCEPT !.torn = FALSE, !.recs = Append(@, rec)]
  <2>1. Append(cache.recs, rec) \in Seq(LedgerRecord)
    BY <1>2, <1>3, AppendGood DEF GoodRecs
  <2>2. cache' \in File /\ cache'.recs = Append(cache.recs, rec)
    BY <1>2, <1>5, <2>1 DEF File
  <2>3. CacheRecs = cache.recs /\ CacheRecs' = Append(CacheRecs, rec)
    BY <1>2, <2>2, FileLedgerAssumption DEF CacheRecs
  <2>4. Trait!Record(q.req)
    BY <1>1, <1>2, <1>3, <2>3, RecordsAreRecorded
  <2> QED  BY <1>2, <2>4
<1> QED  BY <1>4, <1>5 DEF AppendRecord

\* A failed write is an Undo of the trait, or nothing.
LEMMA TraitWriteError ==
  ASSUME GrantInv, NEW p \in Procs, WriteError(p)
  PROVE  \/ CacheRecs' = CacheRecs /\ granted' = granted
         \/ \E r \in Requests : Trait!Undo(r)
<1> USE DEF GrantInv
<1>1. /\ proc[p].pc \in {"append", "sync"} /\ cache' \in {cache, Back(p)} /\ granted' = granted
  BY DEF WriteError, Back
<1>2. Back(p) # NoFile /\ Back(p).recs = proc[p].recs
  BY <1>1, BackFile
<1>3. cache # NoFile
  BY <1>1, OnlyRunner, FileLedgerAssumption
<1>4. CASE cache' = cache
  BY <1>1, <1>4 DEF CacheRecs
<1>5. CASE cache' = Back(p) /\ proc[p].pc = "append"
  <2>1. proc[p].recs = cache.recs
    BY <1>5 DEF ContentInv, Knows
  <2> QED  BY <1>1, <1>2, <1>3, <1>5, <2>1 DEF CacheRecs
<1>6. CASE cache' = Back(p) /\ proc[p].pc = "sync"
  <2>1. CacheRecs' = proc[p].recs
    BY <1>2, <1>6 DEF CacheRecs
  <2>2. Trait!Undo(proc[p].req)
    BY <1>1, <1>6, <2>1, WritingRecord, LostRecordIsUndone
  <2> QED  BY <1>6, <2>2, WritingRecord
<1> QED  BY <1>1, <1>4, <1>5, <1>6

\* A power loss is an Undo of the trait, or nothing.
LEMMA TraitPowerLoss ==
  ASSUME GrantInv, PowerLoss
  PROVE  \/ CacheRecs' = CacheRecs /\ granted' = granted
         \/ \E r \in Requests : Trait!Undo(r)
<1>1. env.losses > 0
  <2>1. env \in Environment
    BY FileLedgerAssumption DEF GrantInv, ContentInv, TypeOK
  <2>2. env.losses \in Nat /\ losses \in Nat
    BY <2>1 DEF Environment, GrantInv, ContentInv, TypeOK
  <2> QED  BY <2>2, LossFacts
<1>2. cache' \in Survivors /\ granted' = granted
  BY LossFacts
<1>3. CASE cache' = NoFile
  BY <1>1, <1>2, <1>3, SurvivorsKeep DEF CacheRecs
<1>4. CASE cache' # NoFile /\ cache # NoFile /\ cache'.recs = cache.recs
  BY <1>2, <1>4 DEF CacheRecs
<1>5. CASE cache' # NoFile /\ \E p \in Procs : proc[p].pc = "sync" /\ cache'.recs = proc[p].recs
  <2>1. PICK p \in Procs : proc[p].pc = "sync" /\ cache'.recs = proc[p].recs
    BY <1>5
  <2>2. CacheRecs' = proc[p].recs
    BY <1>5, <2>1 DEF CacheRecs
  <2>3. Trait!Undo(proc[p].req)
    BY <1>2, <2>1, <2>2, WritingRecord, LostRecordIsUndone
  <2> QED  BY <2>1, <2>3, WritingRecord
<1> QED  BY <1>1, <1>2, <1>3, <1>4, <1>5, SurvivorsKeep

\* No file is an empty ledger.
LEMMA TraitInit ==
  ASSUME Init
  PROVE  Trait!Init
<1>1. cache = NoFile /\ granted = {}
  BY DEF Init
<1>2. CacheRecs = <<>>
  BY <1>1 DEF CacheRecs
<1>3. Reqs = [s \in Scopes |-> <<>>]
  BY <1>2, ReqsAre, ReqsOfEmpty
<1> QED  BY <1>1, <1>3 DEF Trait!Init, Reqs

\* Every step is a step of the trait, or nothing.
LEMMA TraitNext ==
  ASSUME GrantInv, [Next]_vars
  PROVE  [Trait!Next]_(Trait!ledgerVars)
<1>1. ASSUME CacheRecs' = CacheRecs, granted' = granted
      PROVE  UNCHANGED Trait!ledgerVars
  BY <1>1, ReqsKept DEF Trait!ledgerVars, Reqs
<1>2. ASSUME NEW r \in Requests, Trait!Record(r) \/ Trait!Undo(r) \/ Trait!Hand(r)
      PROVE  Trait!Next
  BY <1>2 DEF Trait!Next
<1>3. CASE UNCHANGED vars
  BY <1>1, <1>3 DEF vars, fileVars, CacheRecs
<1>4. ASSUME NEW p \in Procs, Step(p)  PROVE [Trait!Next]_(Trait!ledgerVars)
  <2>1. CASE WriteGrant(p)
    <3>1. proc[p].req \in Requests
      BY <2>1, OnlyRunner DEF GrantInv, WriteGrant
    <3> QED  BY <1>2, <2>1, <3>1, GrantIsHanded
  <2>2. CASE AppendRecord(p)
    BY <1>1, <1>2, <2>2, TraitAppend
  <2> QED  BY <1>1, <1>4, <2>1, <2>2, QuietSteps DEF Step
<1>5. ASSUME NEW p \in Procs, Stop(p) \/ WriteError(p) \/ \E r \in Requests : Open(p, r)
      PROVE  [Trait!Next]_(Trait!ledgerVars)
  BY <1>1, <1>2, <1>5, QuietSteps, TraitWriteError
<1>6. CASE PowerLoss
  BY <1>1, <1>2, <1>6, TraitPowerLoss
<1> QED  BY <1>3, <1>4, <1>5, <1>6 DEF Next

\* The file ledger implements the ReleaseLedger trait: one ordinal per
\* request, handed out again on every repetition, consecutive within a scope,
\* never above the contract's maximum, and undone only while no grant is out.
THEOREM FileLedgerImplementsTrait ==
  ASSUME SyncedEnvironments
  PROVE  Spec => ImplementsTrait
<1>1. Init => Trait!Init
  BY TraitInit
<1>2. GrantInv /\ [Next]_vars => [Trait!Next]_(Trait!ledgerVars)
  BY TraitNext
<1> QED  BY <1>1, <1>2, GrantAlways, PTL DEF Spec, ImplementsTrait, Trait!Spec
=============================================================================
