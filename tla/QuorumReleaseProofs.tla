------------------------ MODULE QuorumReleaseProofs ------------------------
(***************************************************************************)
(* Proofs about QuorumRelease, for any number of witnesses, requests,      *)
(* restored ledgers and any policy the contract accepts.                   *)
(***************************************************************************)
EXTENDS QuorumRelease, FiniteSetTheorems, TLAPS

\* A grant of a witness that kept its ledger is still on record there.
GrantsOnRecord ==
  \A g \in grants : g.witness \in Trusted =>
    /\ g.ordinal \in 1..Len(ledger[g.witness])
    /\ ledger[g.witness][g.ordinal] = g.req

\* A ledger that was kept never exceeds the maximum.
LedgersWithinMaximum ==
  policy.maximum # None => \A w \in Trusted : Len(ledger[w]) <= policy.maximum

\* A grant was issued after not-before and in the past of its witness.
GrantsObserved ==
  \A g \in grants : TimeReached(g.observed) /\ g.observed <= clock[g.witness]

\* The inductive invariant.
IInv ==
  /\ TypeOK
  /\ GrantsOnRecord
  /\ LedgersWithinMaximum
  /\ GrantsObserved
  /\ SessionsOnRecord
  /\ NotEarly

-----------------------------------------------------------------------------
\* The fields of a typed policy.
LEMMA PolicyTypes ==
  ASSUME TypeOK
  PROVE  /\ policy.threshold \in Nat
         /\ policy.notBefore # None => policy.notBefore \in Nat
         /\ policy.maximum # None => policy.maximum \in Nat
<1>1. Cardinality(Witnesses) \in Nat
  BY QuorumAssumption, FS_CardinalityType
<1>2. /\ policy.threshold \in 0..(Cardinality(Witnesses) + 1)
      /\ policy.notBefore \in NotBefores /\ policy.maximum \in Maximums
  BY DEF TypeOK, Policies
<1>3. policy.threshold \in Nat
  BY <1>1, <1>2
<1>4. /\ policy.notBefore # None => policy.notBefore \in Nat
      /\ policy.maximum # None => policy.maximum \in Nat
  BY <1>2, QuorumAssumption
<1> QED  BY <1>3, <1>4

\* The grants after Issue are typed, and a new one names w, r, n and the clock.
LEMMA IssueAdds ==
  ASSUME NEW w \in Witnesses, NEW r \in Requests, NEW n \in Nat \ {0},
         TypeOK, Issue(w, r, n)
  PROVE  /\ grants' \subseteq Grant
         /\ \A g \in grants' :
              \/ g \in grants
              \/ g.witness = w /\ g.req = r /\ g.ordinal = n /\ g.observed = clock[w]
  BY DEF TypeOK, Issue, Grant

\* No time, witness or grant of this policy is disturbed by a longer ledger.
LEMMA GrantStep ==
  ASSUME IInv, NEW w \in Witnesses, NEW r \in Requests, NEW n \in Nat \ {0},
         TimeReached(clock[w]), Issue(w, r, n),
         UNCHANGED <<policy, clock, restored, restores, requested, opened>>,
         ledger' \in [Witnesses -> Seq(Requests)],
         \A v \in Witnesses :
           /\ Len(ledger[v]) <= Len(ledger'[v])
           /\ \A k \in 1..Len(ledger[v]) : ledger'[v][k] = ledger[v][k],
         w \in Trusted => n \in 1..Len(ledger'[w]) /\ ledger'[w][n] = r,
         LedgersWithinMaximum'
  PROVE  IInv'
<1> USE DEF IInv
<1>1. /\ grants' \subseteq Grant
      /\ \A g \in grants' :
           \/ g \in grants
           \/ g.witness = w /\ g.req = r /\ g.ordinal = n /\ g.observed = clock[w]
  BY IssueAdds
<1>2. TypeOK'
  BY <1>1 DEF TypeOK, Policies, Validate
<1>3. GrantsOnRecord'
  <2> SUFFICES ASSUME NEW g \in grants', g.witness \in Trusted
               PROVE  /\ g.ordinal \in 1..Len(ledger'[g.witness])
                      /\ ledger'[g.witness][g.ordinal] = g.req
    BY DEF GrantsOnRecord, Trusted
  <2>1. CASE g \in grants
    <3>1. /\ g.ordinal \in 1..Len(ledger[g.witness])
          /\ ledger[g.witness][g.ordinal] = g.req
      BY <2>1 DEF GrantsOnRecord
    <3>2. g.witness \in Witnesses /\ g.ordinal \in Nat
      BY <2>1 DEF TypeOK, Grant
    <3>3. Len(ledger[g.witness]) \in Nat /\ Len(ledger'[g.witness]) \in Nat
      BY <3>2 DEF TypeOK
    <3> QED  BY <3>1, <3>2, <3>3
  <2>2. CASE g.witness = w /\ g.req = r /\ g.ordinal = n
    BY <2>2
  <2> QED  BY <1>1, <2>1, <2>2
<1>4. GrantsObserved'
  <2>1. clock[w] \in Nat
    BY QuorumAssumption DEF TypeOK, Time
  <2> QED  BY <1>1, <2>1 DEF GrantsObserved, TimeReached
<1>5. SessionsOnRecord'
  <2> SUFFICES ASSUME Unanimous, NEW s \in opened, NEW v \in Trusted
               PROVE  s[2] \in 1..Len(ledger'[v]) /\ ledger'[v][s[2]] = s[1]
    BY DEF SessionsOnRecord, Unanimous, Trusted
  <2>1. s[2] \in 1..Len(ledger[v]) /\ ledger[v][s[2]] = s[1]
    BY DEF SessionsOnRecord
  <2>2. v \in Witnesses /\ s[2] \in Nat
    BY DEF Trusted, TypeOK
  <2>3. Len(ledger[v]) \in Nat /\ Len(ledger'[v]) \in Nat
    BY <2>2 DEF TypeOK
  <2> QED  BY <2>1, <2>2, <2>3
<1>6. NotEarly'
  BY DEF NotEarly
<1> QED  BY <1>2, <1>3, <1>4, <1>5, <1>6

\* A new request: the ledger of its witness grows by it.
LEMMA GrantReleaseStep ==
  ASSUME IInv, NEW w \in Witnesses, NEW r \in Requests, GrantRelease(w, r)
  PROVE  IInv'
<1> DEFINE n == Len(ledger[w]) + 1
<1>1. /\ ledger \in [Witnesses -> Seq(Requests)]
      /\ ledger' = [ledger EXCEPT ![w] = Append(@, r)]
      /\ Issue(w, r, n)
      /\ TimeReached(clock[w]) /\ WithinMaximum(ledger[w])
      /\ UNCHANGED <<policy, clock, restored, restores, requested, opened>>
  BY DEF GrantRelease, NextOrdinal, IInv, TypeOK
<1>2. Len(ledger[w]) \in Nat /\ n \in Nat \ {0}
  BY <1>1
<1>3. /\ ledger' \in [Witnesses -> Seq(Requests)]
      /\ Len(ledger'[w]) = n /\ ledger'[w][n] = r
      /\ \A k \in 1..Len(ledger[w]) : ledger'[w][k] = ledger[w][k]
      /\ \A v \in Witnesses \ {w} : ledger'[v] = ledger[v]
  BY <1>1
<1>4. \A v \in Witnesses :
        /\ Len(ledger[v]) <= Len(ledger'[v])
        /\ \A k \in 1..Len(ledger[v]) : ledger'[v][k] = ledger[v][k]
  <2> TAKE v \in Witnesses
  <2>1. Len(ledger[v]) \in Nat
    BY <1>1
  <2>2. CASE v = w
    BY <2>1, <2>2, <1>2, <1>3
  <2>3. CASE v # w
    BY <2>1, <2>3, <1>3
  <2> QED  BY <2>2, <2>3
<1>5. LedgersWithinMaximum'
  <2> SUFFICES ASSUME policy.maximum # None, NEW v \in Trusted
               PROVE  Len(ledger'[v]) <= policy.maximum
    BY <1>1 DEF LedgersWithinMaximum, Trusted
  <2>1. policy.maximum \in Nat
    BY QuorumAssumption DEF IInv, TypeOK, Policies
  <2>2. CASE v = w
    BY <2>1, <2>2, <1>1, <1>2, <1>3 DEF WithinMaximum
  <2>3. CASE v # w
    BY <2>3, <1>3 DEF IInv, LedgersWithinMaximum, Trusted
  <2> QED  BY <2>2, <2>3
<1>6. n \in 1..Len(ledger'[w]) /\ ledger'[w][n] = r
  BY <1>2, <1>3
<1> HIDE DEF n
<1> QED  BY <1>1, <1>2, <1>3, <1>4, <1>5, <1>6, GrantStep

\* A repeated request: the ledger stays and the grant carries its position.
LEMMA ReplayGrantStep ==
  ASSUME IInv, NEW w \in Witnesses, NEW r \in Requests, ReplayGrant(w, r)
  PROVE  IInv'
<1>1. PICK n \in 1..Len(ledger[w]) : ledger[w][n] = r /\ Issue(w, r, n)
  BY DEF ReplayGrant, Replays, Positions
<1>2. /\ ledger \in [Witnesses -> Seq(Requests)] /\ ledger' = ledger
      /\ TimeReached(clock[w])
      /\ UNCHANGED <<policy, clock, restored, restores, requested, opened>>
  BY DEF ReplayGrant, IInv, TypeOK
<1>3. n \in Nat \ {0} /\ \A v \in Witnesses : Len(ledger[v]) \in Nat
  BY <1>2
<1>4. LedgersWithinMaximum'
  BY <1>2 DEF IInv, LedgersWithinMaximum, Trusted
<1> QED  BY <1>1, <1>2, <1>3, <1>4, GrantStep

\* Opening: with a unanimous policy the quorum is every witness, so each
\* witness that kept its ledger supplied a grant with the common ordinal.
LEMMA OpenStep ==
  ASSUME IInv, NEW r \in Requests, OpenQuorumContent(r)
  PROVE  IInv'
<1> USE DEF IInv
<1>1. PICK n \in OrdinalsOf(r) : Opens(r, n) /\ opened' = opened \cup {<<r, n>>}
  BY DEF OpenQuorumContent
<1>2. UNCHANGED <<policy, clock, ledger, restored, restores, requested, grants>>
  BY DEF OpenQuorumContent
<1>3. PICK Q \in SUBSET Witnesses :
        /\ Cardinality(Q) = policy.threshold
        /\ \A w \in Q : \E g \in grants :
             g.witness = w /\ Bound(g, r) /\ HasCommonOrdinal(g, n)
  BY <1>1 DEF Opens
<1>4. n \in Nat \ {0}
  BY DEF OrdinalsOf, TypeOK, Grant
<1>5. TypeOK'
  BY <1>1, <1>2, <1>4 DEF TypeOK, Policies, Validate
<1>6. GrantsOnRecord' /\ LedgersWithinMaximum' /\ GrantsObserved'
  BY <1>2 DEF GrantsOnRecord, LedgersWithinMaximum, GrantsObserved, Trusted, TimeReached
<1>7. SessionsOnRecord'
  <2> SUFFICES ASSUME Unanimous, NEW s \in opened', NEW w \in Trusted
               PROVE  s[2] \in 1..Len(ledger[w]) /\ ledger[w][s[2]] = s[1]
    BY <1>2 DEF SessionsOnRecord, Unanimous, Trusted
  <2>1. CASE s \in opened
    BY <2>1 DEF SessionsOnRecord
  <2>2. CASE s = <<r, n>>
    <3>1. Q = Witnesses
      BY <1>3, QuorumAssumption, FS_Subset DEF Unanimous
    <3>2. PICK g \in grants : g.witness = w /\ Bound(g, r) /\ HasCommonOrdinal(g, n)
      BY <1>3, <3>1 DEF Trusted
    <3>3. g.req = r /\ g.ordinal = n
      BY <3>2 DEF Bound, HasCommonOrdinal
    <3> QED  BY <2>2, <3>2, <3>3 DEF GrantsOnRecord
  <2> QED  BY <1>1, <2>1, <2>2
<1>8. NotEarly'
  <2> SUFFICES ASSUME policy.notBefore # None
               PROVE  Cardinality({w \in Witnesses : clock[w] >= policy.notBefore})
                        >= policy.threshold
    BY <1>2 DEF NotEarly
  <2> DEFINE Late == {w \in Witnesses : clock[w] >= policy.notBefore}
  <2>1. policy.notBefore \in Nat /\ policy.threshold \in Nat
    BY PolicyTypes
  <2>2. ASSUME NEW w \in Q  PROVE w \in Late
    <3>1. PICK g \in grants : g.witness = w /\ Bound(g, r)
      BY <1>3, <2>2
    <3>2. g.observed >= policy.notBefore /\ g.observed <= clock[w]
      BY <3>1 DEF GrantsObserved, TimeReached
    <3>3. g.observed \in Nat /\ clock[w] \in Nat
      BY <3>1, QuorumAssumption DEF TypeOK, Grant, Time
    <3> QED  BY <2>1, <3>2, <3>3
  <2>3. IsFiniteSet(Late) /\ Cardinality(Late) \in Nat
    BY QuorumAssumption, FS_Subset, FS_CardinalityType
  <2>4. Q \subseteq Late
    BY <2>2
  <2>5. Cardinality(Q) <= Cardinality(Late)
    BY <2>3, <2>4, FS_Subset
  <2> HIDE DEF Late
  <2>6. Cardinality(Late) >= policy.threshold
    BY <1>3, <2>1, <2>3, <2>5
  <2> QED  BY <2>6 DEF Late
<1> QED  BY <1>5, <1>6, <1>7, <1>8

\* Time only adds to the clocks that reached not-before.
LEMMA TickStep ==
  ASSUME IInv, NEW w \in Witnesses, Tick(w)
  PROVE  IInv'
<1> USE DEF IInv
<1>1. /\ clock[w] < MaxTime
      /\ clock' = [clock EXCEPT ![w] = @ + 1]
      /\ UNCHANGED <<policy, ledger, restored, restores, requested, grants, opened>>
  BY DEF Tick
<1>2. clock \in [Witnesses -> Nat] /\ clock' \in [Witnesses -> Time]
      /\ \A v \in Witnesses : clock[v] <= clock'[v] /\ clock'[v] \in Nat
  BY <1>1, QuorumAssumption DEF TypeOK, Time
<1>3. TypeOK'
  BY <1>1, <1>2 DEF TypeOK, Policies, Validate
<1>4. GrantsOnRecord' /\ LedgersWithinMaximum' /\ SessionsOnRecord'
  BY <1>1 DEF GrantsOnRecord, LedgersWithinMaximum, SessionsOnRecord, Trusted, Unanimous
<1>5. GrantsObserved'
  <2> SUFFICES ASSUME NEW g \in grants
               PROVE  TimeReached(g.observed)' /\ g.observed <= clock'[g.witness]
    BY <1>1 DEF GrantsObserved
  <2>1. g.witness \in Witnesses /\ g.observed \in Nat
    BY QuorumAssumption DEF TypeOK, Grant, Time
  <2>2. TimeReached(g.observed) /\ g.observed <= clock[g.witness]
    BY DEF GrantsObserved
  <2> QED  BY <1>1, <1>2, <2>1, <2>2 DEF TimeReached
<1>6. NotEarly'
  <2> SUFFICES ASSUME opened # {}, policy.notBefore # None
               PROVE  Cardinality({v \in Witnesses : clock'[v] >= policy.notBefore})
                        >= policy.threshold
    BY <1>1 DEF NotEarly
  <2> DEFINE Before == {v \in Witnesses : clock[v] >= policy.notBefore}
             After == {v \in Witnesses : clock'[v] >= policy.notBefore}
  <2>1. policy.notBefore \in Nat /\ policy.threshold \in Nat
    BY PolicyTypes
  <2>2. Before \subseteq After
    BY <1>2, <2>1
  <2>3. Cardinality(Before) >= policy.threshold
    BY DEF NotEarly
  <2>4. IsFiniteSet(Before) /\ IsFiniteSet(After)
    BY QuorumAssumption, FS_Subset
  <2> HIDE DEF Before, After
  <2>5. Cardinality(Before) <= Cardinality(After)
    BY <2>2, <2>4, FS_Subset
  <2>6. Cardinality(Before) \in Nat /\ Cardinality(After) \in Nat
    BY <2>4, FS_CardinalityType
  <2>7. Cardinality(After) >= policy.threshold
    BY <2>1, <2>3, <2>5, <2>6
  <2> QED  BY <2>7 DEF After
<1> QED  BY <1>3, <1>4, <1>5, <1>6

\* A restored witness is no longer trusted; the other ledgers stay.
LEMMA RestoreStep ==
  ASSUME IInv, NEW w \in Witnesses, RestoreLedger(w)
  PROVE  IInv'
<1> USE DEF IInv
<1>1. PICK k \in 0..(Len(ledger[w]) - 1) :
        ledger' = [ledger EXCEPT ![w] = SubSeq(@, 1, k)]
  BY DEF RestoreLedger
<1>2. /\ restores < MaxRestores /\ restores' = restores + 1
      /\ restored' = restored \cup {w}
      /\ UNCHANGED <<policy, clock, requested, grants, opened>>
  BY DEF RestoreLedger
<1>3. SubSeq(ledger[w], 1, k) \in Seq(Requests)
  BY DEF TypeOK
<1>4. TypeOK'
  BY <1>1, <1>2, <1>3, QuorumAssumption DEF TypeOK, Policies, Validate
<1>5. /\ Trusted' \subseteq Trusted /\ Trusted \subseteq Witnesses
      /\ \A v \in Trusted' : ledger'[v] = ledger[v]
  BY <1>1, <1>2 DEF TypeOK, Trusted
<1>6. GrantsOnRecord' /\ LedgersWithinMaximum' /\ SessionsOnRecord'
  BY <1>2, <1>5 DEF GrantsOnRecord, LedgersWithinMaximum, SessionsOnRecord, Unanimous
<1>7. GrantsObserved' /\ NotEarly'
  BY <1>2 DEF GrantsObserved, NotEarly, TimeReached
<1> QED  BY <1>4, <1>6, <1>7

\* Nothing depends on the requests the recipient created.
LEMMA CreateStep ==
  ASSUME IInv, NEW r \in Requests, CreateReleaseRequest(r)
  PROVE  IInv'
<1> USE DEF IInv
<1>1. /\ requested' = requested \cup {r}
      /\ UNCHANGED <<policy, clock, ledger, restored, restores, grants, opened>>
  BY DEF CreateReleaseRequest
<1>2. TypeOK'
  BY <1>1 DEF TypeOK, Policies, Validate
<1>3. GrantsOnRecord' /\ LedgersWithinMaximum' /\ SessionsOnRecord'
  BY <1>1 DEF GrantsOnRecord, LedgersWithinMaximum, SessionsOnRecord, Trusted, Unanimous
<1>4. GrantsObserved' /\ NotEarly'
  BY <1>1 DEF GrantsObserved, NotEarly, TimeReached
<1> QED  BY <1>2, <1>3, <1>4

\* The invariant holds initially: nothing was granted or opened.
LEMMA InitInv == Init => IInv
<1> SUFFICES ASSUME Init PROVE IInv
  OBVIOUS
<1>1. TypeOK
  BY QuorumAssumption DEF Init, TypeOK, Time
<1>2. GrantsOnRecord /\ GrantsObserved /\ SessionsOnRecord /\ NotEarly
  BY DEF Init, GrantsOnRecord, GrantsObserved, SessionsOnRecord, NotEarly
<1>3. LedgersWithinMaximum
  <2> SUFFICES ASSUME policy.maximum # None, NEW w \in Trusted
               PROVE  Len(ledger[w]) <= policy.maximum
    BY DEF LedgersWithinMaximum
  <2>1. policy.maximum \in Nat
    BY QuorumAssumption DEF Init, Policies
  <2>2. ledger[w] = <<>>
    BY DEF Init, Trusted
  <2> QED  BY <2>1, <2>2
<1> QED  BY <1>1, <1>2, <1>3 DEF IInv

\* Every reachable state of the release session satisfies the invariant.
THEOREM Invariance == Spec => []IInv
<1>1. Init => IInv
  BY InitInv
<1>2. IInv /\ [Next]_vars => IInv'
  <2> SUFFICES ASSUME IInv, [Next]_vars PROVE IInv'
    OBVIOUS
  <2>1. ASSUME NEW r \in Requests, CreateReleaseRequest(r) PROVE IInv'
    BY <2>1, CreateStep
  <2>2. ASSUME NEW r \in Requests, OpenQuorumContent(r) PROVE IInv'
    BY <2>2, OpenStep
  <2>3. ASSUME NEW w \in Witnesses, NEW r \in Requests, GrantRelease(w, r) PROVE IInv'
    BY <2>3, GrantReleaseStep
  <2>4. ASSUME NEW w \in Witnesses, NEW r \in Requests, ReplayGrant(w, r) PROVE IInv'
    BY <2>4, ReplayGrantStep
  <2>5. ASSUME NEW w \in Witnesses, Tick(w) PROVE IInv'
    BY <2>5, TickStep
  <2>6. ASSUME NEW w \in Witnesses, RestoreLedger(w) PROVE IInv'
    BY <2>6, RestoreStep
  <2>7. CASE UNCHANGED vars
    BY <2>7 DEF vars, IInv, TypeOK, Policies, Validate, GrantsOnRecord, LedgersWithinMaximum,
         GrantsObserved, TimeReached, SessionsOnRecord, NotEarly, Trusted, Unanimous
  <2> QED  BY <2>1, <2>2, <2>3, <2>4, <2>5, <2>6, <2>7 DEF Next
<1> QED  BY <1>1, <1>2, PTL DEF Spec

-----------------------------------------------------------------------------
\* Types, for any contract that validate accepts.
THEOREM TypeCorrect == Spec => []TypeOK
<1>1. IInv => TypeOK
  BY DEF IInv
<1> QED  BY <1>1, Invariance, PTL

\* Restoring some ledgers only makes opens fail: every opened session of a
\* unanimous policy is on record with every witness that kept its ledger.
THEOREM RestoredLedgersFailClosed == Spec => []SessionsOnRecord
<1>1. IInv => SessionsOnRecord
  BY DEF IInv
<1> QED  BY <1>1, Invariance, PTL

\* No open before a threshold of trusted clocks has reached not-before.
THEOREM NeverEarly == Spec => []NotEarly
<1>1. IInv => NotEarly
  BY DEF IInv
<1> QED  BY <1>1, Invariance, PTL

\* A finite maximum is never exceeded while one witness kept its ledger: the
\* opened requests are entries of that ledger, which the maximum bounds.
THEOREM MaximumHolds == Spec => []ReleaseBounded
<1>1. IInv => ReleaseBounded
  <2> SUFFICES ASSUME IInv, policy.maximum # None, Trusted # {}
               PROVE  Cardinality({s[1] : s \in opened}) <= policy.maximum
    BY DEF ReleaseBounded
  <2>1. PICK w \in Witnesses : w \in Trusted
    BY DEF Trusted
  <2> DEFINE l == ledger[w]
             Entries == {l[n] : n \in 1..Len(l)}
             Opened == {s[1] : s \in opened}
  <2>2. policy.maximum \in Nat /\ Len(l) \in Nat
    <3>1. l \in Seq(Requests)
      BY DEF IInv, TypeOK
    <3> QED  BY <3>1, PolicyTypes DEF IInv
  <2>3. Len(l) <= policy.maximum
    BY <2>1 DEF IInv, LedgersWithinMaximum
  <2>4. Unanimous
    BY DEF IInv, TypeOK, Validate, Unanimous
  <2>5. \A s \in opened : s[2] \in 1..Len(l) /\ l[s[2]] = s[1]
    BY <2>1, <2>4 DEF IInv, SessionsOnRecord
  <2>6. Opened \subseteq Entries
    BY <2>5
  <2>7. IsFiniteSet(1..Len(l)) /\ Cardinality(1..Len(l)) = Len(l)
    <3>1. 1 \in Int /\ Len(l) \in Int
      BY <2>2
    <3> HIDE DEF l
    <3>2. /\ IsFiniteSet(1..Len(l))
          /\ Cardinality(1..Len(l)) = IF 1 > Len(l) THEN 0 ELSE Len(l) - 1 + 1
      BY <3>1, FS_Interval, Zenon
    <3> QED  BY <2>2, <3>2
  <2>8. IsFiniteSet(Entries) /\ Cardinality(Entries) <= Cardinality(1..Len(l))
    <3> DEFINE f == [n \in 1..Len(l) |-> l[n]]
    <3>1. f \in Surjection(1..Len(l), Entries)
      BY DEF Surjection
    <3> HIDE DEF f, Entries
    <3> QED  BY <2>7, <3>1, FS_Surjection
  <2> HIDE DEF Entries, Opened
  <2>9. Cardinality(Opened) <= Cardinality(Entries) /\ Cardinality(Opened) \in Nat
        /\ Cardinality(Entries) \in Nat
    BY <2>6, <2>8, FS_Subset, FS_CardinalityType
  <2>10. Cardinality(Opened) <= policy.maximum
    BY <2>2, <2>3, <2>7, <2>8, <2>9
  <2> QED  BY <2>10 DEF Opened
<1> QED  BY <1>1, Invariance, PTL

-----------------------------------------------------------------------------
(* Requests decided in the same order open.                                *)

\* No ledger records a request twice: a repeated request is answered from
\* the record.
RecordedOnce ==
  \A w \in Witnesses : \A j, k \in 1..Len(ledger[w]) :
    ledger[w][j] = ledger[w][k] => j = k

\* Only a new request makes a ledger grow, and a restored one is a prefix.
LEMMA RecordedOnceStep ==
  ASSUME TypeOK, RecordedOnce, [Next]_vars
  PROVE  RecordedOnce'
<1>0. ledger \in [Witnesses -> Seq(Requests)]
  BY DEF TypeOK
<1>1. ASSUME NEW w \in Witnesses, NEW r \in Requests, GrantRelease(w, r)
      PROVE  RecordedOnce'
  <2>1. /\ ledger' = [ledger EXCEPT ![w] = Append(@, r)]
        /\ \A n \in 1..Len(ledger[w]) : ledger[w][n] # r
    BY <1>1 DEF GrantRelease, Replays, Positions
  <2>2. /\ ledger[w] \in Seq(Requests) /\ Len(ledger[w]) \in Nat
        /\ \A j, k \in 1..Len(ledger[w]) : ledger[w][j] = ledger[w][k] => j = k
    BY <1>0 DEF RecordedOnce
  <2>3. /\ Len(ledger'[w]) = Len(ledger[w]) + 1 /\ ledger'[w][Len(ledger[w]) + 1] = r
        /\ \A k \in 1..Len(ledger[w]) : ledger'[w][k] = ledger[w][k]
        /\ \A v \in Witnesses \ {w} : ledger'[v] = ledger[v]
    BY <1>0, <2>1, <2>2
  <2> SUFFICES ASSUME NEW v \in Witnesses, NEW j \in 1..Len(ledger'[v]),
                      NEW k \in 1..Len(ledger'[v]), ledger'[v][j] = ledger'[v][k]
               PROVE  j = k
    BY DEF RecordedOnce
  <2>4. CASE v # w
    BY <2>3, <2>4 DEF RecordedOnce
  <2>5. CASE v = w
    <3>1. j \in 1..Len(ledger[w]) \/ j = Len(ledger[w]) + 1
      BY <2>2, <2>3, <2>5
    <3>2. k \in 1..Len(ledger[w]) \/ k = Len(ledger[w]) + 1
      BY <2>2, <2>3, <2>5
    <3> QED  BY <2>1, <2>2, <2>3, <2>5, <3>1, <3>2
  <2> QED  BY <2>4, <2>5
<1>2. ASSUME NEW w \in Witnesses, RestoreLedger(w)
      PROVE  RecordedOnce'
  <2>1. PICK n \in 0..(Len(ledger[w]) - 1) :
          ledger' = [ledger EXCEPT ![w] = SubSeq(@, 1, n)]
    BY <1>2 DEF RestoreLedger
  <2>2. /\ ledger[w] \in Seq(Requests) /\ Len(ledger[w]) \in Nat /\ n \in Nat
        /\ n <= Len(ledger[w])
    BY <1>0
  <2>3. /\ Len(ledger'[w]) = n
        /\ \A k \in 1..n : ledger'[w][k] = ledger[w][k]
        /\ \A v \in Witnesses \ {w} : ledger'[v] = ledger[v]
    BY <1>0, <2>1, <2>2
  <2> QED  BY <2>2, <2>3 DEF RecordedOnce
<1>3. CASE UNCHANGED ledger
  BY <1>3 DEF RecordedOnce
<1>4. ASSUME NEW r \in Requests, CreateReleaseRequest(r) \/ OpenQuorumContent(r)
      PROVE  UNCHANGED ledger
  BY <1>4 DEF CreateReleaseRequest, OpenQuorumContent
<1>5. ASSUME NEW w \in Witnesses, NEW r \in Requests, ReplayGrant(w, r)
      PROVE  UNCHANGED ledger
  BY <1>5 DEF ReplayGrant
<1>6. ASSUME NEW w \in Witnesses, Tick(w)
      PROVE  UNCHANGED ledger
  BY <1>6 DEF Tick
<1>7. CASE UNCHANGED vars
  BY <1>7, <1>3 DEF vars
<1> QED  BY <1>1, <1>2, <1>3, <1>4, <1>5, <1>6, <1>7 DEF Next

\* A finite set has a subset of every smaller cardinality.
LEMMA SubsetOfSize ==
  ASSUME NEW S, IsFiniteSet(S), NEW k \in Nat, k <= Cardinality(S)
  PROVE  \E Q \in SUBSET S : Cardinality(Q) = k
<1> DEFINE n == Cardinality(S)
<1>1. n \in Nat /\ ExistsBijection(1..n, S)
  BY FS_CardinalityType
<1>2. PICK f : f \in Bijection(1..n, S)
  BY <1>1 DEF ExistsBijection
<1>3. /\ f \in [1..n -> S]
      /\ \A a, b \in 1..n : f[a] = f[b] => a = b
  BY <1>2 DEF Bijection, Injection, IsInjective
<1> DEFINE Q == {f[i] : i \in 1..k}
           g == [i \in 1..k |-> f[i]]
<1>4. 1..k \subseteq 1..n
  BY <1>1
<1>5. Q \in SUBSET S
  BY <1>3, <1>4
<1>6. g \in Bijection(1..k, Q)
  BY <1>3, <1>4 DEF Bijection, Injection, Surjection, IsInjective
<1>7. IsFiniteSet(1..k) /\ Cardinality(1..k) = k
  BY FS_Interval
<1>8. Cardinality(Q) = k
  BY <1>6, <1>7, FS_Bijection DEF ExistsBijection
<1> QED  BY <1>5, <1>8

\* A position of a ledger that is a prefix of another holds the same request
\* in both.
LEMMA PrefixSame ==
  ASSUME TypeOK, NEW v \in Witnesses, NEW w \in Witnesses,
         PrefixOf(ledger[v], ledger[w]), NEW n \in 1..Len(ledger[v])
  PROVE  n \in 1..Len(ledger[w]) /\ ledger[w][n] = ledger[v][n]
<1>1. ledger[v] \in Seq(Requests) /\ ledger[w] \in Seq(Requests)
  BY DEF TypeOK
<1>2. /\ Len(ledger[v]) \in Nat /\ Len(ledger[w]) \in Nat
      /\ Len(ledger[v]) <= Len(ledger[w])
      /\ ledger[v] = SubSeq(ledger[w], 1, Len(ledger[v]))
  BY <1>1 DEF PrefixOf
<1>3. \A m \in 1..Len(ledger[v]) : SubSeq(ledger[w], 1, Len(ledger[v]))[m] = ledger[w][m]
  BY <1>1, <1>2
<1> QED  BY <1>2, <1>3

\* A request granted by a threshold of witnesses that decided in the same
\* order opens: comparable ledgers without repetitions hold it at one
\* position, so all its grants carry one ordinal.
THEOREM SameOrderSuffices == Spec => []SameOrderOpens
<1>1. IInv /\ RecordedOnce => SameOrderOpens
  <2> SUFFICES ASSUME IInv, RecordedOnce, restored = {},
                      \A v, w \in Witnesses : \/ PrefixOf(ledger[v], ledger[w])
                                              \/ PrefixOf(ledger[w], ledger[v]),
                      NEW r \in Requests, Cardinality(Granted(r)) >= policy.threshold
               PROVE  \E n \in OrdinalsOf(r) : Opens(r, n)
    BY DEF SameOrderOpens
  <2>1. TypeOK /\ GrantsOnRecord /\ LedgersWithinMaximum /\ GrantsObserved
    BY DEF IInv
  <2>2. policy.threshold \in Nat /\ policy.threshold >= 1
    <3>1. Cardinality(Witnesses) \in Nat
      BY QuorumAssumption, FS_CardinalityType
    <3>2. policy.threshold \in 1..Cardinality(Witnesses)
      BY <2>1 DEF TypeOK, Validate
    <3> QED  BY <3>1, <3>2
  <2>3. /\ Granted(r) \subseteq Witnesses /\ IsFiniteSet(Granted(r))
        /\ Cardinality(Granted(r)) \in Nat
    <3>1. Granted(r) \subseteq Witnesses
      BY DEF Granted
    <3> QED  BY <3>1, QuorumAssumption, FS_Subset, FS_CardinalityType
  <2>4. PICK Q \in SUBSET Granted(r) : Cardinality(Q) = policy.threshold
    BY <2>2, <2>3, SubsetOfSize
  <2>5. Q # {}
    BY <2>2, <2>4, FS_EmptySet
  <2>6. PICK first \in grants : first.req = r /\ first.witness \in Witnesses
    BY <2>4, <2>5 DEF Granted
  <2>7. \A g \in grants :
          /\ g.witness \in Witnesses /\ g.ordinal \in Nat
          /\ g.ordinal \in 1..Len(ledger[g.witness])
          /\ ledger[g.witness][g.ordinal] = g.req
    BY <2>1 DEF TypeOK, Grant, GrantsOnRecord, Trusted
  <2>8. ASSUME NEW g \in grants, g.req = r
        PROVE  g.ordinal = first.ordinal
    <3>1. /\ g.witness \in Witnesses /\ g.ordinal \in 1..Len(ledger[g.witness])
          /\ ledger[g.witness][g.ordinal] = r
      BY <2>7, <2>8
    <3>2. /\ first.witness \in Witnesses /\ first.ordinal \in 1..Len(ledger[first.witness])
          /\ ledger[first.witness][first.ordinal] = r
      BY <2>6, <2>7
    <3>3. CASE PrefixOf(ledger[g.witness], ledger[first.witness])
      BY <3>1, <3>2, <3>3, <2>1, PrefixSame DEF RecordedOnce
    <3>4. CASE PrefixOf(ledger[first.witness], ledger[g.witness])
      BY <3>1, <3>2, <3>4, <2>1, PrefixSame DEF RecordedOnce
    <3> QED  BY <3>1, <3>2, <3>3, <3>4
  <2>9. ASSUME NEW g \in grants, g.req = r
        PROVE  Bound(g, r)
    <3>1. TimeReached(g.observed)
      BY <2>1 DEF GrantsObserved
    <3>2. policy.maximum # None => g.ordinal <= policy.maximum
      <4> SUFFICES ASSUME policy.maximum # None PROVE g.ordinal <= policy.maximum
        OBVIOUS
      <4>1. /\ g.witness \in Witnesses /\ g.ordinal \in 1..Len(ledger[g.witness])
            /\ Len(ledger[g.witness]) <= policy.maximum
        BY <2>1, <2>7 DEF LedgersWithinMaximum, Trusted
      <4>2. policy.maximum \in Nat /\ Len(ledger[g.witness]) \in Nat
        BY <2>1, <4>1, PolicyTypes DEF TypeOK
      <4> QED  BY <4>1, <4>2
    <3> QED  BY <2>9, <3>1, <3>2 DEF Bound
  <2>10. Opens(r, first.ordinal)
    <3>1. Q \in SUBSET Witnesses
      BY <2>3, <2>4
    <3>2. \A w \in Q : \E g \in grants :
            g.witness = w /\ Bound(g, r) /\ HasCommonOrdinal(g, first.ordinal)
      BY <2>4, <2>8, <2>9 DEF Granted, HasCommonOrdinal
    <3> QED  BY <2>4, <3>1, <3>2 DEF Opens
  <2>11. first.ordinal \in OrdinalsOf(r)
    BY <2>6 DEF OrdinalsOf
  <2> QED  BY <2>10, <2>11
<1>2. Init => RecordedOnce
  BY DEF Init, RecordedOnce
<1>3. IInv /\ RecordedOnce /\ [Next]_vars => RecordedOnce'
  BY RecordedOnceStep DEF IInv
<1> QED  BY <1>1, <1>2, <1>3, Invariance, PTL DEF Spec

=============================================================================
