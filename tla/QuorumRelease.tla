---------------------------- MODULE QuorumRelease ----------------------------
(***************************************************************************)
(* The quorum release session of one finalized envelope                    *)
(* (crates/rebyte-chain/src/release.rs, policy in                          *)
(* crates/rebyte-contract/src/lib.rs): a recipient creates requests, every *)
(* witness decides on its own with its clock and its ledger, and the       *)
(* recipient opens the content with a threshold of grants.                 *)
(*                                                                         *)
(* Signatures, encryption and the bindings to the envelope are perfect: a  *)
(* grant exists only if its witness issued it.  A ledger is the list of    *)
(* authorized requests of this envelope's scope (LimitedLedger).           *)
(***************************************************************************)
EXTENDS Integers, Sequences, FiniteSets

CONSTANTS
  Witnesses,    \* the witnesses of the contract
  Requests,     \* request ids, fresh nonces included
  NotBefores,   \* candidates for not_before_unix_ms
  Maximums,     \* candidates for maximum_successful_releases
  None,         \* an optional value that is absent
  MaxTime,      \* bound on the clocks
  MaxRestores   \* bound on ledgers restored from a backup

Time == 0..MaxTime

ASSUME QuorumAssumption ==
  /\ IsFiniteSet(Witnesses)
  /\ NotBefores \subseteq Nat \cup {None}
  /\ Maximums \subseteq Nat \cup {None}
  /\ None \notin Nat
  /\ MaxTime \in Nat /\ MaxRestores \in Nat

VARIABLES
  policy,     \* QuorumRelease: threshold, not_before, maximum
  clock,      \* clock[w]: the trusted clock of w
  ledger,     \* ledger[w]: authorized requests, the position is the ordinal
  restored,   \* witnesses whose ledger was restored from a backup
  restores,   \* number of restorations
  requested,  \* requests the recipient created
  grants,     \* grants the recipient received
  opened      \* <<r, n>>: the content was opened with r and common ordinal n

vars == <<policy, clock, ledger, restored, restores, requested, grants, opened>>

-----------------------------------------------------------------------------
Policies ==
  [threshold : 0..(Cardinality(Witnesses) + 1), notBefore : NotBefores, maximum : Maximums]

Grant == [witness : Witnesses, req : Requests, ordinal : Nat \ {0}, observed : Time]

\* Mutant: a finite maximum with any threshold.
ValidateAnyThreshold(p) ==
  /\ p.threshold \in 1..Cardinality(Witnesses)
  /\ p.maximum # 0

\* QuorumRelease::validate
Validate(p) ==
  /\ p.threshold \in 1..Cardinality(Witnesses)
  /\ p.maximum # 0
  /\ p.maximum # None => p.threshold = Cardinality(Witnesses)

\* Mutant: the boundary is one unit early.
TimeReachedEarly(t) == policy.notBefore # None => t + 1 >= policy.notBefore

TimeReached(t) == policy.notBefore # None => t >= policy.notBefore

\* Positions of r in the ledger l.
Positions(l, r) == {n \in 1..Len(l) : l[n] = r}

\* Mutant: a repeated request is limited like a new one.
ReplaysWithinLimit(l, r) ==
  IF policy.maximum # None /\ Len(l) >= policy.maximum THEN {} ELSE Positions(l, r)

\* Mutant: a repeated request takes the next ordinal.
ReplaysAsNext(l, r) == {Len(l) + 1 : n \in Positions(l, r)}

\* The ordinals with which authorize repeats an earlier authorization.
Replays(l, r) == Positions(l, r)

\* authorize accepts a request that is not recorded yet.
WithinMaximum(l) == policy.maximum # None => Len(l) < policy.maximum

\* Mutant: ordinals start at zero.
NextOrdinalFromZero(l) == Len(l)

NextOrdinal(l) == Len(l) + 1

Init ==
  /\ policy \in {p \in Policies : Validate(p)}
  /\ clock = [w \in Witnesses |-> 0]
  /\ ledger = [w \in Witnesses |-> <<>>]
  /\ restored = {} /\ restores = 0
  /\ requested = {} /\ grants = {} /\ opened = {}

-----------------------------------------------------------------------------
\* create_release_request: a fresh nonce gives a fresh request id.
CreateReleaseRequest(r) ==
  /\ r \notin requested
  /\ requested' = requested \cup {r}
  /\ UNCHANGED <<policy, clock, ledger, restored, restores, grants, opened>>

\* The grant reaches the recipient or is lost on the way.
Issue(w, r, n) ==
  \/ grants' = grants \cup
       {[witness |-> w, req |-> r, ordinal |-> n, observed |-> clock[w]]}
  \/ UNCHANGED grants

\* grant_release by witness w, for a request it has recorded.
ReplayGrant(w, r) ==
  /\ r \in requested
  /\ TimeReached(clock[w])
  /\ \E n \in Replays(ledger[w], r) : Issue(w, r, n)
  /\ UNCHANGED <<policy, clock, ledger, restored, restores, requested, opened>>

\* grant_release by witness w, for a new request.
GrantRelease(w, r) ==
  /\ r \in requested
  /\ TimeReached(clock[w])
  /\ Replays(ledger[w], r) = {}
  /\ WithinMaximum(ledger[w])
  /\ ledger' = [ledger EXCEPT ![w] = Append(@, r)]
  /\ Issue(w, r, NextOrdinal(ledger[w]))
  /\ UNCHANGED <<policy, clock, restored, restores, requested, opened>>

\* verify_grant_binding
Bound(g, r) ==
  /\ g.req = r
  /\ TimeReached(g.observed)
  /\ policy.maximum # None => g.ordinal <= policy.maximum

\* Mutant: the ordinals of the grants are not compared.
HasCommonOrdinalAny(g, n) == TRUE

HasCommonOrdinal(g, n) == g.ordinal = n

\* open_quorum_content accepts one grant of each witness of a set of exactly
\* threshold witnesses; n is their common ordinal.
Opens(r, n) ==
  \E Q \in SUBSET Witnesses :
    /\ Cardinality(Q) = policy.threshold
    /\ \A w \in Q : \E g \in grants :
         g.witness = w /\ Bound(g, r) /\ HasCommonOrdinal(g, n)

\* The ordinals the grants for r carry.
OrdinalsOf(r) == {g.ordinal : g \in {h \in grants : h.req = r}}

OpenQuorumContent(r) ==
  /\ r \in requested
  /\ \E n \in OrdinalsOf(r) :
       /\ Opens(r, n)
       /\ <<r, n>> \notin opened
       /\ opened' = opened \cup {<<r, n>>}
  /\ UNCHANGED <<policy, clock, ledger, restored, restores, requested, grants>>

-----------------------------------------------------------------------------
\* TrustedClock
Tick(w) ==
  /\ clock[w] < MaxTime
  /\ clock' = [clock EXCEPT ![w] = @ + 1]
  /\ UNCHANGED <<policy, ledger, restored, restores, requested, grants, opened>>

\* The host of w puts an earlier state of the ledger back.
RestoreLedger(w) ==
  /\ restores < MaxRestores
  /\ \E k \in 0..(Len(ledger[w]) - 1) :
       ledger' = [ledger EXCEPT ![w] = SubSeq(@, 1, k)]
  /\ restored' = restored \cup {w}
  /\ restores' = restores + 1
  /\ UNCHANGED <<policy, clock, requested, grants, opened>>

Next ==
  \/ \E r \in Requests : CreateReleaseRequest(r) \/ OpenQuorumContent(r)
  \/ \E w \in Witnesses, r \in Requests : GrantRelease(w, r) \/ ReplayGrant(w, r)
  \/ \E w \in Witnesses : Tick(w) \/ RestoreLedger(w)

Spec == Init /\ [][Next]_vars

\* The grant of w for r arrives.
Delivered(w, r) ==
  (GrantRelease(w, r) \/ ReplayGrant(w, r)) /\ grants' # grants

\* Time passes, and a recipient with an open request keeps asking every
\* witness that has not answered, and opens the content when it can.
FairSpec ==
  /\ Spec
  /\ \A w \in Witnesses : WF_vars(Tick(w))
  /\ \A w \in Witnesses, r \in Requests : SF_vars(Delivered(w, r))
  /\ \A r \in Requests : WF_vars(OpenQuorumContent(r))

-----------------------------------------------------------------------------
(* Properties                                                              *)

\* Every variable has its type; ordinals start at one.
TypeOK ==
  /\ policy \in Policies /\ Validate(policy)
  /\ clock \in [Witnesses -> Time]
  /\ ledger \in [Witnesses -> Seq(Requests)]
  /\ restored \subseteq Witnesses /\ restores \in 0..MaxRestores
  /\ requested \subseteq Requests
  /\ grants \subseteq Grant
  /\ opened \subseteq Requests \X (Nat \ {0})

Trusted == Witnesses \ restored

Unanimous == policy.threshold = Cardinality(Witnesses)

\* Restoring some of the ledgers only desynchronizes their ordinals and the
\* open fails closed: with a unanimous policy, every session that opened is
\* recorded under its common ordinal by every witness whose ledger was never
\* put back, whatever the others do.
SessionsOnRecord ==
  Unanimous =>
    \A s \in opened : \A w \in Trusted :
      s[2] \in 1..Len(ledger[w]) /\ ledger[w][s[2]] = s[1]

\* A finite maximum bounds the number of requests that ever open the content,
\* as long as one witness kept its ledger.
ReleaseBounded ==
  policy.maximum # None /\ Trusted # {} =>
    Cardinality({s[1] : s \in opened}) <= policy.maximum

\* The content opens only once a threshold of the trusted clocks has reached
\* not-before.
NotEarly ==
  opened # {} /\ policy.notBefore # None =>
    Cardinality({w \in Witnesses : clock[w] >= policy.notBefore}) >= policy.threshold

Granted(r) == {w \in Witnesses : \E g \in grants : g.witness = w /\ g.req = r}

PrefixOf(s, t) == Len(s) <= Len(t) /\ s = SubSeq(t, 1, Len(s))

\* A request granted by a threshold of witnesses opens, whatever was repeated
\* or lost, if all witnesses decided the requests in the same order.  (Two
\* requests decided in different orders may block each other for good.)
SameOrderOpens ==
  restored = {}
    /\ (\A v, w \in Witnesses :
          PrefixOf(ledger[v], ledger[w]) \/ PrefixOf(ledger[w], ledger[v])) =>
  \A r \in Requests :
    Cardinality(Granted(r)) >= policy.threshold => \E n \in OrdinalsOf(r) : Opens(r, n)

\* A recipient that creates a single request opens the content in the end,
\* through lost grants, repetitions and restored ledgers.
LoneRequestOpens ==
  [](Cardinality(requested) <= 1) =>
    \A r \in Requests : r \in requested ~> \E s \in opened : s[1] = r

=============================================================================
