---------------------------- MODULE CeremonyProofs ----------------------------
(***************************************************************************)
(* Ceremony implements Consensus for every set of identities, every number *)
(* of proposals and every mixture of documents.                            *)
(***************************************************************************)
EXTENDS Ceremony, FiniteSetTheorems, TLAPS

\* The document of every signature was issued.
Issued(s) ==
  \/ \E g \in groups : /\ s = Sign(s.by, AcceptanceMessage(g, s.by))
                       /\ Acceptance(g, s.by) \in acceptances
  \/ \E p \in capsules : /\ s = Sign(s.by, ApprovalMessage(p, s.by))
                         /\ Approval(p, s.by) \in approvals

\* What was valid when it was finalized or proposed stays valid.
IInv ==
  /\ TypeOK
  /\ \A g \in groups : GroupValid(g)
  /\ \A c \in certificates : CertificateValid(c)
  /\ \A p \in capsules : CapsuleValid(p)
  /\ \A e \in envelopes : EnvelopeValid(e)
  /\ \A p, q \in capsules : p.id = q.id => p = q
  /\ \A s \in signed : Issued(s)

\* A selection of documents contains documents in circulation only.
LEMMA SelectionRange ==
  ASSUME NEW S, NEW docs \in Selections(S)
  PROVE  Range(docs) \subseteq S
BY DEF Selections, Range

\* Documents are never withdrawn.
LEMMA StaysIssued ==
  ASSUME groups \subseteq groups', capsules \subseteq capsules',
         acceptances \subseteq acceptances', approvals \subseteq approvals',
         NEW s, Issued(s)
  PROVE  Issued(s)'
BY DEF Issued, Sign, AcceptanceMessage, ApprovalMessage, Acceptance, Approval

\* The initial state satisfies the invariant.
LEMMA InitInvariant == Init => IInv
BY DEF Init, IInv, TypeOK

\* Lists of members are lists of identities, and their sets are finite.
LEMMA MembersFinite ==
  ASSUME NEW list \in Seq(Identities)
  PROVE  /\ Range(list) \subseteq Identities
         /\ IsFiniteSet(Range(list))
         /\ Cardinality(Range(list)) \in Nat
<1>1. Range(list) \subseteq Identities
  BY DEF Range
<1>2. IsFiniteSet(Range(list))
  BY <1>1, CeremonyAssumption, FS_Subset
<1> QED
  BY <1>1, <1>2, FS_CardinalityType

\* Creating a group keeps the invariant.
LEMMA CreateGroupStep ==
  ASSUME IInv, NEW members \in MemberLists, NEW t \in Thresholds, CreateGroup(members, t)
  PROVE  IInv'
<1> PICK id \in Digests :
      LET g == [id |-> id, threshold |-> t, members |-> Range(members)]
      IN  GroupValid(g) /\ groups' = groups \cup {g}
  BY DEF CreateGroup
<1> DEFINE g == [id |-> id, threshold |-> t, members |-> Range(members)]
<1>1. g \in GroupId
  <2>1. members \in Seq(Identities) /\ t \in Nat
    BY CeremonyAssumption
  <2>2. t >= 1
    BY <2>1, MembersFinite DEF GroupValid
  <2> QED
    BY <2>1, <2>2, MembersFinite DEF GroupId
<1> HIDE DEF g
<1>2. groups' = groups \cup {g} /\ GroupValid(g)
  BY DEF g
<1>3. {x.id : x \in groups} \subseteq {x.id : x \in groups'}
  BY <1>2
<1>4. (acceptances \subseteq [group : {x.id : x \in groups}, member : Identities, signature : signed])'
  BY <1>3 DEF IInv, TypeOK, CreateGroup
<1>5. (approvals \subseteq [group : {x.id : x \in groups}, proposal : {p.id : p \in capsules},
                          member : Identities, signature : signed])'
  BY <1>3 DEF IInv, TypeOK, CreateGroup
<1>6. (certificates \subseteq [group : groups, acceptances : SUBSET acceptances])'
  BY <1>2 DEF IInv, TypeOK, CreateGroup
<1>7. TypeOK'
  BY <1>1, <1>2, <1>4, <1>5, <1>6 DEF IInv, TypeOK, CreateGroup
<1>8. (\A s \in signed : Issued(s))'
  BY <1>2, StaysIssued DEF IInv, CreateGroup
<1> QED
  BY <1>2, <1>7, <1>8 DEF IInv, CreateGroup

\* Accepting a group keeps the invariant.
LEMMA AcceptGroupStep ==
  ASSUME IInv, NEW g \in groups, NEW m \in Identities, AcceptGroup(g, m)
  PROVE  IInv'
<1>1. TypeOK'
  BY DEF IInv, TypeOK, AcceptGroup, Acceptance
<1>2. (\A s \in signed : Issued(s)')
  BY StaysIssued DEF IInv, AcceptGroup
<1>3. Issued(Sign(m, AcceptanceMessage(g, m)))'
  BY DEF Issued, Sign, AcceptGroup, AcceptanceMessage, Acceptance
<1>4. (\A s \in signed : Issued(s))'
  BY <1>2, <1>3 DEF AcceptGroup
<1> QED
  BY <1>1, <1>4 DEF IInv, AcceptGroup

\* Finalizing a group keeps the invariant.
LEMMA FinalizeGroupStep ==
  ASSUME IInv, NEW g \in groups, NEW docs \in Selections(acceptances), FinalizeGroup(g, docs)
  PROVE  IInv'
<1> DEFINE c == [group |-> g, acceptances |-> Range(docs)]
<1>1. certificates' = certificates \cup {c} /\ CertificateValid(c)
  BY DEF FinalizeGroup, FinalizesGroup
<1>2. c \in [group : groups, acceptances : SUBSET acceptances]
  BY SelectionRange
<1> HIDE DEF c
<1>3. TypeOK'
  BY <1>1, <1>2 DEF IInv, TypeOK, FinalizeGroup
<1>4. (\A s \in signed : Issued(s))'
  BY StaysIssued DEF IInv, FinalizeGroup
<1> QED
  BY <1>1, <1>3, <1>4 DEF IInv, FinalizeGroup

\* Proposing a capsule keeps the invariant.
LEMMA CreateCapsuleStep ==
  ASSUME IInv, NEW c \in certificates, NEW kind, NEW content, NEW release,
         NEW recipients \in RecipientLists, NEW witnesses \in WitnessLists,
         CreateCapsule(c, kind, content, release, recipients, witnesses)
  PROVE  IInv'
<1> PICK id \in Digests :
      LET p == [id |-> id, group |-> c.group, acceptances |-> c.acceptances,
                kind |-> kind, content |-> content, release |-> release,
                recipients |-> Range(recipients), witnesses |-> Range(witnesses)]
      IN  Fresh(id) /\ CapsuleValid(p) /\ capsules' = capsules \cup {p}
  BY DEF CreateCapsule
<1> DEFINE p == [id |-> id, group |-> c.group, acceptances |-> c.acceptances,
                 kind |-> kind, content |-> content, release |-> release,
                 recipients |-> Range(recipients), witnesses |-> Range(witnesses)]
<1>1. recipients \in Seq(Identities) /\ witnesses \in Seq(Identities)
  BY CeremonyAssumption
<1>2. p.recipients \subseteq Identities /\ p.witnesses \subseteq Identities
  BY <1>1, MembersFinite
<1>3. ContentValid(p.kind, p.content)
  BY DEF CreateCapsule
<1>4. [group |-> p.group, acceptances |-> p.acceptances] \in certificates
  BY DEF IInv, TypeOK
<1>5. Fresh(p.id) /\ CapsuleValid(p) /\ capsules' = capsules \cup {p}
  OBVIOUS
<1> HIDE DEF p
<1>6. TypeOK'
  BY <1>2, <1>3, <1>4, <1>5 DEF IInv, TypeOK, CreateCapsule
<1>7. (\A s \in signed : Issued(s))'
  BY <1>5, StaysIssued DEF IInv, CreateCapsule
<1>8. (\A q, r \in capsules : q.id = r.id => q = r)'
  BY <1>5 DEF IInv, Fresh
<1> QED
  BY <1>5, <1>6, <1>7, <1>8 DEF IInv, CreateCapsule

\* Approving a capsule keeps the invariant.
LEMMA ApproveCapsuleStep ==
  ASSUME IInv, NEW p \in capsules, NEW m \in Identities, ApproveCapsule(p, m)
  PROVE  IInv'
<1> DEFINE s == Sign(m, ApprovalMessage(p, m))
           doc == [group |-> p.group.id, proposal |-> p.id, member |-> m, signature |-> s]
<1>1. approvals' = approvals \cup {doc} /\ signed' = signed \cup {s}
  BY DEF ApproveCapsule, Approval
<1>2. p.group \in groups
  BY DEF IInv, TypeOK
<1>3. doc \in [group : {g.id : g \in groups}, proposal : {q.id : q \in capsules},
               member : Identities, signature : signed']
  BY <1>1, <1>2
<1> HIDE DEF s, doc
<1>4. TypeOK'
  BY <1>1, <1>3 DEF IInv, TypeOK, ApproveCapsule
<1>5. (\A x \in signed : Issued(x)')
  BY <1>1, StaysIssued DEF IInv, ApproveCapsule
<1>6. Issued(s)'
  BY <1>1 DEF Issued, s, doc, Sign, ApproveCapsule, ApprovalMessage, Approval
<1>7. (\A x \in signed : Issued(x))'
  BY <1>1, <1>5, <1>6 DEF ApproveCapsule
<1> QED
  BY <1>4, <1>7 DEF IInv, ApproveCapsule

\* Finalizing a capsule keeps the invariant.
LEMMA FinalizeCapsuleStep ==
  ASSUME IInv, NEW p \in capsules, NEW docs \in Selections(approvals), FinalizeCapsule(p, docs)
  PROVE  IInv'
<1> DEFINE e == [proposal |-> p, approvals |-> Range(docs)]
<1>1. envelopes' = envelopes \cup {e} /\ EnvelopeValid(e)
  BY DEF FinalizeCapsule, FinalizesCapsule
<1>2. e \in [proposal : capsules, approvals : SUBSET approvals]
  BY SelectionRange
<1> HIDE DEF e
<1>3. TypeOK'
  BY <1>1, <1>2 DEF IInv, TypeOK, FinalizeCapsule
<1>4. (\A s \in signed : Issued(s))'
  BY StaysIssued DEF IInv, FinalizeCapsule
<1> QED
  BY <1>1, <1>3, <1>4 DEF IInv, FinalizeCapsule

\* Handing content over keeps the invariant.
LEMMA HandStep ==
  ASSUME IInv, NEW e \in envelopes, NEW r \in Identities, Hand(e, r)
  PROVE  IInv'
<1>1. TypeOK'
  BY DEF IInv, TypeOK, Hand
<1>2. (\A s \in signed : Issued(s))'
  BY StaysIssued DEF IInv, Hand
<1> QED
  BY <1>1, <1>2 DEF IInv, Hand

\* A damaged acceptance keeps the invariant.
LEMMA ReboundAcceptanceStep ==
  ASSUME IInv, NEW a \in acceptances, NEW b \in acceptances, ReboundAcceptance(a, b)
  PROVE  IInv'
<1> DEFINE doc == [a EXCEPT !.signature = b.signature]
<1>1. doc \in [group : {g.id : g \in groups}, member : Identities, signature : signed]
  BY DEF IInv, TypeOK
<1>2. acceptances' = acceptances \cup {doc}
  BY DEF ReboundAcceptance
<1> HIDE DEF doc
<1>3. TypeOK'
  BY <1>1, <1>2 DEF IInv, TypeOK, ReboundAcceptance
<1>4. (\A s \in signed : Issued(s))'
  BY <1>2, StaysIssued DEF IInv, ReboundAcceptance
<1> QED
  BY <1>3, <1>4 DEF IInv, ReboundAcceptance

\* A damaged approval keeps the invariant.
LEMMA ReboundApprovalStep ==
  ASSUME IInv, NEW a \in approvals, NEW b \in approvals, ReboundApproval(a, b)
  PROVE  IInv'
<1> DEFINE doc == [a EXCEPT !.signature = b.signature]
<1>1. doc \in [group : {g.id : g \in groups}, proposal : {p.id : p \in capsules},
               member : Identities, signature : signed]
  BY DEF IInv, TypeOK
<1>2. approvals' = approvals \cup {doc}
  BY DEF ReboundApproval
<1> HIDE DEF doc
<1>3. TypeOK'
  BY <1>1, <1>2 DEF IInv, TypeOK, ReboundApproval
<1>4. (\A s \in signed : Issued(s))'
  BY <1>2, StaysIssued DEF IInv, ReboundApproval
<1> QED
  BY <1>3, <1>4 DEF IInv, ReboundApproval

\* Every step keeps the invariant.
LEMMA NextInvariant == IInv /\ [Next]_vars => IInv'
<1> SUFFICES ASSUME IInv, [Next]_vars
             PROVE  IInv'
  OBVIOUS
<1>1. CASE UNCHANGED vars
  <2>1. TypeOK'
    BY <1>1 DEF IInv, TypeOK, vars
  <2>2. (\A s \in signed : Issued(s))'
    BY <1>1, StaysIssued DEF IInv, vars
  <2> QED
    BY <1>1, <2>1, <2>2 DEF IInv, vars
<1>2. CASE \E members \in MemberLists, t \in Thresholds : CreateGroup(members, t)
  BY <1>2, CreateGroupStep
<1>3. CASE \E g \in groups, m \in Identities : AcceptGroup(g, m)
  BY <1>3, AcceptGroupStep
<1>4. CASE \E g \in groups, docs \in Selections(acceptances) : FinalizeGroup(g, docs)
  BY <1>4, FinalizeGroupStep
<1>5. CASE \E c \in certificates, kind \in {"artifact", "patch"},
              content \in Artifacts \cup Patches, release \in {"direct", "quorum"},
              recipients \in RecipientLists, witnesses \in WitnessLists :
             CreateCapsule(c, kind, content, release, recipients, witnesses)
  BY <1>5, CreateCapsuleStep
<1>6. CASE \E p \in capsules, m \in Identities : ApproveCapsule(p, m)
  BY <1>6, ApproveCapsuleStep
<1>7. CASE \E p \in capsules, docs \in Selections(approvals) : FinalizeCapsule(p, docs)
  BY <1>7, FinalizeCapsuleStep
<1>8. CASE \E e \in envelopes, r \in Identities : OpenCapsule(e, r) \/ OpenSemanticPatch(e, r)
  BY <1>8, HandStep DEF OpenCapsule, OpenSemanticPatch
<1>9. CASE \E a, b \in acceptances : ReboundAcceptance(a, b)
  BY <1>9, ReboundAcceptanceStep
<1>10. CASE \E a, b \in approvals : ReboundApproval(a, b)
  BY <1>10, ReboundApprovalStep
<1> QED
  BY <1>1, <1>2, <1>3, <1>4, <1>5, <1>6, <1>7, <1>8, <1>9, <1>10 DEF Next

\* The inductive invariant holds throughout, for every set of identities and
\* every mixture of documents (group.rs and envelope.rs validation).
THEOREM Inductive == Spec => []IInv
<1>1. Init => IInv
  BY InitInvariant
<1>2. IInv /\ [Next]_vars => IInv'
  BY NextInvariant
<1> QED
  BY <1>1, <1>2, PTL DEF Spec

\* Certificates, capsules and envelopes are made from circulating documents.
THEOREM TypeCorrect == Spec => []TypeOK
<1>1. IInv => TypeOK
  BY DEF IInv
<1> QED
  BY <1>1, Inductive, PTL

-----------------------------------------------------------------------------
(* Refinement of Consensus                                                 *)

\* The members of a certified group have all accepted it: a certificate holds
\* one acceptance for each, and signatures in circulation were really made.
LEMMA CertifiedIsFormed ==
  ASSUME IInv, NEW c \in certificates
  PROVE  c.group \in groups /\ Promise!Formed(c.group)
<1>1. c.group \in groups /\ c.acceptances \subseteq acceptances
  BY DEF IInv, TypeOK
<1>2. ASSUME NEW m \in c.group.members
      PROVE  [member |-> m, group |-> c.group.id] \in Accepted
  <2>1. PICK doc \in c.acceptances : VerifyAcceptance(c.group, m, doc)
    BY DEF IInv, CertificateValid
  <2>2. Sign(m, AcceptanceMessage(c.group, m)) \in signed
    BY <1>1, <2>1 DEF IInv, TypeOK, VerifyAcceptance
  <2> QED
    BY <2>2 DEF Accepted, Sign, AcceptanceMessage
<1> QED
  BY <1>1, <1>2 DEF Promise!Formed

\* A group's members are finitely many identities.
LEMMA GroupFinite ==
  ASSUME IInv, NEW g \in groups
  PROVE  g.members \subseteq Identities /\ IsFiniteSet(g.members)
<1>1. g.members \subseteq Identities
  BY DEF IInv, TypeOK, GroupId
<1> QED
  BY <1>1, CeremonyAssumption, FS_Subset

\* Consensus counts as Ceremony does.
LEMMA SameCardinality == \A S : Promise!Cardinality(S) = Cardinality(S)
BY DEF Promise!Cardinality, Cardinality

\* An envelope's approvals come from as many distinct members as there are
\* approvals, and each of them approved this very proposal.
LEMMA EnvelopeIsAuthorized ==
  ASSUME IInv, NEW e \in envelopes
  PROVE  e.proposal \in capsules /\ Promise!Authorized(e.proposal)
<1> DEFINE p == e.proposal
           approvers == Promise!Approvers(p)
           by == [a \in e.approvals |-> a.member]
<1>1. p \in capsules /\ e.approvals \subseteq approvals
  BY DEF IInv, TypeOK
<1>2. [group |-> p.group, acceptances |-> p.acceptances] \in certificates
  BY <1>1 DEF IInv, TypeOK
<1>3. p.group \in groups /\ Promise!Formed(p.group)
  BY <1>2, CertifiedIsFormed
<1>4. ASSUME NEW a \in e.approvals
      PROVE  a.member \in approvers
  <2>1. VerifyApproval(p, a)
    BY DEF IInv, EnvelopeValid
  <2>2. Sign(a.member, ApprovalMessage(p, a.member)) \in signed
    BY <1>1, <2>1 DEF IInv, TypeOK, VerifyApproval
  <2>3. [member |-> a.member, capsule |-> p.id] \in Approved
    BY <2>2 DEF Approved, Sign, ApprovalMessage
  <2> QED
    BY <2>1, <2>3 DEF Promise!Approvers, VerifyApproval
<1>5. IsFiniteSet(approvers)
  BY <1>3, GroupFinite, FS_Subset DEF Promise!Approvers
<1>6. by \in Injection(e.approvals, approvers)
  BY <1>4 DEF Injection, IsInjective, IInv, EnvelopeValid
<1>7. /\ Cardinality(e.approvals) <= Cardinality(approvers)
      /\ Cardinality(e.approvals) \in Nat /\ Cardinality(approvers) \in Nat
  <2> HIDE DEF by, approvers
  <2> QED
    BY <1>5, <1>6, FS_Injection, FS_CardinalityType
<1>8. Cardinality(e.approvals) >= p.group.threshold /\ p.group.threshold \in Nat
  BY <1>3 DEF IInv, EnvelopeValid, Enough, TypeOK, GroupId
<1>9. Cardinality(approvers) >= p.group.threshold
  BY <1>7, <1>8
<1> QED
  BY <1>1, <1>3, <1>9, SameCardinality DEF Promise!Authorized

\* A new signature of an acceptance adds one acceptance and no approval.
LEMMA AcceptGroupRefines ==
  ASSUME IInv, NEW g \in groups, NEW m \in Identities, AcceptGroup(g, m)
  PROVE  Promise!Accept
<1> DEFINE new == Sign(m, AcceptanceMessage(g, m))
           made == {x \in signed : x.over.domain = "acceptance"}
<1>1. signed' = signed \cup {new}
  BY DEF AcceptGroup
<1>2. new.by = m /\ new.over.subject = g.id /\ new.over.domain = "acceptance"
  BY DEF Sign, AcceptanceMessage
<1> HIDE DEF new
<1>3. Approved' = Approved
  BY <1>1, <1>2 DEF Approved
<1>4. made' = made \cup {new}
  BY <1>1, <1>2
<1> HIDE DEF made
<1>5. Accepted = {[member |-> s.by, group |-> s.over.subject] : s \in made}
  BY DEF Accepted, made
<1>6. Accepted' = {[member |-> s.by, group |-> s.over.subject] : s \in made'}
  BY DEF Accepted, made
<1>7. Accepted' = Accepted \cup {[member |-> m, group |-> g.id]}
  BY <1>2, <1>4, <1>5, <1>6
<1> QED
  BY <1>3, <1>7 DEF AcceptGroup, Promise!Accept

\* A new signature of an approval adds one approval and no acceptance.
LEMMA ApproveCapsuleRefines ==
  ASSUME IInv, NEW p \in capsules, NEW m \in Identities, ApproveCapsule(p, m)
  PROVE  Promise!Approve
<1> DEFINE new == Sign(m, ApprovalMessage(p, m))
           made == {x \in signed : x.over.domain = "approval"}
<1>1. signed' = signed \cup {new}
  BY DEF ApproveCapsule
<1>2. new.by = m /\ new.over.subject = p.id /\ new.over.domain = "approval"
  BY DEF Sign, ApprovalMessage
<1> HIDE DEF new
<1>3. Accepted' = Accepted
  BY <1>1, <1>2 DEF Accepted
<1>4. made' = made \cup {new}
  BY <1>1, <1>2
<1> HIDE DEF made
<1>5. Approved = {[member |-> s.by, capsule |-> s.over.subject] : s \in made}
  BY DEF Approved, made
<1>6. Approved' = {[member |-> s.by, capsule |-> s.over.subject] : s \in made'}
  BY DEF Approved, made
<1>7. Approved' = Approved \cup {[member |-> m, capsule |-> p.id]}
  BY <1>2, <1>4, <1>5, <1>6
<1> QED
  BY <1>3, <1>7 DEF ApproveCapsule, Promise!Approve

\* A group is proposed under an identifier that no proposal has.
LEMMA CreateGroupRefines ==
  ASSUME NEW members, NEW t, CreateGroup(members, t)
  PROVE  Promise!ProposeGroup
<1> PICK id \in Digests :
      LET g == [id |-> id, threshold |-> t, members |-> Range(members)]
      IN  Fresh(id) /\ groups' = groups \cup {g}
  BY DEF CreateGroup
<1> DEFINE g == [id |-> id, threshold |-> t, members |-> Range(members)]
<1>1. g.id = id /\ groups' = groups \cup {g}
  OBVIOUS
<1> HIDE DEF g
<1>2. Promise!Fresh(g.id)
  BY <1>1 DEF Promise!Fresh, Fresh
<1>3. Accepted' = Accepted /\ Approved' = Approved
  BY DEF CreateGroup, Accepted, Approved
<1> QED
  BY <1>1, <1>2, <1>3 DEF Promise!ProposeGroup, CreateGroup

\* A capsule is proposed by a group that all its members accepted.
LEMMA CreateCapsuleRefines ==
  ASSUME IInv, NEW c \in certificates, NEW kind, NEW content, NEW release, NEW recipients,
         NEW witnesses, CreateCapsule(c, kind, content, release, recipients, witnesses)
  PROVE  Promise!ProposeCapsule
<1> PICK id \in Digests :
      LET p == [id |-> id, group |-> c.group, acceptances |-> c.acceptances,
                kind |-> kind, content |-> content, release |-> release,
                recipients |-> Range(recipients), witnesses |-> Range(witnesses)]
      IN  Fresh(id) /\ capsules' = capsules \cup {p}
  BY DEF CreateCapsule
<1> DEFINE p == [id |-> id, group |-> c.group, acceptances |-> c.acceptances,
                 kind |-> kind, content |-> content, release |-> release,
                 recipients |-> Range(recipients), witnesses |-> Range(witnesses)]
<1>1. p.id = id /\ p.group = c.group /\ capsules' = capsules \cup {p}
  OBVIOUS
<1> HIDE DEF p
<1>2. Promise!Fresh(p.id)
  BY <1>1 DEF Promise!Fresh, Fresh
<1>3. Accepted' = Accepted /\ Approved' = Approved
  BY DEF CreateCapsule, Accepted, Approved
<1>4. p.group \in groups /\ Promise!Formed(p.group)
  BY <1>1, CertifiedIsFormed
<1> QED
  BY <1>1, <1>2, <1>3, <1>4 DEF Promise!ProposeCapsule, CreateCapsule

\* Content is handed to a recipient of an authorized capsule only.
LEMMA HandRefines ==
  ASSUME IInv, NEW e \in envelopes, NEW r \in Identities, Hand(e, r)
  PROVE  Promise!Open
<1> DEFINE p == e.proposal
<1>1. p \in capsules /\ Promise!Authorized(p)
  BY EnvelopeIsAuthorized
<1>2. FromBytes(e).proposal = p
  BY DEF FromBytes, IInv, TypeOK
<1>3. r \in p.recipients /\ p.release # "quorum"
  BY <1>2 DEF Hand, Opens
<1>4. opened' = opened \cup {[by |-> r, capsule |-> p]}
  BY DEF Hand
<1>5. Accepted' = Accepted /\ Approved' = Approved
  BY DEF Hand, Accepted, Approved
<1> HIDE DEF p
<1> QED
  BY <1>1, <1>3, <1>4, <1>5 DEF Promise!Open, Hand

\* Steps that only move documents are invisible.
LEMMA Stutters ==
  ASSUME UNCHANGED <<groups, capsules, opened, signed>>
  PROVE  UNCHANGED Promise!vars
BY DEF Promise!vars, Accepted, Approved

\* Every step of the ceremony is a step of the promise or invisible to it.
LEMMA NextRefines == IInv /\ [Next]_vars => [Promise!Next]_Promise!vars
<1> SUFFICES ASSUME IInv, [Next]_vars
             PROVE  [Promise!Next]_Promise!vars
  OBVIOUS
<1>1. CASE UNCHANGED vars
  BY <1>1, Stutters DEF vars
<1>2. CASE \E members \in MemberLists, t \in Thresholds : CreateGroup(members, t)
  BY <1>2, CreateGroupRefines DEF Promise!Next
<1>3. CASE \E g \in groups, m \in Identities : AcceptGroup(g, m)
  BY <1>3, AcceptGroupRefines DEF Promise!Next
<1>4. CASE \E g \in groups, docs \in Selections(acceptances) : FinalizeGroup(g, docs)
  BY <1>4, Stutters DEF FinalizeGroup
<1>5. CASE \E c \in certificates, kind \in {"artifact", "patch"},
              content \in Artifacts \cup Patches, release \in {"direct", "quorum"},
              recipients \in RecipientLists, witnesses \in WitnessLists :
             CreateCapsule(c, kind, content, release, recipients, witnesses)
  BY <1>5, CreateCapsuleRefines DEF Promise!Next
<1>6. CASE \E p \in capsules, m \in Identities : ApproveCapsule(p, m)
  BY <1>6, ApproveCapsuleRefines DEF Promise!Next
<1>7. CASE \E p \in capsules, docs \in Selections(approvals) : FinalizeCapsule(p, docs)
  BY <1>7, Stutters DEF FinalizeCapsule
<1>8. CASE \E e \in envelopes, r \in Identities : OpenCapsule(e, r) \/ OpenSemanticPatch(e, r)
  BY <1>8, HandRefines DEF OpenCapsule, OpenSemanticPatch, Promise!Next
<1>9. CASE \E a, b \in acceptances : ReboundAcceptance(a, b)
  BY <1>9, Stutters DEF ReboundAcceptance
<1>10. CASE \E a, b \in approvals : ReboundApproval(a, b)
  BY <1>10, Stutters DEF ReboundApproval
<1> QED
  BY <1>1, <1>2, <1>3, <1>4, <1>5, <1>6, <1>7, <1>8, <1>9, <1>10 DEF Next

\* A recipient reads a capsule only if every member accepted its group and a
\* threshold of distinct members approved it: the ceremony implements Consensus
\* (finalize_group, finalize_capsule, CapsuleEnvelope::validate, open_capsule).
THEOREM CeremonyImplementsConsensus == Spec => Implements
<1>1. Init => Promise!Init
  BY DEF Init, Promise!Init, Accepted, Approved
<1>2. IInv /\ [Next]_vars => [Promise!Next]_Promise!vars
  BY NextRefines
<1> QED
  BY <1>1, <1>2, Inductive, PTL DEF Spec, Implements, Promise!Spec

-----------------------------------------------------------------------------
(* Envelopes and complete ceremonies                                       *)

\* Reading back the approvals of a valid envelope gives the same approvals.
LEMMA ReadsBack ==
  ASSUME IInv, NEW e \in envelopes
  PROVE  FromBytes(e) = e
<1> DEFINE p == e.proposal
           Read(doc) == [group |-> p.group.id, proposal |-> p.id,
                         member |-> doc.member, signature |-> doc.signature]
<1>1. e \in [proposal : capsules, approvals : SUBSET approvals]
  BY DEF IInv, TypeOK
<1>2. ASSUME NEW doc \in e.approvals
      PROVE  Read(doc) = doc
  <2>1. doc.group = p.group.id /\ doc.proposal = p.id
    BY DEF IInv, EnvelopeValid, VerifyApproval
  <2>2. doc \in [group : {g.id : g \in groups}, proposal : {q.id : q \in capsules},
                 member : Identities, signature : signed]
    BY <1>1 DEF IInv, TypeOK
  <2> QED
    BY <2>1, <2>2
<1>3. {Read(doc) : doc \in e.approvals} = e.approvals
  BY <1>2
<1>4. FromBytes(e) = [e EXCEPT !.approvals = {Read(doc) : doc \in e.approvals}]
  BY DEF FromBytes
<1> QED
  BY <1>1, <1>3, <1>4

\* A finalized envelope reads back as it was written and stays openable for
\* each recipient (CapsuleEnvelope::from_bytes, recipient_cek).
THEOREM OpenableForever == Spec => []EnvelopesStayOpenable
<1>1. ASSUME IInv
      PROVE  EnvelopesStayOpenable
  <2> SUFFICES ASSUME NEW e \in envelopes, e.proposal.release # "quorum",
                      NEW r \in e.proposal.recipients
               PROVE  Opens(e, r)
    BY <1>1, ReadsBack DEF EnvelopesStayOpenable
  <2> QED
    BY <1>1 DEF IInv, TypeOK, Opens, Holders
<1> QED
  BY <1>1, Inductive, PTL

\* One document of each of a set of members is as many documents as members.
LEMMA OneEach ==
  ASSUME NEW S, IsFiniteSet(S), NEW docs, DOMAIN docs = S,
         \A m \in S : docs[m].member = m
  PROVE  /\ NoDuplicates(docs)
         /\ IsFiniteSet(Range(docs))
         /\ Cardinality(Range(docs)) = Cardinality(S)
<1> DEFINE by == [doc \in Range(docs) |-> doc.member]
<1>1. NoDuplicates(docs)
  BY DEF NoDuplicates
<1>2. by \in Injection(Range(docs), S)
  BY DEF Injection, IsInjective, Range
<1>3. by \in Surjection(Range(docs), S)
  <2>1. ASSUME NEW m \in S
        PROVE  docs[m] \in Range(docs) /\ by[docs[m]] = m
    BY DEF Range
  <2> QED
    BY <1>2, <2>1 DEF Surjection, Injection
<1> HIDE DEF by
<1> QED
  BY <1>1, <1>2, <1>3, FS_Injection

\* The acceptances of all members finalize the group.
LEMMA UnanimousFinalizes ==
  ASSUME IInv, NEW g \in groups
  PROVE  FinalizesGroup(g, [m \in g.members |-> Acceptance(g, m)])
<1> DEFINE docs == [m \in g.members |-> Acceptance(g, m)]
<1>1. NoDuplicates(docs) /\ Cardinality(Range(docs)) = Cardinality(g.members)
  <2>1. DOMAIN docs = g.members /\ \A m \in g.members : docs[m].member = m
    BY DEF Acceptance
  <2> HIDE DEF docs
  <2> QED
    BY <2>1, GroupFinite, OneEach
<1>2. \A m \in g.members : \E doc \in Range(docs) : VerifyAcceptance(g, m, doc)
  <2>1. ASSUME NEW m \in g.members
        PROVE  docs[m] \in Range(docs) /\ VerifyAcceptance(g, m, docs[m])
    BY DEF Range, VerifyAcceptance, Acceptance
  <2> QED
    BY <2>1
<1> HIDE DEF docs
<1>3. CertificateValid([group |-> g, acceptances |-> Range(docs)])
  BY <1>1, <1>2 DEF CertificateValid, IInv
<1>4. FinalizesGroup(g, docs)
  BY <1>1, <1>3 DEF FinalizesGroup
<1> QED
  BY <1>4 DEF docs

\* The approvals of a threshold of members finalize the capsule.
LEMMA ThresholdFinalizes ==
  ASSUME IInv, NEW p \in capsules, NEW S \in SUBSET p.group.members,
         Cardinality(S) >= p.group.threshold
  PROVE  FinalizesCapsule(p, [m \in S |-> Approval(p, m)])
<1> DEFINE docs == [m \in S |-> Approval(p, m)]
           e == [proposal |-> p, approvals |-> Range(docs)]
<1>1. p.group \in groups
  BY DEF IInv, TypeOK
<1>2. IsFiniteSet(S) /\ Cardinality(S) <= Cardinality(p.group.members)
  BY <1>1, GroupFinite, FS_Subset
<1>3. NoDuplicates(docs) /\ Cardinality(Range(docs)) = Cardinality(S)
  <2>1. DOMAIN docs = S /\ \A m \in S : docs[m].member = m
    BY DEF Approval
  <2> HIDE DEF docs
  <2> QED
    BY <1>2, <2>1, OneEach
<1>4. \A doc \in Range(docs) : VerifyApproval(p, doc)
  BY DEF Range, VerifyApproval, Approval
<1>5. \A a, b \in Range(docs) : a.member = b.member => a = b
  BY DEF Range, Approval
<1> HIDE DEF docs
<1>6. EnvelopeValid(e)
  BY <1>2, <1>3, <1>4, <1>5 DEF EnvelopeValid, Enough, IInv
<1>7. FinalizesCapsule(p, docs)
  BY <1>3, <1>6 DEF FinalizesCapsule
<1> QED
  BY <1>7 DEF docs

\* Who accepted a group has issued the acceptance of this group.
LEMMA AcceptedIsIssued ==
  ASSUME IInv, NEW g \in groups, NEW m, [member |-> m, group |-> g.id] \in Accepted
  PROVE  Acceptance(g, m) \in acceptances
<1>1. PICK s \in signed : s.over.domain = "acceptance" /\ s.by = m /\ s.over.subject = g.id
  BY DEF Accepted
<1>2. Issued(s)
  BY DEF IInv
<1>3. PICK h \in groups : /\ s = Sign(s.by, AcceptanceMessage(h, s.by))
                         /\ Acceptance(h, s.by) \in acceptances
  BY <1>1, <1>2 DEF Issued, Sign, ApprovalMessage
<1>4. h.id = g.id
  BY <1>1, <1>3 DEF Sign, AcceptanceMessage
<1> QED
  BY <1>1, <1>3, <1>4 DEF Acceptance, AcceptanceMessage

\* Who approved a capsule has issued the approval of this capsule.
LEMMA ApprovedIsIssued ==
  ASSUME IInv, NEW p \in capsules, NEW m, [member |-> m, capsule |-> p.id] \in Approved
  PROVE  Approval(p, m) \in approvals
<1>1. PICK s \in signed : s.over.domain = "approval" /\ s.by = m /\ s.over.subject = p.id
  BY DEF Approved
<1>2. Issued(s)
  BY DEF IInv
<1>3. PICK q \in capsules : /\ s = Sign(s.by, ApprovalMessage(q, s.by))
                           /\ Approval(q, s.by) \in approvals
  BY <1>1, <1>2 DEF Issued, Sign, AcceptanceMessage
<1>4. q.id = p.id
  BY <1>1, <1>3 DEF Sign, ApprovalMessage
<1>5. q = p
  BY <1>4 DEF IInv
<1> QED
  BY <1>1, <1>3, <1>5

\* Once enough members have signed, their documents finalize the ceremony
\* (finalize_group, finalize_capsule).
THEOREM EnoughSignaturesFinalize == Spec => []SignedIsEnough
<1>1. ASSUME IInv
      PROVE  SignedIsEnough
  <2>1. ASSUME NEW g \in groups, Promise!Formed(g), NEW m \in g.members
        PROVE  Acceptance(g, m) \in acceptances
    BY <1>1, <2>1, AcceptedIsIssued DEF Promise!Formed
  <2>2. ASSUME NEW p \in capsules, NEW m \in Promise!Approvers(p)
        PROVE  Approval(p, m) \in approvals
    BY <1>1, ApprovedIsIssued DEF Promise!Approvers
  <2>3. \A p \in capsules : Promise!Approvers(p) \in SUBSET p.group.members
    BY DEF Promise!Approvers
  <2>4. ASSUME NEW g \in groups, Promise!Formed(g)
        PROVE  /\ Range([m \in g.members |-> Acceptance(g, m)]) \subseteq acceptances
               /\ FinalizesGroup(g, [m \in g.members |-> Acceptance(g, m)])
    BY <1>1, <2>1, <2>4, UnanimousFinalizes DEF Range
  <2>5. ASSUME NEW p \in capsules, Cardinality(Promise!Approvers(p)) >= p.group.threshold
        PROVE  /\ Range([m \in Promise!Approvers(p) |-> Approval(p, m)]) \subseteq approvals
               /\ FinalizesCapsule(p, [m \in Promise!Approvers(p) |-> Approval(p, m)])
    BY <1>1, <2>2, <2>3, <2>5, ThresholdFinalizes DEF Range
  <2> QED
    BY <2>4, <2>5 DEF SignedIsEnough
<1> QED
  BY <1>1, Inductive, PTL

-----------------------------------------------------------------------------
(* The status of a collection.                                             *)

\* Documents of different members are as many as their places.
LEMMA DifferentMembers ==
  ASSUME NEW S, IsFiniteSet(S), NEW docs, DOMAIN docs = S, NoDuplicates(docs)
  PROVE  /\ IsFiniteSet(Range(docs))
         /\ Cardinality(Range(docs)) = Cardinality(S)
         /\ \A a, b \in Range(docs) : a.member = b.member => a = b
<1> DEFINE at == [i \in S |-> docs[i]]
<1>1. at \in Surjection(S, Range(docs))
  BY DEF Surjection, Range
<1>2. at \in Injection(S, Range(docs))
  <2>1. at \in [S -> Range(docs)]
    BY DEF Range
  <2>2. \A i, j \in S : docs[i] = docs[j] => i = j
    BY DEF NoDuplicates
  <2> QED
    BY <2>1, <2>2 DEF Injection, IsInjective
<1>3. \A a, b \in Range(docs) : a.member = b.member => a = b
  BY DEF NoDuplicates, Range
<1> HIDE DEF at
<1> QED
  BY <1>1, <1>2, <1>3, FS_Surjection

\* The documents given to a command stand at the places 1 to n.
LEMMA ListPlaces ==
  ASSUME NEW S, NEW docs \in Lists(S)
  PROVE  /\ docs = [i \in DOMAIN docs |-> docs[i]]
         /\ \A i \in DOMAIN docs : i \in Nat /\ docs[i] \in S
         /\ \A i \in DOMAIN docs : \A j \in 1..(i - 1) : j \in DOMAIN docs
         /\ IsFiniteSet(DOMAIN docs)
<1>1. PICK n \in 0..MaxCollected : docs \in [1..n -> S]
  BY DEF Lists
<1>2. n \in Nat /\ DOMAIN docs = 1..n
  BY <1>1
<1>3. IsFiniteSet(1..n)
  BY <1>2, FS_Interval
<1> QED
  BY <1>1, <1>2, <1>3

\* What a status counts is usable and from different members, so it is no more
\* than there are members.
LEMMA CountedDocuments ==
  ASSUME NEW S, NEW docs \in Lists(S), NEW usable, NEW M, IsFiniteSet(M),
         \A doc \in usable : doc.member \in M,
         NEW C, C = Counted(docs, usable), NEW R, R = Range(Restrict(docs, C))
  PROVE  /\ IsFiniteSet(C) /\ NoDuplicates(Restrict(docs, C))
         /\ R \subseteq usable
         /\ \A a, b \in R : a.member = b.member => a = b
         /\ Cardinality(R) = Cardinality(C)
         /\ Cardinality(C) \in Nat /\ Cardinality(M) \in Nat
         /\ Cardinality(C) <= Cardinality(M)
         /\ Cardinality(C) = Cardinality(M) => \A m \in M : \E doc \in R : doc.member = m
<1>1. C \in SUBSET DOMAIN docs /\ \A i \in C : docs[i] \in usable
  BY DEF Counted
<1>2. IsFiniteSet(C)
  BY <1>1, ListPlaces, FS_Subset
<1>3. \A i, j \in C : docs[i].member = docs[j].member => i = j
  <2>1. ASSUME NEW i \in C, NEW j \in C, docs[i].member = docs[j].member, i < j
        PROVE  FALSE
    <3>1. i \in Nat /\ j \in Nat /\ i \in DOMAIN docs /\ j \in DOMAIN docs
      BY <1>1, ListPlaces
    <3>2. i # 0
      BY <3>1, ListPlaces DEF Lists
    <3>3. i \in 1..(j - 1)
      BY <2>1, <3>1, <3>2
    <3> QED
      BY <1>1, <2>1, <3>3 DEF Counted
  <2>2. \A i \in C : i \in Nat
    BY <1>1, ListPlaces
  <2> QED
    BY <2>1, <2>2
<1>4. DOMAIN Restrict(docs, C) = C /\ \A i \in C : Restrict(docs, C)[i] = docs[i]
  BY DEF Restrict
<1>5. NoDuplicates(Restrict(docs, C))
  BY <1>3, <1>4 DEF NoDuplicates
<1>6. /\ IsFiniteSet(R) /\ Cardinality(R) = Cardinality(C)
      /\ \A a, b \in R : a.member = b.member => a = b
  BY <1>2, <1>4, <1>5, DifferentMembers
<1>7. R \subseteq usable
  BY <1>1, <1>4 DEF Range
<1> DEFINE by == [doc \in R |-> doc.member]
<1>8. by \in Injection(R, M)
  BY <1>6, <1>7 DEF Injection, IsInjective
<1>9. by \in Surjection(R, M) => \A m \in M : \E doc \in R : doc.member = m
  BY DEF Surjection
<1> HIDE DEF by
<1>10. Cardinality(R) <= Cardinality(M) /\ (Cardinality(R) = Cardinality(M) => by \in Surjection(R, M))
  BY <1>8, FS_Injection
<1>11. Cardinality(C) \in Nat /\ Cardinality(M) \in Nat
  BY <1>2, FS_CardinalityType
<1> QED
  BY <1>2, <1>5, <1>6, <1>7, <1>9, <1>10, <1>11

\* A collection of usable documents of different members is counted completely.
LEMMA AllCounted ==
  ASSUME NEW S, NEW docs \in Lists(S), NEW usable, NoDuplicates(docs), Range(docs) \subseteq usable
  PROVE  Counted(docs, usable) = DOMAIN docs /\ Restrict(docs, DOMAIN docs) = docs
<1>1. \A i \in DOMAIN docs : docs[i] \in usable
  BY DEF Range
<1>2. ASSUME NEW i \in DOMAIN docs, NEW j \in 1..(i - 1)
      PROVE  docs[j].member # docs[i].member
  <2>1. j \in DOMAIN docs /\ i \in Nat /\ j # i
    BY <1>2, ListPlaces
  <2> QED
    BY <2>1 DEF NoDuplicates
<1>3. Restrict(docs, DOMAIN docs) = docs
  BY ListPlaces DEF Restrict
<1> QED
  BY <1>1, <1>2, <1>3 DEF Counted

\* Status and finalization of a group.
LEMMA GroupStatus ==
  ASSUME IInv, NEW g \in groups, NEW docs \in Lists(acceptances),
         NEW C, C = Counted(docs, UsableAcceptances(g))
  PROVE  /\ Ready(Cardinality(g.members), C) <=> FinalizesGroup(g, Restrict(docs, C))
         /\ FinalizesGroup(g, docs) <=> Ready(Cardinality(g.members), C) /\ C = DOMAIN docs
<1> DEFINE usable == UsableAcceptances(g)
           M == g.members
           R == Range(Restrict(docs, C))
<1>1. IsFiniteSet(M) /\ GroupValid(g)
  BY GroupFinite DEF IInv
<1>2. \A doc \in usable : doc.member \in M /\ VerifyAcceptance(g, doc.member, doc)
  BY DEF UsableAcceptances
<1>3. /\ IsFiniteSet(C) /\ NoDuplicates(Restrict(docs, C)) /\ R \subseteq usable
      /\ Cardinality(R) = Cardinality(C)
      /\ Cardinality(C) \in Nat /\ Cardinality(M) \in Nat /\ Cardinality(C) <= Cardinality(M)
      /\ Cardinality(C) = Cardinality(M) => \A m \in M : \E doc \in R : doc.member = m
  <2> HIDE DEF usable, M
  <2>1. C = Counted(docs, usable)
    BY DEF usable
  <2> QED
    BY <1>1, <1>2, <2>1, CountedDocuments
<1>4. Ready(Cardinality(M), C) <=> FinalizesGroup(g, Restrict(docs, C))
  <2>1. ASSUME Ready(Cardinality(M), C) PROVE FinalizesGroup(g, Restrict(docs, C))
    <3>1. Cardinality(C) = Cardinality(M)
      BY <1>3, <2>1 DEF Ready
    <3>2. \A m \in M : \E doc \in R : VerifyAcceptance(g, m, doc)
      BY <1>2, <1>3, <3>1
    <3>3. CertificateValid([group |-> g, acceptances |-> R])
      BY <1>1, <1>3, <3>1, <3>2 DEF CertificateValid
    <3> QED
      BY <1>3, <3>3 DEF FinalizesGroup
  <2>2. ASSUME FinalizesGroup(g, Restrict(docs, C)) PROVE Ready(Cardinality(M), C)
    <3>1. Cardinality(R) = Cardinality(M)
      BY <2>2 DEF FinalizesGroup, CertificateValid
    <3> QED
      BY <1>3, <3>1 DEF Ready
  <2> QED
    BY <2>1, <2>2
<1>5. ASSUME FinalizesGroup(g, docs) PROVE NoDuplicates(docs) /\ Range(docs) \subseteq usable
  <2>1. /\ NoDuplicates(docs) /\ Cardinality(Range(docs)) = Cardinality(M)
        /\ \A m \in M : \E doc \in Range(docs) : VerifyAcceptance(g, m, doc)
    BY <1>5 DEF FinalizesGroup, CertificateValid
  <2>2. IsFiniteSet(Range(docs))
    BY <2>1, ListPlaces, DifferentMembers
  <2>3. PICK of : of = [m \in M |-> CHOOSE doc \in Range(docs) : VerifyAcceptance(g, m, doc)]
    OBVIOUS
  <2>4. \A m \in M : of[m] \in Range(docs) /\ VerifyAcceptance(g, m, of[m])
    BY <2>1, <2>3
  <2>5. of \in Injection(M, Range(docs))
    <3>1. of \in [M -> Range(docs)]
      BY <2>3, <2>4
    <3>2. \A m, k \in M : of[m] = of[k] => m = k
      BY <2>4 DEF VerifyAcceptance
    <3> QED
      BY <3>1, <3>2 DEF Injection, IsInjective
  <2>6. of \in Surjection(M, Range(docs))
    BY <2>1, <2>2, <2>5, FS_Injection
  <2>7. ASSUME NEW doc \in Range(docs) PROVE doc \in usable
    <3>1. PICK m \in M : of[m] = doc
      BY <2>6 DEF Surjection
    <3>2. VerifyAcceptance(g, m, doc) /\ doc.member = m
      BY <2>4, <3>1 DEF VerifyAcceptance
    <3>3. doc \in acceptances
      BY ListPlaces DEF Range
    <3> QED
      BY <3>2, <3>3 DEF UsableAcceptances
  <2> QED
    BY <2>1, <2>7
<1>6. ASSUME FinalizesGroup(g, docs) PROVE Ready(Cardinality(M), C) /\ C = DOMAIN docs
  <2>1. C = DOMAIN docs /\ Restrict(docs, C) = docs
    BY <1>5, <1>6, AllCounted
  <2> QED
    BY <1>4, <1>6, <2>1
<1>7. ASSUME Ready(Cardinality(M), C), C = DOMAIN docs PROVE FinalizesGroup(g, docs)
  <2>1. Restrict(docs, C) = docs
    BY <1>7, ListPlaces DEF Restrict
  <2> QED
    BY <1>4, <1>7, <2>1
<1> QED
  BY <1>4, <1>6, <1>7

\* Status and finalization of a capsule.
LEMMA CapsuleStatus ==
  ASSUME IInv, NEW p \in capsules, NEW docs \in Lists(approvals),
         NEW C, C = Counted(docs, UsableApprovals(p))
  PROVE  /\ Ready(p.group.threshold, C) <=> FinalizesCapsule(p, Restrict(docs, C))
         /\ FinalizesCapsule(p, docs) <=> Ready(p.group.threshold, C) /\ C = DOMAIN docs
<1> DEFINE usable == UsableApprovals(p)
           M == p.group.members
           R == Range(Restrict(docs, C))
<1>1. IsFiniteSet(M) /\ CapsuleValid(p)
  BY GroupFinite DEF IInv, TypeOK
<1>2. \A doc \in usable : doc.member \in M /\ VerifyApproval(p, doc)
  BY DEF UsableApprovals, VerifyApproval
<1>3. /\ IsFiniteSet(C) /\ NoDuplicates(Restrict(docs, C)) /\ R \subseteq usable
      /\ \A a, b \in R : a.member = b.member => a = b
      /\ Cardinality(R) = Cardinality(C) /\ Cardinality(C) <= Cardinality(M)
  <2> HIDE DEF usable, M
  <2>1. C = Counted(docs, usable)
    BY DEF usable
  <2> QED
    BY <1>1, <1>2, <2>1, CountedDocuments
<1>4. Ready(p.group.threshold, C) <=> FinalizesCapsule(p, Restrict(docs, C))
  <2>1. ASSUME Ready(p.group.threshold, C) PROVE FinalizesCapsule(p, Restrict(docs, C))
    <3>1. EnvelopeValid([proposal |-> p, approvals |-> R])
      BY <1>1, <1>2, <1>3, <2>1 DEF EnvelopeValid, Enough, Ready
    <3> QED
      BY <1>3, <3>1 DEF FinalizesCapsule
  <2>2. ASSUME FinalizesCapsule(p, Restrict(docs, C)) PROVE Ready(p.group.threshold, C)
    BY <1>3, <2>2 DEF FinalizesCapsule, EnvelopeValid, Enough, Ready
  <2> QED
    BY <2>1, <2>2
<1>5. ASSUME FinalizesCapsule(p, docs) PROVE Ready(p.group.threshold, C) /\ C = DOMAIN docs
  <2>1. NoDuplicates(docs) /\ \A doc \in Range(docs) : VerifyApproval(p, doc)
    BY <1>5 DEF FinalizesCapsule, EnvelopeValid
  <2>2. Range(docs) \subseteq usable
    BY <2>1, ListPlaces DEF Range, UsableApprovals
  <2>3. C = DOMAIN docs /\ Restrict(docs, C) = docs
    BY <2>1, <2>2, AllCounted
  <2> QED
    BY <1>4, <1>5, <2>3
<1>6. ASSUME Ready(p.group.threshold, C), C = DOMAIN docs PROVE FinalizesCapsule(p, docs)
  <2>1. Restrict(docs, C) = docs
    BY <1>6, ListPlaces DEF Restrict
  <2> QED
    BY <1>4, <1>6, <2>1
<1> QED
  BY <1>4, <1>5, <1>6

\* Whatever documents are collected, in whatever order and however often, a
\* status is ready exactly if what it counts can be finalized, and a collection
\* can be finalized exactly if its status is ready and rejects nothing
\* (group_ceremony_status, capsule_ceremony_status).
THEOREM StatusTellsTheTruth == Spec => []StatusAgrees
<1>1. ASSUME IInv
      PROVE  StatusAgrees
  BY <1>1, GroupStatus, CapsuleStatus, Zenon DEF StatusAgrees
<1> QED
  BY <1>1, Inductive, PTL

=============================================================================
