------------------------------- MODULE Ceremony -------------------------------
(***************************************************************************)
(* The offline ceremonies of Rebyte Chain (crates/rebyte-chain: group.rs,  *)
(* ceremony.rs, envelope.rs; commands in                                   *)
(* crates/rebyte-cli/src/chain_command.rs): forming a group, proposing,    *)
(* approving and finalizing a capsule, opening it.                         *)
(*                                                                         *)
(* Everything travels as files by hand.  A document, once signed, exists   *)
(* for good and may be given late, twice, or to the wrong ceremony; a few  *)
(* are damaged on the way so that they carry a signature made for another  *)
(* document.  Signatures are not forged.  A group or capsule proposal is   *)
(* identified by a digest of its content with a fresh nonce; digests do    *)
(* not collide.                                                            *)
(***************************************************************************)
EXTENDS Integers, Sequences, FiniteSets, Functions

CONSTANTS
  Identities,      \* identity packages
  Digests,         \* identifiers; their number bounds the proposals
  MemberLists,     \* member lists given to group create
  Thresholds,      \* thresholds given to group create
  RecipientLists,  \* recipient lists given to capsule create
  WitnessLists,    \* witness lists given to capsule create
  Artifacts,       \* canonical artifacts
  Patches,         \* canonical semantic patches
  MaxGroups,       \* bound on groups proposed
  MaxEnvelopes,    \* bound on envelopes finalized
  MaxRebound,      \* bound on damaged documents
  MaxCollected     \* bound on the documents given to one command

ASSUME CeremonyAssumption ==
  /\ IsFiniteSet(Identities)
  /\ MemberLists \subseteq Seq(Identities)
  /\ RecipientLists \subseteq Seq(Identities)
  /\ WitnessLists \subseteq Seq(Identities)
  /\ Thresholds \subseteq Nat
  /\ Artifacts \cap Patches = {}

VARIABLES
  groups,        \* group proposals
  acceptances,   \* acceptance documents in circulation
  certificates,  \* group certificates
  capsules,      \* capsule proposals
  approvals,     \* approval documents in circulation
  envelopes,     \* finalized envelopes
  opened,        \* [by, capsule]: content handed to a recipient
  signed         \* history: signatures that members have made

vars == <<groups, acceptances, certificates, capsules, approvals, envelopes,
          opened, signed>>

-----------------------------------------------------------------------------
(* Documents and signatures                                                *)

AcceptanceMessage(g, m) == [domain |-> "acceptance", subject |-> g.id, member |-> m]

ApprovalMessage(p, m) ==
  [domain |-> "approval", group |-> p.group.id, subject |-> p.id, member |-> m]

Sign(i, message) == [by |-> i, over |-> message]

Acceptance(g, m) ==
  [group |-> g.id, member |-> m, signature |-> Sign(m, AcceptanceMessage(g, m))]

Approval(p, m) ==
  [group |-> p.group.id, proposal |-> p.id, member |-> m,
   signature |-> Sign(m, ApprovalMessage(p, m))]

\* What every list of participants must be: no one twice, not empty.
Canonical(list) == list # <<>> /\ IsInjective(list)

-----------------------------------------------------------------------------
(* Validation                                                              *)

\* Mutant: a threshold of zero passes.
GroupValidZero(g) == g.members # {} /\ g.threshold \in 0..Cardinality(g.members)

GroupValid(g) == g.members # {} /\ g.threshold \in 1..Cardinality(g.members)

\* Mutant: the signature is checked over what the document claims.
VerifyAcceptanceAsClaimed(g, m, doc) ==
  /\ doc.member = m
  /\ doc.signature = Sign(m, [AcceptanceMessage(g, m) EXCEPT !.subject = doc.group])

VerifyAcceptance(g, m, doc) ==
  /\ doc.group = g.id /\ doc.member = m
  /\ doc.signature = Sign(m, AcceptanceMessage(g, m))

\* The sorted acceptances are compared with the sorted members one by one, so
\* they are one for each member.
CertificateValid(c) ==
  /\ GroupValid(c.group)
  /\ Cardinality(c.acceptances) = Cardinality(c.group.members)
  /\ \A m \in c.group.members : \E doc \in c.acceptances : VerifyAcceptance(c.group, m, doc)

\* The identities that hold a key slot: witnesses a share, recipients the key.
Holders(p) == IF p.release = "quorum" THEN p.witnesses ELSE p.recipients

ContentValid(kind, content) ==
  \/ kind = "artifact" /\ content \in Artifacts
  \/ kind = "patch" /\ content \in Patches

CapsuleValid(p) ==
  /\ CertificateValid([group |-> p.group, acceptances |-> p.acceptances])
  /\ Holders(p) # {} /\ p.recipients # {}

\* Mutant: an approval of any proposal of the group is enough.
VerifyApprovalOfGroup(p, doc) ==
  /\ doc.group = p.group.id
  /\ doc.member \in p.group.members
  /\ doc.signature.by = doc.member

VerifyApproval(p, doc) ==
  /\ doc.group = p.group.id /\ doc.proposal = p.id
  /\ doc.member \in p.group.members
  /\ doc.signature = Sign(doc.member, ApprovalMessage(p, doc.member))

\* Mutant: one approval more than the threshold.
EnoughAndOne(p, count) == count > p.group.threshold

Enough(p, count) == count >= p.group.threshold

EnvelopeValid(e) ==
  /\ Enough(e.proposal, Cardinality(e.approvals))
  /\ Cardinality(e.approvals) <= Cardinality(e.proposal.group.members)
  /\ \A a, b \in e.approvals : a.member = b.member => a = b
  /\ \A doc \in e.approvals : VerifyApproval(e.proposal, doc)
  /\ CapsuleValid(e.proposal)

\* An envelope file keeps the member and the signature of an approval; the
\* reader fills in the rest from the proposal.
FromBytes(e) ==
  [e EXCEPT !.approvals = {[group |-> e.proposal.group.id, proposal |-> e.proposal.id,
                            member |-> doc.member, signature |-> doc.signature] : doc \in @}]

-----------------------------------------------------------------------------
(* Collections of documents                                                *)

\* The documents given to a command, in order.
Lists(docs) == UNION {[1..n -> docs] : n \in 0..MaxCollected}

\* Different documents; a repeated one only makes finalization refuse, and the
\* order does not matter to it (StatusAgrees has both).
Selections(docs) ==
  {[doc \in chosen |-> doc] : chosen \in {x \in SUBSET docs : Cardinality(x) <= MaxCollected}}

NoDuplicates(docs) == \A i, j \in DOMAIN docs : docs[i].member = docs[j].member => i = j

FinalizesGroup(g, docs) ==
  /\ NoDuplicates(docs)
  /\ CertificateValid([group |-> g, acceptances |-> Range(docs)])

FinalizesCapsule(p, docs) ==
  /\ NoDuplicates(docs)
  /\ EnvelopeValid([proposal |-> p, approvals |-> Range(docs)])

\* Mutant: every usable document counts.
CountedTwice(docs, usable) == {i \in DOMAIN docs : docs[i] \in usable}

\* The positions that a status counts: the first usable document of a member.
Counted(docs, usable) ==
  {i \in DOMAIN docs :
     /\ docs[i] \in usable
     /\ \A j \in 1..(i - 1) : docs[j].member = docs[i].member => docs[j] \notin usable}

UsableAcceptances(g) ==
  {doc \in acceptances : doc.member \in g.members /\ VerifyAcceptance(g, doc.member, doc)}

UsableApprovals(p) == {doc \in approvals : VerifyApproval(p, doc)}

Ready(required, counted) == Cardinality(counted) >= required

-----------------------------------------------------------------------------
Fresh(id) == \A x \in groups \cup capsules : x.id # id

Init ==
  /\ groups = {} /\ acceptances = {} /\ certificates = {}
  /\ capsules = {} /\ approvals = {} /\ envelopes = {}
  /\ opened = {} /\ signed = {}

\* chain group create
CreateGroup(members, threshold) ==
  /\ Cardinality(groups) < MaxGroups
  /\ Canonical(members)
  /\ \E id \in Digests :
       LET g == [id |-> id, threshold |-> threshold, members |-> Range(members)]
       IN  /\ Fresh(id)
           /\ GroupValid(g)
           /\ groups' = groups \cup {g}
  /\ UNCHANGED <<acceptances, certificates, capsules, approvals, envelopes, opened,
                 signed>>

\* chain group accept
AcceptGroup(g, m) ==
  /\ GroupValid(g)
  /\ m \in g.members
  /\ acceptances' = acceptances \cup {Acceptance(g, m)}
  /\ signed' = signed \cup {Sign(m, AcceptanceMessage(g, m))}
  /\ UNCHANGED <<groups, certificates, capsules, approvals, envelopes, opened>>

\* chain group finalize
FinalizeGroup(g, docs) ==
  /\ FinalizesGroup(g, docs)
  /\ certificates' = certificates \cup {[group |-> g, acceptances |-> Range(docs)]}
  /\ UNCHANGED <<groups, acceptances, capsules, approvals, envelopes, opened, signed>>

\* chain capsule create
CreateCapsule(c, kind, content, release, recipients, witnesses) ==
  /\ CertificateValid(c)
  /\ ContentValid(kind, content)
  /\ Canonical(recipients)
  /\ witnesses # <<>> => Canonical(witnesses)
  /\ release = "quorum" <=> witnesses # <<>>
  /\ \E id \in Digests :
       LET p == [id |-> id, group |-> c.group, acceptances |-> c.acceptances,
                 kind |-> kind, content |-> content, release |-> release,
                 recipients |-> Range(recipients), witnesses |-> Range(witnesses)]
       IN  /\ Fresh(id)
           /\ CapsuleValid(p)
           /\ capsules' = capsules \cup {p}
  /\ UNCHANGED <<groups, acceptances, certificates, approvals, envelopes, opened,
                 signed>>

\* chain capsule approve
ApproveCapsule(p, m) ==
  /\ CapsuleValid(p)
  /\ m \in p.group.members
  /\ approvals' = approvals \cup {Approval(p, m)}
  /\ signed' = signed \cup {Sign(m, ApprovalMessage(p, m))}
  /\ UNCHANGED <<groups, acceptances, certificates, capsules, envelopes, opened>>

\* chain capsule finalize
FinalizeCapsule(p, docs) ==
  /\ Cardinality(envelopes) < MaxEnvelopes
  /\ FinalizesCapsule(p, docs)
  /\ envelopes' = envelopes \cup {[proposal |-> p, approvals |-> Range(docs)]}
  /\ UNCHANGED <<groups, acceptances, certificates, capsules, approvals, opened,
                 signed>>

\* recipient_cek and decrypt_content: the recipient gets the content key.
Opens(e, r) ==
  /\ EnvelopeValid(e)
  /\ e.proposal.release # "quorum"
  /\ r \in Holders(e.proposal)
  /\ r \in e.proposal.recipients
  /\ ContentValid(e.proposal.kind, e.proposal.content)

Hand(e, r) ==
  /\ Opens(FromBytes(e), r)
  /\ opened' = opened \cup {[by |-> r, capsule |-> e.proposal]}
  /\ UNCHANGED <<groups, acceptances, certificates, capsules, approvals, envelopes,
                 signed>>

\* chain capsule open
OpenCapsule(e, r) == e.proposal.kind = "artifact" /\ Hand(e, r)

\* chain capsule patch
OpenSemanticPatch(e, r) == e.proposal.kind = "patch" /\ Hand(e, r)

Rebound ==
  {doc \in acceptances : doc.signature.by # doc.member \/ doc.signature.over.subject # doc.group}
    \cup {doc \in approvals : doc.signature.by # doc.member \/ doc.signature.over.subject # doc.proposal}

\* An acceptance that carries the signature of another one.
ReboundAcceptance(a, b) ==
  /\ Cardinality(Rebound) < MaxRebound
  /\ acceptances' = acceptances \cup {[a EXCEPT !.signature = b.signature]}
  /\ UNCHANGED <<groups, certificates, capsules, approvals, envelopes, opened,
                 signed>>

\* An approval that carries the signature of another one.
ReboundApproval(a, b) ==
  /\ Cardinality(Rebound) < MaxRebound
  /\ approvals' = approvals \cup {[a EXCEPT !.signature = b.signature]}
  /\ UNCHANGED <<groups, acceptances, certificates, capsules, envelopes, opened,
                 signed>>

Next ==
  \/ \E members \in MemberLists, t \in Thresholds : CreateGroup(members, t)
  \/ \E g \in groups, m \in Identities : AcceptGroup(g, m)
  \/ \E g \in groups, docs \in Selections(acceptances) : FinalizeGroup(g, docs)
  \/ \E c \in certificates, kind \in {"artifact", "patch"}, content \in Artifacts \cup Patches,
        release \in {"direct", "quorum"}, recipients \in RecipientLists,
        witnesses \in WitnessLists :
       CreateCapsule(c, kind, content, release, recipients, witnesses)
  \/ \E p \in capsules, m \in Identities : ApproveCapsule(p, m)
  \/ \E p \in capsules, docs \in Selections(approvals) : FinalizeCapsule(p, docs)
  \/ \E e \in envelopes, r \in Identities : OpenCapsule(e, r)
  \/ \E e \in envelopes, r \in Identities : OpenSemanticPatch(e, r)
  \/ \E a, b \in acceptances : ReboundAcceptance(a, b)
  \/ \E a, b \in approvals : ReboundApproval(a, b)

Spec == Init /\ [][Next]_vars

-----------------------------------------------------------------------------
GroupId == [id : Digests, threshold : Nat \ {0}, members : SUBSET Identities]

\* Types of what is kept: certificates, capsules and envelopes are made from what
\* was in circulation, and every document carries a signature that was made.
TypeOK ==
  /\ groups \subseteq GroupId
  /\ acceptances \subseteq [group : {g.id : g \in groups}, member : Identities, signature : signed]
  /\ certificates \subseteq [group : groups, acceptances : SUBSET acceptances]
  /\ \A p \in capsules :
       /\ [group |-> p.group, acceptances |-> p.acceptances] \in certificates
       /\ p.recipients \subseteq Identities /\ p.witnesses \subseteq Identities
       /\ ContentValid(p.kind, p.content)
  /\ approvals \subseteq [group : {g.id : g \in groups}, proposal : {p.id : p \in capsules},
                         member : Identities, signature : signed]
  /\ envelopes \subseteq [proposal : capsules, approvals : SUBSET approvals]
  /\ opened \subseteq [by : Identities, capsule : capsules]

\* What the members have done, for the abstract specification.
Accepted ==
  {[member |-> s.by, group |-> s.over.subject] : s \in {x \in signed : x.over.domain = "acceptance"}}

Approved ==
  {[member |-> s.by, capsule |-> s.over.subject] : s \in {x \in signed : x.over.domain = "approval"}}

Promise == INSTANCE Consensus WITH accepted <- Accepted, approved <- Approved

\* A recipient reads a capsule only if every member accepted the group and a
\* threshold of distinct members approved this very capsule, whatever
\* documents were collected, repeated, mixed up or damaged on the way
\* (finalize_group, finalize_capsule, CapsuleEnvelope::validate, open_capsule).
Implements == Promise!Spec

\* The status of a collection and the finalization agree: a status is ready
\* exactly if the documents it counts can be finalized, and a collection can be
\* finalized exactly if its status is ready and rejects nothing
\* (group_ceremony_status, capsule_ceremony_status).
StatusAgrees ==
  /\ \A g \in groups :
       LET usable == UsableAcceptances(g)
       IN  \A docs \in Lists(acceptances) :
             LET counted == Counted(docs, usable)
                 ready == Ready(Cardinality(g.members), counted)
             IN  /\ ready <=> FinalizesGroup(g, Restrict(docs, counted))
                 /\ FinalizesGroup(g, docs) <=> ready /\ counted = DOMAIN docs
  /\ \A p \in capsules :
       LET usable == UsableApprovals(p)
       IN  \A docs \in Lists(approvals) :
             LET counted == Counted(docs, usable)
                 ready == Ready(p.group.threshold, counted)
             IN  /\ ready <=> FinalizesCapsule(p, Restrict(docs, counted))
                 /\ FinalizesCapsule(p, docs) <=> ready /\ counted = DOMAIN docs

\* Once enough members have signed, their documents are in circulation and
\* finalize the ceremony, no matter what else is (finalize_group,
\* finalize_capsule).
SignedIsEnough ==
  /\ \A g \in groups : Promise!Formed(g) =>
       LET docs == [m \in g.members |-> Acceptance(g, m)]
       IN  Range(docs) \subseteq acceptances /\ FinalizesGroup(g, docs)
  /\ \A p \in capsules : Cardinality(Promise!Approvers(p)) >= p.group.threshold =>
       LET docs == [m \in Promise!Approvers(p) |-> Approval(p, m)]
       IN  Range(docs) \subseteq approvals /\ FinalizesCapsule(p, docs)

\* A finalized envelope reads back as it was written, and each of its
\* recipients can open it from then on (CapsuleEnvelope::to_bytes and from_bytes,
\* create_proposal_with_holders, recipient_cek).
EnvelopesStayOpenable ==
  \A e \in envelopes :
    /\ FromBytes(e) = e
    /\ e.proposal.release # "quorum" =>
         \A r \in e.proposal.recipients : Opens(FromBytes(e), r)
=============================================================================
