------------------------------ MODULE Consensus ------------------------------
(***************************************************************************)
(* What a Rebyte Chain ceremony promises, without documents, signatures or *)
(* files: a group exists once every member has accepted it, only such a    *)
(* group proposes capsules, its members approve them, and a recipient      *)
(* reads a capsule only when as many distinct members as the group demands *)
(* have approved exactly that capsule.                                     *)
(*                                                                         *)
(* A group is a record with fields id, members and threshold, a capsule    *)
(* one with fields id, group, recipients and release; their other fields   *)
(* do not matter here.                                                     *)
(***************************************************************************)
EXTENDS Integers, FiniteSets

VARIABLES
  groups,    \* groups proposed
  accepted,  \* [member, group]: member accepted the group with this id
  capsules,  \* capsules proposed
  approved,  \* [member, capsule]: member approved the capsule with this id
  opened     \* [by, capsule]: the content of capsule was handed to by

vars == <<groups, accepted, capsules, approved, opened>>

\* Formation is unanimous.
Formed(g) == \A m \in g.members : [member |-> m, group |-> g.id] \in accepted

Approvers(c) == {m \in c.group.members : [member |-> m, capsule |-> c.id] \in approved}

Authorized(c) == Formed(c.group) /\ Cardinality(Approvers(c)) >= c.group.threshold

Fresh(id) == \A x \in groups \cup capsules : x.id # id

Init == groups = {} /\ accepted = {} /\ capsules = {} /\ approved = {} /\ opened = {}

ProposeGroup ==
  /\ \E g \in groups' : Fresh(g.id) /\ groups' = groups \cup {g}
  /\ UNCHANGED <<accepted, capsules, approved, opened>>

Accept ==
  /\ \E g \in groups : \E m \in g.members :
       accepted' = accepted \cup {[member |-> m, group |-> g.id]}
  /\ UNCHANGED <<groups, capsules, approved, opened>>

ProposeCapsule ==
  /\ \E c \in capsules' :
       Fresh(c.id) /\ c.group \in groups /\ Formed(c.group) /\ capsules' = capsules \cup {c}
  /\ UNCHANGED <<groups, accepted, approved, opened>>

Approve ==
  /\ \E c \in capsules : \E m \in c.group.members :
       approved' = approved \cup {[member |-> m, capsule |-> c.id]}
  /\ UNCHANGED <<groups, accepted, capsules, opened>>

\* The recipients of a quorum capsule get it by release grants (QuorumRelease).
Open ==
  /\ \E c \in capsules : \E r \in c.recipients :
       /\ Authorized(c)
       /\ c.release # "quorum"
       /\ opened' = opened \cup {[by |-> r, capsule |-> c]}
  /\ UNCHANGED <<groups, accepted, capsules, approved>>

Next == ProposeGroup \/ Accept \/ ProposeCapsule \/ Approve \/ Open

Spec == Init /\ [][Next]_vars
=============================================================================
