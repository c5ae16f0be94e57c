----------------------------- MODULE MCCeremony -----------------------------
(* An instance of Ceremony for TLC.                                        *)
EXTENDS Ceremony, TLC

CONSTANTS ann, bob, eve

\* Two members with and without a third one, and a member named twice.
MCMemberLists ==
  {<<ann, bob>>, <<bob, ann>>, <<ann, bob, eve>>, <<bob, ann, eve>>, <<ann, ann>>, <<bob, bob>>}

\* A reader who is a member of one of the groups only, alone or as a witness.
MCRecipientLists == {<<eve>>}

MCWitnessLists == {<<>>, <<eve>>}

\* Digests, and the two members of both groups, are interchangeable.
Permuted == Permutations(Digests) \cup Permutations({ann, bob})
=============================================================================
