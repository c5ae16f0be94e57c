---------------------------- MODULE ChainCapsule ----------------------------
(***************************************************************************)
(* Protected capsules (crates/rebyte-chain/src/envelope.rs): sealing some  *)
(* content under each release policy, and the ways back to it that need no *)
(* other person: a recipient's slot, and a sequence of keys.               *)
(*                                                                         *)
(* A creation o is the command line of `chain capsule create`: names for   *)
(* the identity files, bytes for the solution files.  The randomness one   *)
(* proposal draws (nonces, salts, content key, polynomial) is in o too, so *)
(* that o determines the proposal.  Content is its own digest.             *)
(***************************************************************************)
EXTENDS AccessContract

CONSTANTS
  Identity,          \* the public documents of the world, by name
  Members,           \* the names of the group, in order, and what it asks
  CapsuleThreshold,
  NoBox              \* the absence of a box

Name == DOMAIN Identity
GroupId == "group"
Id(n) == Identity[n].id
Ids(names) == [i \in 1..Len(names) |-> Id(names[i])]

\* Authenticated encryption, with a key and to a public key.
Box(key, aad, message) == [key |-> key, aad |-> aad, message |-> message]
Opens(box, key, aad) == box.key = key /\ box.aad = aad
single_shot_seal(to, info, aad, message) == [to |-> to, info |-> info, aad |-> aad, message |-> message]
single_shot_open(box, ikm, info, aad) == box.to = EncryptionKey(ikm) /\ box.info = info /\ box.aad = aad

\* What is bound into the boxes of a proposal.
proposal_core(contract, nonce) == <<"core", contract.id, nonce>>
payload_aad(core) == <<"payload", core>>
challenge_aad(core) == <<"challenge", core>>
shard_aad(core, index) == <<"shard", index, core>>
key_slot_info(nonce, holder, release) == <<release.kind, GroupId, nonce, holder>>
sequence_slot_info(nonce, holder, position) == <<"sequence", GroupId, nonce, holder, position>>

sequence_principal_for(ids) == <<"sequence-principal", ids>>
HasDuplicates(s) == \E i, j \in 1..Len(s) : i < j /\ s[i] = s[j]

\* canonical_identities sorts by id, and refuses a repeated identity.
Canonical(names) == SortedBy(names, names)
canonical_identities(names) ==
  FirstError(<< <<Len(names) \notin 1..MaxPrincipals, "LimitExceeded">>,
                <<HasDuplicates(names), "DuplicateIdentity">> >>)

\* A patch document must be in its canonical form to be protected.
validate_plaintext_content(content, kind) ==
  FirstError(<< <<kind = "ExactArtifact" /\ content.type # "artifact", "InvalidArtifact">>,
                <<kind = "SemanticPatch" /\ (content.type # "patch" \/ ~content.canonical),
                  "InvalidContent">> >>)

\* An exported error of the contract crate.
map_contract_error(e) == IF e \in {Passed, "LimitExceeded"} THEN e ELSE "InvalidContract"

-----------------------------------------------------------------------------
(* Proposals.                                                              *)

\* validate_contract_bindings, where principals are the holders of the slots,
\* or the sequences of the recipes.
BindingError(contract, content, principals) ==
  FirstError(<< <<ToBytesError(contract) # Passed, "InvalidContract">>,
                <<\/ contract.group # GroupId \/ contract.seal_threshold # CapsuleThreshold
                  \/ contract.content.digest # content, "InvalidContract">>,
                <<contract.controllers # Ids(Members) \/ "Decrypt" \notin contract.capabilities,
                  "InvalidContract">>,
                <<HasDuplicates(principals), "InvalidContract">>,
                <<IF contract.release.kind = "Quorum" THEN contract.release.witnesses # principals
                  ELSE contract.recipients # principals, "InvalidContract">> >>)

\* The principals a proposal names: its holders, or its sequences.
Principals(p) ==
  IF p.contract.release.kind # "KeySequence" THEN [i \in 1..Len(p.slots) |-> p.slots[i].holder]
  ELSE canonical_principals([i \in 1..Len(p.slots) |->
         sequence_principal_for(Append(p.recipes[i], p.slots[i].holder))])

\* CapsuleProposal::validate.
ProposalError(p) ==
  LET release == p.contract.release
      recipesMatch == IF release.kind = "KeySequence"
                      THEN /\ Len(p.recipes) = Len(p.slots)
                           /\ \A r \in Range(p.recipes) : Len(r) = release.depth - 1
                      ELSE p.recipes = <<>>
  IN FirstError(
       << <<Len(p.slots) \notin 1..MaxPrincipals, "LimitExceeded">>,
          <<(release.kind = "Challenge") # (p.challenge # NoBox), "BindingMismatch">>,
          <<IF release.kind = "Sharded" THEN Len(p.shards) # Len(release.shards) ELSE p.shards # <<>>,
            "BindingMismatch">>,
          <<~recipesMatch, "BindingMismatch">>,
          <<\E i \in 1..(Len(p.slots) - 1) : p.slots[i].holder = p.slots[i + 1].holder, "DuplicateIdentity">>,
          <<\E i \in 1..(Len(p.slots) - 1) : Rank(p.slots[i].holder) > Rank(p.slots[i + 1].holder),
            "NonCanonicalOrder">>,
          <<recipesMatch /\ BindingError(p.contract, p.content, Principals(p)) # Passed, "InvalidContract">> >>)

\* A proposal with what validate says of it: a function of the proposal, which
\* every reader of it computes again.
Validated(p) == [p EXCEPT !.error = ProposalError(p)]

\* The contract of a creation, and its proposal without slots.
ContractOf(o, kind, principals, release) ==
  Contract(o.nonce, GroupId, Ids(Members), CapsuleThreshold, principals,
           IF kind = "SemanticPatch" THEN APPLY_PATCH ELSE APPLY_EXACT,
           [kind |-> kind, digest |-> o.content], release)
Unslotted(o, contract) ==
  [contract |-> contract, nonce |-> o.nonce, content |-> o.content, challenge |-> NoBox, shards |-> <<>>,
   recipes |-> <<>>, slots |-> <<>>, error |-> Passed,
   payload |-> Box(o.cek, payload_aad(proposal_core(contract, o.nonce)), o.content)]

\* key_material_for_holders: the content key, or a share of it each.
key_material_for_holders(o, contract, count) ==
  IF contract.release.kind = "Quorum" THEN split_secret(o.cek, count, o.polynomial)
  ELSE [i \in 1..count |-> o.cek]

\* create_proposal_with_holders; wraps are the boxes of a challenge.
create_proposal_with_holders(o, contract, holders, challenge, shards) ==
  LET sorted == Canonical(holders)
      core == proposal_core(contract, o.nonce)
      material == key_material_for_holders(o, contract, Len(sorted))
      slots == [i \in 1..Len(sorted) |->
                 [holder |-> Id(sorted[i]),
                  box |-> single_shot_seal(Identity[sorted[i]].encryption,
                            key_slot_info(o.nonce, Id(sorted[i]), contract.release), core, material[i])]]
  IN Validated([Unslotted(o, contract) EXCEPT !.challenge = challenge, !.shards = shards, !.slots = slots])

-----------------------------------------------------------------------------
(* Creation under each policy.                                             *)

\* create_default_content_proposal and create_default_quorum_proposal.
KindOf(o) == IF o.patch THEN "SemanticPatch" ELSE "ExactArtifact"
QuorumOf(o) ==
  Quorum(Ids(o.witnesses), IF o.threshold = 0 THEN Len(o.witnesses) ELSE o.threshold, o.notBefore, o.maximum)
create_default_proposal(o) ==
  LET release == IF o.witnesses = <<>> THEN Direct ELSE QuorumOf(o)
      contract == ContractOf(o, KindOf(o), Ids(o.recipients), release)
      holders == IF o.witnesses = <<>> THEN o.recipients ELSE o.witnesses
      built == create_proposal_with_holders(o, contract, holders, NoBox, <<>>)
      early == FirstError(
        << <<validate_plaintext_content(o.content, KindOf(o)) # Passed,
             validate_plaintext_content(o.content, KindOf(o))>>,
           <<canonical_identities(o.recipients) # Passed, canonical_identities(o.recipients)>>,
           <<o.witnesses # <<>> /\ canonical_identities(o.witnesses) # Passed,
             canonical_identities(o.witnesses)>>,
           <<ReleaseError(release) # Passed, map_contract_error(ReleaseError(release))>>,
           <<ContractError(contract) # Passed, map_contract_error(ContractError(contract))>> >>)
  IN [error |-> IF early # Passed THEN early ELSE built.error, proposal |-> built]

\* The slots and the recipes of a sequence capsule are in the order of the
\* outermost identities.
SequenceOrder(sequences) == SortedBy(sequences, [i \in 1..Len(sequences) |-> Last(sequences[i])])

\* One slot: a layer for every identity, the first innermost.
SequenceSlot(o, core, sequence) ==
  LET layer[i \in 0..Len(sequence)] ==
        IF i = 0 THEN o.cek
        ELSE single_shot_seal(Identity[sequence[i]].encryption,
                              sequence_slot_info(o.nonce, Id(sequence[i]), i), core, layer[i - 1])
  IN layer[Len(sequence)]

\* create_key_sequence_capsule_proposal and the creation it ends in.
create_key_sequence_capsule_proposal(o) ==
  LET depth == Len(o.sequences[1])
      uniform == \A s \in Range(o.sequences) : Len(s) = depth
      recipients == [i \in 1..Len(o.sequences) |-> sequence_principal_for(Ids(o.sequences[i]))]
      contract == ContractOf(o, "ExactArtifact", recipients, KeySequence(depth))
      ordered == SequenceOrder(o.sequences)
      core == proposal_core(contract, o.nonce)
      early == FirstError(
        << <<~uniform, "InvalidContract">>,
           <<ReleaseError(KeySequence(depth)) # Passed, "InvalidContract">>,
           <<\E s \in Range(o.sequences) : HasDuplicates(s), "DuplicateIdentity">>,
           <<ContractError(contract) # Passed, map_contract_error(ContractError(contract))>>,
           <<validate_plaintext_content(o.content, "ExactArtifact") # Passed, "InvalidArtifact">> >>)
  IN IF early # Passed THEN [error |-> early]
     ELSE LET recipes == [i \in 1..Len(ordered) |-> Ids(Front(ordered[i]))]
              slots == [i \in 1..Len(ordered) |->
                         [holder |-> Id(Last(ordered[i])), box |-> SequenceSlot(o, core, ordered[i])]]
              built == Validated([Unslotted(o, contract) EXCEPT !.recipes = recipes, !.slots = slots])
          IN [error |-> built.error, proposal |-> built]

-----------------------------------------------------------------------------
(* Opening.  d is a private document that was unlocked, and e a proposal   *)
(* the group approved; a result is [error, content].                       *)

Failed(error) == [error |-> error]
Got(content) == [error |-> Passed, content |-> content]

\* decrypt_payload_core.
decrypt_payload_core(e, cek) ==
  LET error == FirstError(
        << <<e.error # Passed, e.error>>,
           <<~Opens(e.payload, cek, payload_aad(proposal_core(e.contract, e.nonce))), "CryptographicFailure">>,
           <<e.payload.message # e.contract.content.digest, "IntegrityMismatch">>,
           <<validate_plaintext_content(e.payload.message, e.contract.content.kind) # Passed,
             "InvalidContent">> >>)
  IN IF error # Passed THEN Failed(error) ELSE Got(e.payload.message)

SlotsOf(e, id) == {i \in 1..Len(e.slots) : e.slots[i].holder = id}

recipient_cek(e, d) ==
  LET mine == SlotsOf(e, d.public.id)
      box == e.slots[CHOOSE i \in mine : TRUE].box
      info == key_slot_info(e.nonce, d.public.id, e.contract.release)
      error == FirstError(
        << <<e.error # Passed, e.error>>,
           <<e.contract.release.kind \notin {"Direct", "Challenge", "Sharded"}, "UnsupportedReleasePolicy">>,
           <<"Decrypt" \notin e.contract.capabilities, "InvalidContract">>,
           <<mine = {}, "NotRecipient">> >>)
  IN IF error # Passed THEN Failed(error)
     ELSE IF ~single_shot_open(box, d.box.ikm, info, proposal_core(e.contract, e.nonce))
          THEN Failed("CryptographicFailure") ELSE Got(box.message)

\* open_capsule and open_semantic_patch; kind is the content they are for.
open_content(e, d, kind) ==
  LET cek == recipient_cek(e, d) IN
  IF e.contract.content.kind # kind THEN Failed("InvalidContent")
  ELSE IF cek.error # Passed THEN cek
  ELSE IF d.public.id \notin Range(e.contract.recipients) THEN Failed("NotRecipient")
  ELSE decrypt_payload_core(e, cek.content)

\* One layer of a sequence slot: what the key at its position finds in the
\* layer around it.
OpenLayer(e, keys, outer, position) ==
  LET d == keys[position]
      info == sequence_slot_info(e.nonce, d.public.id, position)
  IN IF outer.error # Passed THEN outer
     ELSE IF ~single_shot_open(outer.content, d.box.ikm, info, proposal_core(e.contract, e.nonce))
          THEN Failed("CryptographicFailure") ELSE Got(outer.content.message)

open_key_sequence_capsule(e, keys) ==
  LET depth == e.contract.release.depth
      ids == [i \in 1..Len(keys) |-> keys[i].public.id]
      slots == {i \in 1..Len(e.slots) : Append(e.recipes[i], e.slots[i].holder) = ids}
      error == FirstError(
        << <<e.error # Passed, e.error>>,
           <<e.contract.content.kind # "ExactArtifact", "InvalidContent">>,
           <<"Decrypt" \notin e.contract.capabilities, "InvalidContract">>,
           <<Len(keys) # depth, "NotRecipient">>,
           <<slots = {}, "NotRecipient">> >>)
  IN IF e.contract.release.kind # "KeySequence" THEN Failed("UnsupportedReleasePolicy")
     ELSE IF error # Passed THEN Failed(error)
     ELSE LET outer == e.slots[CHOOSE i \in slots : TRUE].box
              opened[i \in 0..depth] ==
                IF i = 0 THEN Got(outer) ELSE OpenLayer(e, keys, opened[i - 1], depth + 1 - i)
          IN IF opened[depth].error # Passed THEN opened[depth]
             ELSE decrypt_payload_core(e, opened[depth].content)

=============================================================================
