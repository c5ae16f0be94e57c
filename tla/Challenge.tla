------------------------------ MODULE Challenge ------------------------------
(***************************************************************************)
(* Computational challenges (crates/rebyte-chain/src/challenge.rs): a      *)
(* capsule that opens to whoever knows a solution, or enough of several    *)
(* sub-solutions, the claims of solvers and the awards of judges.          *)
(*                                                                         *)
(* A solution is a sequence of bytes.  Argon2id is a perfect function of   *)
(* the solution, the salt and the cost.                                    *)
(***************************************************************************)
EXTENDS ChainCapsule

CONSTANTS
  LF, CR,            \* the two bytes a solution file may end in
  MaxSolutionBytes

\* read_solution_file: one line ending is taken off.
\* Mutant: a line ending of two bytes loses only the last.
read_solution_file_lf(bytes) == IF bytes # <<>> /\ Last(bytes) = LF THEN Front(bytes) ELSE bytes

read_solution_file(bytes) ==
  IF Len(bytes) >= 2 /\ SubSeq(bytes, Len(bytes) - 1, Len(bytes)) = <<CR, LF>> THEN Front(Front(bytes))
  ELSE IF bytes # <<>> /\ Last(bytes) = LF THEN Front(bytes) ELSE bytes

derive_key_at(solution, salt, memory, iterations) == <<"argon2id", solution, salt, memory, iterations>>
SolutionCheck(solution) == <<Len(solution) \notin 1..MaxSolutionBytes, "InvalidContent">>
solution_commitment(key) == <<"commitment", key>>
shard_commitment(key) == <<"shard-commitment", key>>
sharded_claim_key(cek) == <<"sharded-claim-key", cek>>

-----------------------------------------------------------------------------
(* Creation.                                                               *)

\* create_challenge_capsule_proposal.
create_challenge_capsule_proposal(o) ==
  LET solution == read_solution_file(o.solutions[1])
      key == derive_key_at(solution, o.nonce, o.memory, o.iterations)
      release == Challenge(o.memory, o.iterations, solution_commitment(key), o.nonce, o.hint)
      contract == ContractOf(o, "ExactArtifact", Ids(o.recipients), release)
      wrapped == Box(key, challenge_aad(proposal_core(contract, o.nonce)), o.cek)
      built == create_proposal_with_holders(o, contract, o.recipients, wrapped, <<>>)
      early == FirstError(
        << <<ReleaseError(release) # Passed, "InvalidContract">>,
           SolutionCheck(solution),
           <<ContractError(contract) # Passed, "InvalidContract">>,
           <<validate_plaintext_content(o.content, "ExactArtifact") # Passed, "InvalidArtifact">>,
           <<canonical_identities(o.recipients) # Passed, canonical_identities(o.recipients)>> >>)
  IN [error |-> IF early # Passed THEN early ELSE built.error, proposal |-> built]

\* create_sharded_challenge_capsule_proposal: shard i is share i of the key.
create_sharded_challenge_capsule_proposal(o) ==
  LET count == Len(o.solutions)
      solutions == [i \in 1..count |-> read_solution_file(o.solutions[i])]
      keys == [i \in 1..count |-> derive_key_at(solutions[i], <<o.nonce, i>>, o.memory, o.iterations)]
      hints == IF o.shardHints = <<>> THEN [i \in 1..count |-> ""] ELSE o.shardHints
      threshold == IF o.challengeThreshold = 0 THEN count ELSE o.challengeThreshold
      shards == [i \in 1..count |-> [salt |-> <<o.nonce, i>>, commitment |-> shard_commitment(keys[i]),
                                     hint |-> hints[i]]]
      release == Sharded(o.memory, o.iterations, threshold, shards, o.hint)
      contract == ContractOf(o, "ExactArtifact", Ids(o.recipients), release)
      core == proposal_core(contract, o.nonce)
      shares == split_secret(o.cek, count, o.polynomial)
      wrapped == [i \in 1..count |-> Box(keys[i], shard_aad(core, i), shares[i])]
      built == create_proposal_with_holders(o, contract, o.recipients, NoBox, wrapped)
      early == FirstError(
        [i \in 1..count |-> SolutionCheck(solutions[i])]
        \o << <<ReleaseError(release) # Passed, "InvalidContract">>,
              <<ContractError(contract) # Passed, "InvalidContract">>,
              <<validate_plaintext_content(o.content, "ExactArtifact") # Passed, "InvalidArtifact">>,
              <<canonical_identities(o.recipients) # Passed, canonical_identities(o.recipients)>> >>)
  IN IF o.shardHints # <<>> /\ Len(o.shardHints) # count THEN [error |-> "InvalidContract"]
     ELSE [error |-> IF early # Passed THEN early ELSE built.error, proposal |-> built]

-----------------------------------------------------------------------------
(* Release to a solver.                                                    *)

verified_solution_key(e, solution) ==
  LET r == e.contract.release
      key == derive_key_at(solution, r.salt, r.memory, r.iterations)
      error == FirstError(<< <<e.error # Passed, e.error>>,
                             SolutionCheck(solution),
                             <<solution_commitment(key) # r.commitment, "AuthenticationFailed">> >>)
  IN IF r.kind # "Challenge" THEN Failed("UnsupportedReleasePolicy")
     ELSE IF error # Passed THEN Failed(error) ELSE Got(key)

release_challenge_cek(e, solution) ==
  LET key == verified_solution_key(e, solution) IN
  IF key.error # Passed THEN key
  ELSE IF ~Opens(e.challenge, key.content, challenge_aad(proposal_core(e.contract, e.nonce)))
       THEN Failed("AuthenticationFailed") ELSE Got(e.challenge.message)

\* verify_challenge_shard, and the part of release_sharded_cek it shares; the
\* index of the code is zero-based.
ShardKey(e, i, solution) ==
  LET r == e.contract.release IN derive_key_at(solution, r.shards[i].salt, r.memory, r.iterations)
verify_challenge_shard(e, i, solution) ==
  IF e.error # Passed THEN e.error
  ELSE IF e.contract.release.kind # "Sharded" THEN "UnsupportedReleasePolicy"
  ELSE IF i \notin 1..Len(e.contract.release.shards) THEN "InvalidShare"
  ELSE FirstError(<< SolutionCheck(solution),
                     <<shard_commitment(ShardKey(e, i, solution)) # e.contract.release.shards[i].commitment,
                       "AuthenticationFailed">> >>)

\* entries are <<index, solution>>.  Every entry is checked before the next.
release_sharded_cek(e, entries) ==
  LET r == e.contract.release
      core == proposal_core(e.contract, e.nonce)
      EntryError(k) == IF \E j \in 1..(k - 1) : entries[j][1] = entries[k][1] THEN "InvalidShare"
                       ELSE verify_challenge_shard(e, entries[k][1], entries[k][2])
      entryErrors == FirstError([k \in 1..Len(entries) |-> <<EntryError(k) # Passed, EntryError(k)>>])
      Wrapped(k) == e.shards[entries[k][1]]
  IN IF e.error # Passed THEN Failed(e.error)
     ELSE IF r.kind # "Sharded" THEN Failed("UnsupportedReleasePolicy")
     ELSE IF Len(entries) # r.threshold THEN Failed("InvalidShare")
     ELSE IF entryErrors # Passed THEN Failed(entryErrors)
     ELSE IF \E k \in 1..Len(entries) :
               ~Opens(Wrapped(k), ShardKey(e, entries[k][1], entries[k][2]), shard_aad(core, entries[k][1]))
          THEN Failed("AuthenticationFailed")
     ELSE LET shares == [k \in 1..Len(entries) |-> Wrapped(k).message] IN
          IF CombineError(shares, r.threshold) # Passed THEN Failed(CombineError(shares, r.threshold))
          ELSE Got(combine_shares(shares))

\* open_challenge_content and open_sharded_challenge_content.
OpenReleased(e, cek) == IF cek.error # Passed THEN cek ELSE decrypt_payload_core(e, cek.content)

-----------------------------------------------------------------------------
(* Claims and awards.  e stands for the envelope, whose id is its core.    *)

EnvelopeId(e) == <<"envelope", proposal_core(e.contract, e.nonce)>>
claim_proof(key, envelope, solver, nonce) == <<"claim-proof", key, envelope, solver, nonce>>
claim_message(c) == <<"claim", c.envelope, c.contract, c.nonce, c.proof, c.solver>>

\* create_claim_with_key: d is the solver, unlocked.
create_claim_with_key(e, d, key, nonce) ==
  LET bare == [envelope |-> EnvelopeId(e), contract |-> e.contract.id, solver |-> d.public, nonce |-> nonce,
               proof |-> claim_proof(key, EnvelopeId(e), d.public.id, nonce), signature |-> "none", id |-> "none"]
      signature == Sign(d.box.seed, claim_message(bare))
  IN [bare EXCEPT !.signature = signature, !.id = <<"claim-id", claim_message(bare), signature>>]

\* ChallengeClaim::validate_shape.
ClaimShapeError(c) ==
  FirstError(<< <<PublicIdentityError(c.solver) # Passed, PublicIdentityError(c.solver)>>,
                <<c.id # <<"claim-id", claim_message(c), c.signature>>, "BindingMismatch">>,
                <<~Signed(c.signature, c.solver.signing, claim_message(c)), "InvalidSignature">> >>)

\* Mutant: a claim is believed once it is well formed and signed (its ids and
\* its proof each tie it to the capsule).
verify_claim_with_key_unbound(e, c, key) == ClaimShapeError(c)

verify_claim_with_key(e, c, key) ==
  FirstError(<< <<ClaimShapeError(c) # Passed, ClaimShapeError(c)>>,
                <<c.envelope # EnvelopeId(e) \/ c.contract # e.contract.id, "BindingMismatch">>,
                <<c.proof # claim_proof(key, EnvelopeId(e), c.solver.id, c.nonce), "AuthenticationFailed">> >>)

\* verify_challenge_claim with the solution, verify_sharded_challenge_claim as
\* a recipient without one.
verify_challenge_claim(e, c, solution) ==
  LET key == verified_solution_key(e, solution) IN
  IF key.error # Passed THEN key.error ELSE verify_claim_with_key(e, c, key.content)
verify_sharded_challenge_claim(e, c, judge) ==
  LET cek == recipient_cek(e, judge) IN
  IF e.contract.release.kind # "Sharded" THEN "UnsupportedReleasePolicy"
  ELSE IF cek.error # Passed THEN cek.error ELSE verify_claim_with_key(e, c, sharded_claim_key(cek.content))

award_message(claim, envelope, judge) == <<"award", claim, envelope, judge>>

\* create_challenge_award.
CreateAwardError(e, c, judge) ==
  FirstError(<< <<e.error # Passed, e.error>>,
                <<ClaimShapeError(c) # Passed, ClaimShapeError(c)>>,
                <<judge.public.id \notin Range(e.contract.recipients), "NotRecipient">> >>)
Award(e, c, judge) ==
  [claim |-> c.id, envelope |-> EnvelopeId(e), judge |-> judge.public,
   signature |-> Sign(judge.box.seed, award_message(c.id, EnvelopeId(e), judge.public.id))]

\* ChallengeAward::validate_shape and verify_challenge_award.
AwardShapeError(a) ==
  FirstError(<< <<PublicIdentityError(a.judge) # Passed, PublicIdentityError(a.judge)>>,
                <<~Signed(a.signature, a.judge.signing, award_message(a.claim, a.envelope, a.judge.id)),
                  "InvalidSignature">> >>)
verify_challenge_award(e, c, a) ==
  FirstError(<< <<e.error # Passed, e.error>>,
                <<AwardShapeError(a) # Passed, AwardShapeError(a)>>,
                <<a.claim # c.id \/ a.envelope # EnvelopeId(e), "BindingMismatch">>,
                <<a.judge.id \notin Range(e.contract.recipients), "NotRecipient">> >>)

=============================================================================
