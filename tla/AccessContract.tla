--------------------------- MODULE AccessContract ---------------------------
(***************************************************************************)
(* Access contracts (crates/rebyte-contract/src/lib.rs): who may do what   *)
(* with protected content, and how it is released.                         *)
(*                                                                         *)
(* A principal is the id of an identity, or of a sequence of identities.   *)
(* Capabilities are a set.  A contract has one encoding, so its bytes are  *)
(* the record; hints are values of which some are too long or hold         *)
(* control characters.                                                     *)
(***************************************************************************)
EXTENDS Identities

CONSTANTS
  MaxPrincipals, MinMemory, MaxMemory, MaxIterations, MinChallengeShards, MaxChallengeShards,
  MinDepth, MaxDepth, MaxContractBytes,
  BadHints       \* hints that no contract may carry

Capability == {"InspectMetadata", "Decrypt", "Reconstruct", "Diff", "Apply", "ApplySemanticPatch"}
RECONSTRUCT == {"InspectMetadata", "Decrypt", "Reconstruct"}
APPLY_EXACT == RECONSTRUCT \cup {"Diff", "Apply"}
APPLY_PATCH == {"InspectMetadata", "Decrypt", "Diff", "ApplySemanticPatch"}

\* The order of principals.  Names are digits; the ids of sequences come last.
Rank(principal) ==
  IF principal[1] = "identity-id" THEN principal[2][2]
  ELSE FoldLeft(LAMBDA r, id : 10 * r + id[2][2], 1, principal[2])

\* A stable sort: the place of element i among keys, and the elements of s in
\* the places of their keys.
Place(keys, i) ==
  1 + Cardinality({j \in 1..Len(keys) : keys[j] < keys[i] \/ (keys[j] = keys[i] /\ j < i)})
SortedBy(s, keys) == [k \in 1..Len(s) |-> s[CHOOSE i \in 1..Len(s) : Place(keys, i) = k]]

canonical_principals(principals) ==
  SortedBy(principals, [i \in 1..Len(principals) |-> Rank(principals[i])])

PrincipalsError(principals) ==
  FirstError(<< <<principals = <<>> \/ Len(principals) > MaxPrincipals, "LimitExceeded">>,
                <<\E i \in 1..(Len(principals) - 1) : principals[i] = principals[i + 1], "DuplicatePrincipal">>,
                <<\E i \in 1..(Len(principals) - 1) : Rank(principals[i]) > Rank(principals[i + 1]),
                  "NonCanonicalOrder">> >>)

-----------------------------------------------------------------------------
(* Release policies.                                                       *)

Direct == [kind |-> "Direct"]
Quorum(witnesses, threshold, notBefore, maximum) ==
  [kind |-> "Quorum", witnesses |-> canonical_principals(witnesses), threshold |-> threshold,
   not_before |-> notBefore, maximum |-> maximum]
Challenge(memory, iterations, commitment, salt, hint) ==
  [kind |-> "Challenge", memory |-> memory, iterations |-> iterations, commitment |-> commitment,
   salt |-> salt, hint |-> hint]
Sharded(memory, iterations, threshold, shards, hint) ==
  [kind |-> "Sharded", memory |-> memory, iterations |-> iterations, threshold |-> threshold,
   shards |-> shards, hint |-> hint]
KeySequence(depth) == [kind |-> "KeySequence", depth |-> depth]

\* A usage limit of 0 stands for none here, so Some(0) is the limit -1.
QuorumChecks(r) ==
  << <<PrincipalsError(r.witnesses) # Passed, PrincipalsError(r.witnesses)>>,
     <<r.threshold = 0 \/ r.threshold > Len(r.witnesses), "InvalidThreshold">>,
     <<r.maximum = -1, "InvalidUsageLimit">>,
     <<r.maximum # 0 /\ r.threshold # Len(r.witnesses), "InvalidUsageThreshold">> >>
CostCheck(r) ==
  <<r.memory \notin MinMemory..MaxMemory \/ r.iterations \notin 1..MaxIterations, "UnsupportedValue">>
HintCheck(r) == <<r.hint \in BadHints, "LimitExceeded">>
ShardedChecks(r) ==
  << CostCheck(r), <<Len(r.shards) \notin MinChallengeShards..MaxChallengeShards, "LimitExceeded">>,
     <<r.threshold = 0 \/ r.threshold > Len(r.shards), "InvalidThreshold">> >>
  \o [i \in 1..Len(r.shards) |-> HintCheck(r.shards[i])] \o << HintCheck(r) >>

ReleaseError(r) ==
  FirstError(CASE r.kind = "Quorum" -> QuorumChecks(r)
               [] r.kind = "Challenge" -> <<CostCheck(r), HintCheck(r)>>
               [] r.kind = "Sharded" -> ShardedChecks(r)
               [] r.kind = "KeySequence" -> << <<r.depth \notin MinDepth..MaxDepth, "InvalidThreshold">> >>
               [] OTHER -> <<>>)

-----------------------------------------------------------------------------
(* Contracts.                                                              *)

calculate_contract_id(c) ==
  <<"contract-id", c.nonce, c.group, c.controllers, c.seal_threshold, c.recipients, c.capabilities,
    c.content, c.release>>

\* AccessContract::validate_shape.
ShapeError(c) ==
  FirstError(<< <<PrincipalsError(c.controllers) # Passed, PrincipalsError(c.controllers)>>,
                <<PrincipalsError(c.recipients) # Passed, PrincipalsError(c.recipients)>>,
                <<c.seal_threshold = 0 \/ c.seal_threshold > Len(c.controllers), "InvalidThreshold">>,
                <<c.capabilities = {} \/ ~(c.capabilities \subseteq Capability), "InvalidCapabilities">>,
                <<c.content.kind = "ExactArtifact"
                    /\ ("Decrypt" \notin c.capabilities
                        \/ c.capabilities \cap {"Reconstruct", "Diff", "Apply"} = {}), "InvalidCapabilities">>,
                <<c.content.kind = "SemanticPatch"
                    /\ ~({"Decrypt", "ApplySemanticPatch"} \subseteq c.capabilities), "InvalidCapabilities">>,
                <<ReleaseError(c.release) # Passed, ReleaseError(c.release)>> >>)
ContractError(c) ==
  FirstError(<< <<ShapeError(c) # Passed, ShapeError(c)>>,
                <<c.id # calculate_contract_id(c), "BindingMismatch">> >>)

\* AccessContract::with_nonce: what the builder makes of its parts.
Contract(nonce, group, controllers, threshold, recipients, capabilities, content, release) ==
  LET bare == [nonce |-> nonce, group |-> group, controllers |-> canonical_principals(controllers),
               seal_threshold |-> threshold, recipients |-> canonical_principals(recipients),
               capabilities |-> capabilities, content |-> content, release |-> release, id |-> "none"]
  IN [bare EXCEPT !.id = calculate_contract_id(bare)]

\* The length of the encoding, counted in principals and shards.
ContractBytes(c) ==
  Len(c.controllers) + Len(c.recipients)
  + (IF c.release.kind = "Quorum" THEN Len(c.release.witnesses)
     ELSE IF c.release.kind = "Sharded" THEN Len(c.release.shards) ELSE 0)

\* to_bytes, and from_bytes, which reads the lists and the policy before the
\* whole contract is validated.
ToBytesError(c) ==
  FirstError(<< <<ContractError(c) # Passed, ContractError(c)>>,
                <<ContractBytes(c) > MaxContractBytes, "LimitExceeded">> >>)
FromBytesError(c) ==
  FirstError(<< <<ContractBytes(c) > MaxContractBytes, "LimitExceeded">>,
                <<\E l \in {c.controllers, c.recipients} : Len(l) \notin 1..MaxPrincipals, "LimitExceeded">>,
                <<c.capabilities = {} \/ ~(c.capabilities \subseteq Capability), "InvalidCapabilities">>,
                <<c.content.kind \notin {"ExactArtifact", "SemanticPatch"}, "UnsupportedValue">>,
                <<c.release.kind = "Sharded"
                    /\ Len(c.release.shards) \notin MinChallengeShards..MaxChallengeShards, "LimitExceeded">>,
                <<ContractError(c) # Passed, ContractError(c)>> >>)

=============================================================================
