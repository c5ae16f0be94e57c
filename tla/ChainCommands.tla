---------------------------- MODULE ChainCommands ----------------------------
(***************************************************************************)
(* The chain commands that need nobody else (crates/rebyte-cli/src/        *)
(* chain_command.rs, semantic_command.rs): identities and their backups,   *)
(* protected capsules opened by a recipient, by a sequence of keys or by a *)
(* solver, and the patching of a file.                                     *)
(*                                                                         *)
(* A command runs alone, and writes its files one at a time; a write may   *)
(* fail and the process may be killed between and in the writes.  While a  *)
(* patch is applied another program may write to its target.  Every        *)
(* document has the path this module names for it; a release is recorded   *)
(* as the last result, its output being a new file.                        *)
(***************************************************************************)
EXTENDS Challenge, SemanticPatch

CONSTANTS
  Secret,            \* name -> [seed, ikm]: what generation draws
  FirstPass,         \* the passphrase of the identities there are at first
  Passphrases,
  Generated,         \* the names whose documents there are at first
  BackupOptions,     \* <<count, threshold, polynomials, directory>>
  Creations,         \* the creations, in a sequence; o.nonce is its index
  MaxGivenShares,    \* how many shares a restoration names at most
  SolutionFiles,     \* the solution files a solver may have
  Attempts,          \* the lists of <<index, file>> a solver of shards gives
  KeyLists,          \* the lists of names an opener of a sequence gives
  Overrides,         \* values of --path, "none" for no such option
  Patches,           \* the patch files there are
  Targets,           \* the contents a target may have at first or be given
  Budgets,           \* [identity, create, access, patch]: how many commands run;
                     \* [creations]: which capsules they may create
  MaxFaults, MaxWrites,
  NoCommand, Nothing, Absent

VARIABLES
  files,             \* path -> [whole, doc], for the files there are
  cmd,               \* the command that is writing its files, or NoCommand
  last,              \* what the last command released, or Nothing
  target, backup,    \* the file that is patched, and its copy
  patch,             \* the patch that is being applied, or NoCommand
  lost,              \* what the last replacement of the target took away
  budget, faults, writes

\* The identities are made by generation, and their names are valid.
ASSUME IdentityAssumption ==
  /\ IsFiniteSet(Name) /\ Name \subseteq Nat \ {0}
  /\ \A n \in Name :
       /\ Secret[n].seed \in Element /\ Secret[n].ikm \in Element
       /\ Identity[n] = PublicIdentity(n, Secret[n].seed, Secret[n].ikm, Identity[n].nonce)
  /\ Generated \subseteq Name /\ FirstPass \notin ShortPassphrases /\ Members \in Seq(Name)

\* A polynomial has one coefficient less than its threshold, with the secret as
\* the constant term.
ASSUME BackupAssumption ==
  /\ MinBackupThreshold \in Nat \ {0} /\ MaxBackupShares \in 1..MaxShares /\ MaxGivenShares \in Nat
  /\ \A b \in BackupOptions :
       /\ b[1] \in Nat /\ b[2] \in Nat
       /\ b[3][1] \in [1..(b[2] - 1) -> Element] /\ b[3][2] \in [1..(b[2] - 1) -> Element]

\* The options of a creation that exclude each other (CapsuleCreateCommand);
\* nonces are drawn afresh.
ASSUME CreationAssumption ==
  /\ Budgets \subseteq [identity : Nat, create : Nat, access : Nat, patch : Nat,
                        creations : SUBSET DOMAIN Creations]
  /\ MaxChallengeShards \in 1..MaxShares /\ MinDepth \in Nat \ {0}
  /\ \A k \in DOMAIN Creations :
       LET o == Creations[k]
           count == Len(o.solutions)
           threshold == IF o.challengeThreshold = 0 THEN count ELSE o.challengeThreshold
       IN /\ o.nonce = k /\ o.patch \in BOOLEAN /\ o.cek \in Element
          /\ o.recipients \in Seq(Name) /\ o.witnesses \in Seq(Name) /\ o.sequences \in Seq(Seq(Name))
          /\ o.patch => o.sequences = <<>> /\ o.solutions = <<>>
          /\ count \in Nat /\ o.challengeThreshold \in Nat
          /\ count > 1 => o.polynomial \in [1..(threshold - 1) -> Element]

\* What a solver has: a solution file is any sequence of bytes.
Bytes(file) == file \in Seq(Range(file))
ASSUME SolutionAssumption ==
  /\ \A file \in SolutionFiles : Bytes(file)
  /\ \A k \in DOMAIN Creations : \A i \in 1..Len(Creations[k].solutions) : Bytes(Creations[k].solutions[i])
  /\ \A entries \in Attempts :
       /\ Len(entries) \in Nat
       /\ \A i \in 1..Len(entries) : entries[i][1] \in Nat /\ Bytes(entries[i][2])
  /\ \A names \in KeyLists : names \in Seq(Name)

fileVars == <<files, cmd>>
patchVars == <<target, backup, patch, lost, writes>>
vars == <<files, cmd, last, target, backup, patch, lost, budget, faults, writes>>

KeyPath(n) == <<"key", n>>
PublicPath(n) == <<"public", n>>
CapsulePath(k) == <<"capsule", k>>
Whole(doc) == [whole |-> TRUE, doc |-> doc]
Torn == [whole |-> FALSE, doc |-> Nothing]
Readable(path) == path \in DOMAIN files /\ files[path].whole
ensure_output_absent(path) == path \notin DOMAIN files

Init ==
  /\ files = [p \in {KeyPath(n) : n \in Generated} \cup {PublicPath(n) : n \in Generated} |->
                IF p[1] = "public" THEN Whole(Identity[p[2]])
                ELSE Whole(PrivateIdentity(Identity[p[2]], Secret[p[2]].seed, Secret[p[2]].ikm, FirstPass, "s",
                                           IF p[2] = 1 THEN "v1" ELSE "v2"))]
  /\ cmd = NoCommand /\ last = Nothing /\ patch = NoCommand /\ lost = Nothing
  /\ budget \in Budgets /\ faults = 0 /\ writes = 0 /\ backup = Absent
  /\ IF budget.patch = 0 THEN target = Absent ELSE target \in Targets

-----------------------------------------------------------------------------
(* A command starts; one that fails early changes nothing.                 *)

Ready(family) == cmd = NoCommand /\ patch = NoCommand /\ budget[family] > 0
Spend(family) == budget' = [budget EXCEPT ![family] = @ - 1]
\* The command writes docs to paths in order.  If undo, the ones it has
\* written are removed when one fails.
Write(family, paths, docs, undo) ==
  /\ Spend(family) /\ last' = Nothing
  /\ cmd' = [paths |-> paths, docs |-> docs, done |-> 0, undo |-> undo]
  /\ UNCHANGED <<files, faults>> /\ UNCHANGED patchVars
Report(family, result) ==
  /\ Spend(family) /\ last' = result
  /\ UNCHANGED fileVars /\ UNCHANGED faults /\ UNCHANGED patchVars

Present(fs, path, file) == [p \in DOMAIN fs \cup {path} |-> IF p = path THEN file ELSE fs[p]]
Without(paths) == [p \in DOMAIN files \ paths |-> files[p]]
Written == {cmd.paths[i] : i \in 1..cmd.done}
NextPath == cmd.paths[cmd.done + 1]
NextDoc == cmd.docs[cmd.done + 1]

\* write_new of the next file.
WriteNext ==
  /\ cmd # NoCommand /\ NextPath \notin DOMAIN files
  /\ files' = Present(files, NextPath, Whole(NextDoc))
  /\ cmd' = IF cmd.done + 1 = Len(cmd.paths) THEN NoCommand ELSE [cmd EXCEPT !.done = @ + 1]
  /\ UNCHANGED <<last, budget, faults>> /\ UNCHANGED patchVars

\* It fails before, in or after the writing of the bytes: the command undoes
\* what it wrote before, but not this file.
WriteFails ==
  /\ cmd # NoCommand /\ faults < MaxFaults /\ faults' = faults + 1
  /\ \E left \in {Torn, Whole(NextDoc), Absent} :
       LET kept == IF cmd.undo THEN Without(Written) ELSE files IN
       files' = IF left = Absent THEN kept ELSE Present(kept, NextPath, left)
  /\ cmd' = NoCommand
  /\ UNCHANGED <<last, budget>> /\ UNCHANGED patchVars

\* The process is killed in a write: nothing is undone.
Killed ==
  /\ cmd # NoCommand /\ faults < MaxFaults /\ faults' = faults + 1
  /\ \E left \in {Torn, Absent} : files' = IF left = Absent THEN files ELSE Present(files, NextPath, left)
  /\ cmd' = NoCommand
  /\ UNCHANGED <<last, budget>> /\ UNCHANGED patchVars

-----------------------------------------------------------------------------
(* Identities.                                                             *)

generate_identity_command(n, pass) ==
  /\ ensure_output_absent(KeyPath(n)) /\ ensure_output_absent(PublicPath(n))
  /\ GenerateError(n, pass) = Passed
  /\ Write("identity", <<KeyPath(n), PublicPath(n)>>,
           <<PrivateIdentity(Identity[n], Secret[n].seed, Secret[n].ikm, pass, "g", "v2"), Identity[n]>>, TRUE)

\* unlock_identity: the file at path holds a private document that pass opens.
unlock_identity(path, pass) == Readable(path) /\ UnlockError(files[path].doc, pass) = Passed

rekey_identity_command(path, pass, newPass) ==
  LET d == files[path].doc IN
  /\ ensure_output_absent(<<"rekeyed", path[2]>>)
  /\ Readable(path) /\ RekeyError(d, pass, newPass) = Passed
  /\ Write("identity", <<(<<"rekeyed", path[2]>>)>>,
           <<reencrypt_identity(d.public, d.box.seed, d.box.ikm, newPass, "r")>>, FALSE)

\* The outputs are all absent before the first is written.
backup_identity_command(path, pass, options) ==
  LET count == options[1] threshold == options[2] dir == options[4]
      paths == [i \in 1..count |-> <<"share", dir, i>>]
  IN /\ unlock_identity(path, pass)
     /\ ~validate_backup_parameters(count, threshold)[1]
     /\ \A i \in 1..count : ensure_output_absent(paths[i])
     /\ Write("identity", paths, backup_identity(files[path].doc, count, threshold, options[3]), TRUE)

ShareFiles == {p \in DOMAIN files : p[1] = "share" /\ files[p].whole}
restore_identity_command(paths, pass) ==
  LET shares == [i \in 1..Len(paths) |-> files[paths[i]].doc]
      n == shares[1].public.name
      error == RestoreError(shares, pass)
  IN /\ ensure_output_absent(<<"restored", n>>) /\ ensure_output_absent(<<"restored-public", n>>)
     /\ IF error # Passed
        THEN Report("identity", [kind |-> "restore", paths |-> paths, pass |-> pass, error |-> error])
        ELSE Write("identity", <<(<<"restored", n>>), <<"restored-public", n>>>>,
                   <<Restored(shares, pass, "b"), shares[1].public>>, TRUE)

status_identity_command(path, pass, status) ==
  /\ ensure_output_absent(<<"status", path[2]>>) /\ unlock_identity(path, pass)
  /\ Write("identity", <<(<<"status", path[2]>>)>>, <<issue_identity_status(files[path].doc, status)>>, FALSE)

KeyFiles == {p \in DOMAIN files : p[1] \in {"key", "rekeyed", "restored"}}
IdentityCommands ==
  /\ Ready("identity")
  /\ \E pass \in Passphrases :
       \/ \E n \in Name : generate_identity_command(n, pass)
       \/ \E path \in KeyFiles, newPass \in Passphrases : rekey_identity_command(path, pass, newPass)
       \/ \E path \in KeyFiles, options \in BackupOptions : backup_identity_command(path, pass, options)
       \/ \E path \in KeyFiles, status \in {"retired", "revoked"} : status_identity_command(path, pass, status)
       \/ \E count \in 1..MaxGivenShares : \E paths \in [1..count -> ShareFiles] :
            restore_identity_command(paths, pass)

-----------------------------------------------------------------------------
(* Creation of capsules.                                                   *)

\* The dispatch of create_capsule.
Mode(o) ==
  IF o.sequences # <<>> THEN "sequence"
  ELSE IF Len(o.solutions) = 1 THEN "challenge"
  ELSE IF o.solutions # <<>> THEN "sharded"
  ELSE IF o.witnesses = <<>> THEN "direct" ELSE "quorum"
Propose(o) ==
  CASE Mode(o) = "sequence" -> create_key_sequence_capsule_proposal(o)
    [] Mode(o) = "challenge" ->
         IF o.challengeThreshold # 0 \/ o.shardHints # <<>> THEN [error |-> "Generic"]
         ELSE create_challenge_capsule_proposal(o)
    [] Mode(o) = "sharded" -> create_sharded_challenge_capsule_proposal(o)
    [] OTHER -> create_default_proposal(o)
Participants(o) == Range(o.recipients) \cup Range(o.witnesses) \cup UNION {Range(s) : s \in Range(o.sequences)}
create_capsule(k, statuses) ==
  LET o == Creations[k]
      docs == [i \in 1..Len(statuses) |-> files[statuses[i]].doc]
      proposed == Propose(o)
  IN /\ Ready("create") /\ ensure_output_absent(<<"proposal", k>>)
     /\ \A n \in Participants(o) : Readable(PublicPath(n))
     /\ StatusDenial(docs, {Id(n) : n \in Participants(o) \cup Range(Members)}) = Passed
     /\ proposed.error = Passed
     /\ Write("create", <<(<<"proposal", k>>)>>, <<proposed.proposal>>, FALSE)

\* The members approve the proposal and one of them, who reads it from its
\* file, finalizes it (Ceremony).
finalize_capsule_command(k) ==
  LET proposal == files[<<"proposal", k>>].doc IN
  /\ Readable(<<"proposal", k>>) /\ FromBytesError(proposal.contract) = Passed
  /\ ensure_output_absent(CapsulePath(k))
  /\ cmd' = [paths |-> <<CapsulePath(k)>>, docs |-> <<proposal>>, done |-> 0, undo |-> FALSE]
  /\ last' = Nothing
  /\ UNCHANGED <<files, budget, faults>> /\ UNCHANGED patchVars

\* audit_capsule_command: the members, the key holders who are none, in the order
\* of their identities, and the report last.
\* The directory is not removed when a file of it fails.
audit_capsule_command(k) ==
  LET e == files[CapsulePath(k)].doc
      holders == {n \in Name : \E i \in 1..Len(e.slots) : e.slots[i].holder = Id(n)}
      others == SetToSeq(holders \ Range(Members))
      names == Members \o SortedBy(others, others)
      paths == <<(<<"audit", "certificate", 0>>)>>
               \o [i \in 1..Len(names) |-> <<"audit", "identity", names[i]>>]
               \o <<(<<"audit", "report", 0>>)>>
  IN /\ Ready("create") /\ Readable(CapsulePath(k)) /\ \A p \in DOMAIN files : p[1] # "audit"
     /\ Write("create", paths, [i \in 1..Len(paths) |-> k], FALSE)

StatusFiles == {p \in DOMAIN files : p[1] = "status" /\ files[p].whole}
CreationCommands ==
  /\ cmd = NoCommand /\ patch = NoCommand
  /\ \E k \in budget.creations :
       \/ \E statuses \in {<<>>, SetToSeq(StatusFiles)} : create_capsule(k, statuses)
       \/ finalize_capsule_command(k)
       \/ audit_capsule_command(k)

-----------------------------------------------------------------------------
(* Access.  A command that is refused says nothing of the content.         *)

Envelope(k) == files[CapsulePath(k)].doc

\* open_capsule_command; raw is --raw-artifact.
open_capsule_command(k, path, pass, raw) ==
  LET d == files[path].doc
      result == IF ~raw /\ "Reconstruct" \notin Envelope(k).contract.capabilities THEN Failed("Policy")
                ELSE IF UnlockError(d, pass) # Passed THEN Failed(UnlockError(d, pass))
                ELSE open_content(Envelope(k), d, "ExactArtifact")
  IN Readable(path)
     /\ Report("access", [kind |-> "open", capsule |-> k, path |-> path, pass |-> pass, result |-> result])

\* open_sequence_capsule_command, with one passphrase file for all the keys.
open_sequence_capsule_command(k, names, pass) ==
  LET keys == [i \in 1..Len(names) |-> files[KeyPath(names[i])].doc]
      locked == FirstError([i \in 1..Len(names) |-> <<UnlockError(keys[i], pass) # Passed, "Locked">>])
      result == IF "Reconstruct" \notin Envelope(k).contract.capabilities THEN Failed("Policy")
                ELSE IF locked # Passed THEN Failed(locked)
                ELSE open_key_sequence_capsule(Envelope(k), keys)
  IN (\A n \in Range(names) : Readable(KeyPath(n)))
     /\ Report("access", [kind |-> "sequence", capsule |-> k, names |-> names, pass |-> pass,
                          result |-> result])

\* solve_challenge_command, without --raw-artifact, and check_challenge_command.
read_shard_solutions(entries) ==
  [i \in 1..Len(entries) |-> <<entries[i][1], read_solution_file(entries[i][2])>>]
solve_challenge_command(k, file) ==
  Report("access", [kind |-> "solve", capsule |-> k, file |-> file,
    result |-> IF "Reconstruct" \notin Envelope(k).contract.capabilities THEN Failed("Policy")
               ELSE OpenReleased(Envelope(k), release_challenge_cek(Envelope(k), read_solution_file(file)))])
solve_shards_command(k, entries) ==
  Report("access", [kind |-> "solve-shards", capsule |-> k, entries |-> entries,
    result |-> IF "Reconstruct" \notin Envelope(k).contract.capabilities THEN Failed("Policy")
               ELSE OpenReleased(Envelope(k), release_sharded_cek(Envelope(k), read_shard_solutions(entries)))])
check_challenge_command(k, i, file) ==
  Report("access", [kind |-> "check", capsule |-> k, entries |-> <<(<<i, file>>)>>,
    result |-> [error |-> verify_challenge_shard(Envelope(k), i, read_solution_file(file))]])

\* claim_challenge_command: key is what the solution or the shards release.
ClaimWith(k, path, key) ==
  /\ ensure_output_absent(<<"claim", path[2]>>) /\ key.error = Passed
  /\ Write("access", <<(<<"claim", path[2]>>)>>,
           <<create_claim_with_key(Envelope(k), files[path].doc, key.content, path[2])>>, FALSE)
claim_challenge_command(k, path, pass, file) ==
  /\ unlock_identity(path, pass)
  /\ ClaimWith(k, path, verified_solution_key(Envelope(k), read_solution_file(file)))
claim_shards_command(k, path, pass, entries) ==
  LET cek == release_sharded_cek(Envelope(k), read_shard_solutions(entries)) IN
  /\ unlock_identity(path, pass)
  /\ ClaimWith(k, path, IF cek.error # Passed THEN cek ELSE Got(sharded_claim_key(cek.content)))

\* award_challenge_command: file is --solution-file, <<>> for no such option.
ClaimError(k, c, judge, file) ==
  IF Envelope(k).contract.release.kind = "Sharded"
  THEN IF file # <<>> THEN "Generic" ELSE verify_sharded_challenge_claim(Envelope(k), c, judge)
  ELSE IF file = <<>> THEN "Generic" ELSE verify_challenge_claim(Envelope(k), c, read_solution_file(file))
award_challenge_command(k, claimPath, path, pass, file) ==
  LET c == files[claimPath].doc
      judge == files[path].doc
  IN /\ ensure_output_absent(<<"award", claimPath[2]>>) /\ unlock_identity(path, pass)
     /\ Readable(claimPath) /\ ClaimShapeError(c) = Passed
     /\ ClaimError(k, c, judge, file) = Passed /\ CreateAwardError(Envelope(k), c, judge) = Passed
     /\ Write("access", <<(<<"award", claimPath[2]>>)>>, <<Award(Envelope(k), c, judge)>>, FALSE)

\* artifact_verified_tree: where the entries of an artifact go.
artifact_verified_tree(artifact, override) ==
  LET chosen == CHOOSE p \in {override, artifact.path, artifact.name} :
                  IF override # "none" THEN p = override
                  ELSE IF artifact.path # "none" THEN p = artifact.path ELSE p = artifact.name
  IN IF artifact.shape = "directory"
     THEN IF override # "none" THEN Failed("Policy") ELSE Got(artifact.entries)
     ELSE IF chosen = "none" THEN Failed("Policy") ELSE Got({chosen})

\* authorize_file_operations of diff_capsule_command and apply_capsule_command;
\* the tree goes to CapsuleCommands' diff and to ApplyTxn.
authorize_file_operations(k, path, pass, override, required) ==
  LET d == files[path].doc
      opened == open_content(Envelope(k), d, "ExactArtifact")
      result == IF required \notin Envelope(k).contract.capabilities THEN Failed("Policy")
                ELSE IF UnlockError(d, pass) # Passed THEN Failed(UnlockError(d, pass))
                ELSE IF opened.error # Passed THEN opened
                ELSE artifact_verified_tree(opened.content, override)
  IN Readable(path)
     /\ Report("access", [kind |-> required, capsule |-> k, path |-> path, pass |-> pass, override |-> override,
                          result |-> result])

AccessCommands ==
  /\ Ready("access")
  /\ \E k \in {j \in budget.creations : Readable(CapsulePath(j))} :
       \/ \E path \in KeyFiles, pass \in Passphrases :
            \/ \E raw \in BOOLEAN : open_capsule_command(k, path, pass, raw)
            \/ \E override \in Overrides, required \in {"Diff", "Apply"} :
                 authorize_file_operations(k, path, pass, override, required)
            \/ \E file \in SolutionFiles : claim_challenge_command(k, path, pass, file)
            \/ \E entries \in Attempts : claim_shards_command(k, path, pass, entries)
            \/ \E claimPath \in {p \in DOMAIN files : p[1] = "claim"}, file \in SolutionFiles \cup {<<>>} :
                 award_challenge_command(k, claimPath, path, pass, file)
       \/ \E names \in KeyLists, pass \in Passphrases : open_sequence_capsule_command(k, names, pass)
       \/ \E file \in SolutionFiles :
            \/ solve_challenge_command(k, file)
            \/ \E i \in 1..MaxChallengeShards : check_challenge_command(k, i, file)
       \/ \E entries \in Attempts : solve_shards_command(k, entries)

-----------------------------------------------------------------------------
(* apply_patch_document, one step per look at the target or change to it.  *)

Step(pc) == patch # NoCommand /\ patch.pc = pc
To(pc) == patch' = [patch EXCEPT !.pc = pc]
Ended(how) == patch' = NoCommand /\ last' = [kind |-> "patched", how |-> how, after |-> patch.after]
Quiet == UNCHANGED <<files, cmd, budget>>
Still == UNCHANGED <<target, backup, lost, writes>>

\* The target is read and the patch applied in memory: dry runs, failures and
\* patches that change nothing end here.
BeginPatch(p, mode) ==
  /\ Ready("patch") /\ Spend("patch") /\ target # Absent
  /\ LET done == apply_semantic_patch(p, target) IN
     IF mode.dry_run \/ done.error # Passed \/ done.value = target
     THEN patch' = NoCommand /\ last' = [kind |-> "previewed", patch |-> p, target |-> target, result |-> done]
     ELSE /\ last' = Nothing
          /\ patch' = [pc |-> IF mode.yes THEN "revalidate" ELSE "confirm", mode |-> mode,
                       before |-> target, after |-> done.value, raced |-> FALSE]
  /\ UNCHANGED <<files, cmd, faults>> /\ Still

\* read_patch of `patch apply`, and patch_capsule_command.
apply_patch_file(p, mode) == BeginPatch(p, mode)
patch_capsule_command(k, path, pass, mode) ==
  LET opened == open_content(Envelope(k), files[path].doc, "SemanticPatch") IN
  /\ Ready("patch") /\ Readable(CapsulePath(k))
  /\ "ApplySemanticPatch" \in Envelope(k).contract.capabilities
  /\ unlock_identity(path, pass) /\ opened.error = Passed
  /\ BeginPatch(opened.content.patch, mode)

confirm ==
  /\ Step("confirm") /\ Quiet /\ Still /\ UNCHANGED faults
  /\ \/ To("revalidate") /\ UNCHANGED last
     \/ Ended("cancelled")

\* revalidate_target: the first time before the backup, the second before the
\* replacement.
revalidate_target(pc, next) ==
  /\ Step(pc) /\ Quiet /\ Still /\ UNCHANGED faults
  /\ IF target = patch.before
     THEN To(next) /\ UNCHANGED last
     ELSE Ended("conflict")

\* Mutant: the target is not looked at again once the result is staged.
RevalidateStagedSkipped == Step("staged") /\ Quiet /\ Still /\ UNCHANGED <<faults, last>> /\ To("persist")

RevalidateFirst == revalidate_target("revalidate", IF patch.mode.backup THEN "backup" ELSE "stage")
RevalidateStaged == revalidate_target("staged", "persist")

\* A step of the patch fails for a reason of its own.
StepFails == faults < MaxFaults /\ faults' = faults + 1 /\ Ended("failed")

\* create_backup: write_new of the content that was previewed, with the
\* permissions the target has now.  What a failure leaves there stays, and
\* keeps later backups from being made.
create_backup ==
  /\ Step("backup") /\ Quiet /\ UNCHANGED <<target, lost, writes>>
  /\ \/ /\ backup = Absent /\ backup' = patch.before /\ UNCHANGED faults
        /\ IF target = Absent THEN Ended("failed") ELSE To("stage") /\ UNCHANGED last
     \/ backup # Absent /\ Ended("failed") /\ UNCHANGED <<backup, faults>>
     \/ backup = Absent /\ backup' \in {Absent, Torn, patch.before} /\ StepFails

\* replace_atomically: the result beside the target, and its permissions.
StagePatch ==
  /\ Step("stage") /\ Quiet /\ Still
  /\ \/ /\ IF target = Absent THEN Ended("failed") ELSE To("staged") /\ UNCHANGED last
        /\ UNCHANGED faults
     \/ StepFails

\* The rename takes away whatever the target is.
persist ==
  /\ Step("persist") /\ Quiet /\ UNCHANGED <<backup, writes>>
  /\ \/ /\ target' = patch.after
        /\ lost' = [taken |-> target, before |-> patch.before, raced |-> patch.raced,
                    saved |-> patch.mode.backup, copy |-> backup]
        /\ To("sync") /\ UNCHANGED <<faults, last>>
     \/ StepFails /\ UNCHANGED <<target, lost>>

\* sync_parent, then the target is read again.
sync_parent ==
  /\ Step("sync") /\ Quiet /\ Still
  /\ \/ To("verify") /\ UNCHANGED <<faults, last>>
     \/ faults < MaxFaults /\ faults' = faults + 1 /\ Ended("failed-after")
VerifyPatched ==
  /\ Step("verify") /\ Quiet /\ Still /\ UNCHANGED faults
  /\ Ended(IF target = patch.after THEN "applied" ELSE "failed-after")

KilledPatching ==
  /\ patch # NoCommand /\ faults < MaxFaults /\ faults' = faults + 1
  /\ patch' = NoCommand /\ last' = Nothing /\ Quiet /\ UNCHANGED <<target, lost, writes>>
  /\ \/ UNCHANGED backup
     \/ patch.pc = "backup" /\ backup = Absent /\ backup' \in {Torn, patch.before}

\* Another program replaces or removes the target; raced if that is after the
\* last comparison and before the rename.
ForeignWrite ==
  /\ patch # NoCommand /\ writes < MaxWrites /\ writes' = writes + 1
  /\ \E t \in Targets \cup {Absent} : t # target /\ target' = t
  /\ patch' = [patch EXCEPT !.raced = @ \/ patch.pc = "persist"]
  /\ Quiet /\ UNCHANGED <<last, backup, lost, faults>>

Modes == {m \in [dry_run : BOOLEAN, yes : BOOLEAN, backup : BOOLEAN] : ~(m.dry_run /\ m.yes)}
PatchCommands ==
  \/ \E mode \in Modes :
       \/ \E p \in Patches : apply_patch_file(p, mode)
       \/ \E k \in budget.creations, path \in KeyFiles, pass \in Passphrases :
            patch_capsule_command(k, path, pass, mode)
  \/ confirm \/ RevalidateFirst \/ create_backup \/ StagePatch \/ RevalidateStaged \/ persist
  \/ sync_parent \/ VerifyPatched \/ KilledPatching \/ ForeignWrite

Next ==
  \/ IdentityCommands \/ CreationCommands \/ AccessCommands \/ PatchCommands
  \/ WriteNext \/ WriteFails \/ Killed

Spec == Init /\ [][Next]_vars

-----------------------------------------------------------------------------
(* Properties.                                                             *)

\* What a creation says of who may open the capsule, without its boxes.
\* The text of a file is the shortest beginning with nothing after it but a line
\* ending.
EndsAt(file, n) == SubSeq(file, n + 1, Len(file)) \in {<<>>, <<LF>>, <<CR, LF>>}
TextOf(file) ==
  SubSeq(file, 1, CHOOSE n \in 0..Len(file) : EndsAt(file, n) /\ \A m \in 0..(n - 1) : ~EndsAt(file, m))
PassOf(d) == d.box.key[2]
Solved(o, entry) == entry[1] \in 1..Len(o.solutions) /\ TextOf(entry[2]) = TextOf(o.solutions[entry[1]])
ThresholdOf(o) == IF o.challengeThreshold = 0 THEN Len(o.solutions) ELSE o.challengeThreshold
MayOpen(r) ==
  LET o == Creations[r.capsule] IN
  CASE r.kind \in {"open", "Diff", "Apply"} ->
         /\ Mode(o) \in {"direct", "challenge", "sharded"} /\ ~o.patch
         /\ r.path[2] \in Range(o.recipients) /\ r.pass = PassOf(files[r.path].doc)
    [] r.kind = "sequence" -> /\ Mode(o) = "sequence" /\ r.names \in Range(o.sequences)
                              /\ \A n \in Range(r.names) : r.pass = PassOf(files[KeyPath(n)].doc)
    [] r.kind = "solve" -> Mode(o) = "challenge" /\ TextOf(r.file) = TextOf(o.solutions[1])
    [] r.kind = "solve-shards" ->
         /\ Mode(o) = "sharded" /\ Len(r.entries) = ThresholdOf(o)
         /\ \A i \in 1..Len(r.entries) : Solved(o, r.entries[i])
         /\ \A i, j \in 1..Len(r.entries) : i # j => r.entries[i][1] # r.entries[j][1]
    [] r.kind = "check" -> Mode(o) = "sharded" /\ Solved(o, r.entries[1])
Placed(a, override) ==
  IF a.shape = "directory" THEN override = "none"
  ELSE override # "none" \/ a.path # "none" \/ a.name # "none"

\* A capsule opens to exactly those its creation command named, in the way of
\* its policy (a recipient's key, a list of keys in their order, the solution
\* or the threshold of distinct sub-solutions, whatever one line ending their
\* files have), and yields what was protected (open_capsule,
\* open_key_sequence_capsule, open_challenge_content,
\* open_sharded_challenge_content, verify_challenge_shard).
OpensExactly ==
  last # Nothing /\ last.kind \in {"open", "sequence", "solve", "solve-shards", "check", "Diff", "Apply"} =>
    LET content == Creations[last.capsule].content IN
    CASE last.kind = "check" -> (last.result.error = Passed) = MayOpen(last)
      [] last.kind \in {"Diff", "Apply"} ->
           (last.result.error = Passed) = (MayOpen(last) /\ Placed(content, last.override))
      [] OTHER -> /\ (last.result.error = Passed) = MayOpen(last)
                  /\ last.result.error = Passed => last.result.content = content

\* A countersigned claim was made by the identity it names, for the capsule of
\* the award, and the award is of a judge the creators listed; an award that
\* verifies for one capsule verifies for no other (award_challenge_command,
\* verify_challenge_award).
AwardsHonest ==
  \A p \in DOMAIN files :
    p[1] = "award" /\ files[p].whole =>
      LET a == files[p].doc
          c == files[<<"claim", p[2]>>].doc
          for == {k \in budget.creations : Readable(CapsulePath(k))
                                            /\ verify_challenge_award(Envelope(k), c, a) = Passed}
      IN \E k \in budget.creations :
           /\ for = {k} /\ c.solver.name = p[2]
           /\ c.envelope = EnvelopeId(Envelope(k)) /\ c.contract = Envelope(k).contract.id
           /\ a.judge.name \in Range(Creations[k].recipients)

\* Two share files of one backup: a directory takes a second one only with
\* fewer shares than what a first one left there.
OfOneBackup(p, q) == p # q /\ p[2] = q[2] /\ files[p].doc.count = files[q].doc.count

\* What a restoration writes unlocks the identity that was backed up; shares
\* of one backup restore it when there are enough, also after a backup that
\* was cut short, and shares of two backups never give another identity
\* (restore_identity_command).
RestoredIsSame ==
  /\ \A p \in DOMAIN files :
       p[1] = "restored" /\ files[p].whole =>
         /\ files[p].doc.public = Identity[p[2]]
         /\ files[p].doc.box.seed = Secret[p[2]].seed /\ files[p].doc.box.ikm = Secret[p[2]].ikm
  /\ last # Nothing /\ last.kind = "restore" =>
       LET first == files[last.paths[1]].doc IN
       \/ Len(last.paths) # first.threshold \/ last.pass \in ShortPassphrases
       \/ \E i, j \in 1..Len(last.paths) : i # j /\ ~OfOneBackup(last.paths[i], last.paths[j])

\* The replacement of a patched file takes away the content that was shown,
\* unless another program wrote between the last comparison and the rename,
\* and the backup holds that content (apply_patch_document,
\* replace_atomically).
PatchedOnPreviewed ==
  lost # Nothing => /\ lost.taken = lost.before \/ lost.raced
                    /\ lost.saved => lost.copy = lost.before

=============================================================================
