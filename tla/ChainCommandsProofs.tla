------------------------ MODULE ChainCommandsProofs ------------------------
(***************************************************************************)
(* The chain commands, for every identity, creation, request and failure.  *)
(*                                                                         *)
(* Patching: PatchInv says which look at the target and which copy of it   *)
(* each point of apply_patch_document relies on.                           *)
(*                                                                         *)
(* Documents: DocInv says what may lie under each name, or is about to be  *)
(* written there.  Awards, restorations and openings follow from it and    *)
(* from what the commands compute from genuine documents.                  *)
(***************************************************************************)
EXTENDS ChainCommands, FiniteSetTheorems, WellFoundedInduction, TLAPS

\* The patch in progress is a record of what BeginPatch gave it.
PatchRecord ==
  patch = [pc |-> patch.pc, mode |-> patch.mode, before |-> patch.before,
           after |-> patch.after, raced |-> patch.raced]

\* From the second comparison to the rename the target is what was previewed,
\* unless somebody wrote it; once it is made, the backup is what was previewed.
Compared == patch.pc = "persist" => target = patch.before \/ patch.raced
Saved == patch.mode.backup /\ patch.pc \in {"stage", "staged", "persist"} => backup = patch.before

PatchInv ==
  /\ patch # NoCommand => PatchRecord /\ Compared /\ Saved
  /\ PatchedOnPreviewed

\* A patch that moves to another point and looks at nothing else.
LEMMA MovedPatch ==
  ASSUME PatchInv, patch # NoCommand, NEW c, To(c)
  PROVE  /\ PatchRecord' /\ patch'.pc = c /\ patch'.mode = patch.mode
         /\ patch'.before = patch.before /\ patch'.after = patch.after /\ patch'.raced = patch.raced
BY DEF PatchInv, PatchRecord, To

\* A patch that has ended leaves what it took away as it was.
LEMMA EndedPatch ==
  ASSUME PatchInv, UNCHANGED lost, patch' = NoCommand
  PROVE  PatchInv'
BY DEF PatchInv, PatchedOnPreviewed

\* The commands that patch nothing.
LEMMA OtherCommands ==
  ASSUME PatchInv, UNCHANGED patchVars
  PROVE  PatchInv'
BY DEF patchVars, PatchInv, PatchRecord, Compared, Saved, PatchedOnPreviewed

\* The first look at the target.
LEMMA BeginStep ==
  ASSUME PatchInv, NEW p, NEW mode, BeginPatch(p, mode)
  PROVE  PatchInv'
<1>1. UNCHANGED lost
  BY DEF BeginPatch, Still
<1>2. CASE patch' = NoCommand
  BY <1>1, <1>2, EndedPatch
<1>3. CASE patch' # NoCommand
  <2>0. PICK c \in {"revalidate", "confirm"} : \E a :
          patch' = [pc |-> c, mode |-> mode, before |-> target, after |-> a, raced |-> FALSE]
    BY <1>3 DEF BeginPatch
  <2>1. PICK a :
          patch' = [pc |-> c, mode |-> mode, before |-> target, after |-> a, raced |-> FALSE]
    BY <2>0
  <2>2. PatchRecord' /\ patch'.pc = c
    BY <2>1 DEF PatchRecord
  <2> QED  BY <1>1, <2>1, <2>2 DEF PatchInv, Compared, Saved, PatchedOnPreviewed
<1> QED  BY <1>2, <1>3

\* The confirmation and the two comparisons.
LEMMA ComparisonSteps ==
  ASSUME PatchInv, confirm \/ RevalidateFirst \/ RevalidateStaged
  PROVE  PatchInv'
<1>1. UNCHANGED <<target, backup, lost>> /\ patch # NoCommand
  BY DEF confirm, RevalidateFirst, RevalidateStaged, revalidate_target, Still, Step
<1>2. CASE \E how : Ended(how)
  BY <1>1, <1>2, EndedPatch DEF Ended
<1>3. CASE confirm /\ To("revalidate")
  BY <1>1, <1>3, MovedPatch DEF PatchInv, Compared, Saved, PatchedOnPreviewed
<1>4. CASE RevalidateFirst /\ ~\E how : Ended(how)
  <2>1. PICK c : c = IF patch.mode.backup THEN "backup" ELSE "stage"
    OBVIOUS
  <2>2. To(c) /\ target = patch.before
    BY <1>4, <2>1 DEF RevalidateFirst, revalidate_target
  <2>3. PatchRecord' /\ patch'.pc = c /\ patch'.mode = patch.mode
    BY <1>1, <2>2, MovedPatch
  <2>4. Compared' /\ Saved'
    BY <2>1, <2>3 DEF Compared, Saved
  <2> QED  BY <1>1, <2>3, <2>4 DEF PatchInv, PatchedOnPreviewed
<1>5. CASE RevalidateStaged /\ ~\E how : Ended(how)
  <2>1. To("persist") /\ target = patch.before /\ patch.pc = "staged"
    BY <1>5 DEF RevalidateStaged, revalidate_target, Step
  <2>2. PatchRecord' /\ patch'.pc = "persist" /\ patch'.mode = patch.mode /\ patch'.before = patch.before
    BY <1>1, <2>1, MovedPatch
  <2>3. Compared' /\ Saved'
    BY <1>1, <2>1, <2>2 DEF Compared, Saved, PatchInv
  <2> QED  BY <1>1, <2>2, <2>3 DEF PatchInv, PatchedOnPreviewed
<1> QED  BY <1>2, <1>3, <1>4, <1>5 DEF confirm

\* The backup, and the staging of the result.
LEMMA StagingSteps ==
  ASSUME PatchInv, create_backup \/ StagePatch
  PROVE  PatchInv'
<1>1. UNCHANGED <<target, lost>> /\ patch # NoCommand
  BY DEF create_backup, StagePatch, Still, Step
<1>2. CASE \E how : Ended(how)
  BY <1>1, <1>2, EndedPatch DEF Ended
<1>3. CASE create_backup /\ ~\E how : Ended(how)
  <2>1. To("stage") /\ backup' = patch.before
    BY <1>3 DEF create_backup, StepFails
  <2>2. PatchRecord' /\ patch'.pc = "stage" /\ patch'.before = patch.before
    BY <1>1, <2>1, MovedPatch
  <2> QED  BY <1>1, <2>1, <2>2 DEF Compared, Saved, PatchInv, PatchedOnPreviewed
<1>4. CASE StagePatch /\ ~\E how : Ended(how)
  <2>1. To("staged") /\ backup' = backup /\ patch.pc = "stage"
    BY <1>4 DEF StagePatch, StepFails, Still, Step
  <2>2. PatchRecord' /\ patch'.pc = "staged" /\ patch'.before = patch.before /\ patch'.mode = patch.mode
    BY <1>1, <2>1, MovedPatch
  <2> QED  BY <1>1, <2>1, <2>2 DEF Compared, Saved, PatchInv, PatchedOnPreviewed
<1> QED  BY <1>2, <1>3, <1>4

\* The rename.
LEMMA PersistStep ==
  ASSUME PatchInv, persist
  PROVE  PatchInv'
<1>1. patch # NoCommand /\ patch.pc = "persist"
  BY DEF persist, Step
<1>2. CASE UNCHANGED lost /\ StepFails
  BY <1>2, EndedPatch DEF StepFails, Ended
<1>3. CASE /\ lost' = [taken |-> target, before |-> patch.before, raced |-> patch.raced,
                       saved |-> patch.mode.backup, copy |-> backup]
           /\ To("sync")
  <2>1. PatchRecord' /\ patch'.pc = "sync"
    BY <1>1, <1>3, MovedPatch
  <2>2. PatchedOnPreviewed'
    BY <1>1, <1>3 DEF PatchInv, Compared, Saved, PatchedOnPreviewed
  <2> QED  BY <2>1, <2>2 DEF PatchInv, Compared, Saved
<1> QED  BY <1>2, <1>3 DEF persist

\* The last steps, the death of the process and the other program.
LEMMA LastSteps ==
  ASSUME PatchInv, sync_parent \/ VerifyPatched \/ KilledPatching
  PROVE  PatchInv'
<1>1. UNCHANGED lost /\ patch # NoCommand
  BY DEF sync_parent, VerifyPatched, KilledPatching, Still, Step
<1>2. patch' = NoCommand \/ To("verify")
  BY DEF sync_parent, VerifyPatched, KilledPatching, Ended
<1>3. CASE To("verify")
  BY <1>1, <1>3, MovedPatch DEF PatchInv, Compared, Saved, PatchedOnPreviewed
<1> QED  BY <1>1, <1>2, <1>3, EndedPatch

\* Another program writes the target.
LEMMA ForeignStep ==
  ASSUME PatchInv, ForeignWrite
  PROVE  PatchInv'
<1>1. patch # NoCommand /\ UNCHANGED <<backup, lost>> /\ PatchRecord
  BY DEF ForeignWrite, PatchInv
<1>2. PICK b : b = (patch.raced \/ patch.pc = "persist")
  OBVIOUS
<1>3. patch' = [patch EXCEPT !.raced = b]
  BY <1>2 DEF ForeignWrite
<1>4. /\ PatchRecord' /\ patch'.pc = patch.pc /\ patch'.mode = patch.mode
      /\ patch'.before = patch.before /\ patch'.raced = b
  BY <1>1, <1>3 DEF PatchRecord
<1>5. Compared' /\ Saved'
  BY <1>1, <1>2, <1>4 DEF PatchInv, Compared, Saved
<1> QED  BY <1>1, <1>4, <1>5 DEF PatchInv, PatchedOnPreviewed

\* The other families of commands leave the target alone.
LEMMA OtherFamilies ==
  ASSUME IdentityCommands \/ CreationCommands \/ AccessCommands
  PROVE  UNCHANGED patchVars
<1>1. /\ \A f, ps, ds, u : Write(f, ps, ds, u) => UNCHANGED patchVars
      /\ \A f, r : Report(f, r) => UNCHANGED patchVars
  BY DEF Write, Report
<1>2. CASE IdentityCommands
  <2>1. \A n, pass : generate_identity_command(n, pass) => UNCHANGED patchVars
    BY <1>1, Zenon DEF generate_identity_command
  <2>2. \A path, pass, new : rekey_identity_command(path, pass, new) => UNCHANGED patchVars
    BY <1>1, Zenon DEF rekey_identity_command
  <2>3. \A path, pass, o : backup_identity_command(path, pass, o) => UNCHANGED patchVars
    BY <1>1, Zenon DEF backup_identity_command
  <2>4. \A path, pass, s : status_identity_command(path, pass, s) => UNCHANGED patchVars
    BY <1>1, Zenon DEF status_identity_command
  <2>5. \A paths, pass : restore_identity_command(paths, pass) => UNCHANGED patchVars
    BY <1>1, Zenon DEF restore_identity_command
  <2> QED  BY <1>2, <2>1, <2>2, <2>3, <2>4, <2>5, Zenon DEF IdentityCommands
<1>3. CASE CreationCommands
  <2>1. \A k, s : create_capsule(k, s) => UNCHANGED patchVars
    BY <1>1, Zenon DEF create_capsule
  <2>2. \A k : audit_capsule_command(k) => UNCHANGED patchVars
    BY <1>1, Zenon DEF audit_capsule_command
  <2>3. \A k : finalize_capsule_command(k) => UNCHANGED patchVars
    BY Zenon DEF finalize_capsule_command
  <2> QED  BY <1>3, <2>1, <2>2, <2>3, Zenon DEF CreationCommands
<1>4. CASE AccessCommands
  <2>1. \A k, path, pass, raw : open_capsule_command(k, path, pass, raw) => UNCHANGED patchVars
    BY <1>1, Zenon DEF open_capsule_command
  <2>2. \A k, path, pass, o, r : authorize_file_operations(k, path, pass, o, r) => UNCHANGED patchVars
    BY <1>1, Zenon DEF authorize_file_operations
  <2>3. \A k, path, key : ClaimWith(k, path, key) => UNCHANGED patchVars
    BY <1>1, Zenon DEF ClaimWith
  <2>4. \A k, path, pass, file : claim_challenge_command(k, path, pass, file) => UNCHANGED patchVars
    BY <2>3, Zenon DEF claim_challenge_command
  <2>5. \A k, path, pass, es : claim_shards_command(k, path, pass, es) => UNCHANGED patchVars
    BY <2>3, Zenon DEF claim_shards_command
  <2>6. \A k, c, path, pass, file :
          award_challenge_command(k, c, path, pass, file) => UNCHANGED patchVars
    BY <1>1, Zenon DEF award_challenge_command
  <2>7. \A k, names, pass : open_sequence_capsule_command(k, names, pass) => UNCHANGED patchVars
    BY <1>1, Zenon DEF open_sequence_capsule_command
  <2>8. /\ \A k, file : solve_challenge_command(k, file) => UNCHANGED patchVars
        /\ \A k, i, file : check_challenge_command(k, i, file) => UNCHANGED patchVars
        /\ \A k, es : solve_shards_command(k, es) => UNCHANGED patchVars
    BY <1>1, Zenon DEF solve_challenge_command, check_challenge_command, solve_shards_command
  <2> QED
    BY <1>4, <2>1, <2>2, <2>4, <2>5, <2>6, <2>7, <2>8, Zenon DEF AccessCommands
<1> QED  BY <1>2, <1>3, <1>4

\* Every step keeps the invariant.
LEMMA PatchInvStep == PatchInv /\ [Next]_vars => PatchInv'
<1> SUFFICES ASSUME PatchInv, [Next]_vars  PROVE PatchInv'
  OBVIOUS
<1>1. CASE PatchCommands
  <2>1. CASE \E p, mode : BeginPatch(p, mode)
    BY <2>1, BeginStep
  <2> QED
    BY <1>1, <2>1, ComparisonSteps, StagingSteps, PersistStep, LastSteps, ForeignStep
    DEF PatchCommands, apply_patch_file, patch_capsule_command
<1>2. CASE IdentityCommands \/ CreationCommands \/ AccessCommands
  BY <1>2, OtherFamilies, OtherCommands
<1>3. CASE WriteNext \/ WriteFails \/ Killed
  BY <1>3, OtherCommands DEF WriteNext, WriteFails, Killed
<1>4. CASE UNCHANGED vars
  BY <1>4, OtherCommands DEF vars, patchVars
<1> QED  BY <1>1, <1>2, <1>3, <1>4 DEF Next

\* The replacement of a patched file takes away the content that was shown to
\* the user, unless another program wrote in the window the code leaves open,
\* and a backup that was asked for holds that content: for every patch, every
\* target, and whatever failed before (apply_patch_document).
THEOREM PatchTakesWhatWasShown == Spec => []PatchedOnPreviewed
<1>1. Init => PatchInv
  BY DEF Init, PatchInv, PatchedOnPreviewed
<1>2. PatchInv => PatchedOnPreviewed
  BY DEF PatchInv
<1> QED  BY <1>1, <1>2, PatchInvStep, PTL DEF Spec

-----------------------------------------------------------------------------
(* Checks.                                                                 *)

\* A set of natural numbers that is not empty has a smallest element.
LEMMA Smallest ==
  ASSUME NEW S, S \subseteq Nat, S # {}
  PROVE  \E i \in S : \A j \in S : i <= j
<1>1. PICK i \in S : \A j \in S : ~(<<j, i>> \in OpToRel(<, Nat))
  BY NatLessThanWellFounded, WFMin
<1>2. \A j \in S : <<j, i>> \in OpToRel(<, Nat) <=> j < i
  BY DEF OpToRel
<1>3. \A j \in S : ~(j < i)
  BY <1>1, <1>2, Zenon
<1> QED  BY <1>3

\* A validator whose checks all hold passes.
LEMMA NoneFails ==
  ASSUME NEW l, \A i \in 1..Len(l) : ~l[i][1]
  PROVE  FirstError(l) = Passed
BY DEF FirstError, Failing

\* A validator passes only if each of its checks holds.
LEMMA AllHold ==
  ASSUME NEW l, Len(l) \in Nat, FirstError(l) = Passed,
         \A i \in 1..Len(l) : l[i][1] => l[i][2] # Passed
  PROVE  \A i \in 1..Len(l) : ~l[i][1]
<1>1. Failing(l) \subseteq 1..Len(l) /\ \A i \in Failing(l) : l[i][1]
  BY DEF Failing
<1>2. ASSUME Failing(l) # {}  PROVE FALSE
  <2>1. \E i \in Failing(l) : \A j \in Failing(l) : i <= j
    BY <1>1, <1>2, Smallest
  <2>2. (CHOOSE i \in Failing(l) : \A j \in Failing(l) : i <= j) \in Failing(l)
    BY <2>1
  <2>3. \E i \in Failing(l) : FirstError(l) = l[i][2]
    BY <1>2, <2>2 DEF FirstError
  <2> QED  BY <1>1, <2>3
<1> QED  BY <1>2 DEF Failing

\* Lists of one to five checks.
LEMMA OneChecks ==
  ASSUME NEW a \in BOOLEAN,
         NEW f,
         a => f # Passed
  PROVE  FirstError(<< <<a, f>> >>) = Passed <=> ~a
<1> DEFINE l == << <<a, f>> >>
<1>1. /\ Len(l) = 1 /\ l[1][1] = a
      /\ l[1][2] = f
  OBVIOUS
<1> HIDE DEF l
<1>2. Len(l) \in Nat /\ \A n \in 1..Len(l) : l[n][1] => l[n][2] # Passed
  BY <1>1
<1>3. FirstError(l) = Passed <=> \A n \in 1..Len(l) : ~l[n][1]
  BY <1>2, AllHold, NoneFails, Zenon
<1>4. (\A n \in 1..Len(l) : ~l[n][1]) <=> ~a
  BY <1>1
<1> QED  BY <1>3, <1>4 DEF l

\* Two checks in a row pass when neither finds anything.
LEMMA TwoChecks ==
  ASSUME NEW a \in BOOLEAN, NEW b \in BOOLEAN,
         NEW f, NEW g,
         a => f # Passed, b => g # Passed
  PROVE  FirstError(<< <<a, f>>, <<b, g>> >>) = Passed <=> ~a /\ ~b
<1> DEFINE l == << <<a, f>>, <<b, g>> >>
<1>1. /\ Len(l) = 2 /\ l[1][1] = a /\ l[2][1] = b
      /\ l[1][2] = f /\ l[2][2] = g
  OBVIOUS
<1> HIDE DEF l
<1>2. Len(l) \in Nat /\ \A n \in 1..Len(l) : l[n][1] => l[n][2] # Passed
  BY <1>1
<1>3. FirstError(l) = Passed <=> \A n \in 1..Len(l) : ~l[n][1]
  BY <1>2, AllHold, NoneFails, Zenon
<1>4. (\A n \in 1..Len(l) : ~l[n][1]) <=> ~a /\ ~b
  BY <1>1
<1> QED  BY <1>3, <1>4 DEF l

\* The same for three checks in a row.
LEMMA ThreeChecks ==
  ASSUME NEW a \in BOOLEAN, NEW b \in BOOLEAN, NEW c \in BOOLEAN,
         NEW f, NEW g, NEW h,
         a => f # Passed, b => g # Passed, c => h # Passed
  PROVE  FirstError(<< <<a, f>>, <<b, g>>, <<c, h>> >>) = Passed <=> ~a /\ ~b /\ ~c
<1> DEFINE l == << <<a, f>>, <<b, g>>, <<c, h>> >>
<1>1. /\ Len(l) = 3 /\ l[1][1] = a /\ l[2][1] = b /\ l[3][1] = c
      /\ l[1][2] = f /\ l[2][2] = g /\ l[3][2] = h
  OBVIOUS
<1> HIDE DEF l
<1>2. Len(l) \in Nat /\ \A n \in 1..Len(l) : l[n][1] => l[n][2] # Passed
  BY <1>1
<1>3. FirstError(l) = Passed <=> \A n \in 1..Len(l) : ~l[n][1]
  BY <1>2, AllHold, NoneFails, Zenon
<1>4. (\A n \in 1..Len(l) : ~l[n][1]) <=> ~a /\ ~b /\ ~c
  BY <1>1
<1> QED  BY <1>3, <1>4 DEF l

\* The same for four checks in a row.
LEMMA FourChecks ==
  ASSUME NEW a \in BOOLEAN, NEW b \in BOOLEAN, NEW c \in BOOLEAN, NEW d \in BOOLEAN,
         NEW f, NEW g, NEW h, NEW i,
         a => f # Passed, b => g # Passed, c => h # Passed, d => i # Passed
  PROVE  FirstError(<< <<a, f>>, <<b, g>>, <<c, h>>, <<d, i>> >>) = Passed <=> ~a /\ ~b /\ ~c /\ ~d
<1> DEFINE l == << <<a, f>>, <<b, g>>, <<c, h>>, <<d, i>> >>
<1>1. /\ Len(l) = 4 /\ l[1][1] = a /\ l[2][1] = b /\ l[3][1] = c /\ l[4][1] = d
      /\ l[1][2] = f /\ l[2][2] = g /\ l[3][2] = h /\ l[4][2] = i
  OBVIOUS
<1> HIDE DEF l
<1>2. Len(l) \in Nat /\ \A n \in 1..Len(l) : l[n][1] => l[n][2] # Passed
  BY <1>1
<1>3. FirstError(l) = Passed <=> \A n \in 1..Len(l) : ~l[n][1]
  BY <1>2, AllHold, NoneFails, Zenon
<1>4. (\A n \in 1..Len(l) : ~l[n][1]) <=> ~a /\ ~b /\ ~c /\ ~d
  BY <1>1
<1> QED  BY <1>3, <1>4 DEF l

\* The same for five checks in a row.
LEMMA FiveChecks ==
  ASSUME NEW a \in BOOLEAN, NEW b \in BOOLEAN, NEW c \in BOOLEAN, NEW d \in BOOLEAN, NEW e \in BOOLEAN,
         NEW f, NEW g, NEW h, NEW i, NEW j,
         a => f # Passed, b => g # Passed, c => h # Passed, d => i # Passed, e => j # Passed
  PROVE  FirstError(<< <<a, f>>, <<b, g>>, <<c, h>>, <<d, i>>, <<e, j>> >>) = Passed <=> ~a /\ ~b /\ ~c /\ ~d /\ ~e
<1> DEFINE l == << <<a, f>>, <<b, g>>, <<c, h>>, <<d, i>>, <<e, j>> >>
<1>1. /\ Len(l) = 5 /\ l[1][1] = a /\ l[2][1] = b /\ l[3][1] = c /\ l[4][1] = d /\ l[5][1] = e
      /\ l[1][2] = f /\ l[2][2] = g /\ l[3][2] = h /\ l[4][2] = i /\ l[5][2] = j
  OBVIOUS
<1> HIDE DEF l
<1>2. Len(l) \in Nat /\ \A n \in 1..Len(l) : l[n][1] => l[n][2] # Passed
  BY <1>1
<1>3. FirstError(l) = Passed <=> \A n \in 1..Len(l) : ~l[n][1]
  BY <1>2, AllHold, NoneFails, Zenon
<1>4. (\A n \in 1..Len(l) : ~l[n][1]) <=> ~a /\ ~b /\ ~c /\ ~d /\ ~e
  BY <1>1
<1> QED  BY <1>3, <1>4 DEF l

-----------------------------------------------------------------------------
(* Sorting.                                                                *)

\* The elements that come before element i.
Earlier(keys, i) ==
  {j \in 1..Len(keys) : keys[j] < keys[i] \/ (keys[j] = keys[i] /\ j < i)}

\* Every place belongs to exactly one element.
LEMMA PlaceBijective ==
  ASSUME NEW keys, NEW n \in Nat, Len(keys) = n, \A i \in 1..n : keys[i] \in Nat
  PROVE  /\ \A i \in 1..n : Place(keys, i) \in 1..n
         /\ \A k \in 1..n : \E i \in 1..n : Place(keys, i) = k
         /\ \A i, k \in 1..n : Place(keys, i) = Place(keys, k) => i = k
<1>1. IsFiniteSet(1..n) /\ Cardinality(1..n) = n
  BY FS_Interval
<1>2. \A i \in 1..n : /\ Earlier(keys, i) \in SUBSET (1..n) /\ i \notin Earlier(keys, i)
                      /\ IsFiniteSet(Earlier(keys, i)) /\ Cardinality(Earlier(keys, i)) \in Nat
                      /\ Place(keys, i) = 1 + Cardinality(Earlier(keys, i))
  <2>1. \A i \in 1..n : Earlier(keys, i) \in SUBSET (1..n) /\ i \notin Earlier(keys, i)
    BY DEF Earlier
  <2>2. \A i \in 1..n : IsFiniteSet(Earlier(keys, i))
    BY <1>1, <2>1, FS_Subset
  <2>3. \A i \in 1..n : Cardinality(Earlier(keys, i)) \in Nat
    BY <2>2, FS_CardinalityType
  <2> QED  BY <2>1, <2>2, <2>3 DEF Place, Earlier
<1>3. ASSUME NEW i \in 1..n, NEW k \in 1..n, i \in Earlier(keys, k)
      PROVE  Place(keys, i) # Place(keys, k)
  <2>1. Earlier(keys, i) \in SUBSET Earlier(keys, k) /\ Earlier(keys, i) # Earlier(keys, k)
    <3>1. ASSUME NEW j \in Earlier(keys, i)  PROVE j \in Earlier(keys, k)
      <4>1. /\ j \in 1..n /\ keys[j] \in Nat /\ keys[i] \in Nat /\ keys[k] \in Nat
            /\ keys[j] < keys[i] \/ (keys[j] = keys[i] /\ j < i)
            /\ keys[i] < keys[k] \/ (keys[i] = keys[k] /\ i < k)
        BY <1>3, <3>1 DEF Earlier
      <4>2. keys[j] < keys[k] \/ (keys[j] = keys[k] /\ j < k)
        BY <4>1
      <4> QED  BY <4>1, <4>2 DEF Earlier
    <3> QED  BY <1>2, <1>3, <3>1
  <2>2. Cardinality(Earlier(keys, i)) # Cardinality(Earlier(keys, k))
    BY <1>2, <2>1, FS_Subset
  <2> QED  BY <1>2, <2>2
<1>4. ASSUME NEW i \in 1..n, NEW k \in 1..n, i # k  PROVE Place(keys, i) # Place(keys, k)
  <2>1. i \in Earlier(keys, k) \/ k \in Earlier(keys, i)
    BY <1>4 DEF Earlier
  <2> QED  BY <1>3, <2>1
<1>5. \A i \in 1..n : Place(keys, i) \in 1..n
  <2> SUFFICES ASSUME NEW i \in 1..n  PROVE Place(keys, i) \in 1..n
    OBVIOUS
  <2>1. Cardinality(Earlier(keys, i)) <= n /\ Cardinality(Earlier(keys, i)) # n
    BY <1>1, <1>2, FS_Subset
  <2> QED  BY <1>2, <2>1
<1>6. PICK f : f = [i \in 1..n |-> Place(keys, i)]
  OBVIOUS
<1>7. f \in Injection(1..n, 1..n)
  <2>1. f \in [1..n -> 1..n]
    BY <1>5, <1>6
  <2>2. \A x, y \in 1..n : f[x] = f[y] => x = y
    BY <1>4, <1>6
  <2> QED  BY <2>1, <2>2 DEF Injection, IsInjective
<1>8. f \in Surjection(1..n, 1..n)
  BY <1>1, <1>7, FS_Injection
<1>9. \A k \in 1..n : \E i \in 1..n : Place(keys, i) = k
  BY <1>6, <1>8 DEF Surjection
<1> QED  BY <1>4, <1>5, <1>9

\* Sorting loses no element and adds none.
Reordered(t, s, n) ==
  /\ t = [k \in 1..n |-> t[k]] /\ Len(t) = n
  /\ \A k \in 1..n : \E i \in 1..n : t[k] = s[i]
  /\ \A i \in 1..n : \E k \in 1..n : t[k] = s[i]

\* A sorted list holds what the list held, whatever the keys are.
LEMMA SortedElements ==
  ASSUME NEW s, NEW keys, NEW n \in Nat, Len(s) = n, Len(keys) = n, \A i \in 1..n : keys[i] \in Nat
  PROVE  Reordered(SortedBy(s, keys), s, n)
<1> DEFINE at(k) == CHOOSE i \in 1..n : Place(keys, i) = k
<1>1. SortedBy(s, keys) = [k \in 1..n |-> s[at(k)]]
  BY DEF SortedBy
<1>2. /\ \A i \in 1..n : Place(keys, i) \in 1..n
      /\ \A k \in 1..n : \E i \in 1..n : Place(keys, i) = k
      /\ \A i, k \in 1..n : Place(keys, i) = Place(keys, k) => i = k
  BY PlaceBijective
<1>3. \A k \in 1..n : at(k) \in 1..n /\ Place(keys, at(k)) = k
  BY <1>2
<1> HIDE DEF at
<1>4. \A i \in 1..n : at(Place(keys, i)) = i
  BY <1>2, <1>3
<1>5. Len(SortedBy(s, keys)) = n /\ \A k \in 1..n : SortedBy(s, keys)[k] = s[at(k)]
  BY <1>1
<1>6. SortedBy(s, keys) = [k \in 1..n |-> SortedBy(s, keys)[k]]
  BY <1>1
<1>7. \A i \in 1..n : \E k \in 1..n : SortedBy(s, keys)[k] = s[i]
  BY <1>2, <1>4, <1>5
<1>8. \A k \in 1..n : \E i \in 1..n : SortedBy(s, keys)[k] = s[i]
  BY <1>3, <1>5
<1> QED  BY <1>5, <1>6, <1>7, <1>8, Zenon DEF Reordered

-----------------------------------------------------------------------------
(* Identities.                                                             *)

\* What the id of an identity is over.
IdMessage(n) ==
  identity_message(n, SigningKey(Secret[n].seed), EncryptionKey(Secret[n].ikm), Identity[n].nonce)

\* The identities of the world are what generation makes of their names.
LEMMA IdentityParts ==
  ASSUME NEW n \in Name
  PROVE  /\ n \in Nat /\ n # 0 /\ Identity[n].name = n
         /\ Identity[n].signing = SigningKey(Secret[n].seed)
         /\ Identity[n].encryption = EncryptionKey(Secret[n].ikm)
         /\ Id(n) = <<"identity-id", IdMessage(n)>> /\ Identity[n].id = Id(n)
         /\ Identity[n].proof = Sign(Secret[n].seed, IdMessage(n))
         /\ IdMessage(n)[2] = n
<1>1. n \in Nat /\ n # 0
  BY IdentityAssumption
<1>2. PICK nonce : nonce = Identity[n].nonce
  OBVIOUS
<1>3. Identity[n] = PublicIdentity(n, Secret[n].seed, Secret[n].ikm, nonce)
  BY <1>2, IdentityAssumption
<1>4. IdMessage(n)[2] = n
  BY DEF IdMessage, identity_message
<1>5. PICK m : m = IdMessage(n)
  OBVIOUS
<1>6. m = identity_message(n, SigningKey(Secret[n].seed), EncryptionKey(Secret[n].ikm), nonce)
  BY <1>2, <1>5 DEF IdMessage
<1> QED  BY <1>1, <1>3, <1>4, <1>5, <1>6 DEF PublicIdentity, Id

\* They have distinct ids, which are in the order of the names.
LEMMA DistinctIds ==
  /\ \A m, n \in Name : Id(m) = Id(n) => m = n
  /\ \A n \in Name : Rank(Id(n)) = n /\ Id(n)[1] = "identity-id"
<1>1. ASSUME NEW n \in Name  PROVE Id(n)[1] = "identity-id" /\ Id(n)[2] = IdMessage(n)
  BY IdentityParts
<1>2. \A n \in Name : IdMessage(n)[2] = n
  BY IdentityParts
<1>3. ASSUME NEW m \in Name, NEW n \in Name, Id(m) = Id(n)  PROVE m = n
  BY <1>1, <1>2, <1>3, Zenon
<1>4. ASSUME NEW n \in Name  PROVE Rank(Id(n)) = n
  BY <1>1, <1>2 DEF Rank
<1> QED  BY <1>1, <1>3, <1>4

\* A public document of the world is valid.
LEMMA IdentityValid ==
  ASSUME NEW n \in Name
  PROVE  PublicIdentityError(Identity[n]) = Passed
<1> DEFINE p == Identity[n]
           message == identity_message(p.name, p.signing, p.encryption, p.nonce)
           a == p.name = 0
           b == ~Signed(p.proof, p.signing, message)
           c == p.id # <<"identity-id", message>>
<1>1. a \in BOOLEAN /\ b \in BOOLEAN /\ c \in BOOLEAN
  OBVIOUS
<1>2. message = IdMessage(n)
  BY IdentityParts DEF IdMessage
<1>3. PublicIdentityError(p) = FirstError(<< <<a, "InvalidName">>, <<b, "InvalidSignature">>,
                                            <<c, "IdentityMismatch">> >>)
  BY Zenon DEF PublicIdentityError
<1> HIDE DEF message
<1>4. ~a /\ ~b /\ ~c
  <2>1. ~a
    BY IdentityParts
  <2>2. p.proof = [by |-> p.signing, message |-> message]
    BY <1>2, IdentityParts DEF Sign
  <2>3. ~b
    BY <2>2 DEF Signed
  <2>4. ~c
    BY <1>2, IdentityParts
  <2> QED  BY <2>1, <2>3, <2>4
<1> HIDE DEF a, b, c
<1> QED  BY <1>1, <1>3, <1>4, ThreeChecks

\* The private document of an identity, with a passphrase that may protect it.
KeyDoc(n, d) ==
  /\ n \in Name
  /\ \E pass, salt, scheme :
       /\ pass \notin ShortPassphrases /\ scheme \in {"v1", "v2"}
       /\ d = PrivateIdentity(Identity[n], Secret[n].seed, Secret[n].ikm, pass, salt, scheme)

\* Its passphrase unlocks it, and no other (EncryptedIdentityDocument::unlock).
LEMMA UnlockExactly ==
  ASSUME NEW n, NEW d, KeyDoc(n, d), NEW pass
  PROVE  /\ UnlockError(d, pass) = Passed <=> pass = PassOf(d)
         /\ PassOf(d) \notin ShortPassphrases
         /\ d.public = Identity[n] /\ d.box.seed = Secret[n].seed /\ d.box.ikm = Secret[n].ikm
<1>1. PICK own, salt, scheme :
        /\ own \notin ShortPassphrases /\ scheme \in {"v1", "v2"}
        /\ d = PrivateIdentity(Identity[n], Secret[n].seed, Secret[n].ikm, own, salt, scheme)
  BY DEF KeyDoc
<1>2. /\ d.scheme = scheme /\ d.public = Identity[n] /\ d.salt = salt
      /\ d.box.key = derive_encryption_key(own, salt, Cost(scheme))
      /\ d.box.aad = private_aad(Identity[n], salt, Cost(scheme))
      /\ d.box.seed = Secret[n].seed /\ d.box.ikm = Secret[n].ikm
  BY <1>1 DEF PrivateIdentity
<1>3. PassOf(d) = own
  BY <1>2 DEF PassOf, derive_encryption_key
<1>4. n \in Name /\ PublicIdentityError(d.public) = Passed
  BY <1>2, IdentityValid DEF KeyDoc
<1>5. PrivateIdentityError(d) = Passed
  <2> DEFINE a == d.scheme \notin {"v1", "v2"}
             b == PublicIdentityError(d.public) # Passed
  <2>1. a \in BOOLEAN /\ b \in BOOLEAN /\ ~a /\ ~b
    BY <1>1, <1>2, <1>4
  <2>2. PrivateIdentityError(d) =
          FirstError(<< <<a, "UnsupportedDocument">>, <<b, PublicIdentityError(d.public)>> >>)
    BY Zenon DEF PrivateIdentityError
  <2> HIDE DEF a, b
  <2> QED  BY <2>1, <2>2, TwoChecks
<1>6. unlocked_from_seeds(d.box.seed, d.box.ikm, d.public) = Passed
  <2> DEFINE a == SigningKey(d.box.seed) # d.public.signing \/ EncryptionKey(d.box.ikm) # d.public.encryption
             b == PublicIdentityError(d.public) # Passed
  <2>1. a \in BOOLEAN /\ b \in BOOLEAN /\ ~a /\ ~b
    BY <1>2, <1>4, IdentityParts
  <2>2. unlocked_from_seeds(d.box.seed, d.box.ikm, d.public) =
          FirstError(<< <<a, "IdentityMismatch">>, <<b, PublicIdentityError(d.public)>> >>)
    BY Zenon DEF unlocked_from_seeds
  <2> HIDE DEF a, b
  <2> QED  BY <2>1, <2>2, TwoChecks
<1>7. UnlockError(d, pass) = Passed <=> pass = own
  <2> DEFINE a == PrivateIdentityError(d) # Passed
             b == pass \in ShortPassphrases
             c == \/ d.box.key # derive_encryption_key(pass, d.salt, Cost(d.scheme))
                  \/ d.box.aad # private_aad(d.public, d.salt, Cost(d.scheme))
             e == unlocked_from_seeds(d.box.seed, d.box.ikm, d.public) # Passed
  <2>1. a \in BOOLEAN /\ b \in BOOLEAN /\ c \in BOOLEAN /\ e \in BOOLEAN
    OBVIOUS
  <2>2. ~a /\ ~e
    BY <1>5, <1>6
  <2>3. ~c <=> pass = own
    BY <1>2 DEF derive_encryption_key
  <2>4. ~b /\ ~c <=> pass = own
    BY <1>1, <2>3
  <2>5. UnlockError(d, pass) =
          FirstError(<< <<a, PrivateIdentityError(d)>>, <<b, "InvalidPassphrase">>,
                        <<c, "AuthenticationFailed">>, <<e, "IdentityMismatch">> >>)
    BY Zenon DEF UnlockError, validate_passphrase
  <2>6. /\ a => PrivateIdentityError(d) # Passed
        /\ b => "InvalidPassphrase" # Passed
        /\ c => "AuthenticationFailed" # Passed
        /\ e => "IdentityMismatch" # Passed
    BY DEF Passed
  <2> HIDE DEF a, b, c, e
  <2>7. UnlockError(d, pass) = Passed <=> ~a /\ ~b /\ ~c /\ ~e
    BY <2>1, <2>5, <2>6, FourChecks
  <2> QED  BY <2>2, <2>4, <2>7
<1> QED  BY <1>1, <1>2, <1>3, <1>7

-----------------------------------------------------------------------------
(* Documents: where everything that is on disk, or is being written, came  *)
(* from.                                                                   *)

\* Share i of a backup of identity n with options b.
ShareOf(n, b, i) ==
  backup_identity([public |-> Identity[n], box |-> [seed |-> Secret[n].seed, ikm |-> Secret[n].ikm]],
                  b[1], b[2], b[3])[i]
ShareDoc(p, d, n, b) ==
  /\ n \in Name /\ b \in BackupOptions /\ ~validate_backup_parameters(b[1], b[2])[1]
  /\ p[3] \in 1..b[1] /\ p = <<"share", b[4], p[3]>> /\ d = ShareOf(n, b, p[3])

\* The proposal of creation k, which is also its envelope.
CapsuleDoc(k, d) ==
  /\ k \in DOMAIN Creations /\ Propose(Creations[k]).error = Passed
  /\ d = Propose(Creations[k]).proposal

\* What a document with the path p may be.
Genuine(p, d) ==
  /\ p[1] \in {"key", "rekeyed", "restored"} => KeyDoc(p[2], d)
  /\ p[1] = "share" => \E n, b : ShareDoc(p, d, n, b)
  /\ p[1] \in {"proposal", "capsule"} => CapsuleDoc(p[2], d)
  /\ p[1] = "claim" => p = <<"claim", p[2]>> /\ p[2] \in Name /\ d.solver = Identity[p[2]]

\* A document on disk or in the hands of the command that writes it.
Planned(p, d) ==
  cmd # NoCommand /\ \E i \in 1..Len(cmd.paths) : p = cmd.paths[i] /\ d = cmd.docs[i]
Held(p, d) == (Readable(p) /\ d = files[p].doc) \/ Planned(p, d)

AllGenuine == \A p, d : Held(p, d) => Genuine(p, d)

\* Shares in one directory that say the same count are of one backup.
OneBackup ==
  \A dir, count : \E n, b : \A p, d :
    Held(p, d) /\ p[1] = "share" /\ p[2] = dir /\ d.count = count => ShareDoc(p, d, n, b)

\* An award verifies for a capsule that is there and that its claim was made
\* for, and its judge was listed.
ClaimFor(e, c) == c.envelope = EnvelopeId(e) /\ c.contract = e.contract.id
AwardDoc(p, d) ==
  \E k \in budget.creations :
    /\ Readable(CapsulePath(k)) /\ Readable(<<"claim", p[2]>>)
    /\ verify_challenge_award(Envelope(k), files[<<"claim", p[2]>>].doc, d) = Passed
    /\ ClaimFor(Envelope(k), files[<<"claim", p[2]>>].doc)
    /\ d.judge.name \in Range(Creations[k].recipients)
AllAwards == \A p, d : Held(p, d) /\ p[1] = "award" => AwardDoc(p, d)

\* The command that writes its files: none of those it has yet to write is
\* there, and what it may remove is no claim and no capsule.
CmdShape ==
  cmd # NoCommand =>
    /\ cmd = [paths |-> cmd.paths, docs |-> cmd.docs, done |-> cmd.done, undo |-> cmd.undo]
    /\ Len(cmd.paths) \in Nat /\ cmd.done \in Nat /\ cmd.done < Len(cmd.paths)
    /\ \A i \in 1..Len(cmd.paths) :
         i > cmd.done => cmd.paths[i] \notin DOMAIN files \/ cmd.paths[i][1] = "audit"
    /\ \A i, j \in 1..Len(cmd.paths) :
         cmd.paths[i] = cmd.paths[j] => i = j \/ cmd.paths[i][1] = "audit"
    /\ cmd.undo => \A i \in 1..Len(cmd.paths) : cmd.paths[i][1] \notin {"claim", "capsule"}
    /\ last = Nothing /\ patch = NoCommand

BudgetType ==
  budget \in [identity : Nat, create : Nat, access : Nat, patch : Nat, creations : SUBSET DOMAIN Creations]

DocInv == AllGenuine /\ OneBackup /\ AllAwards /\ CmdShape /\ BudgetType

\* OneBackup for one directory and one count.
LEMMA BackupAt ==
  ASSUME OneBackup, NEW dir, NEW count
  PROVE  \E n, b : \A p, d :
           Held(p, d) /\ p[1] = "share" /\ p[2] = dir /\ d.count = count => ShareDoc(p, d, n, b)
BY Zenon DEF OneBackup

\* A step that leaves the documents alone.
LEMMA SameDocs ==
  ASSUME DocInv, UNCHANGED <<files, cmd>>, budget'.creations = budget.creations, BudgetType',
         cmd # NoCommand => UNCHANGED <<last, patch>>
  PROVE  DocInv'
<1>1. \A p, d : Held(p, d)' <=> Held(p, d)
  BY DEF Held, Planned, Readable
<1>2. AllGenuine' /\ OneBackup'
  BY <1>1, Zenon DEF DocInv, AllGenuine, OneBackup
<1>3. \A p, d : AwardDoc(p, d) => AwardDoc(p, d)'
  BY DEF AwardDoc, Readable, Envelope
<1>4. AllAwards'
  BY <1>1, <1>3, Zenon DEF DocInv, AllAwards
<1>5. CmdShape'
  BY DEF DocInv, CmdShape
<1> QED  BY <1>2, <1>4, <1>5 DEF DocInv

\* A step of the writing command adds no document, and leaves the claims and
\* the capsules where they are.
FilesKept ==
  \A p : Readable(p) /\ p[1] \in {"claim", "capsule"} => Readable(p)' /\ files'[p] = files[p]

\* What holds after each of the steps of a command that writes.
LEMMA WritingStep ==
  ASSUME DocInv, WriteNext \/ WriteFails \/ Killed
  PROVE  /\ \A p, d : Held(p, d)' => Held(p, d)
         /\ FilesKept /\ CmdShape' /\ BudgetType' /\ budget' = budget
<1>1. /\ cmd # NoCommand /\ Len(cmd.paths) \in Nat /\ cmd.done \in Nat /\ cmd.done < Len(cmd.paths)
      /\ cmd = [paths |-> cmd.paths, docs |-> cmd.docs, done |-> cmd.done, undo |-> cmd.undo]
      /\ \A i \in 1..Len(cmd.paths) :
           i > cmd.done => cmd.paths[i] \notin DOMAIN files \/ cmd.paths[i][1] = "audit"
      /\ \A i, j \in 1..Len(cmd.paths) :
           cmd.paths[i] = cmd.paths[j] => i = j \/ cmd.paths[i][1] = "audit"
      /\ cmd.undo => \A i \in 1..Len(cmd.paths) : cmd.paths[i][1] \notin {"claim", "capsule"}
      /\ last = Nothing /\ patch = NoCommand
  BY DEF DocInv, CmdShape, WriteNext, WriteFails, Killed
<1>2. budget' = budget /\ UNCHANGED <<last, patch>> /\ BudgetType'
  BY DEF WriteNext, WriteFails, Killed, patchVars, DocInv, BudgetType
<1>3. PICK next : next = cmd.done + 1
  OBVIOUS
<1>4. /\ next \in 1..Len(cmd.paths) /\ NextPath = cmd.paths[next] /\ NextDoc = cmd.docs[next]
      /\ NextPath \notin DOMAIN files \/ NextPath[1] = "audit"
  BY <1>1, <1>3 DEF NextPath, NextDoc
<1>5. Planned(NextPath, NextDoc)
  BY <1>1, <1>4 DEF Planned
<1>6. \A p \in Written : p[1] \notin {"claim", "capsule"} \/ ~cmd.undo
  BY <1>1 DEF Written
<1>7. CASE WriteNext
  <2>1. files' = [p \in DOMAIN files \cup {NextPath} |-> IF p = NextPath THEN Whole(NextDoc) ELSE files[p]]
    BY <1>7 DEF WriteNext, Present
  <2>2. cmd' = NoCommand \/ (cmd' = [cmd EXCEPT !.done = next] /\ next # Len(cmd.paths))
    BY <1>3, <1>7 DEF WriteNext
  <2>3. \A p, d : Planned(p, d)' => Planned(p, d)
    BY <1>1, <2>2 DEF Planned
  <2>4. ASSUME NEW p, Readable(p)'  PROVE Held(p, files'[p].doc)
    <3>1. CASE p = NextPath
      BY <1>5, <2>1, <3>1 DEF Held, Whole
    <3>2. CASE p # NextPath
      BY <2>1, <2>4, <3>2 DEF Held, Readable
    <3> QED  BY <3>1, <3>2
  <2>5. \A p, d : Held(p, d)' => Held(p, d)
    BY <2>3, <2>4 DEF Held
  <2>6. FilesKept
    <3>1. \A p \in DOMAIN files : p[1] \in {"claim", "capsule"} => p # NextPath
      BY <1>4
    <3> QED  BY <2>1, <3>1 DEF FilesKept, Readable
  <2>7. CmdShape'
    <3>1. CASE cmd' = NoCommand
      BY <3>1 DEF CmdShape
    <3>2. CASE cmd' = [cmd EXCEPT !.done = next] /\ next # Len(cmd.paths)
      <4>1. /\ cmd' = [paths |-> cmd.paths, docs |-> cmd.docs, done |-> next, undo |-> cmd.undo]
            /\ cmd'.paths = cmd.paths /\ cmd'.docs = cmd.docs /\ cmd'.done = next /\ cmd'.undo = cmd.undo
        BY <1>1, <3>2
      <4>2. next \in Nat /\ next < Len(cmd.paths)
        BY <1>1, <1>4, <3>2
      <4>3. ASSUME NEW i \in 1..Len(cmd.paths), i > next
            PROVE  cmd.paths[i] \notin DOMAIN files' \/ cmd.paths[i][1] = "audit"
        <5>1. cmd.paths[i] \notin DOMAIN files \/ cmd.paths[i][1] = "audit"
          BY <1>1, <1>3, <4>3
        <5>2. cmd.paths[i] # NextPath \/ cmd.paths[i][1] = "audit"
          BY <1>1, <1>4, <4>3
        <5> QED  BY <2>1, <5>1, <5>2
      <4> QED  BY <1>1, <1>2, <4>1, <4>2, <4>3 DEF CmdShape
    <3> QED  BY <2>2, <3>1, <3>2
  <2> QED  BY <1>2, <2>5, <2>6, <2>7
<1>8. CASE WriteFails \/ Killed
  <2>1. PICK kept : /\ kept = files \/ (cmd.undo /\ kept = [p \in DOMAIN files \ Written |-> files[p]])
                    /\ \/ files' = kept
                       \/ \E left \in {Torn, Whole(NextDoc)} :
                            files' = [p \in DOMAIN kept \cup {NextPath} |->
                                        IF p = NextPath THEN left ELSE kept[p]]
    <3>1. CASE WriteFails
      <4>1. PICK left \in {Torn, Whole(NextDoc), Absent} :
              LET k == IF cmd.undo THEN Without(Written) ELSE files IN
              files' = IF left = Absent THEN k ELSE Present(k, NextPath, left)
        BY <3>1 DEF WriteFails
      <4>2. PICK k : k = IF cmd.undo THEN Without(Written) ELSE files
        OBVIOUS
      <4>3. k = files \/ (cmd.undo /\ k = [p \in DOMAIN files \ Written |-> files[p]])
        BY <4>2 DEF Without
      <4>4. files' = k \/ (left # Absent /\ files' = Present(k, NextPath, left))
        BY <4>1, <4>2
      <4> QED  BY <4>3, <4>4 DEF Present
    <3>2. CASE Killed
      BY <3>2 DEF Killed, Present
    <3> QED  BY <1>8, <3>1, <3>2
  <2>2. cmd' = NoCommand
    BY <1>8 DEF WriteFails, Killed
  <2>3. \A p \in DOMAIN kept : p \in DOMAIN files /\ kept[p] = files[p]
    BY <2>1
  <2>4. ASSUME NEW p, Readable(p)'  PROVE Held(p, files'[p].doc)
    <3>1. CASE p \in DOMAIN kept /\ files'[p] = kept[p]
      BY <2>3, <2>4, <3>1 DEF Held, Readable
    <3>2. CASE p = NextPath /\ files'[p] \in {Torn, Whole(NextDoc)}
      BY <1>5, <2>4, <3>2 DEF Held, Readable, Torn, Whole
    <3> QED  BY <2>1, <2>4, <3>1, <3>2 DEF Readable
  <2>5. \A p, d : Held(p, d)' => Held(p, d)
    BY <2>2, <2>4 DEF Held, Planned
  <2>6. FilesKept
    <3> SUFFICES ASSUME NEW p, Readable(p), p[1] \in {"claim", "capsule"}
                 PROVE  Readable(p)' /\ files'[p] = files[p]
      BY DEF FilesKept
    <3>1. p \in DOMAIN kept
      BY <1>6, <2>1 DEF Readable
    <3>2. p # NextPath
      BY <1>4 DEF Readable
    <3> QED  BY <2>1, <2>3, <3>1, <3>2 DEF Readable
  <2> QED  BY <1>2, <2>2, <2>5, <2>6 DEF CmdShape
<1> QED  BY <1>7, <1>8

\* Writing the next file, failing to, and being killed keep DocInv.
LEMMA WritingKeeps ==
  ASSUME DocInv, WriteNext \/ WriteFails \/ Killed
  PROVE  DocInv'
<1>1. /\ \A p, d : Held(p, d)' => Held(p, d)
      /\ FilesKept /\ CmdShape' /\ BudgetType' /\ budget' = budget
  BY WritingStep
<1>2. AllGenuine' /\ OneBackup'
  BY <1>1, Zenon DEF DocInv, AllGenuine, OneBackup
<1>3. ASSUME NEW p, NEW d, AwardDoc(p, d)  PROVE AwardDoc(p, d)'
  <2>1. PICK k \in budget.creations :
          /\ Readable(CapsulePath(k)) /\ Readable(<<"claim", p[2]>>)
          /\ verify_challenge_award(Envelope(k), files[<<"claim", p[2]>>].doc, d) = Passed
          /\ ClaimFor(Envelope(k), files[<<"claim", p[2]>>].doc)
          /\ d.judge.name \in Range(Creations[k].recipients)
    BY <1>3 DEF AwardDoc
  <2>2. /\ Readable(CapsulePath(k))' /\ files'[CapsulePath(k)] = files[CapsulePath(k)]
        /\ Readable(<<"claim", p[2]>>)' /\ files'[<<"claim", p[2]>>] = files[<<"claim", p[2]>>]
    BY <1>1, <2>1 DEF FilesKept, CapsulePath
  <2> QED  BY <1>1, <2>1, <2>2 DEF AwardDoc, Envelope
<1>4. AllAwards'
  BY <1>1, <1>3, Zenon DEF DocInv, AllAwards
<1> QED  BY <1>1, <1>2, <1>4 DEF DocInv

\* A command of a family takes one from its budget.
Families == {"identity", "create", "access", "patch"}

\* Taking from a budget leaves it a budget, with the same creations.
LEMMA SpendKeeps ==
  ASSUME BudgetType, NEW f \in Families, budget[f] > 0, Spend(f)
  PROVE  BudgetType' /\ budget'.creations = budget.creations
<1>1. budget[f] \in Nat /\ budget[f] - 1 \in Nat
  BY DEF BudgetType, Families
<1> QED  BY <1>1 DEF BudgetType, Families, Spend

\* The start of a command that writes docs to paths.
LEMMA StartWrite ==
  ASSUME DocInv, cmd = NoCommand, patch = NoCommand, UNCHANGED <<files, patch>>, last' = Nothing,
         NEW paths, NEW docs, NEW undo,
         cmd' = [paths |-> paths, docs |-> docs, done |-> 0, undo |-> undo],
         BudgetType', budget'.creations = budget.creations,
         Len(paths) \in Nat, Len(paths) > 0,
         \A i \in 1..Len(paths) : paths[i] \notin DOMAIN files \/ paths[i][1] = "audit",
         \A i, j \in 1..Len(paths) : paths[i] = paths[j] => i = j \/ paths[i][1] = "audit",
         undo => \A i \in 1..Len(paths) : paths[i][1] \notin {"claim", "capsule"},
         \A i \in 1..Len(paths) : Genuine(paths[i], docs[i]),
         \A i \in 1..Len(paths) : paths[i][1] = "award" => AwardDoc(paths[i], docs[i]),
         \A i \in 1..Len(paths) : paths[i][1] = "share" =>
           \A q, e : Readable(q) /\ e = files[q].doc /\ q[1] = "share" /\ paths[i][2] = q[2]
                       => docs[i].count # e.count,
         \E n, b : \A i \in 1..Len(paths) : paths[i][1] = "share" => ShareDoc(paths[i], docs[i], n, b)
  PROVE  DocInv'
<1>1. /\ cmd'.paths = paths /\ cmd'.docs = docs /\ cmd'.done = 0 /\ cmd'.undo = undo
  OBVIOUS
<1> DEFINE New(p, d) == \E i \in 1..Len(paths) : p = paths[i] /\ d = docs[i]
<1>2. \A p, d : Held(p, d)' => (Readable(p) /\ d = files[p].doc) \/ New(p, d)
  BY <1>1 DEF Held, Planned, Readable
<1>3. \A p, d : Readable(p) /\ d = files[p].doc => Held(p, d)
  BY DEF Held
<1>4. AllGenuine'
  <2>1. ASSUME NEW p, NEW d, Held(p, d)'  PROVE Genuine(p, d)
    <3>1. CASE New(p, d)
      BY <3>1
    <3>2. CASE Readable(p) /\ d = files[p].doc
      BY <1>3, <3>2, Zenon DEF DocInv, AllGenuine
    <3> QED  BY <1>2, <2>1, <3>1, <3>2
  <2> QED  BY <2>1, Zenon DEF AllGenuine
<1>5. OneBackup'
  <2> SUFFICES ASSUME NEW dir, NEW count
               PROVE  \E n, b : \A p, d :
                        Held(p, d)' /\ p[1] = "share" /\ p[2] = dir /\ d.count = count => ShareDoc(p, d, n, b)
    BY Zenon DEF OneBackup
  <2>1. CASE \E i \in 1..Len(paths) : paths[i][1] = "share" /\ paths[i][2] = dir /\ docs[i].count = count
    <3>1. PICK i \in 1..Len(paths) : paths[i][1] = "share" /\ paths[i][2] = dir /\ docs[i].count = count
      BY <2>1
    <3>2. PICK n, b : \A j \in 1..Len(paths) : paths[j][1] = "share" => ShareDoc(paths[j], docs[j], n, b)
      OBVIOUS
    <3>3. ASSUME NEW p, NEW d, Held(p, d)', p[1] = "share", p[2] = dir, d.count = count
          PROVE  ShareDoc(p, d, n, b)
      <4>1. CASE New(p, d)
        BY <3>2, <3>3, <4>1
      <4>2. CASE Readable(p) /\ d = files[p].doc
        BY <3>1, <3>3, <4>2
      <4> QED  BY <1>2, <3>3, <4>1, <4>2
    <3> QED  BY <3>3, Zenon
  <2>2. CASE ~\E i \in 1..Len(paths) : paths[i][1] = "share" /\ paths[i][2] = dir /\ docs[i].count = count
    <3>0. OneBackup
      BY DEF DocInv
    <3>1. PICK n, b : \A p, d :
            Held(p, d) /\ p[1] = "share" /\ p[2] = dir /\ d.count = count => ShareDoc(p, d, n, b)
      <4> HIDE DEF New
      <4>1. \E n, b : \A p, d :
              Held(p, d) /\ p[1] = "share" /\ p[2] = dir /\ d.count = count => ShareDoc(p, d, n, b)
        BY ONLY <3>0, BackupAt, Zenon
      <4> QED  BY ONLY <4>1, Zenon
    <3>2. ASSUME NEW p, NEW d, Held(p, d)', p[1] = "share", p[2] = dir, d.count = count
          PROVE  Held(p, d)
      <4>1. ~New(p, d)
        BY <2>2, <3>2
      <4> HIDE DEF New
      <4> QED  BY <1>2, <1>3, <3>2, <4>1
    <3> QED  BY <3>1, <3>2, Zenon
  <2> QED  BY <2>1, <2>2
<1>6. AllAwards'
  <2>1. \A p, d : AwardDoc(p, d) => AwardDoc(p, d)'
    BY DEF AwardDoc, Readable, Envelope
  <2>2. ASSUME NEW p, NEW d, Held(p, d)', p[1] = "award"  PROVE AwardDoc(p, d)
    <3>1. CASE New(p, d)
      BY <2>2, <3>1
    <3>2. CASE Readable(p) /\ d = files[p].doc
      BY <1>3, <2>2, <3>2, Zenon DEF DocInv, AllAwards
    <3> QED  BY <1>2, <2>2, <3>1, <3>2
  <2> QED  BY <2>1, <2>2, Zenon DEF AllAwards
<1>7. CmdShape'
  BY <1>1 DEF CmdShape
<1> QED  BY <1>4, <1>5, <1>6, <1>7 DEF DocInv

\* A command that writes one document, or two, that are no shares.
LEMMA StartOne ==
  ASSUME DocInv, NEW f \in Families, Ready(f), NEW p, NEW d, NEW undo, Write(f, <<p>>, <<d>>, undo),
         p \notin DOMAIN files, Genuine(p, d), p[1] # "share", p[1] = "award" => AwardDoc(p, d),
         undo => p[1] \notin {"claim", "capsule"}
  PROVE  DocInv'
<1>1. /\ cmd = NoCommand /\ patch = NoCommand /\ UNCHANGED <<files, patch>> /\ last' = Nothing
      /\ cmd' = [paths |-> <<p>>, docs |-> <<d>>, done |-> 0, undo |-> undo] /\ budget[f] > 0 /\ Spend(f)
  BY DEF Ready, Write, patchVars
<1>2. BudgetType' /\ budget'.creations = budget.creations
  BY <1>1, SpendKeeps DEF DocInv
<1>3. PICK paths : paths = <<p>>
  OBVIOUS
<1>4. PICK docs : docs = <<d>>
  OBVIOUS
<1>5. Len(paths) = 1 /\ \A i \in 1..Len(paths) : i = 1 /\ paths[i] = p /\ docs[i] = d
  BY <1>3, <1>4
<1>6. cmd' = [paths |-> paths, docs |-> docs, done |-> 0, undo |-> undo]
  BY <1>1, <1>3, <1>4
<1> QED  BY <1>1, <1>2, <1>5, <1>6, StartWrite

\* A command that starts to write two documents keeps DocInv.
LEMMA StartTwo ==
  ASSUME DocInv, NEW f \in Families, Ready(f), NEW p, NEW q, NEW d, NEW e,
         Write(f, <<p, q>>, <<d, e>>, TRUE), p # q, p \notin DOMAIN files, q \notin DOMAIN files,
         Genuine(p, d), Genuine(q, e), p[1] \notin {"share", "award", "claim", "capsule"},
         q[1] \notin {"share", "award", "claim", "capsule"}
  PROVE  DocInv'
<1>1. /\ cmd = NoCommand /\ patch = NoCommand /\ UNCHANGED <<files, patch>> /\ last' = Nothing
      /\ cmd' = [paths |-> <<p, q>>, docs |-> <<d, e>>, done |-> 0, undo |-> TRUE]
      /\ budget[f] > 0 /\ Spend(f)
  BY DEF Ready, Write, patchVars
<1>2. BudgetType' /\ budget'.creations = budget.creations
  BY <1>1, SpendKeeps DEF DocInv
<1>3. PICK paths : paths = <<p, q>>
  OBVIOUS
<1>4. PICK docs : docs = <<d, e>>
  OBVIOUS
<1>5. /\ Len(paths) = 2 /\ paths[1] = p /\ paths[2] = q /\ docs[1] = d /\ docs[2] = e
      /\ \A i \in 1..Len(paths) : i = 1 \/ i = 2
  BY <1>3, <1>4
<1>6. cmd' = [paths |-> paths, docs |-> docs, done |-> 0, undo |-> TRUE]
  BY <1>1, <1>3, <1>4
<1>7. \A i \in 1..Len(paths) : /\ paths[i] \notin DOMAIN files /\ Genuine(paths[i], docs[i])
                               /\ paths[i][1] \notin {"share", "award", "claim", "capsule"}
  BY <1>5
<1>8. \A i, j \in 1..Len(paths) : paths[i] = paths[j] => i = j
  BY <1>5
<1>9. /\ \A i \in 1..Len(paths) : paths[i] \notin DOMAIN files \/ paths[i][1] = "audit"
      /\ \A i, j \in 1..Len(paths) : paths[i] = paths[j] => i = j \/ paths[i][1] = "audit"
      /\ \A i \in 1..Len(paths) : paths[i][1] # "share" /\ paths[i][1] # "award"
      /\ \A i \in 1..Len(paths) : paths[i][1] \notin {"claim", "capsule"}
      /\ Len(paths) \in Nat /\ Len(paths) > 0
  BY <1>5, <1>7, <1>8
<1> HIDE <1>5
<1> QED  BY <1>1, <1>2, <1>6, <1>7, <1>9, StartWrite, Zenon

\* A command that reports and writes nothing.
LEMMA ReportKeeps ==
  ASSUME DocInv, NEW f \in Families, Ready(f), NEW r, Report(f, r)
  PROVE  DocInv'
<1>1. /\ cmd = NoCommand /\ UNCHANGED <<files, cmd>> /\ budget[f] > 0 /\ Spend(f)
  BY DEF Ready, Report, fileVars
<1>2. BudgetType' /\ budget'.creations = budget.creations
  BY <1>1, SpendKeeps DEF DocInv
<1> QED  BY <1>1, <1>2, SameDocs

-----------------------------------------------------------------------------
(* The commands on identities.                                             *)

\* A key file that can be read is the private document of the identity in its
\* name.
LEMMA KeyRead ==
  ASSUME DocInv, NEW path \in KeyFiles, Readable(path)
  PROVE  KeyDoc(path[2], files[path].doc)
<1>1. Held(path, files[path].doc)
  BY DEF Held
<1>2. Genuine(path, files[path].doc)
  BY <1>1, Zenon DEF DocInv, AllGenuine
<1> QED  BY <1>2 DEF Genuine, KeyFiles

\* Generating an identity writes a key document and its public one (generate_identity).
LEMMA GenerateKeeps ==
  ASSUME DocInv, Ready("identity"), NEW n \in Name, NEW pass, generate_identity_command(n, pass)
  PROVE  DocInv'
<1> DEFINE a == n = 0
           b == pass \in ShortPassphrases
<1>1. GenerateError(n, pass) = FirstError(<< <<a, "InvalidName">>, <<b, "InvalidPassphrase">> >>)
  BY Zenon DEF GenerateError, validate_passphrase
<1>2. a \in BOOLEAN /\ b \in BOOLEAN /\ "InvalidName" # Passed /\ "InvalidPassphrase" # Passed
  BY DEF Passed
<1>3. ~b
  <2> HIDE DEF a, b
  <2> QED  BY <1>1, <1>2, TwoChecks DEF generate_identity_command
<1>4. PICK d : d = PrivateIdentity(Identity[n], Secret[n].seed, Secret[n].ikm, pass, "g", "v2")
  OBVIOUS
<1>5. KeyDoc(n, d)
  BY <1>3, <1>4 DEF KeyDoc
<1>6. Genuine(KeyPath(n), d) /\ Genuine(PublicPath(n), Identity[n])
  BY <1>5 DEF Genuine, KeyPath, PublicPath
<1>7. /\ Write("identity", <<KeyPath(n), PublicPath(n)>>, <<d, Identity[n]>>, TRUE)
      /\ KeyPath(n) \notin DOMAIN files /\ PublicPath(n) \notin DOMAIN files
  BY <1>4 DEF generate_identity_command, ensure_output_absent
<1>8. KeyPath(n)[1] = "key" /\ PublicPath(n)[1] = "public" /\ KeyPath(n) # PublicPath(n)
  BY DEF KeyPath, PublicPath
<1> QED  BY <1>6, <1>7, <1>8, StartTwo DEF Families

\* Changing the passphrase writes the same identity under another passphrase.
LEMMA RekeyKeeps ==
  ASSUME DocInv, Ready("identity"), NEW path \in KeyFiles, NEW pass, NEW newPass,
         rekey_identity_command(path, pass, newPass)
  PROVE  DocInv'
<1> DEFINE d == files[path].doc
           a == UnlockError(d, pass) # Passed
           b == newPass \in ShortPassphrases
           out == <<"rekeyed", path[2]>>
<1>1. RekeyError(d, pass, newPass) = FirstError(<< <<a, UnlockError(d, pass)>>, <<b, "InvalidPassphrase">> >>)
  BY Zenon DEF RekeyError, validate_passphrase
<1>2. a \in BOOLEAN /\ b \in BOOLEAN /\ (a => UnlockError(d, pass) # Passed) /\ "InvalidPassphrase" # Passed
  BY DEF Passed
<1>3. RekeyError(d, pass, newPass) = Passed /\ Readable(path) /\ out \notin DOMAIN files
  BY DEF rekey_identity_command, ensure_output_absent
<1>4. ~b
  <2> HIDE DEF a, b
  <2> QED  BY <1>1, <1>2, <1>3, TwoChecks
<1>5. KeyDoc(path[2], d)
  BY <1>3, KeyRead
<1>6. d.public = Identity[path[2]] /\ d.box.seed = Secret[path[2]].seed /\ d.box.ikm = Secret[path[2]].ikm
  BY <1>5, UnlockExactly
<1>7. PICK e : e = PrivateIdentity(Identity[path[2]], Secret[path[2]].seed, Secret[path[2]].ikm,
                                   newPass, "r", "v2")
  OBVIOUS
<1>8. Write("identity", <<out>>, <<e>>, FALSE)
  BY <1>6, <1>7 DEF rekey_identity_command, reencrypt_identity
<1>9. KeyDoc(path[2], e)
  BY <1>4, <1>5, <1>7 DEF KeyDoc
<1>10. Genuine(out, e) /\ out[1] = "rekeyed"
  BY <1>9 DEF Genuine
<1> HIDE DEF out
<1> QED  BY <1>3, <1>8, <1>10, StartOne DEF Families

\* A status statement is written beside the key it is about (issue_identity_status).
LEMMA StatusKeeps ==
  ASSUME DocInv, Ready("identity"), NEW path, NEW pass, NEW status,
         status_identity_command(path, pass, status)
  PROVE  DocInv'
<1> DEFINE out == <<"status", path[2]>>
           e == issue_identity_status(files[path].doc, status)
<1>1. Write("identity", <<out>>, <<e>>, FALSE) /\ out \notin DOMAIN files
  BY DEF status_identity_command, ensure_output_absent
<1>2. out[1] = "status" /\ Genuine(out, e)
  BY DEF Genuine
<1> HIDE DEF out, e
<1> QED  BY <1>1, <1>2, StartOne DEF Families

\* What backup_identity makes of a private document is a share for each index.
LEMMA BackupShares ==
  ASSUME NEW n \in Name, NEW d, KeyDoc(n, d), NEW b \in BackupOptions, NEW i \in 1..b[1]
  PROVE  /\ backup_identity(d, b[1], b[2], b[3])[i] = ShareOf(n, b, i)
         /\ ShareOf(n, b, i).count = b[1]
<1> DEFINE own == [public |-> Identity[n], box |-> [seed |-> Secret[n].seed, ikm |-> Secret[n].ikm]]
<1>1. d.public = own.public /\ d.box.seed = own.box.seed /\ d.box.ikm = own.box.ikm
  BY UnlockExactly
<1>2. ShareOf(n, b, i) = backup_identity(own, b[1], b[2], b[3])[i]
  BY DEF ShareOf
<1> HIDE DEF own
<1>3. ShareOf(n, b, i).count = b[1]
  BY <1>2 DEF backup_identity
<1> QED  BY <1>1, <1>2, <1>3 DEF backup_identity

\* A backup writes shares of the key it read (backup_identity).
LEMMA BackupKeeps ==
  ASSUME DocInv, Ready("identity"), NEW path \in KeyFiles, NEW pass, NEW b \in BackupOptions,
         backup_identity_command(path, pass, b)
  PROVE  DocInv'
<1>1. PICK n : n = path[2]
  OBVIOUS
<1>2. PICK paths : paths = [i \in 1..b[1] |-> <<"share", b[4], i>>]
  OBVIOUS
<1>3. PICK docs : docs = backup_identity(files[path].doc, b[1], b[2], b[3])
  OBVIOUS
<1>4. /\ Write("identity", paths, docs, TRUE) /\ ~validate_backup_parameters(b[1], b[2])[1]
      /\ \A i \in 1..b[1] : paths[i] \notin DOMAIN files
      /\ Readable(path)
  BY <1>2, <1>3 DEF backup_identity_command, ensure_output_absent, unlock_identity
<1>5. KeyDoc(n, files[path].doc) /\ n \in Name
  BY <1>1, <1>4, KeyRead DEF KeyDoc
<1>6. b[1] \in Nat /\ b[1] > 0
  <2>1. b[1] \in Nat /\ b[2] \in Nat /\ MinBackupThreshold \in Nat /\ MinBackupThreshold > 0
    BY BackupAssumption
  <2>2. ~(b[2] < MinBackupThreshold) /\ ~(b[2] > b[1])
    BY <1>4 DEF validate_backup_parameters
  <2> QED  BY <2>1, <2>2
<1>7. /\ Len(paths) = b[1]
      /\ \A i \in 1..b[1] : /\ paths[i] = <<"share", b[4], i>> /\ paths[i][1] = "share"
                            /\ paths[i][2] = b[4] /\ paths[i][3] = i
  BY <1>2, <1>6
<1>8. \A i \in 1..b[1] : docs[i] = ShareOf(n, b, i) /\ docs[i].count = b[1]
  BY <1>3, <1>5, BackupShares
<1>9. \A i \in 1..b[1] : ShareDoc(paths[i], docs[i], n, b)
  BY <1>4, <1>5, <1>7, <1>8 DEF ShareDoc
<1>10. \A i \in 1..b[1] : Genuine(paths[i], docs[i])
  BY <1>7, <1>9 DEF Genuine
<1>11. ASSUME NEW i \in 1..b[1], NEW q, Readable(q), q[1] = "share", q[2] = b[4]
       PROVE  docs[i].count # files[q].doc.count
  <2>1. Held(q, files[q].doc)
    BY <1>11 DEF Held
  <2>2. Genuine(q, files[q].doc)
    BY <2>1, Zenon DEF DocInv, AllGenuine
  <2>3. PICK m, c : ShareDoc(q, files[q].doc, m, c)
    BY <1>11, <2>2 DEF Genuine
  <2>4. /\ m \in Name /\ c \in BackupOptions /\ q[3] \in 1..c[1] /\ q = <<"share", c[4], q[3]>>
        /\ files[q].doc = ShareOf(m, c, q[3])
    BY <2>3 DEF ShareDoc
  <2>5. PICK own : own = PrivateIdentity(Identity[m], Secret[m].seed, Secret[m].ikm, FirstPass, "s", "v2")
    OBVIOUS
  <2>6. KeyDoc(m, own)
    BY <2>4, <2>5, IdentityAssumption DEF KeyDoc
  <2>7. files[q].doc.count = c[1]
    BY <2>4, <2>6, BackupShares
  <2>8. ASSUME c[1] = b[1]  PROVE FALSE
    <3>1. q[3] \in 1..b[1] /\ q = <<"share", b[4], q[3]>>
      BY <1>11, <2>4, <2>8
    <3>2. q = paths[q[3]]
      BY <1>7, <3>1
    <3> QED  BY <1>4, <1>11, <3>1, <3>2 DEF Readable
  <2> QED  BY <1>8, <2>7, <2>8
<1>12. /\ cmd = NoCommand /\ patch = NoCommand /\ UNCHANGED <<files, patch>> /\ last' = Nothing
       /\ cmd' = [paths |-> paths, docs |-> docs, done |-> 0, undo |-> TRUE]
       /\ budget["identity"] > 0 /\ Spend("identity")
  BY <1>4 DEF Ready, Write, patchVars
<1>13. BudgetType' /\ budget'.creations = budget.creations
  BY <1>12, SpendKeeps DEF DocInv, Families
<1>14. /\ \A i \in 1..Len(paths) : paths[i] \notin DOMAIN files \/ paths[i][1] = "audit"
       /\ \A i, j \in 1..Len(paths) : paths[i] = paths[j] => i = j \/ paths[i][1] = "audit"
       /\ \A i \in 1..Len(paths) : paths[i][1] \notin {"claim", "capsule"}
       /\ \A i \in 1..Len(paths) : paths[i][1] # "award"
       /\ Len(paths) \in Nat /\ Len(paths) > 0
  BY <1>4, <1>6, <1>7
<1>15. \A i \in 1..Len(paths) :
         /\ \A q, e : Readable(q) /\ e = files[q].doc /\ q[1] = "share" /\ paths[i][2] = q[2]
                        => docs[i].count # e.count
         /\ ShareDoc(paths[i], docs[i], n, b)
  BY <1>7, <1>9, <1>11
<1>16. \A i \in 1..Len(paths) : Genuine(paths[i], docs[i])
  BY <1>7, <1>10
<1> HIDE <1>7
<1> QED  BY <1>12, <1>13, <1>14, <1>15, <1>16, StartWrite, Zenon

\* What a share says, and that it is valid (IdentityBackupShare::validate_shape).
ShareShape(p, s, n, b) ==
  /\ n \in Name /\ b \in BackupOptions
  /\ s.public = Identity[n] /\ s.count = b[1] /\ s.threshold = b[2]
  /\ p[3] \in 1..b[1] /\ b[1] \in Nat /\ b[2] \in 1..b[1] /\ b[1] <= MaxBackupShares
  /\ s.signing = [x |-> p[3], y |-> evaluate_polynomial(Secret[n].seed, b[3][1], p[3])]
  /\ s.encryption = [x |-> p[3], y |-> evaluate_polynomial(Secret[n].ikm, b[3][2], p[3])]
  /\ s.signature = Sign(Secret[n].seed, share_message(s))

\* What a share that a backup made says.
LEMMA ShareParts ==
  ASSUME NEW p, NEW s, NEW n, NEW b, ShareDoc(p, s, n, b)
  PROVE  ShareShape(p, s, n, b)
<1>1. /\ n \in Name /\ b \in BackupOptions /\ ~validate_backup_parameters(b[1], b[2])[1]
      /\ p[3] \in 1..b[1] /\ s = ShareOf(n, b, p[3])
  BY DEF ShareDoc
<1>2. /\ b[1] \in Nat /\ b[2] \in Nat /\ MinBackupThreshold \in Nat /\ MinBackupThreshold > 0
      /\ MaxBackupShares \in Nat
  BY <1>1, BackupAssumption
<1>3. ~(b[2] < MinBackupThreshold) /\ ~(b[2] > b[1]) /\ ~(b[1] > MaxBackupShares)
  BY <1>1 DEF validate_backup_parameters
<1>4. b[2] \in 1..b[1] /\ b[1] <= MaxBackupShares
  BY <1>2, <1>3
<1>5. PICK i : i = p[3] /\ i \in 1..b[1]
  BY <1>1
<1> DEFINE own == [public |-> Identity[n], box |-> [seed |-> Secret[n].seed, ikm |-> Secret[n].ikm]]
           signing == split_secret(Secret[n].seed, b[1], b[3][1])
           encryption == split_secret(Secret[n].ikm, b[1], b[3][2])
           bare == [count |-> b[1], threshold |-> b[2], public |-> Identity[n],
                    signing |-> signing[i], encryption |-> encryption[i], signature |-> "none"]
<1>6. s = [bare EXCEPT !.signature = Sign(Secret[n].seed, share_message(bare))]
  BY <1>1, <1>5 DEF ShareOf, backup_identity
<1>7. /\ signing[i] = [x |-> i, y |-> evaluate_polynomial(Secret[n].seed, b[3][1], i)]
      /\ encryption[i] = [x |-> i, y |-> evaluate_polynomial(Secret[n].ikm, b[3][2], i)]
  BY <1>5 DEF split_secret
<1> HIDE DEF signing, encryption
<1>8. /\ s.public = Identity[n] /\ s.count = b[1] /\ s.threshold = b[2]
      /\ s.signing = signing[i] /\ s.encryption = encryption[i]
      /\ s.signature = Sign(Secret[n].seed, share_message(bare))
  BY <1>6
<1>9. share_message(bare) = share_message(s)
  BY <1>8 DEF share_message
<1> QED  BY <1>1, <1>2, <1>4, <1>5, <1>7, <1>8, <1>9 DEF ShareShape

\* A share that a backup made passes the checks on a share alone.
LEMMA ShareValid ==
  ASSUME NEW p, NEW s, NEW n, NEW b, ShareDoc(p, s, n, b)
  PROVE  ShareError(s) = Passed
<1> DEFINE v == validate_backup_parameters(s.count, s.threshold)[1]
           w == PublicIdentityError(s.public) # Passed
           x == s.signing.x = 0 \/ s.signing.x # s.encryption.x \/ s.signing.x > s.count
           y == ~Signed(s.signature, s.public.signing, share_message(s))
           l == << <<v, "InvalidThreshold">>, <<w, PublicIdentityError(s.public)>>, <<x, "InvalidShare">>,
                   <<y, "InvalidSignature">> >>
<1>1. ShareError(s) = FirstError(l)
  <2>1. validate_backup_parameters(s.count, s.threshold) = <<v, "InvalidThreshold">>
    BY DEF validate_backup_parameters
  <2> QED  BY <2>1, Zenon DEF ShareError
<1>0. ShareShape(p, s, n, b)
  BY ShareParts, Zenon
<1>2. ~v
  BY <1>0 DEF ShareDoc, ShareShape
<1>3. ~w
  BY <1>0, IdentityValid DEF ShareShape
<1>4. ~x
  <2>1. s.signing.x = p[3] /\ s.encryption.x = p[3] /\ p[3] \in 1..s.count
    BY <1>0 DEF ShareShape
  <2>2. s.count \in Nat
    BY <1>0 DEF ShareShape
  <2> QED  BY <2>1, <2>2
<1>5. ~y
  <2>1. s.signature.by = SigningKey(Secret[n].seed) /\ s.signature.message = share_message(s)
    BY <1>0 DEF ShareShape, Sign
  <2>2. s.public.signing = SigningKey(Secret[n].seed)
    BY <1>0, IdentityParts DEF ShareShape
  <2> QED  BY <2>1, <2>2 DEF Signed
<1> HIDE DEF v, w, x, y
<1>6. Len(l) = 4 /\ ~l[1][1] /\ ~l[2][1] /\ ~l[3][1] /\ ~l[4][1]
  BY <1>2, <1>3, <1>4, <1>5
<1> HIDE DEF l
<1>7. \A i \in 1..Len(l) : ~l[i][1]
  BY <1>6
<1> QED  BY <1>1, <1>7, NoneFails

\* A restoration that is not refused gives the secrets of the identity that
\* the shares name: they are compared with its public keys.
LEMMA RestorationGives ==
  ASSUME NEW shares, NEW pass, NEW n \in Name, shares[1].public = Identity[n],
         RestoreError(shares, pass) = Passed
  PROVE  KeyDoc(n, Restored(shares, pass, "b"))
<1> DEFINE seed == combine_shares(Signings(shares))
           ikm == combine_shares(Encryptions(shares))
           u == unlocked_from_seeds(seed, ikm, shares[1].public)
           a == u # Passed
           b == pass \in ShortPassphrases
           c == SigningKey(seed) # Identity[n].signing \/ EncryptionKey(ikm) # Identity[n].encryption
           e == PublicIdentityError(Identity[n]) # Passed
<1>1. RestoreError(shares, pass) = FirstError(<< <<a, "IdentityMismatch">>, <<b, "InvalidPassphrase">> >>)
  BY Zenon DEF RestoreError, validate_passphrase
<1>2. a \in BOOLEAN /\ b \in BOOLEAN /\ c \in BOOLEAN /\ e \in BOOLEAN
      /\ "IdentityMismatch" # Passed /\ "InvalidPassphrase" # Passed
      /\ (e => PublicIdentityError(Identity[n]) # Passed)
  BY DEF Passed
<1>3. u = FirstError(<< <<c, "IdentityMismatch">>, <<e, PublicIdentityError(Identity[n])>> >>)
  BY Zenon DEF unlocked_from_seeds
<1>4. ~a => u = Passed
  OBVIOUS
<1> HIDE DEF u
<1>5. ~a /\ ~b
  <2> HIDE DEF a, b
  <2> QED  BY <1>1, <1>2, TwoChecks
<1>6. ~c
  <2>1. FirstError(<< <<c, "IdentityMismatch">>, <<e, PublicIdentityError(Identity[n])>> >>) = Passed
    BY <1>3, <1>4, <1>5
  <2> HIDE DEF c, e
  <2> QED  BY <1>2, <2>1, TwoChecks
<1>7. seed = Secret[n].seed /\ ikm = Secret[n].ikm
  <2> HIDE DEF seed, ikm
  <2>1. SigningKey(seed) = SigningKey(Secret[n].seed) /\ EncryptionKey(ikm) = EncryptionKey(Secret[n].ikm)
    BY <1>6, IdentityParts
  <2> QED  BY <2>1 DEF SigningKey, EncryptionKey
<1>8. Restored(shares, pass, "b") = PrivateIdentity(Identity[n], Secret[n].seed, Secret[n].ikm, pass, "b", "v2")
  BY <1>7 DEF Restored, reencrypt_identity
<1> QED  BY <1>5, <1>8 DEF KeyDoc

\* A share file that can be read.
LEMMA ShareRead ==
  ASSUME DocInv, NEW p \in ShareFiles
  PROVE  Held(p, files[p].doc) /\ p[1] = "share" /\ \E n, b : ShareDoc(p, files[p].doc, n, b)
<1>1. Held(p, files[p].doc) /\ p[1] = "share"
  BY DEF Held, ShareFiles, Readable
<1>2. Genuine(p, files[p].doc)
  BY <1>1, Zenon DEF DocInv, AllGenuine
<1> QED  BY <1>1, <1>2 DEF Genuine

\* A restored key is the key of the identity the shares name (restore_identity).
LEMMA RestoreKeeps ==
  ASSUME DocInv, Ready("identity"), NEW paths, NEW pass, Len(paths) \in Nat \ {0},
         \A i \in 1..Len(paths) : paths[i] \in ShareFiles,
         restore_identity_command(paths, pass)
  PROVE  DocInv'
<1>1. PICK shares : shares = [i \in 1..Len(paths) |-> files[paths[i]].doc]
  OBVIOUS
<1>2. shares[1] = files[paths[1]].doc
  BY <1>1
<1>3. PICK m, b : ShareDoc(paths[1], shares[1], m, b)
  BY <1>2, ShareRead
<1>4. m \in Name /\ shares[1].public = Identity[m] /\ Identity[m].name = m
  <2>1. ShareShape(paths[1], shares[1], m, b)
    BY <1>3, ShareParts, Zenon
  <2> QED  BY <2>1, IdentityParts DEF ShareShape
<1> DEFINE p == <<"restored", m>>
           q == <<"restored-public", m>>
<1>5. /\ p \notin DOMAIN files /\ q \notin DOMAIN files
      /\ IF RestoreError(shares, pass) # Passed
         THEN Report("identity", [kind |-> "restore", paths |-> paths, pass |-> pass,
                                  error |-> RestoreError(shares, pass)])
         ELSE Write("identity", <<p, q>>, <<Restored(shares, pass, "b"), shares[1].public>>, TRUE)
  BY <1>1, <1>4 DEF restore_identity_command, ensure_output_absent
<1>6. CASE RestoreError(shares, pass) # Passed
  BY <1>5, <1>6, ReportKeeps DEF Families
<1>7. CASE RestoreError(shares, pass) = Passed
  <2>1. PICK d : d = Restored(shares, pass, "b")
    OBVIOUS
  <2>2. KeyDoc(m, d)
    BY <1>4, <1>7, <2>1, RestorationGives
  <2>3. Genuine(p, d) /\ Genuine(q, shares[1].public) /\ p # q /\ p[1] = "restored" /\ q[1] = "restored-public"
    BY <2>2 DEF Genuine
  <2>4. Write("identity", <<p, q>>, <<d, shares[1].public>>, TRUE)
    BY <1>5, <1>7, <2>1
  <2> HIDE DEF p, q
  <2> QED  BY <1>5, <2>3, <2>4, StartTwo DEF Families
<1> QED  BY <1>6, <1>7

\* Every identity command keeps DocInv.
LEMMA IdentityKeeps ==
  ASSUME DocInv, IdentityCommands
  PROVE  DocInv'
<1>1. Ready("identity")
  BY DEF IdentityCommands
<1>2. PICK pass :
       \/ \E n \in Name : generate_identity_command(n, pass)
       \/ \E path \in KeyFiles, newPass \in Passphrases : rekey_identity_command(path, pass, newPass)
       \/ \E path \in KeyFiles, options \in BackupOptions : backup_identity_command(path, pass, options)
       \/ \E path \in KeyFiles, status \in {"retired", "revoked"} : status_identity_command(path, pass, status)
       \/ \E count \in 1..MaxGivenShares : \E paths \in [1..count -> ShareFiles] :
            restore_identity_command(paths, pass)
  BY DEF IdentityCommands
<1>3. ASSUME NEW count \in 1..MaxGivenShares, NEW paths \in [1..count -> ShareFiles],
             restore_identity_command(paths, pass)
      PROVE  DocInv'
  <2>1. Len(paths) \in Nat \ {0} /\ \A i \in 1..Len(paths) : paths[i] \in ShareFiles
    BY BackupAssumption
  <2> QED  BY <1>1, <1>3, <2>1, RestoreKeeps
<1> QED  BY <1>1, <1>2, <1>3, GenerateKeeps, RekeyKeeps, BackupKeeps, StatusKeeps

-----------------------------------------------------------------------------
(* Capsules.                                                               *)

\* The parts every envelope of a creation has.
EnvelopeShape(o, e, kind, principals, release) ==
  /\ e.contract = ContractOf(o, kind, principals, release)
  /\ e.nonce = o.nonce /\ e.error = Passed
  /\ e.payload = Box(o.cek, payload_aad(proposal_core(e.contract, o.nonce)), o.content)

\* The slots of a proposal for holders.
HolderSlots(o, contract, holders) ==
  [i \in 1..Len(Canonical(holders)) |->
     [holder |-> Id(Canonical(holders)[i]),
      box |-> single_shot_seal(Identity[Canonical(holders)[i]].encryption,
                key_slot_info(o.nonce, Id(Canonical(holders)[i]), contract.release),
                proposal_core(contract, o.nonce),
                key_material_for_holders(o, contract, Len(Canonical(holders)))[i])]]

\* What an envelope says once it was built from its draft.
LEMMA BuiltParts ==
  ASSUME NEW o, NEW kind, NEW principals, NEW release, NEW contract,
         contract = ContractOf(o, kind, principals, release), NEW holders, NEW challenge, NEW shards,
         NEW e, e = create_proposal_with_holders(o, contract, holders, challenge, shards), e.error = Passed
  PROVE  /\ EnvelopeShape(o, e, kind, principals, release)
         /\ e.challenge = challenge /\ e.shards = shards /\ e.slots = HolderSlots(o, contract, holders)
<1>1. PICK slots : slots = HolderSlots(o, contract, holders)
  OBVIOUS
<1>2. PICK bare : bare = [Unslotted(o, contract) EXCEPT !.challenge = challenge, !.shards = shards, !.slots = slots]
  OBVIOUS
<1>3. e = Validated(bare)
  BY <1>1, <1>2 DEF create_proposal_with_holders, HolderSlots
<1>4. e = [bare EXCEPT !.error = ProposalError(bare)]
  BY <1>3 DEF Validated
<1>5. PICK error : error = ProposalError(bare)
  OBVIOUS
<1>6. PICK payload : payload = Box(o.cek, payload_aad(proposal_core(contract, o.nonce)), o.content)
  OBVIOUS
<1>7. bare = [contract |-> contract, nonce |-> o.nonce, content |-> o.content, challenge |-> challenge,
              shards |-> shards, recipes |-> <<>>, slots |-> slots, error |-> Passed, payload |-> payload]
  BY <1>2, <1>6 DEF Unslotted
<1>8. e = [contract |-> contract, nonce |-> o.nonce, content |-> o.content, challenge |-> challenge,
           shards |-> shards, recipes |-> <<>>, slots |-> slots, error |-> error, payload |-> payload]
  BY <1>4, <1>5, <1>7
<1> QED  BY <1>1, <1>6, <1>8 DEF EnvelopeShape

\* The modes of creation, by what their proposals are.
DefaultShape(o, e, release, holders) ==
  /\ IF Mode(o) = "direct" THEN release = Direct /\ holders = o.recipients
     ELSE release = QuorumOf(o) /\ holders = o.witnesses
  /\ EnvelopeShape(o, e, KindOf(o), Ids(o.recipients), release)
  /\ e.slots = HolderSlots(o, e.contract, holders)
  /\ validate_plaintext_content(o.content, KindOf(o)) = Passed

\* A capsule for its recipients has the shape its creation gives it.
LEMMA DefaultCapsule ==
  ASSUME NEW k, NEW e, CapsuleDoc(k, e), NEW o, o = Creations[k], Mode(o) \in {"direct", "quorum"}
  PROVE  \E release, holders : DefaultShape(o, e, release, holders)
<1>1. Propose(o) = create_default_proposal(o)
  BY DEF Propose
<1>2. o.witnesses = <<>> <=> Mode(o) = "direct"
  BY DEF Mode
<1>3. PICK release : release = IF o.witnesses = <<>> THEN Direct ELSE QuorumOf(o)
  OBVIOUS
<1>4. PICK holders : holders = IF o.witnesses = <<>> THEN o.recipients ELSE o.witnesses
  OBVIOUS
<1>5. PICK contract : contract = ContractOf(o, KindOf(o), Ids(o.recipients), release)
  OBVIOUS
<1>6. PICK built : built = create_proposal_with_holders(o, contract, holders, NoBox, <<>>)
  OBVIOUS
<1> DEFINE a == validate_plaintext_content(o.content, KindOf(o)) # Passed
           b == canonical_identities(o.recipients) # Passed
           c == o.witnesses # <<>> /\ canonical_identities(o.witnesses) # Passed
           d == ReleaseError(release) # Passed
           f == ContractError(contract) # Passed
           early == FirstError(
             << <<a, validate_plaintext_content(o.content, KindOf(o))>>,
                <<b, canonical_identities(o.recipients)>>,
                <<c, canonical_identities(o.witnesses)>>,
                <<d, map_contract_error(ReleaseError(release))>>,
                <<f, map_contract_error(ContractError(contract))>> >>)
<1>7. create_default_proposal(o) = [error |-> IF early # Passed THEN early ELSE built.error, proposal |-> built]
  BY <1>3, <1>4, <1>5, <1>6, Zenon DEF create_default_proposal
<1>8. /\ a \in BOOLEAN /\ b \in BOOLEAN /\ c \in BOOLEAN /\ d \in BOOLEAN /\ f \in BOOLEAN
      /\ a => validate_plaintext_content(o.content, KindOf(o)) # Passed
      /\ b => canonical_identities(o.recipients) # Passed
      /\ c => canonical_identities(o.witnesses) # Passed
      /\ d => map_contract_error(ReleaseError(release)) # Passed
      /\ f => map_contract_error(ContractError(contract)) # Passed
  BY DEF map_contract_error, Passed
<1>9. early = Passed => ~a
  <2> HIDE DEF a, b, c, d, f
  <2> QED  BY <1>8, FiveChecks
<1> HIDE DEF early
<1>10. early = Passed /\ built.error = Passed /\ e = built
  BY <1>1, <1>7 DEF CapsuleDoc
<1>11. EnvelopeShape(o, e, KindOf(o), Ids(o.recipients), release) /\ e.slots = HolderSlots(o, contract, holders)
  BY <1>5, <1>6, <1>10, BuiltParts
<1>12. e.contract = contract
  BY <1>5, <1>11 DEF EnvelopeShape
<1> QED  BY <1>2, <1>3, <1>4, <1>9, <1>10, <1>11, <1>12 DEF DefaultShape

ChallengeShape(o, e, solution, key, release) ==
  /\ solution = read_solution_file(o.solutions[1]) /\ ~SolutionCheck(solution)[1]
  /\ key = derive_key_at(solution, o.nonce, o.memory, o.iterations)
  /\ release = Challenge(o.memory, o.iterations, solution_commitment(key), o.nonce, o.hint)
  /\ EnvelopeShape(o, e, "ExactArtifact", Ids(o.recipients), release)
  /\ e.slots = HolderSlots(o, e.contract, o.recipients)
  /\ e.challenge = Box(key, challenge_aad(proposal_core(e.contract, o.nonce)), o.cek)
  /\ validate_plaintext_content(o.content, "ExactArtifact") = Passed

\* A challenge capsule has the shape its creation gives it.
LEMMA ChallengeCapsule ==
  ASSUME NEW k, NEW e, CapsuleDoc(k, e), NEW o, o = Creations[k], Mode(o) = "challenge"
  PROVE  \E solution, key, release : ChallengeShape(o, e, solution, key, release)
<1>1. Propose(o) = create_challenge_capsule_proposal(o)
  <2>1. Propose(o) = IF o.challengeThreshold # 0 \/ o.shardHints # <<>> THEN [error |-> "Generic"]
                     ELSE create_challenge_capsule_proposal(o)
    BY DEF Propose
  <2>2. [error |-> "Generic"].error # Passed
    BY DEF Passed
  <2> QED  BY <2>1, <2>2 DEF CapsuleDoc
<1>2. PICK solution : solution = read_solution_file(o.solutions[1])
  OBVIOUS
<1>3. PICK key : key = derive_key_at(solution, o.nonce, o.memory, o.iterations)
  OBVIOUS
<1>4. PICK release : release = Challenge(o.memory, o.iterations, solution_commitment(key), o.nonce, o.hint)
  OBVIOUS
<1>5. PICK contract : contract = ContractOf(o, "ExactArtifact", Ids(o.recipients), release)
  OBVIOUS
<1>6. PICK wrapped : wrapped = Box(key, challenge_aad(proposal_core(contract, o.nonce)), o.cek)
  OBVIOUS
<1>7. PICK built : built = create_proposal_with_holders(o, contract, o.recipients, wrapped, <<>>)
  OBVIOUS
<1> DEFINE a == ReleaseError(release) # Passed
           b == Len(solution) \notin 1..MaxSolutionBytes
           c == ContractError(contract) # Passed
           d == validate_plaintext_content(o.content, "ExactArtifact") # Passed
           f == canonical_identities(o.recipients) # Passed
           early == FirstError(
             << <<a, "InvalidContract">>, <<b, "InvalidContent">>, <<c, "InvalidContract">>,
                <<d, "InvalidArtifact">>, <<f, canonical_identities(o.recipients)>> >>)
<1>8. create_challenge_capsule_proposal(o) =
        [error |-> IF early # Passed THEN early ELSE built.error, proposal |-> built]
  BY <1>2, <1>3, <1>4, <1>5, <1>6, <1>7, Zenon DEF create_challenge_capsule_proposal, SolutionCheck
<1>9. /\ a \in BOOLEAN /\ b \in BOOLEAN /\ c \in BOOLEAN /\ d \in BOOLEAN /\ f \in BOOLEAN
      /\ f => canonical_identities(o.recipients) # Passed
      /\ "InvalidContract" # Passed /\ "InvalidContent" # Passed /\ "InvalidArtifact" # Passed
  BY DEF Passed
<1>10. early = Passed => ~b /\ ~d
  <2> HIDE DEF a, b, c, d, f
  <2> QED  BY <1>9, FiveChecks
<1> HIDE DEF early
<1>11. early = Passed /\ built.error = Passed /\ e = built
  BY <1>1, <1>8 DEF CapsuleDoc
<1>12. /\ EnvelopeShape(o, e, "ExactArtifact", Ids(o.recipients), release)
       /\ e.slots = HolderSlots(o, contract, o.recipients) /\ e.challenge = wrapped
  BY <1>5, <1>7, <1>11, BuiltParts
<1>13. e.contract = contract
  BY <1>5, <1>12 DEF EnvelopeShape
<1>14. ~SolutionCheck(solution)[1]
  BY <1>10, <1>11 DEF SolutionCheck
<1> QED  BY <1>2, <1>3, <1>4, <1>6, <1>10, <1>11, <1>12, <1>13, <1>14 DEF ChallengeShape

\* The shards of a creation: their keys, and what the contract says of them.
ShardKeyOf(o, i) == derive_key_at(read_solution_file(o.solutions[i]), <<o.nonce, i>>, o.memory, o.iterations)
ShardsOf(o, shards) ==
  /\ Len(shards) = Len(o.solutions)
  /\ \A i \in 1..Len(o.solutions) :
       shards[i].salt = <<o.nonce, i>> /\ shards[i].commitment = shard_commitment(ShardKeyOf(o, i))

\* A list of p elements, and two lists one after the other.
Listed(l, p) == l = [i \in 1..p |-> l[i]]
Chained(n, l, m, p, q) ==
  /\ Len(n) = p + q
  /\ \A i \in 1..p : n[i] = l[i]
  /\ \A i \in 1..q : n[p + i] = m[i]

\* The places of two lists joined.
LEMMA Joined ==
  ASSUME NEW l, NEW m, NEW p \in Nat, NEW q \in Nat, Listed(l, p), Listed(m, q)
  PROVE  Chained(l \o m, l, m, p, q)
<1> DEFINE T == {l[i] : i \in 1..p} \cup {m[i] : i \in 1..q}
<1>1. l \in [1..p -> T] /\ m \in [1..q -> T]
  BY DEF Listed
<1>2. l \in Seq(T) /\ m \in Seq(T) /\ Len(l) = p /\ Len(m) = q
  <2> HIDE DEF T
  <2> QED  BY <1>1
<1> HIDE DEF T
<1> QED  BY <1>2 DEF Chained

ShardedShape(o, e, shards, threshold, release) ==
  /\ ShardsOf(o, shards) /\ threshold = ThresholdOf(o)
  /\ release = Sharded(o.memory, o.iterations, threshold, shards, o.hint)
  /\ ReleaseError(release) = Passed
  /\ \A i \in 1..Len(o.solutions) : ~SolutionCheck(read_solution_file(o.solutions[i]))[1]
  /\ EnvelopeShape(o, e, "ExactArtifact", Ids(o.recipients), release)
  /\ e.slots = HolderSlots(o, e.contract, o.recipients)
  /\ e.shards = [i \in 1..Len(o.solutions) |->
                   Box(ShardKeyOf(o, i), shard_aad(proposal_core(e.contract, o.nonce), i),
                       split_secret(o.cek, Len(o.solutions), o.polynomial)[i])]
  /\ validate_plaintext_content(o.content, "ExactArtifact") = Passed

\* A sharded challenge capsule has the shape its creation gives it.
LEMMA ShardedCapsule ==
  ASSUME NEW k, NEW e, CapsuleDoc(k, e), NEW o, o = Creations[k], Mode(o) = "sharded"
  PROVE  \E shards, threshold, release : ShardedShape(o, e, shards, threshold, release)
<1>1. Propose(o) = create_sharded_challenge_capsule_proposal(o)
  BY DEF Propose
<1> DEFINE count == Len(o.solutions)
           solutions == [i \in 1..count |-> read_solution_file(o.solutions[i])]
           keys == [i \in 1..count |-> derive_key_at(solutions[i], <<o.nonce, i>>, o.memory, o.iterations)]
           hints == IF o.shardHints = <<>> THEN [i \in 1..count |-> ""] ELSE o.shardHints
           threshold == IF o.challengeThreshold = 0 THEN count ELSE o.challengeThreshold
           shards == [i \in 1..count |-> [salt |-> <<o.nonce, i>>, commitment |-> shard_commitment(keys[i]),
                                          hint |-> hints[i]]]
           release == Sharded(o.memory, o.iterations, threshold, shards, o.hint)
           contract == ContractOf(o, "ExactArtifact", Ids(o.recipients), release)
           wrapped == [i \in 1..count |-> Box(keys[i], shard_aad(proposal_core(contract, o.nonce), i),
                                              split_secret(o.cek, count, o.polynomial)[i])]
           built == create_proposal_with_holders(o, contract, o.recipients, NoBox, wrapped)
           a == ReleaseError(release) # Passed
           b == ContractError(contract) # Passed
           c == validate_plaintext_content(o.content, "ExactArtifact") # Passed
           d == canonical_identities(o.recipients) # Passed
           l == [i \in 1..count |-> SolutionCheck(solutions[i])]
           m == << <<a, "InvalidContract">>, <<b, "InvalidContract">>, <<c, "InvalidArtifact">>,
                   <<d, canonical_identities(o.recipients)>> >>
           early == FirstError(l \o m)
<1>2. create_sharded_challenge_capsule_proposal(o) =
         IF o.shardHints # <<>> /\ Len(o.shardHints) # count THEN [error |-> "InvalidContract"]
         ELSE [error |-> IF early # Passed THEN early ELSE built.error, proposal |-> built]
  BY Zenon DEF create_sharded_challenge_capsule_proposal
<1>3. count = Len(o.solutions) /\ count \in Nat
  BY CreationAssumption DEF CapsuleDoc
<1> HIDE DEF count
<1>4. \A i \in 1..count : solutions[i] = read_solution_file(o.solutions[i])
  OBVIOUS
<1> HIDE DEF solutions
<1>5. \A i \in 1..count : keys[i] = ShardKeyOf(o, i)
  BY <1>4 DEF ShardKeyOf
<1> HIDE DEF keys, hints
<1>6. ShardsOf(o, shards)
  BY <1>3, <1>5 DEF ShardsOf
<1>7. threshold = ThresholdOf(o)
  BY <1>3 DEF ThresholdOf
<1>8. release = Sharded(o.memory, o.iterations, threshold, shards, o.hint)
  OBVIOUS
<1> HIDE DEF shards, threshold, release
<1>9. contract = ContractOf(o, "ExactArtifact", Ids(o.recipients), release)
  OBVIOUS
<1>10. \A i \in 1..count : wrapped[i] = Box(ShardKeyOf(o, i), shard_aad(proposal_core(contract, o.nonce), i),
                                            split_secret(o.cek, count, o.polynomial)[i])
  BY <1>5
<1>11. wrapped = [i \in 1..count |-> wrapped[i]]
  OBVIOUS
<1> HIDE DEF contract, wrapped
<1>12. built = create_proposal_with_holders(o, contract, o.recipients, NoBox, wrapped)
  OBVIOUS
<1> HIDE DEF built
<1>13. early = Passed => ~a /\ ~c /\ \A i \in 1..count : ~SolutionCheck(solutions[i])[1]
  <2>1. /\ l = [i \in 1..count |-> l[i]] /\ \A i \in 1..count : l[i] = SolutionCheck(solutions[i])
    OBVIOUS
  <2>2. d => canonical_identities(o.recipients) # Passed
    OBVIOUS
  <2> HIDE DEF a, b, c, d
  <2>3. /\ m = [i \in 1..4 |-> m[i]]
        /\ m[1][1] = a /\ m[3][1] = c
        /\ \A i \in 1..4 : m[i][1] => m[i][2] # Passed
    BY <2>2 DEF Passed
  <2>4. \A i \in 1..count : l[i][1] => l[i][2] # Passed
    BY <2>1 DEF SolutionCheck, Passed
  <2> HIDE DEF l, m
  <2>5. PICK all : all = l \o m
    OBVIOUS
  <2>6. /\ Len(all) = count + 4
        /\ \A i \in 1..count : all[i] = l[i]
        /\ \A i \in 1..4 : all[count + i] = m[i]
    <3>1. PICK four \in Nat : four = 4
      OBVIOUS
    <3>2. Listed(l, count) /\ Listed(m, four)
      BY <2>1, <2>3, <3>1 DEF Listed
    <3>3. Chained(all, l, m, count, four)
      BY <1>3, <2>5, <3>2, Joined, Zenon
    <3> QED  BY <3>1, <3>3 DEF Chained
  <2>7. \A i \in 1..Len(all) : i \in 1..count \/ i - count \in 1..4
    <3>1. Len(all) = count + 4 /\ count \in Nat
      BY <1>3, <2>6
    <3> QED  BY <3>1
  <2>8. \A i \in 1..Len(all) : all[i][1] => all[i][2] # Passed
    <3> SUFFICES ASSUME NEW i \in 1..Len(all)  PROVE all[i][1] => all[i][2] # Passed
      OBVIOUS
    <3>1. CASE i \in 1..count
      BY <2>4, <2>6, <3>1
    <3>2. CASE i - count \in 1..4
      <4>1. PICK j \in 1..4 : i = count + j
        BY <1>3, <2>6, <3>2
      <4>2. all[i] = m[j]
        BY <2>6, <4>1
      <4> QED  BY <2>3, <4>2
    <3> QED  BY <2>7, <3>1, <3>2
  <2>9. Len(all) \in Nat
    BY <1>3, <2>6
  <2>10. early = Passed => \A i \in 1..Len(all) : ~all[i][1]
    BY <2>5, <2>8, <2>9, AllHold
  <2>11. ASSUME \A i \in 1..Len(all) : ~all[i][1]
         PROVE  ~a /\ ~c /\ \A i \in 1..count : ~l[i][1]
    <3>1. count + 1 \in 1..Len(all) /\ count + 3 \in 1..Len(all) /\ \A i \in 1..count : i \in 1..Len(all)
      BY <1>3, <2>6
    <3>2. all[count + 1] = m[1] /\ all[count + 3] = m[3]
      BY <2>6
    <3> QED  BY <2>3, <2>6, <2>11, <3>1, <3>2
  <2> QED  BY <2>1, <2>10, <2>11
<1> HIDE DEF early
<1>14. early = Passed /\ built.error = Passed /\ e = built
  <2>1. [error |-> "InvalidContract"].error # Passed
    BY DEF Passed
  <2> QED  BY <1>1, <1>2, <2>1 DEF CapsuleDoc
<1>15. /\ EnvelopeShape(o, e, "ExactArtifact", Ids(o.recipients), release)
       /\ e.slots = HolderSlots(o, contract, o.recipients) /\ e.shards = wrapped
  BY <1>9, <1>12, <1>14, BuiltParts
<1>16. e.contract = contract
  BY <1>9, <1>15 DEF EnvelopeShape
<1>17. e.shards = [i \in 1..Len(o.solutions) |->
                     Box(ShardKeyOf(o, i), shard_aad(proposal_core(e.contract, o.nonce), i),
                         split_secret(o.cek, Len(o.solutions), o.polynomial)[i])]
  BY <1>3, <1>10, <1>11, <1>15, <1>16
<1>18. /\ ReleaseError(release) = Passed /\ validate_plaintext_content(o.content, "ExactArtifact") = Passed
       /\ \A i \in 1..Len(o.solutions) : ~SolutionCheck(read_solution_file(o.solutions[i]))[1]
  BY <1>3, <1>4, <1>13, <1>14
<1>19. e.slots = HolderSlots(o, e.contract, o.recipients)
  BY <1>15, <1>16
<1> QED  BY <1>6, <1>7, <1>8, <1>15, <1>17, <1>18, <1>19 DEF ShardedShape

\* A sequence capsule that is built has a depth within the limits.
LEMMA DepthAllowed ==
  ASSUME NEW depth, ReleaseError(KeySequence(depth)) = Passed
  PROVE  depth \in MinDepth..MaxDepth
<1> DEFINE r == KeySequence(depth)
           a == r.depth \notin MinDepth..MaxDepth
<1>1. r.kind = "KeySequence" /\ r.depth = depth
  BY DEF KeySequence
<1>2. ReleaseError(r) = FirstError(<< <<a, "InvalidThreshold">> >>)
  <2> HIDE DEF r
  <2> QED  BY <1>1 DEF ReleaseError
<1>3. a \in BOOLEAN /\ "InvalidThreshold" # Passed
  BY DEF Passed
<1>4. ~a
  <2> HIDE DEF a
  <2> QED  BY <1>2, <1>3, OneChecks
<1> QED  BY <1>1, <1>4

\* The slots of a sequence capsule, in the order of the outermost identities.
SequenceSlots(o, e) ==
  LET ordered == SequenceOrder(o.sequences) IN
  /\ e.recipes = [i \in 1..Len(ordered) |-> Ids(Front(ordered[i]))]
  /\ e.slots = [i \in 1..Len(ordered) |->
                  [holder |-> Id(Last(ordered[i])),
                   box |-> SequenceSlot(o, proposal_core(e.contract, o.nonce), ordered[i])]]

SequenceShape(o, e, depth, principals) ==
  /\ depth = Len(o.sequences[1]) /\ depth \in MinDepth..MaxDepth
  /\ \A s \in Range(o.sequences) : Len(s) = depth
  /\ EnvelopeShape(o, e, "ExactArtifact", principals, KeySequence(depth))
  /\ SequenceSlots(o, e)
  /\ validate_plaintext_content(o.content, "ExactArtifact") = Passed

\* A sequence capsule has the shape its creation gives it.
LEMMA SequenceCapsule ==
  ASSUME NEW k, NEW e, CapsuleDoc(k, e), NEW o, o = Creations[k], Mode(o) = "sequence"
  PROVE  \E depth, principals : SequenceShape(o, e, depth, principals)
<1>1. Propose(o) = create_key_sequence_capsule_proposal(o)
  BY DEF Propose
<1> DEFINE depth == Len(o.sequences[1])
           principals == [i \in 1..Len(o.sequences) |-> sequence_principal_for(Ids(o.sequences[i]))]
           contract == ContractOf(o, "ExactArtifact", principals, KeySequence(depth))
           ordered == SequenceOrder(o.sequences)
           a == ~(\A s \in Range(o.sequences) : Len(s) = depth)
           b == ReleaseError(KeySequence(depth)) # Passed
           c == \E s \in Range(o.sequences) : HasDuplicates(s)
           d == ContractError(contract) # Passed
           f == validate_plaintext_content(o.content, "ExactArtifact") # Passed
           early == FirstError(
             << <<a, "InvalidContract">>, <<b, "InvalidContract">>, <<c, "DuplicateIdentity">>,
                <<d, map_contract_error(ContractError(contract))>>, <<f, "InvalidArtifact">> >>)
           recipes == [i \in 1..Len(ordered) |-> Ids(Front(ordered[i]))]
           slots == [i \in 1..Len(ordered) |->
                       [holder |-> Id(Last(ordered[i])),
                        box |-> SequenceSlot(o, proposal_core(contract, o.nonce), ordered[i])]]
           bare == [Unslotted(o, contract) EXCEPT !.recipes = recipes, !.slots = slots]
           built == Validated(bare)
<1>2. create_key_sequence_capsule_proposal(o) =
        IF early # Passed THEN [error |-> early] ELSE [error |-> built.error, proposal |-> built]
  BY Zenon DEF create_key_sequence_capsule_proposal
<1>3. early = Passed => ~a /\ ~b /\ ~f
  <2>1. /\ a \in BOOLEAN /\ b \in BOOLEAN /\ c \in BOOLEAN /\ d \in BOOLEAN /\ f \in BOOLEAN
        /\ "InvalidContract" # Passed /\ "DuplicateIdentity" # Passed /\ "InvalidArtifact" # Passed
        /\ d => map_contract_error(ContractError(contract)) # Passed
    BY DEF map_contract_error, Passed
  <2>2. PICK error : error = map_contract_error(ContractError(contract))
    OBVIOUS
  <2>3. early = FirstError(
             << <<a, "InvalidContract">>, <<b, "InvalidContract">>, <<c, "DuplicateIdentity">>,
                <<d, error>>, <<f, "InvalidArtifact">> >>)
    BY <2>2, Zenon
  <2>4. /\ a => "InvalidContract" # Passed
        /\ b => "InvalidContract" # Passed
        /\ c => "DuplicateIdentity" # Passed
        /\ d => error # Passed
        /\ f => "InvalidArtifact" # Passed
    BY <2>1, <2>2, Zenon
  <2>5. a \in BOOLEAN /\ b \in BOOLEAN /\ c \in BOOLEAN /\ d \in BOOLEAN /\ f \in BOOLEAN
    BY <2>1
  <2> HIDE DEF a, b, c, d, f, early
  <2>6. FirstError(<< <<a, "InvalidContract">>, <<b, "InvalidContract">>, <<c, "DuplicateIdentity">>,
                      <<d, error>>, <<f, "InvalidArtifact">> >>) = Passed <=> ~a /\ ~b /\ ~c /\ ~d /\ ~f
    BY <2>4, <2>5, FiveChecks
  <2> QED  BY <2>3, <2>6
<1> HIDE DEF early
<1>4. ~b /\ early = Passed => depth \in MinDepth..MaxDepth
  BY DepthAllowed
<1>5. PICK core : core = proposal_core(contract, o.nonce)
  OBVIOUS
<1>6. slots = [i \in 1..Len(ordered) |->
                 [holder |-> Id(Last(ordered[i])), box |-> SequenceSlot(o, core, ordered[i])]]
  BY <1>5
<1>7. recipes = [i \in 1..Len(ordered) |-> Ids(Front(ordered[i]))]
  OBVIOUS
<1>8. contract = ContractOf(o, "ExactArtifact", principals, KeySequence(depth))
  OBVIOUS
<1> HIDE DEF slots, recipes, contract, principals
<1>9. PICK error : error = ProposalError(bare)
  OBVIOUS
<1>10. PICK payload : payload = Box(o.cek, payload_aad(proposal_core(contract, o.nonce)), o.content)
  OBVIOUS
<1>11. bare = [contract |-> contract, nonce |-> o.nonce, content |-> o.content, challenge |-> NoBox,
               shards |-> <<>>, recipes |-> recipes, slots |-> slots, error |-> Passed, payload |-> payload]
  <2>1. PICK first : first = Unslotted(o, contract)
    OBVIOUS
  <2>2. first = [contract |-> contract, nonce |-> o.nonce, content |-> o.content, challenge |-> NoBox,
                 shards |-> <<>>, recipes |-> <<>>, slots |-> <<>>, error |-> Passed, payload |-> payload]
    BY <1>10, <2>1 DEF Unslotted
  <2>3. bare = [first EXCEPT !.recipes = recipes, !.slots = slots]
    BY <2>1
  <2> HIDE DEF bare
  <2> QED  BY <2>2, <2>3
<1>12. built = [bare EXCEPT !.error = error]
  BY <1>9 DEF Validated
<1> HIDE DEF bare, built
<1>13. built = [contract |-> contract, nonce |-> o.nonce, content |-> o.content, challenge |-> NoBox,
                shards |-> <<>>, recipes |-> recipes, slots |-> slots, error |-> error, payload |-> payload]
  BY <1>11, <1>12
<1>14. early = Passed /\ built.error = Passed /\ e = built
  BY <1>1, <1>2 DEF CapsuleDoc
<1>15. EnvelopeShape(o, e, "ExactArtifact", principals, KeySequence(depth))
  BY <1>8, <1>10, <1>13, <1>14 DEF EnvelopeShape
<1>16. e.contract = contract /\ e.recipes = recipes /\ e.slots = slots
  BY <1>13, <1>14
<1>17. SequenceSlots(o, e)
  BY <1>5, <1>6, <1>7, <1>16 DEF SequenceSlots
<1> QED  BY <1>3, <1>4, <1>14, <1>15, <1>17 DEF SequenceShape

\* The envelope of a creation has its nonce, and the kind of release says how
\* it was created.
LEMMA EnvelopeKind ==
  ASSUME NEW k, NEW e, CapsuleDoc(k, e), NEW o, o = Creations[k]
  PROVE  \E kind, principals, release :
           /\ EnvelopeShape(o, e, kind, principals, release) /\ e.nonce = k
           /\ e.contract.release = release
           /\ release.kind = CASE Mode(o) = "sequence" -> "KeySequence" [] Mode(o) = "challenge" -> "Challenge"
                               [] Mode(o) = "sharded" -> "Sharded" [] Mode(o) = "direct" -> "Direct"
                               [] OTHER -> "Quorum"
           /\ Mode(o) # "sequence" => principals = Ids(o.recipients)
           /\ kind = IF o.patch THEN "SemanticPatch" ELSE "ExactArtifact"
<1>1. o.nonce = k /\ o.patch \in BOOLEAN
  BY CreationAssumption DEF CapsuleDoc
<1>2. ASSUME NEW kind, NEW principals, NEW release, EnvelopeShape(o, e, kind, principals, release)
      PROVE  e.contract.release = release /\ e.nonce = k
  BY <1>1, <1>2 DEF EnvelopeShape, ContractOf, Contract
<1>3. /\ o.patch => o.sequences = <<>> /\ o.solutions = <<>>
      /\ Mode(o) \in {"sequence", "challenge", "sharded", "direct", "quorum"}
  BY CreationAssumption DEF CapsuleDoc, Mode
<1>4. o.patch => Mode(o) \in {"direct", "quorum"}
  BY <1>3 DEF Mode
<1>5. CASE Mode(o) = "sequence"
  <2>1. PICK depth, principals : EnvelopeShape(o, e, "ExactArtifact", principals, KeySequence(depth))
    BY <1>5, SequenceCapsule DEF SequenceShape
  <2>2. KeySequence(depth).kind = "KeySequence"
    BY DEF KeySequence
  <2> QED  BY <1>1, <1>2, <1>4, <1>5, <2>1, <2>2
<1>6. CASE Mode(o) = "challenge"
  <2>1. PICK memory, iterations, commitment, salt, hint :
          EnvelopeShape(o, e, "ExactArtifact", Ids(o.recipients), Challenge(memory, iterations, commitment, salt, hint))
    BY <1>6, ChallengeCapsule DEF ChallengeShape
  <2>2. Challenge(memory, iterations, commitment, salt, hint).kind = "Challenge"
    BY DEF Challenge
  <2> QED  BY <1>1, <1>2, <1>4, <1>6, <2>1, <2>2
<1>7. CASE Mode(o) = "sharded"
  <2>1. PICK shards, threshold, release : ShardedShape(o, e, shards, threshold, release)
    BY <1>7, ShardedCapsule
  <2>2. /\ release = Sharded(o.memory, o.iterations, threshold, shards, o.hint)
        /\ EnvelopeShape(o, e, "ExactArtifact", Ids(o.recipients), release)
    BY <2>1 DEF ShardedShape
  <2>3. release.kind = "Sharded"
    BY <2>2 DEF Sharded
  <2> QED  BY <1>1, <1>2, <1>4, <1>7, <2>2, <2>3
<1>8. CASE Mode(o) \in {"direct", "quorum"}
  <2>1. PICK release :
          /\ IF Mode(o) = "direct" THEN release = Direct ELSE release = QuorumOf(o)
          /\ EnvelopeShape(o, e, KindOf(o), Ids(o.recipients), release)
    <3>1. PICK release, holders :
            /\ IF Mode(o) = "direct" THEN release = Direct /\ holders = o.recipients
               ELSE release = QuorumOf(o) /\ holders = o.witnesses
            /\ EnvelopeShape(o, e, KindOf(o), Ids(o.recipients), release)
      BY <1>8, DefaultCapsule DEF DefaultShape
    <3> QED  BY <3>1
  <2>2. Direct.kind = "Direct" /\ QuorumOf(o).kind = "Quorum"
    BY DEF Direct, QuorumOf, Quorum
  <2> QED  BY <1>2, <1>8, <2>1, <2>2 DEF KindOf
<1> QED  BY <1>3, <1>5, <1>6, <1>7, <1>8

\* The recipients of a contract are the ids of the names the creation gives.
LEMMA CanonicalIds ==
  ASSUME NEW names \in Seq(Name), NEW n \in Name
  PROVE  Id(n) \in Range(canonical_principals(Ids(names))) <=> n \in Range(names)
<1>1. PICK count \in Nat : count = Len(names) /\ DOMAIN names = 1..count /\ \A i \in 1..count : names[i] \in Name
  OBVIOUS
<1>2. PICK ids : ids = Ids(names)
  OBVIOUS
<1>3. Len(ids) = count /\ \A i \in 1..count : ids[i] = Id(names[i])
  BY <1>1, <1>2 DEF Ids
<1>4. PICK keys : keys = [i \in 1..Len(ids) |-> Rank(ids[i])]
  OBVIOUS
<1>5. Len(keys) = count /\ \A i \in 1..count : keys[i] \in Nat
  <2>1. Len(keys) = count /\ \A i \in 1..count : keys[i] = Rank(Id(names[i]))
    BY <1>3, <1>4
  <2>2. \A i \in 1..count : Rank(Id(names[i])) = names[i] /\ names[i] \in Nat
    BY <1>1, DistinctIds, IdentityParts
  <2> QED  BY <2>1, <2>2
<1>6. PICK sorted : sorted = SortedBy(ids, keys)
  OBVIOUS
<1>7. Reordered(sorted, ids, count)
  BY <1>3, <1>5, <1>6, SortedElements
<1>8. canonical_principals(Ids(names)) = sorted
  BY <1>2, <1>4, <1>6 DEF canonical_principals
<1>9. Range(sorted) = {sorted[k] : k \in 1..count} /\ Range(names) = {names[i] : i \in 1..count}
  BY <1>1, <1>7 DEF Range, Reordered
<1>10. Id(n) \in Range(sorted) <=> \E i \in 1..count : Id(n) = Id(names[i])
  <2>1. ASSUME NEW j \in 1..count, Id(n) = sorted[j]  PROVE \E i \in 1..count : Id(n) = Id(names[i])
    <3>1. PICK i \in 1..count : sorted[j] = ids[i]
      BY <1>7 DEF Reordered
    <3> QED  BY <1>3, <2>1, <3>1
  <2>2. ASSUME NEW i \in 1..count, Id(n) = Id(names[i])  PROVE \E j \in 1..count : Id(n) = sorted[j]
    <3>1. PICK j \in 1..count : sorted[j] = ids[i]
      BY <1>7 DEF Reordered
    <3> QED  BY <1>3, <2>2, <3>1
  <2> QED  BY <1>9, <2>1, <2>2
<1>11. \A i \in 1..count : Id(n) = Id(names[i]) <=> n = names[i]
  BY <1>1, DistinctIds
<1> QED  BY <1>8, <1>9, <1>10, <1>11

\* The recipients a contract names are those of the creation.
LEMMA RecipientsOf ==
  ASSUME NEW k, NEW e, CapsuleDoc(k, e), NEW o, o = Creations[k], Mode(o) # "sequence", NEW n \in Name
  PROVE  Id(n) \in Range(e.contract.recipients) <=> n \in Range(o.recipients)
<1>1. PICK kind, principals, release :
        EnvelopeShape(o, e, kind, principals, release) /\ principals = Ids(o.recipients)
  BY EnvelopeKind
<1>2. e.contract.recipients = canonical_principals(Ids(o.recipients))
  BY <1>1 DEF EnvelopeShape, ContractOf, Contract
<1>3. o.recipients \in Seq(Name)
  BY CreationAssumption DEF CapsuleDoc
<1> QED  BY <1>2, <1>3, CanonicalIds

\* A capsule or a proposal that can be read.
LEMMA CapsuleRead ==
  ASSUME DocInv, NEW k, NEW p \in {CapsulePath(k), <<"proposal", k>>}, Readable(p)
  PROVE  CapsuleDoc(k, files[p].doc)
<1>1. Held(p, files[p].doc) /\ p[1] \in {"proposal", "capsule"} /\ p[2] = k
  BY DEF Held, CapsulePath
<1>2. Genuine(p, files[p].doc)
  BY <1>1, Zenon DEF DocInv, AllGenuine
<1> QED  BY <1>1, <1>2 DEF Genuine

-----------------------------------------------------------------------------
(* The commands that create capsules.                                      *)

\* Creating a capsule writes the proposal its creation gives (create_capsule).
LEMMA CreateKeeps ==
  ASSUME DocInv, NEW k \in budget.creations, NEW statuses, create_capsule(k, statuses)
  PROVE  DocInv'
<1>1. k \in DOMAIN Creations
  BY DEF DocInv, BudgetType
<1> DEFINE out == <<"proposal", k>>
           e == Propose(Creations[k]).proposal
<1>2. /\ Ready("create") /\ out \notin DOMAIN files /\ Propose(Creations[k]).error = Passed
      /\ Write("create", <<out>>, <<e>>, FALSE)
  BY DEF create_capsule, ensure_output_absent
<1>3. CapsuleDoc(k, e)
  BY <1>1, <1>2 DEF CapsuleDoc
<1>4. out[1] = "proposal" /\ Genuine(out, e)
  BY <1>3 DEF Genuine
<1> HIDE DEF out, e
<1> QED  BY <1>2, <1>4, StartOne DEF Families

\* Finalizing writes the proposal that was read as the capsule.
LEMMA FinalizeKeeps ==
  ASSUME DocInv, cmd = NoCommand, patch = NoCommand, NEW k, finalize_capsule_command(k)
  PROVE  DocInv'
<1>1. PICK e : e = files[<<"proposal", k>>].doc
  OBVIOUS
<1>2. PICK p : p = CapsulePath(k)
  OBVIOUS
<1>3. PICK paths : paths = <<p>>
  OBVIOUS
<1>4. PICK docs : docs = <<e>>
  OBVIOUS
<1>5. /\ Readable(<<"proposal", k>>) /\ p \notin DOMAIN files /\ last' = Nothing
      /\ cmd' = [paths |-> paths, docs |-> docs, done |-> 0, undo |-> FALSE]
      /\ UNCHANGED <<files, patch, budget>>
  BY <1>1, <1>2, <1>3, <1>4 DEF finalize_capsule_command, ensure_output_absent, patchVars
<1>6. CapsuleDoc(k, e)
  BY <1>1, <1>5, CapsuleRead
<1>7. Genuine(p, e) /\ p[1] = "capsule"
  BY <1>2, <1>6 DEF Genuine, CapsulePath
<1>8. Len(paths) = 1 /\ \A i \in 1..Len(paths) : i = 1 /\ paths[i] = p /\ docs[i] = e
  BY <1>3, <1>4
<1>9. BudgetType' /\ budget'.creations = budget.creations
  BY <1>5 DEF DocInv, BudgetType
<1>10. \A i \in 1..Len(paths) : paths[i][1] # "share"
  BY <1>7, <1>8
<1>11. \E n, b : \A i \in 1..Len(paths) : paths[i][1] = "share" => ShareDoc(paths[i], docs[i], n, b)
  BY <1>10
<1>12. /\ \A i \in 1..Len(paths) : paths[i] \notin DOMAIN files \/ paths[i][1] = "audit"
       /\ \A i, j \in 1..Len(paths) : paths[i] = paths[j] => i = j \/ paths[i][1] = "audit"
       /\ \A i \in 1..Len(paths) : Genuine(paths[i], docs[i])
       /\ \A i \in 1..Len(paths) : paths[i][1] # "award"
       /\ Len(paths) \in Nat /\ Len(paths) > 0
  BY <1>5, <1>7, <1>8
<1> HIDE <1>8
<1> QED  BY <1>5, <1>9, <1>10, <1>11, <1>12, StartWrite, Zenon

\* The sequence of the elements of a finite set.
LEMMA SetToSeqLen ==
  ASSUME NEW S, IsFiniteSet(S)
  PROVE  Len(SetToSeq(S)) \in Nat
<1>1. PICK n \in Nat : ExistsBijection(1..n, S) /\ n = Cardinality(S)
  BY FS_CardinalityType
<1>2. PICK f : f \in Bijection(1..n, S)
  BY <1>1 DEF ExistsBijection
<1>3. f \in [1..n -> S] /\ IsInjective(f)
  BY <1>2 DEF Bijection, Injection, Surjection, IsInjective
<1>4. SetToSeq(S) = CHOOSE g \in [1..n -> S] : IsInjective(g)
  BY <1>1 DEF SetToSeq
<1>5. SetToSeq(S) \in [1..n -> S]
  BY <1>3, <1>4, Zenon
<1> QED  BY <1>5

\* An audit writes copies, which no other command reads.
LEMMA AuditKeeps ==
  ASSUME DocInv, NEW k, audit_capsule_command(k)
  PROVE  DocInv'
<1> DEFINE e == files[CapsulePath(k)].doc
           holders == {n \in Name : \E i \in 1..Len(e.slots) : e.slots[i].holder = Id(n)}
           others == SetToSeq(holders \ Range(Members))
           sorted == SortedBy(others, others)
           names == Members \o sorted
           middle == [i \in 1..Len(names) |-> <<"audit", "identity", names[i]>>]
           first == <<(<<"audit", "certificate", 0>>)>>
           final == <<(<<"audit", "report", 0>>)>>
           paths == first \o middle \o final
           docs == [i \in 1..Len(paths) |-> k]
<1>1. Ready("create") /\ Write("create", paths, docs, FALSE)
  BY DEF audit_capsule_command
<1>2. IsFiniteSet(holders \ Range(Members))
  <2>1. holders \ Range(Members) \subseteq Name
    OBVIOUS
  <2> QED  BY <2>1, IdentityAssumption, FS_Subset
<1>3. Len(others) \in Nat
  BY <1>2, SetToSeqLen
<1> HIDE DEF others
<1>4. Len(names) \in Nat
  <2>1. sorted \in Seq({sorted[i] : i \in 1..Len(others)})
    <3> DEFINE at(i) == CHOOSE j \in 1..Len(others) : Place(others, j) = i
    <3>1. sorted = [i \in 1..Len(others) |-> others[at(i)]]
      BY DEF SortedBy
    <3> HIDE DEF at, sorted
    <3>2. sorted = [i \in 1..Len(others) |-> sorted[i]]
      BY <3>1
    <3>3. sorted \in [1..Len(others) -> {sorted[i] : i \in 1..Len(others)}]
      BY <3>2
    <3> QED  BY <1>3, <3>3
  <2> DEFINE S == {sorted[i] : i \in 1..Len(others)} \cup Name
  <2> HIDE DEF sorted
  <2>2. sorted \in Seq(S) /\ Members \in Seq(S)
    BY <2>1, IdentityAssumption DEF S
  <2> HIDE DEF S
  <2> QED  BY <2>2
<1> HIDE DEF names
<1>5. Len(paths) \in Nat /\ Len(paths) > 0 /\ \A i \in 1..Len(paths) : paths[i][1] = "audit"
  <2> DEFINE T == {middle[i] : i \in 1..Len(names)} \cup {first[1], final[1]}
  <2>1. \A p \in T : p[1] = "audit"
    OBVIOUS
  <2>2. first \in Seq(T) /\ final \in Seq(T) /\ Len(first) = 1
    OBVIOUS
  <2>3. middle \in Seq(T)
    <3>1. middle \in [1..Len(names) -> T] /\ Len(names) \in Nat
      BY <1>4
    <3> HIDE DEF middle, T
    <3> QED  BY <3>1
  <2> HIDE DEF T, first, middle, final
  <2>4. PICK start : start = first \o middle
    OBVIOUS
  <2>5. start \in Seq(T) /\ Len(start) > 0
    BY <2>2, <2>3, <2>4
  <2>6. paths = start \o final
    BY <2>4
  <2> HIDE DEF paths
  <2>7. paths \in Seq(T) /\ Len(paths) > 0
    BY <2>2, <2>5, <2>6
  <2> QED  BY <2>1, <2>7
<1> HIDE DEF paths
<1>7. /\ cmd = NoCommand /\ patch = NoCommand /\ UNCHANGED <<files, patch>> /\ last' = Nothing
      /\ cmd' = [paths |-> paths, docs |-> docs, done |-> 0, undo |-> FALSE]
      /\ budget["create"] > 0 /\ Spend("create")
  BY <1>1 DEF Ready, Write, patchVars
<1>8. BudgetType' /\ budget'.creations = budget.creations
  BY <1>7, SpendKeeps DEF DocInv, Families
<1>9. \A i \in 1..Len(paths) : /\ Genuine(paths[i], docs[i])
                               /\ paths[i][1] # "share" /\ paths[i][1] # "award"
  BY <1>5 DEF Genuine
<1> HIDE DEF docs
<1> QED  BY <1>5, <1>7, <1>8, <1>9, StartWrite

\* Every command that creates a capsule keeps DocInv.
LEMMA CreationKeeps ==
  ASSUME DocInv, CreationCommands
  PROVE  DocInv'
<1>1. cmd = NoCommand /\ patch = NoCommand
  BY DEF CreationCommands
<1>2. PICK k \in budget.creations :
        (\E statuses : create_capsule(k, statuses)) \/ finalize_capsule_command(k) \/ audit_capsule_command(k)
  BY DEF CreationCommands
<1> QED  BY <1>1, <1>2, CreateKeeps, FinalizeKeeps, AuditKeeps

-----------------------------------------------------------------------------
(* The commands of access.                                                 *)

\* A claim is written for the capsule its solution opens (create_claim_with_key).
LEMMA ClaimKeeps ==
  ASSUME DocInv, Ready("access"), NEW k, NEW path \in KeyFiles, Readable(path), NEW key,
         ClaimWith(k, path, key)
  PROVE  DocInv'
<1>1. PICK n : n = path[2]
  OBVIOUS
<1> DEFINE d == files[path].doc
           out == <<"claim", n>>
           c == create_claim_with_key(Envelope(k), d, key.content, n)
<1>2. Write("access", <<out>>, <<c>>, FALSE) /\ out \notin DOMAIN files
  BY <1>1 DEF ClaimWith, ensure_output_absent
<1>3. KeyDoc(n, d)
  BY <1>1, KeyRead
<1>4. n \in Name /\ d.public = Identity[n]
  BY <1>3, UnlockExactly DEF KeyDoc
<1>5. c.solver = d.public
  BY DEF create_claim_with_key
<1>6. Genuine(out, c) /\ out[1] = "claim"
  <2> HIDE DEF c
  <2> QED  BY <1>4, <1>5 DEF Genuine
<1> HIDE DEF out, c
<1> QED  BY <1>2, <1>6, StartOne DEF Families

\* A claim is awarded under a challenge only.
LEMMA AwardedKind ==
  ASSUME NEW k, NEW c, NEW judge, NEW file, ClaimError(k, c, judge, file) = Passed
  PROVE  Envelope(k).contract.release.kind \in {"Challenge", "Sharded"}
<1> DEFINE e == Envelope(k)
           kind == e.contract.release.kind
<1>1. ASSUME kind # "Sharded"  PROVE kind = "Challenge"
  <2>1. "Generic" # Passed /\ "UnsupportedReleasePolicy" # Passed
    BY DEF Passed
  <2>2. verify_challenge_claim(e, c, read_solution_file(file)) = Passed
    BY <1>1, <2>1 DEF ClaimError
  <2>3. verified_solution_key(e, read_solution_file(file)).error = Passed
    BY <2>2, Zenon DEF verify_challenge_claim
  <2>4. kind # "Challenge" => verified_solution_key(e, read_solution_file(file)) = Failed("UnsupportedReleasePolicy")
    BY Zenon DEF verified_solution_key
  <2>5. Failed("UnsupportedReleasePolicy").error # Passed
    BY <2>1 DEF Failed
  <2> QED  BY <2>3, <2>4, <2>5
<1> QED  BY <1>1

\* A claim that is verified with the key of a capsule was made for it
\* (verify_claim_with_key).
LEMMA VerifiedFor ==
  ASSUME NEW e, NEW c, NEW key, verify_claim_with_key(e, c, key) = Passed
  PROVE  ClaimFor(e, c)
<1> DEFINE x == ClaimShapeError(c) # Passed
           y == c.envelope # EnvelopeId(e) \/ c.contract # e.contract.id
           z == c.proof # claim_proof(key, EnvelopeId(e), c.solver.id, c.nonce)
<1>1. verify_claim_with_key(e, c, key) =
        FirstError(<< <<x, ClaimShapeError(c)>>, <<y, "BindingMismatch">>, <<z, "AuthenticationFailed">> >>)
  BY Zenon DEF verify_claim_with_key
<1>2. /\ x \in BOOLEAN /\ y \in BOOLEAN /\ z \in BOOLEAN
      /\ x => ClaimShapeError(c) # Passed
      /\ "BindingMismatch" # Passed /\ "AuthenticationFailed" # Passed
  BY DEF Passed
<1>3. ~y
  <2> HIDE DEF x, y, z
  <2> QED  BY <1>1, <1>2, ThreeChecks
<1> QED  BY <1>3 DEF ClaimFor

\* A claim is awarded for the capsule it was made for only.
LEMMA AwardedFor ==
  ASSUME NEW k, NEW c, NEW judge, NEW file, ClaimError(k, c, judge, file) = Passed
  PROVE  ClaimFor(Envelope(k), c)
<1>1. PICK e : e = Envelope(k)
  OBVIOUS
<1>2. "Generic" # Passed /\ "UnsupportedReleasePolicy" # Passed
  BY DEF Passed
<1>3. CASE verify_sharded_challenge_claim(e, c, judge) = Passed
  <2>1. \E key : verify_claim_with_key(e, c, key) = Passed
    BY <1>2, <1>3, Zenon DEF verify_sharded_challenge_claim
  <2> QED  BY <1>1, <2>1, VerifiedFor
<1>4. CASE verify_challenge_claim(e, c, read_solution_file(file)) = Passed
  <2>1. \E key : verify_claim_with_key(e, c, key) = Passed
    BY <1>4, Zenon DEF verify_challenge_claim
  <2> QED  BY <1>1, <2>1, VerifiedFor
<1> QED  BY <1>1, <1>2, <1>3, <1>4, Zenon DEF ClaimError

\* The award of a listed judge verifies.
LEMMA AwardVerifies ==
  ASSUME NEW e, NEW c, NEW n, NEW judge, KeyDoc(n, judge), CreateAwardError(e, c, judge) = Passed
  PROVE  /\ Id(n) \in Range(e.contract.recipients) /\ Award(e, c, judge).judge = Identity[n]
         /\ verify_challenge_award(e, c, Award(e, c, judge)) = Passed
<1>1. n \in Name /\ judge.public = Identity[n] /\ judge.box.seed = Secret[n].seed
  BY UnlockExactly DEF KeyDoc
<1>2. judge.public.id = Id(n)
  BY <1>1, IdentityParts
<1>3. Id(n) \in Range(e.contract.recipients) /\ e.error = Passed
  <2> DEFINE x == e.error # Passed
             y == ClaimShapeError(c) # Passed
             z == judge.public.id \notin Range(e.contract.recipients)
  <2>1. CreateAwardError(e, c, judge) =
          FirstError(<< <<x, e.error>>, <<y, ClaimShapeError(c)>>, <<z, "NotRecipient">> >>)
    BY Zenon DEF CreateAwardError
  <2>2. /\ x \in BOOLEAN /\ y \in BOOLEAN /\ z \in BOOLEAN /\ "NotRecipient" # Passed
        /\ x => e.error # Passed
        /\ y => ClaimShapeError(c) # Passed
    BY DEF Passed
  <2>3. ~x /\ ~z
    <3> HIDE DEF x, y, z
    <3> QED  BY <2>1, <2>2, ThreeChecks
  <2> QED  BY <1>2, <2>3
<1>4. PICK a : a = Award(e, c, judge)
  OBVIOUS
<1>5. /\ a.claim = c.id /\ a.envelope = EnvelopeId(e) /\ a.judge = Identity[n]
      /\ a.signature = Sign(Secret[n].seed, award_message(c.id, EnvelopeId(e), Id(n)))
  BY <1>1, <1>2, <1>4 DEF Award
<1>6. AwardShapeError(a) = Passed
  <2> DEFINE x == PublicIdentityError(a.judge) # Passed
             y == ~Signed(a.signature, a.judge.signing, award_message(a.claim, a.envelope, a.judge.id))
  <2>1. AwardShapeError(a) = FirstError(<< <<x, PublicIdentityError(a.judge)>>, <<y, "InvalidSignature">> >>)
    BY Zenon DEF AwardShapeError
  <2>2. ~x
    BY <1>1, <1>5, IdentityValid
  <2>3. ~y
    <3>1. a.judge.signing = SigningKey(Secret[n].seed) /\ a.judge.id = Id(n)
      BY <1>1, <1>5, IdentityParts
    <3> QED  BY <1>5, <3>1 DEF Signed, Sign
  <2>4. x \in BOOLEAN /\ y \in BOOLEAN
    OBVIOUS
  <2> HIDE DEF x, y
  <2> QED  BY <2>1, <2>2, <2>3, <2>4, TwoChecks
<1>7. verify_challenge_award(e, c, a) = Passed
  <2> DEFINE w == e.error # Passed
             x == AwardShapeError(a) # Passed
             y == a.claim # c.id \/ a.envelope # EnvelopeId(e)
             z == a.judge.id \notin Range(e.contract.recipients)
  <2>1. verify_challenge_award(e, c, a) =
          FirstError(<< <<w, e.error>>, <<x, AwardShapeError(a)>>, <<y, "BindingMismatch">>, <<z, "NotRecipient">> >>)
    BY Zenon DEF verify_challenge_award
  <2>2. ~w /\ ~x /\ ~y /\ ~z /\ w \in BOOLEAN /\ x \in BOOLEAN /\ y \in BOOLEAN /\ z \in BOOLEAN
    BY <1>1, <1>3, <1>5, <1>6, IdentityParts
  <2> HIDE DEF w, x, y, z
  <2> QED  BY <2>1, <2>2, FourChecks
<1> QED  BY <1>3, <1>4, <1>5, <1>7

\* An award is for a claim that passed every check (award_challenge).
LEMMA AwardKeeps ==
  ASSUME DocInv, Ready("access"), NEW k \in budget.creations, Readable(CapsulePath(k)),
         NEW claimPath \in DOMAIN files, claimPath[1] = "claim", NEW path \in KeyFiles, NEW pass, NEW file,
         award_challenge_command(k, claimPath, path, pass, file)
  PROVE  DocInv'
<1>1. PICK m : m = claimPath[2] /\ claimPath = <<"claim", m>>
  <2>1. Readable(claimPath)
    BY DEF award_challenge_command
  <2>2. Genuine(claimPath, files[claimPath].doc)
    BY <2>1, Zenon DEF DocInv, AllGenuine, Held
  <2> QED  BY <2>2 DEF Genuine
<1>2. PICK n : n = path[2]
  OBVIOUS
<1> DEFINE e == Envelope(k)
           c == files[claimPath].doc
           judge == files[path].doc
           out == <<"award", m>>
           a == Award(e, c, judge)
<1>3. /\ Write("access", <<out>>, <<a>>, FALSE) /\ out \notin DOMAIN files
      /\ Readable(claimPath) /\ Readable(path)
      /\ ClaimError(k, c, judge, file) = Passed /\ CreateAwardError(e, c, judge) = Passed
  BY <1>1 DEF award_challenge_command, ensure_output_absent, unlock_identity
<1>4. KeyDoc(n, judge) /\ n \in Name
  BY <1>2, <1>3, KeyRead DEF KeyDoc
<1>5. /\ Id(n) \in Range(e.contract.recipients) /\ a.judge = Identity[n]
      /\ verify_challenge_award(e, c, a) = Passed
  BY <1>3, <1>4, AwardVerifies
<1>6. CapsuleDoc(k, e)
  BY CapsuleRead DEF Envelope
<1>7. e.contract.release.kind \in {"Challenge", "Sharded"} /\ ClaimFor(e, c)
  BY <1>3, AwardedKind, AwardedFor
<1>8. PICK o : o = Creations[k]
  OBVIOUS
<1>9. Mode(o) # "sequence"
  <2> HIDE DEF e
  <2>1. PICK kind, principals, release :
          /\ e.contract.release = release
          /\ release.kind = CASE Mode(o) = "sequence" -> "KeySequence" [] Mode(o) = "challenge" -> "Challenge"
                              [] Mode(o) = "sharded" -> "Sharded" [] Mode(o) = "direct" -> "Direct"
                              [] OTHER -> "Quorum"
    BY <1>6, <1>8, EnvelopeKind
  <2> QED  BY <1>7, <2>1
<1>10. n \in Range(o.recipients)
  <2> HIDE DEF e
  <2> QED  BY <1>4, <1>5, <1>6, <1>8, <1>9, RecipientsOf
<1>11. a.judge.name = n
  BY <1>4, <1>5, IdentityParts
<1>12. AwardDoc(out, a)
  <2>1. out[2] = m
    OBVIOUS
  <2> HIDE DEF a, out
  <2>2. /\ Readable(<<"claim", m>>) /\ verify_challenge_award(Envelope(k), files[<<"claim", m>>].doc, a) = Passed
        /\ ClaimFor(Envelope(k), files[<<"claim", m>>].doc)
        /\ a.judge.name \in Range(Creations[k].recipients)
    BY <1>1, <1>3, <1>5, <1>7, <1>8, <1>10, <1>11
  <2> QED  BY <2>1, <2>2 DEF AwardDoc
<1>13. out[1] = "award" /\ Genuine(out, a)
  BY DEF Genuine
<1> HIDE DEF out, a
<1> QED  BY <1>3, <1>12, <1>13, StartOne DEF Families

\* Every access command keeps DocInv.
LEMMA AccessKeeps ==
  ASSUME DocInv, AccessCommands
  PROVE  DocInv'
<1>1. Ready("access") /\ "access" \in Families
  BY DEF AccessCommands, Families
<1>2. PICK k \in {j \in budget.creations : Readable(CapsulePath(j))} :
       \/ \E path \in KeyFiles, pass \in Passphrases :
            \/ \E raw \in BOOLEAN : open_capsule_command(k, path, pass, raw)
            \/ \E override \in Overrides, required \in {"Diff", "Apply"} :
                 authorize_file_operations(k, path, pass, override, required)
            \/ \E file \in SolutionFiles : claim_challenge_command(k, path, pass, file)
            \/ \E entries \in Attempts : claim_shards_command(k, path, pass, entries)
            \/ \E claimPath \in {p \in DOMAIN files : p[1] = "claim"}, file \in SolutionFiles \cup {<<>>} :
                 award_challenge_command(k, claimPath, path, pass, file)
       \/ \E names \in KeyLists, pass \in Passphrases : open_sequence_capsule_command(k, names, pass)
       \/ \E file \in SolutionFiles :
            \/ solve_challenge_command(k, file)
            \/ \E i \in 1..MaxChallengeShards : check_challenge_command(k, i, file)
       \/ \E entries \in Attempts : solve_shards_command(k, entries)
  BY DEF AccessCommands
<1>3. ASSUME NEW path \in KeyFiles, NEW pass,
             \/ \E file : claim_challenge_command(k, path, pass, file)
             \/ \E entries : claim_shards_command(k, path, pass, entries)
      PROVE  DocInv'
  <2>1. Readable(path) /\ \E key : ClaimWith(k, path, key)
    BY <1>3 DEF claim_challenge_command, claim_shards_command, unlock_identity
  <2> QED  BY <1>1, <2>1, ClaimKeeps
<1>4. ASSUME NEW path \in KeyFiles, NEW pass, NEW claimPath \in DOMAIN files, claimPath[1] = "claim", NEW file,
             award_challenge_command(k, claimPath, path, pass, file)
      PROVE  DocInv'
  BY <1>1, <1>4, AwardKeeps
<1>5. ASSUME \E r : Report("access", r)  PROVE DocInv'
  BY <1>1, <1>5, ReportKeeps
<1>6. ASSUME NEW path, NEW pass,
             \/ \E raw : open_capsule_command(k, path, pass, raw)
             \/ \E override, required : authorize_file_operations(k, path, pass, override, required)
      PROVE  \E r : Report("access", r)
  BY <1>6, Zenon DEF open_capsule_command, authorize_file_operations
<1>7. ASSUME \/ \E names, pass : open_sequence_capsule_command(k, names, pass)
             \/ \E file : solve_challenge_command(k, file)
             \/ \E i, file : check_challenge_command(k, i, file)
             \/ \E entries : solve_shards_command(k, entries)
      PROVE  \E r : Report("access", r)
  BY <1>7, Zenon DEF open_sequence_capsule_command, solve_challenge_command, check_challenge_command,
                     solve_shards_command
<1> QED  BY <1>2, <1>3, <1>4, <1>5, <1>6, <1>7

\* The patching of a file reads documents and writes none.
LEMMA PatchKeeps ==
  ASSUME DocInv, PatchCommands
  PROVE  DocInv'
<1>1. ASSUME NEW p, NEW mode, BeginPatch(p, mode)  PROVE DocInv'
  <2>1. cmd = NoCommand /\ budget["patch"] > 0 /\ Spend("patch") /\ UNCHANGED <<files, cmd>>
    BY <1>1 DEF BeginPatch, Ready
  <2>2. BudgetType' /\ budget'.creations = budget.creations
    BY <2>1, SpendKeeps DEF DocInv, Families
  <2> QED  BY <2>1, <2>2, SameDocs
<1>2. ASSUME patch # NoCommand, Quiet  PROVE DocInv'
  <2>1. cmd = NoCommand /\ UNCHANGED <<files, cmd, budget>>
    BY <1>2 DEF DocInv, CmdShape, Quiet
  <2>2. BudgetType'
    BY <2>1 DEF DocInv, BudgetType
  <2> QED  BY <2>1, <2>2, SameDocs
<1>3. CASE \E mode \in Modes :
             \/ \E p \in Patches : apply_patch_file(p, mode)
             \/ \E k \in budget.creations, path \in KeyFiles, pass \in Passphrases :
                  patch_capsule_command(k, path, pass, mode)
  BY <1>1, <1>3 DEF apply_patch_file, patch_capsule_command
<1>4. CASE confirm \/ RevalidateFirst \/ create_backup \/ StagePatch \/ RevalidateStaged \/ persist
  <2>1. patch # NoCommand /\ Quiet
    BY <1>4 DEF confirm, RevalidateFirst, RevalidateStaged, revalidate_target, create_backup, StagePatch,
                persist, Step
  <2> QED  BY <1>2, <2>1
<1>5. CASE sync_parent \/ VerifyPatched \/ KilledPatching \/ ForeignWrite
  <2>1. patch # NoCommand /\ Quiet
    BY <1>5 DEF sync_parent, VerifyPatched, KilledPatching, ForeignWrite, Step
  <2> QED  BY <1>2, <2>1
<1> QED  BY <1>3, <1>4, <1>5 DEF PatchCommands

\* DocInv holds when no document is written yet.
LEMMA DocInvInit == Init => DocInv
<1> SUFFICES ASSUME Init  PROVE DocInv
  OBVIOUS
<1>1. /\ cmd = NoCommand /\ budget \in Budgets
      /\ files = [p \in {KeyPath(n) : n \in Generated} \cup {PublicPath(n) : n \in Generated} |->
                    IF p[1] = "public" THEN Whole(Identity[p[2]])
                    ELSE Whole(PrivateIdentity(Identity[p[2]], Secret[p[2]].seed, Secret[p[2]].ikm, FirstPass,
                                               "s", IF p[2] = 1 THEN "v1" ELSE "v2"))]
  BY DEF Init
<1>2. \A p \in DOMAIN files : \E n \in Name : p = <<"key", n>> \/ p = <<"public", n>>
  BY <1>1, IdentityAssumption DEF KeyPath, PublicPath
<1>3. ASSUME NEW p, NEW d, Held(p, d)  PROVE Genuine(p, d) /\ p[1] \in {"key", "public"}
  <2>1. Readable(p) /\ d = files[p].doc
    BY <1>1, <1>3 DEF Held, Planned
  <2>2. PICK n \in Name : p = <<"key", n>> \/ p = <<"public", n>>
    BY <1>2, <2>1 DEF Readable
  <2>3. CASE p = <<"public", n>>
    BY <2>3 DEF Genuine
  <2>4. CASE p = <<"key", n>>
    <3>1. p[1] = "key" /\ p[2] = n
      BY <2>4
    <3>2. PICK scheme \in {"v1", "v2"} :
            files[p] = Whole(PrivateIdentity(Identity[n], Secret[n].seed, Secret[n].ikm, FirstPass, "s", scheme))
      BY <1>1, <2>1, <3>1 DEF Readable
    <3>3. d = PrivateIdentity(Identity[n], Secret[n].seed, Secret[n].ikm, FirstPass, "s", scheme)
      BY <2>1, <3>2 DEF Whole
    <3>4. KeyDoc(n, d)
      BY <3>3, IdentityAssumption DEF KeyDoc
    <3> QED  BY <3>1, <3>4 DEF Genuine
  <2> QED  BY <2>2, <2>3, <2>4
<1>4. AllGenuine
  BY <1>3, Zenon DEF AllGenuine
<1>5. OneBackup /\ AllAwards
  BY <1>3 DEF OneBackup, AllAwards
<1>6. CmdShape /\ BudgetType
  BY <1>1, CreationAssumption DEF CmdShape, BudgetType
<1> QED  BY <1>4, <1>5, <1>6 DEF DocInv

\* DocInv is inductive.
LEMMA DocInvStep == DocInv /\ [Next]_vars => DocInv'
<1> SUFFICES ASSUME DocInv, [Next]_vars  PROVE DocInv'
  OBVIOUS
<1>1. CASE UNCHANGED vars
  <2>1. UNCHANGED <<files, cmd, budget, last, patch>> /\ BudgetType'
    BY <1>1 DEF vars, DocInv, BudgetType
  <2> QED  BY <2>1, SameDocs
<1>2. CASE Next
  BY <1>2, IdentityKeeps, CreationKeeps, AccessKeeps, PatchKeeps, WritingKeeps DEF Next
<1> QED  BY <1>1, <1>2

\* DocInv holds in every reachable state.
LEMMA DocInvAlways == Spec => []DocInv
BY DocInvInit, DocInvStep, PTL DEF Spec

-----------------------------------------------------------------------------
(* Awards and restorations.                                                *)

\* An award that is there is an honest one.
LEMMA AwardsFollow == DocInv => AwardsHonest
<1> SUFFICES ASSUME DocInv, NEW p \in DOMAIN files, p[1] = "award", files[p].whole
             PROVE  LET a == files[p].doc
                        c == files[<<"claim", p[2]>>].doc
                        for == {k \in budget.creations : Readable(CapsulePath(k))
                                                          /\ verify_challenge_award(Envelope(k), c, a) = Passed}
                    IN \E k \in budget.creations :
                         /\ for = {k} /\ c.solver.name = p[2]
                         /\ c.envelope = EnvelopeId(Envelope(k)) /\ c.contract = Envelope(k).contract.id
                         /\ a.judge.name \in Range(Creations[k].recipients)
  BY DEF AwardsHonest
<1>1. PICK a : a = files[p].doc
  OBVIOUS
<1>2. PICK c : c = files[<<"claim", p[2]>>].doc
  OBVIOUS
<1>3. AwardDoc(p, a)
  <2>1. Held(p, a)
    BY <1>1 DEF Held, Readable
  <2> QED  BY <2>1, Zenon DEF DocInv, AllAwards
<1>4. PICK k \in budget.creations :
        /\ Readable(CapsulePath(k)) /\ Readable(<<"claim", p[2]>>)
        /\ verify_challenge_award(Envelope(k), c, a) = Passed
        /\ ClaimFor(Envelope(k), c)
        /\ a.judge.name \in Range(Creations[k].recipients)
  BY <1>2, <1>3 DEF AwardDoc
<1>5. c.solver.name = p[2]
  <2>1. PICK q : q = <<"claim", p[2]>>
    OBVIOUS
  <2>2. Held(q, c) /\ q[1] = "claim" /\ q[2] = p[2]
    BY <1>2, <1>4, <2>1 DEF Held
  <2>3. Genuine(q, c)
    BY <2>2, Zenon DEF DocInv, AllGenuine
  <2>4. p[2] \in Name /\ c.solver = Identity[p[2]]
    BY <2>2, <2>3 DEF Genuine
  <2> QED  BY <2>4, IdentityParts
<1>6. ASSUME NEW j, Readable(CapsulePath(j)), verify_challenge_award(Envelope(j), c, a) = Passed
      PROVE  a.envelope[2][3] = j
  <2>1. PICK e : e = Envelope(j)
    OBVIOUS
  <2> DEFINE w == e.error # Passed
             x == AwardShapeError(a) # Passed
             y == a.claim # c.id \/ a.envelope # EnvelopeId(e)
             z == a.judge.id \notin Range(e.contract.recipients)
  <2>2. verify_challenge_award(e, c, a) =
          FirstError(<< <<w, e.error>>, <<x, AwardShapeError(a)>>, <<y, "BindingMismatch">>, <<z, "NotRecipient">> >>)
    BY Zenon DEF verify_challenge_award
  <2>3. /\ w \in BOOLEAN /\ x \in BOOLEAN /\ y \in BOOLEAN /\ z \in BOOLEAN
        /\ w => e.error # Passed
        /\ x => AwardShapeError(a) # Passed
        /\ "BindingMismatch" # Passed /\ "NotRecipient" # Passed
    BY DEF Passed
  <2>4. ~y
    <3> HIDE DEF w, x, y, z
    <3> QED  BY <1>6, <2>1, <2>2, <2>3, FourChecks
  <2>5. CapsuleDoc(j, e)
    BY <1>6, <2>1, CapsuleRead DEF Envelope
  <2>6. e.nonce = j
    BY <2>5, EnvelopeKind
  <2> QED  BY <2>4, <2>6 DEF EnvelopeId, proposal_core
<1>7. {j \in budget.creations : Readable(CapsulePath(j)) /\ verify_challenge_award(Envelope(j), c, a) = Passed} = {k}
  BY <1>4, <1>6
<1> QED  BY <1>1, <1>2, <1>4, <1>5, <1>7 DEF ClaimFor

\* In every reachable state an award on disk is for exactly one capsule, for
\* a claim the identity in its name made for that capsule, and by a recipient
\* its creation listed (award_challenge_command, verify_challenge_award).
THEOREM AwardsAreHonest == Spec => []AwardsHonest
BY DocInvAlways, AwardsFollow, PTL

\* The shares of one backup, as many as its threshold, are combined to what
\* was split: they are valid, agree and have distinct abscissas.
AllOf(paths, shares, count, n, b) == \A i \in 1..count : ShareDoc(paths[i], shares[i], n, b)
Distinct(paths, count) == \A i, j \in 1..count : paths[i] = paths[j] => i = j
SharesAt(secret, coefficients, xs, count) ==
  [i \in 1..count |-> [x |-> xs[i], y |-> evaluate_polynomial(secret, coefficients, xs[i])]]

\* The points of a polynomial at distinct places give its secret back.
LEMMA Interpolation ==
  ASSUME NEW count \in 1..MaxShares, NEW secret \in Element, NEW coefficients \in [1..(count - 1) -> Element],
         NEW xs \in [1..count -> 1..MaxShares], Distinct(xs, count)
  PROVE  combine_shares(SharesAt(secret, coefficients, xs, count)) = secret
<1>1. \A value \in Element, c \in [1..(count - 1) -> Element], ys \in [1..count -> 1..MaxShares] :
        Distinct(ys, count) => combine_shares(SharesAt(value, c, ys, count)) = value
  BY SharingAssumption, Zenon DEF Distinct, SharesAt
<1> QED  BY <1>1, Zenon

\* The threshold of distinct shares of one backup is accepted (restore_identity).
LEMMA SharesRestore ==
  ASSUME NEW n, NEW b, NEW paths, NEW shares, NEW pass, pass \notin ShortPassphrases,
         NEW count \in Nat \ {0}, count = b[2],
         Listed(shares, count), AllOf(paths, shares, count, n, b), Distinct(paths, count)
  PROVE  RestoreError(shares, pass) = Passed
<1>1. \A i \in 1..count : ShareShape(paths[i], shares[i], n, b) /\ ShareError(shares[i]) = Passed
  BY ShareParts, ShareValid, Zenon DEF AllOf
<1>2. /\ n \in Name /\ b \in BackupOptions /\ b[1] \in Nat /\ count \in 1..b[1] /\ b[1] <= MaxBackupShares
      /\ MaxBackupShares <= MaxShares /\ MaxShares \in Nat /\ MaxBackupShares \in Nat
  <2>1. ShareShape(paths[1], shares[1], n, b)
    BY <1>1
  <2>2. MaxShares \in Nat
    BY FieldAssumption DEF FieldSize
  <2>3. MaxBackupShares \in 1..MaxShares
    BY BackupAssumption
  <2> QED  BY <2>1, <2>2, <2>3 DEF ShareShape
<1>3. Len(shares) = count
  BY DEF Listed
<1> DEFINE xs == [i \in 1..count |-> paths[i][3]]
           seed == Secret[n].seed
           ikm == Secret[n].ikm
<1>4. \A i \in 1..count : xs[i] = paths[i][3] /\ paths[i][3] \in 1..b[1]
  BY <1>1 DEF ShareShape
<1>5. \A i, j \in 1..count : xs[i] = xs[j] => i = j
  <2>1. \A i \in 1..count : paths[i] = <<"share", b[4], paths[i][3]>>
    BY DEF AllOf, ShareDoc
  <2> SUFFICES ASSUME NEW i \in 1..count, NEW j \in 1..count, xs[i] = xs[j]  PROVE i = j
    OBVIOUS
  <2>2. paths[i][3] = paths[j][3]
    BY <1>4
  <2>3. paths[i] = paths[j]
    BY <2>1, <2>2, Zenon
  <2> QED  BY <2>3, Zenon DEF Distinct
<1>6. xs \in [1..count -> 1..MaxShares]
  <2>1. \A i \in 1..count : paths[i][3] \in 1..MaxShares
    <3>1. b[1] \in Nat /\ MaxShares \in Nat /\ b[1] <= MaxShares
      BY <1>2
    <3>2. \A x \in 1..b[1] : x \in 1..MaxShares
      BY <3>1
    <3> HIDE DEF xs
    <3> QED  BY <1>4, <3>2, Zenon
  <2> QED  BY <2>1
<1>7. /\ \A i \in 1..count : shares[i].signing = [x |-> xs[i], y |-> evaluate_polynomial(seed, b[3][1], xs[i])]
      /\ \A i \in 1..count : shares[i].encryption = [x |-> xs[i], y |-> evaluate_polynomial(ikm, b[3][2], xs[i])]
      /\ \A i \in 1..count : shares[i].public = Identity[n] /\ shares[i].count = b[1] /\ shares[i].threshold = count
  BY <1>1, <1>4 DEF ShareShape
<1> HIDE DEF xs
<1>8. /\ Signings(shares) = [i \in 1..count |-> [x |-> xs[i], y |-> evaluate_polynomial(seed, b[3][1], xs[i])]]
      /\ Encryptions(shares) = [i \in 1..count |-> [x |-> xs[i], y |-> evaluate_polynomial(ikm, b[3][2], xs[i])]]
  BY <1>3, <1>7 DEF Signings, Encryptions
<1>9. combine_shares(Signings(shares)) = seed /\ combine_shares(Encryptions(shares)) = ikm
  <2>1. /\ seed \in Element /\ ikm \in Element
        /\ b[3][1] \in [1..(count - 1) -> Element] /\ b[3][2] \in [1..(count - 1) -> Element]
    BY <1>2, IdentityAssumption, BackupAssumption
  <2>2. count \in 1..MaxShares /\ Distinct(xs, count)
    BY <1>2, <1>5 DEF Distinct
  <2> HIDE DEF seed, ikm
  <2>3. /\ combine_shares(SharesAt(seed, b[3][1], xs, count)) = seed
        /\ combine_shares(SharesAt(ikm, b[3][2], xs, count)) = ikm
    BY <1>6, <2>1, <2>2, Interpolation
  <2> QED  BY <1>8, <2>3, Zenon DEF SharesAt
<1>10. CombineError(Signings(shares), count) = Passed
  <2>1. PICK s : s = Signings(shares)
    OBVIOUS
  <2>2. Len(s) = count /\ \A i \in 1..count : s[i].x = xs[i]
    BY <1>8, <2>1
  <2> DEFINE u == Len(s) = 0 \/ Len(s) > MaxShares \/ count = 0 \/ count > Len(s)
             v == Len(s) # count
             w == \E i \in 1..Len(s) : s[i].x = 0
             z == \E i, j \in 1..Len(s) : i < j /\ s[i].x = s[j].x
  <2>3. CombineError(s, count) = FirstError(<< <<u, "InvalidThreshold">>, <<v, "InvalidShare">>,
                                               <<w, "InvalidShare">>, <<z, "InvalidShare">> >>)
    BY Zenon DEF CombineError, validate_parameters
  <2>4. ~u /\ ~v
    BY <1>2, <2>2
  <2>5. ~w
    BY <1>6, <2>2
  <2>6. ~z
    BY <1>5, <2>2
  <2>7. u \in BOOLEAN /\ v \in BOOLEAN /\ w \in BOOLEAN /\ z \in BOOLEAN
    OBVIOUS
  <2> HIDE DEF u, v, w, z
  <2> QED  BY <2>1, <2>3, <2>4, <2>5, <2>6, <2>7, FourChecks
<1>11. RestoreShapeError(shares) = Passed
  <2>1. PICK first : first = shares[1]
    OBVIOUS
  <2> DEFINE l == [i \in 1..Len(shares) |-> BoundError(shares[i], first)]
             bound == FirstOf(l)
             u == ShareError(first) # Passed
             v == Len(shares) # first.threshold
             w == bound # Passed
             z == CombineError(Signings(shares), first.threshold) # Passed
  <2>2. shares # <<>>
    BY <1>3
  <2>3. RestoreShapeError(shares) = FirstError(<< <<u, ShareError(first)>>, <<v, "InvalidShare">>,
                                                  <<w, bound>>, <<z, "InvalidShare">> >>)
    BY <2>1, <2>2, Zenon DEF RestoreShapeError
  <2>4. \A i \in 1..count : BoundError(shares[i], first) = Passed
    <3> SUFFICES ASSUME NEW i \in 1..count  PROVE BoundError(shares[i], first) = Passed
      OBVIOUS
    <3>1. PICK s : s = shares[i]
      OBVIOUS
    <3> DEFINE r == ShareError(s) # Passed
               t == ~Bound(s, first)
    <3>2. BoundError(s, first) = FirstError(<< <<r, ShareError(s)>>, <<t, "BindingMismatch">> >>)
      BY Zenon DEF BoundError
    <3>3. ~r /\ ~t /\ r \in BOOLEAN /\ t \in BOOLEAN
      BY <1>1, <1>2, <1>7, <2>1, <3>1 DEF Bound
    <3> HIDE DEF r, t
    <3> QED  BY <3>1, <3>2, <3>3, TwoChecks
  <2>5. bound = Passed
    <3>1. Len(l) = count /\ \A i \in 1..count : l[i] = Passed
      BY <1>3, <2>4
    <3> HIDE DEF l
    <3>2. PICK m : m = [i \in 1..Len(l) |-> <<l[i] # Passed, l[i]>>]
      OBVIOUS
    <3>3. \A i \in 1..Len(m) : ~m[i][1]
      <4>1. Len(m) = count /\ \A i \in 1..count : m[i] = <<l[i] # Passed, l[i]>>
        BY <3>1, <3>2
      <4>2. ASSUME NEW i \in 1..count  PROVE ~m[i][1]
        <5>1. m[i][1] = (l[i] # Passed)
          BY <4>1
        <5> QED  BY <3>1, <5>1
      <4> QED  BY <4>1, <4>2
    <3>4. FirstError(m) = Passed
      BY <3>3, NoneFails
    <3> QED  BY <3>2, <3>4 DEF FirstOf
  <2>6. ~u /\ ~v /\ ~w /\ ~z
    BY <1>1, <1>2, <1>3, <1>7, <1>10, <2>1, <2>5
  <2>7. u \in BOOLEAN /\ v \in BOOLEAN /\ w \in BOOLEAN /\ z \in BOOLEAN
    OBVIOUS
  <2> HIDE DEF u, v, w, z, bound
  <2> QED  BY <2>3, <2>6, <2>7, FourChecks
<1>12. unlocked_from_seeds(seed, ikm, shares[1].public) = Passed
  <2> DEFINE u == SigningKey(seed) # shares[1].public.signing \/ EncryptionKey(ikm) # shares[1].public.encryption
             v == PublicIdentityError(shares[1].public) # Passed
  <2>1. shares[1].public = Identity[n]
    BY <1>7
  <2>2. unlocked_from_seeds(seed, ikm, shares[1].public) =
          FirstError(<< <<u, "IdentityMismatch">>, <<v, PublicIdentityError(shares[1].public)>> >>)
    BY Zenon DEF unlocked_from_seeds
  <2>3. ~u /\ ~v /\ u \in BOOLEAN /\ v \in BOOLEAN
    BY <1>2, <2>1, IdentityParts, IdentityValid
  <2> HIDE DEF u, v
  <2> QED  BY <2>2, <2>3, TwoChecks
<1> DEFINE u == unlocked_from_seeds(combine_shares(Signings(shares)), combine_shares(Encryptions(shares)),
                                    shares[1].public) # Passed
           v == pass \in ShortPassphrases
<1>13. RestoreError(shares, pass) = FirstError(<< <<u, "IdentityMismatch">>, <<v, "InvalidPassphrase">> >>)
  BY <1>11, Zenon DEF RestoreError, validate_passphrase
<1>14. ~u /\ ~v /\ u \in BOOLEAN /\ v \in BOOLEAN
  BY <1>9, <1>12
<1> HIDE DEF u, v
<1> QED  BY <1>13, <1>14, TwoChecks

\* What the last result may become in a step.
RestoreRefused ==
  \E paths, pass :
    /\ Len(paths) \in Nat \ {0} /\ \A i \in 1..Len(paths) : paths[i] \in ShareFiles
    /\ RestoreError([i \in 1..Len(paths) |-> files[paths[i]].doc], pass) # Passed
    /\ last' = [kind |-> "restore", paths |-> paths, pass |-> pass,
                error |-> RestoreError([i \in 1..Len(paths) |-> files[paths[i]].doc], pass)]
AccessReported ==
  \E k \in budget.creations :
    /\ Readable(CapsulePath(k))
    /\ \/ \E path \in KeyFiles, pass \in Passphrases, raw \in BOOLEAN : open_capsule_command(k, path, pass, raw)
       \/ \E path \in KeyFiles, pass \in Passphrases, override \in Overrides, required \in {"Diff", "Apply"} :
            authorize_file_operations(k, path, pass, override, required)
       \/ \E names \in KeyLists, pass \in Passphrases : open_sequence_capsule_command(k, names, pass)
       \/ \E file \in SolutionFiles : solve_challenge_command(k, file)
       \/ \E i \in 1..MaxChallengeShards, file \in SolutionFiles : check_challenge_command(k, i, file)
       \/ \E entries \in Attempts : solve_shards_command(k, entries)
LastChanges ==
  \/ last' = Nothing
  \/ /\ files' = files
     /\ \/ last' = last \/ last'.kind \in {"previewed", "patched"} \/ RestoreRefused \/ AccessReported

\* What an access command reports says which command it was.
LEMMA AccessKind ==
  ASSUME AccessReported
  PROVE  /\ files' = files
         /\ last'.kind \in {"open", "Diff", "Apply", "sequence", "solve", "check", "solve-shards"}
<1>1. PICK k \in budget.creations :
        \/ \E path \in KeyFiles, pass \in Passphrases, raw \in BOOLEAN : open_capsule_command(k, path, pass, raw)
        \/ \E path \in KeyFiles, pass \in Passphrases, override \in Overrides, required \in {"Diff", "Apply"} :
             authorize_file_operations(k, path, pass, override, required)
        \/ \E names \in KeyLists, pass \in Passphrases : open_sequence_capsule_command(k, names, pass)
        \/ \E file \in SolutionFiles : solve_challenge_command(k, file)
        \/ \E i \in 1..MaxChallengeShards, file \in SolutionFiles : check_challenge_command(k, i, file)
        \/ \E entries \in Attempts : solve_shards_command(k, entries)
  BY Zenon DEF AccessReported
<1>2. ASSUME NEW path, NEW pass, NEW raw, open_capsule_command(k, path, pass, raw)
      PROVE  \E r : Report("access", [kind |-> "open", capsule |-> k, path |-> path, pass |-> pass, result |-> r])
  BY <1>2, Zenon DEF open_capsule_command
<1>3. ASSUME NEW path, NEW pass, NEW override, NEW required,
             authorize_file_operations(k, path, pass, override, required)
      PROVE  \E r : Report("access", [kind |-> required, capsule |-> k, path |-> path, pass |-> pass,
                                      override |-> override, result |-> r])
  BY <1>3, Zenon DEF authorize_file_operations
<1>4. ASSUME NEW names, NEW pass, open_sequence_capsule_command(k, names, pass)
      PROVE  \E r : Report("access", [kind |-> "sequence", capsule |-> k, names |-> names, pass |-> pass,
                                      result |-> r])
  BY <1>4, Zenon DEF open_sequence_capsule_command
<1>5. ASSUME NEW file, solve_challenge_command(k, file)
      PROVE  \E r : Report("access", [kind |-> "solve", capsule |-> k, file |-> file, result |-> r])
  BY <1>5, Zenon DEF solve_challenge_command
<1>6. ASSUME NEW i, NEW file, check_challenge_command(k, i, file)
      PROVE  \E r : Report("access", [kind |-> "check", capsule |-> k, entries |-> <<(<<i, file>>)>>, result |-> r])
  BY <1>6, Zenon DEF check_challenge_command
<1>7. ASSUME NEW entries, solve_shards_command(k, entries)
      PROVE  \E r : Report("access", [kind |-> "solve-shards", capsule |-> k, entries |-> entries, result |-> r])
  BY <1>7, Zenon DEF solve_shards_command
<1> QED  BY <1>1, <1>2, <1>3, <1>4, <1>5, <1>6, <1>7 DEF Report, fileVars

\* Which steps change the last report, and to what.
LEMMA LastStep ==
  ASSUME DocInv, [Next]_vars
  PROVE  LastChanges
<1>1. CASE UNCHANGED vars
  BY <1>1 DEF vars, LastChanges
<1>2. CASE WriteNext \/ WriteFails \/ Killed
  <2>1. cmd # NoCommand /\ last' = last
    BY <1>2 DEF WriteNext, WriteFails, Killed
  <2> QED  BY <2>1 DEF LastChanges, DocInv, CmdShape
<1>3. ASSUME NEW f, NEW paths, NEW docs, NEW undo, Write(f, paths, docs, undo)  PROVE LastChanges
  BY <1>3 DEF Write, LastChanges
<1>4. CASE IdentityCommands
  <2>1. PICK pass :
         \/ \E n \in Name : generate_identity_command(n, pass)
         \/ \E path \in KeyFiles, newPass \in Passphrases : rekey_identity_command(path, pass, newPass)
         \/ \E path \in KeyFiles, options \in BackupOptions : backup_identity_command(path, pass, options)
         \/ \E path \in KeyFiles, status \in {"retired", "revoked"} : status_identity_command(path, pass, status)
         \/ \E count \in 1..MaxGivenShares : \E paths \in [1..count -> ShareFiles] :
              restore_identity_command(paths, pass)
    BY <1>4 DEF IdentityCommands
  <2>2. CASE \/ \E n \in Name : generate_identity_command(n, pass)
             \/ \E path \in KeyFiles, newPass \in Passphrases : rekey_identity_command(path, pass, newPass)
             \/ \E path \in KeyFiles, options \in BackupOptions : backup_identity_command(path, pass, options)
             \/ \E path \in KeyFiles, status \in {"retired", "revoked"} :
                  status_identity_command(path, pass, status)
    <3>1. \E f, paths, docs, undo : Write(f, paths, docs, undo)
      BY <2>2, Zenon DEF generate_identity_command, rekey_identity_command, backup_identity_command,
                         status_identity_command
    <3> QED  BY <1>3, <3>1
  <2>3. ASSUME NEW count \in 1..MaxGivenShares, NEW paths \in [1..count -> ShareFiles],
               restore_identity_command(paths, pass)
        PROVE  LastChanges
    <3>3. Len(paths) \in Nat \ {0} /\ \A i \in 1..Len(paths) : paths[i] \in ShareFiles
      BY BackupAssumption
    <3>4. PICK shares : shares = [i \in 1..Len(paths) |-> files[paths[i]].doc]
      OBVIOUS
    <3>5. PICK error : error = RestoreError(shares, pass)
      OBVIOUS
    <3>6. \/ \E f, ps, docs, undo : Write(f, ps, docs, undo)
          \/ error # Passed /\ Report("identity", [kind |-> "restore", paths |-> paths, pass |-> pass,
                                                   error |-> error])
      BY <2>3, <3>4, <3>5, Zenon DEF restore_identity_command
    <3>7. CASE error # Passed /\ Report("identity", [kind |-> "restore", paths |-> paths, pass |-> pass,
                                                     error |-> error])
      <4>1. files' = files /\ last' = [kind |-> "restore", paths |-> paths, pass |-> pass, error |-> error]
        BY <3>7 DEF Report, fileVars
      <4>2. RestoreRefused
        BY <3>3, <3>4, <3>5, <3>7, <4>1, Zenon DEF RestoreRefused
      <4> QED  BY <4>1, <4>2 DEF LastChanges
    <3> QED  BY <1>3, <3>6, <3>7
  <2> QED  BY <2>1, <2>2, <2>3
<1>5. CASE CreationCommands
  BY <1>5 DEF CreationCommands, create_capsule, finalize_capsule_command, audit_capsule_command, Write,
              LastChanges
<1>6. CASE AccessCommands
  <2>1. PICK k \in budget.creations :
         /\ Readable(CapsulePath(k))
         /\ \/ \E path \in KeyFiles, pass \in Passphrases :
                 \/ \E raw \in BOOLEAN : open_capsule_command(k, path, pass, raw)
                 \/ \E override \in Overrides, required \in {"Diff", "Apply"} :
                      authorize_file_operations(k, path, pass, override, required)
                 \/ \E file \in SolutionFiles : claim_challenge_command(k, path, pass, file)
                 \/ \E entries \in Attempts : claim_shards_command(k, path, pass, entries)
                 \/ \E claimPath \in {p \in DOMAIN files : p[1] = "claim"}, file \in SolutionFiles \cup {<<>>} :
                      award_challenge_command(k, claimPath, path, pass, file)
            \/ \E names \in KeyLists, pass \in Passphrases : open_sequence_capsule_command(k, names, pass)
            \/ \E file \in SolutionFiles :
                 \/ solve_challenge_command(k, file)
                 \/ \E i \in 1..MaxChallengeShards : check_challenge_command(k, i, file)
            \/ \E entries \in Attempts : solve_shards_command(k, entries)
    BY <1>6, Zenon DEF AccessCommands
  <2>2. ASSUME NEW path, NEW pass, NEW file, NEW entries, NEW claimPath,
               \/ claim_challenge_command(k, path, pass, file) \/ claim_shards_command(k, path, pass, entries)
               \/ award_challenge_command(k, claimPath, path, pass, file)
        PROVE  LastChanges
    <3>1. \E f, paths, docs, undo : Write(f, paths, docs, undo)
      BY <2>2, Zenon DEF claim_challenge_command, claim_shards_command, ClaimWith, award_challenge_command
    <3> QED  BY <1>3, <3>1
  <2>3. CASE AccessReported
    BY <2>3, AccessKind DEF LastChanges
  <2>4. \/ AccessReported
        \/ \E path, pass, file, entries, claimPath :
             \/ claim_challenge_command(k, path, pass, file) \/ claim_shards_command(k, path, pass, entries)
             \/ award_challenge_command(k, claimPath, path, pass, file)
    <3> DEFINE Claims == \E path, pass, file, entries, claimPath :
                 \/ claim_challenge_command(k, path, pass, file) \/ claim_shards_command(k, path, pass, entries)
                 \/ award_challenge_command(k, claimPath, path, pass, file)
    <3>1. ASSUME NEW path \in KeyFiles, NEW pass \in Passphrases,
                 \/ \E raw \in BOOLEAN : open_capsule_command(k, path, pass, raw)
                 \/ \E override \in Overrides, required \in {"Diff", "Apply"} :
                      authorize_file_operations(k, path, pass, override, required)
          PROVE  AccessReported
      <4>1. Readable(CapsulePath(k))
        BY <2>1
      <4>2. CASE \E raw \in BOOLEAN : open_capsule_command(k, path, pass, raw)
        BY <4>1, <4>2, Zenon DEF AccessReported
      <4>3. CASE \E override \in Overrides, required \in {"Diff", "Apply"} :
                   authorize_file_operations(k, path, pass, override, required)
        <5>1. PICK override \in Overrides, required \in {"Diff", "Apply"} :
                authorize_file_operations(k, path, pass, override, required)
          BY <4>3, Zenon
        <5> QED  BY <4>1, <5>1, Zenon DEF AccessReported
      <4> QED  BY <3>1, <4>2, <4>3
    <3>2. ASSUME NEW path \in KeyFiles, NEW pass \in Passphrases,
                 \/ \E file \in SolutionFiles : claim_challenge_command(k, path, pass, file)
                 \/ \E entries \in Attempts : claim_shards_command(k, path, pass, entries)
                 \/ \E claimPath \in {p \in DOMAIN files : p[1] = "claim"}, file \in SolutionFiles \cup {<<>>} :
                      award_challenge_command(k, claimPath, path, pass, file)
          PROVE  Claims
      BY <3>2, Zenon
    <3>3. ASSUME \/ \E names \in KeyLists, pass \in Passphrases : open_sequence_capsule_command(k, names, pass)
                 \/ \E file \in SolutionFiles :
                      \/ solve_challenge_command(k, file)
                      \/ \E i \in 1..MaxChallengeShards : check_challenge_command(k, i, file)
                 \/ \E entries \in Attempts : solve_shards_command(k, entries)
          PROVE  AccessReported
      BY <2>1, <3>3, Zenon DEF AccessReported
    <3> QED  BY <2>1, <3>1, <3>2, <3>3, Zenon
  <2> QED  BY <2>2, <2>3, <2>4
<1>7. CASE PatchCommands
  <2>1. ASSUME NEW p, NEW mode, BeginPatch(p, mode)  PROVE LastChanges
    BY <2>1 DEF BeginPatch, LastChanges
  <2>2. ASSUME NEW how, Ended(how), Quiet  PROVE LastChanges
    BY <2>2 DEF Ended, Quiet, LastChanges
  <2>3. ASSUME UNCHANGED last, Quiet  PROVE LastChanges
    BY <2>3 DEF Quiet, LastChanges
  <2>4. CASE \E mode \in Modes :
               \/ \E p \in Patches : apply_patch_file(p, mode)
               \/ \E k \in budget.creations, path \in KeyFiles, pass \in Passphrases :
                    patch_capsule_command(k, path, pass, mode)
    BY <2>1, <2>4 DEF apply_patch_file, patch_capsule_command
  <2>5. CASE confirm \/ RevalidateFirst \/ create_backup \/ StagePatch \/ RevalidateStaged
    <3>1. Quiet /\ (UNCHANGED last \/ \E how : Ended(how))
      BY <2>5, Zenon DEF confirm, RevalidateFirst, RevalidateStaged, revalidate_target, create_backup, StagePatch,
                         StepFails
    <3> QED  BY <2>2, <2>3, <3>1
  <2>6. CASE persist \/ sync_parent \/ VerifyPatched \/ ForeignWrite
    <3>1. Quiet /\ (UNCHANGED last \/ \E how : Ended(how))
      BY <2>6 DEF persist, sync_parent, VerifyPatched, ForeignWrite, StepFails
    <3> QED  BY <2>2, <2>3, <3>1
  <2>7. CASE KilledPatching
    BY <2>7 DEF KilledPatching, LastChanges
  <2> QED  BY <1>7, <2>4, <2>5, <2>6, <2>7 DEF PatchCommands
<1> QED  BY <1>1, <1>2, <1>4, <1>5, <1>6, <1>7 DEF Next

\* A refused restoration had too few shares, or too many, or of two backups,
\* or a passphrase that is too short.
RefusalHonest ==
  last # Nothing /\ last.kind = "restore" =>
    LET first == files[last.paths[1]].doc IN
    \/ Len(last.paths) # first.threshold \/ last.pass \in ShortPassphrases
    \/ \E i, j \in 1..Len(last.paths) : i # j /\ ~OfOneBackup(last.paths[i], last.paths[j])

\* RefusalHonest holds of what a refused restoration reports (restore_identity).
LEMMA RefusalFollows ==
  ASSUME DocInv, RestoreRefused, files' = files
  PROVE  RefusalHonest'
<1>1. PICK paths, pass :
        /\ Len(paths) \in Nat \ {0} /\ \A i \in 1..Len(paths) : paths[i] \in ShareFiles
        /\ RestoreError([i \in 1..Len(paths) |-> files[paths[i]].doc], pass) # Passed
        /\ last' = [kind |-> "restore", paths |-> paths, pass |-> pass,
                    error |-> RestoreError([i \in 1..Len(paths) |-> files[paths[i]].doc], pass)]
  BY DEF RestoreRefused
<1>2. last'.paths = paths /\ last'.pass = pass
  BY <1>1
<1> SUFFICES ASSUME Len(paths) = files[paths[1]].doc.threshold, pass \notin ShortPassphrases,
                    \A i, j \in 1..Len(paths) : i # j => OfOneBackup(paths[i], paths[j])
             PROVE  FALSE
  BY <1>2 DEF RefusalHonest, OfOneBackup
<1>3. PICK shares : shares = [i \in 1..Len(paths) |-> files[paths[i]].doc]
  OBVIOUS
<1>4. PICK count \in Nat \ {0} : count = Len(paths)
  BY <1>1
<1>5. Listed(shares, count) /\ \A i \in 1..count : shares[i] = files[paths[i]].doc
  BY <1>3, <1>4 DEF Listed
<1>6. \A i \in 1..count : paths[i][1] = "share" /\ Held(paths[i], shares[i])
  BY <1>1, <1>4, <1>5, ShareRead
<1>7. Distinct(paths, count)
  BY <1>4 DEF Distinct, OfOneBackup
<1>8. \E n, b : AllOf(paths, shares, count, n, b)
  <2>1. PICK dir : dir = paths[1][2]
    OBVIOUS
  <2>2. PICK said : said = shares[1].count
    OBVIOUS
  <2>3. ASSUME NEW i \in 1..count  PROVE paths[i][2] = dir /\ shares[i].count = said
    <3>1. CASE i = 1
      BY <2>1, <2>2, <3>1
    <3>2. CASE i # 1
      <4>1. OfOneBackup(paths[1], paths[i])
        BY <1>4, <3>2
      <4> QED  BY <1>4, <1>5, <2>1, <2>2, <4>1 DEF OfOneBackup
    <3> QED  BY <3>1, <3>2
  <2>4. PICK n, b : \A p, d : Held(p, d) /\ p[1] = "share" /\ p[2] = dir /\ d.count = said => ShareDoc(p, d, n, b)
    BY Zenon DEF DocInv, OneBackup
  <2>5. \A i \in 1..count : ShareDoc(paths[i], shares[i], n, b)
    BY <1>6, <2>3, <2>4, Zenon
  <2> QED  BY <2>5, Zenon DEF AllOf
<1>9. PICK n, b : AllOf(paths, shares, count, n, b)
  BY <1>8
<1>10. count = b[2]
  <2>1. ShareDoc(paths[1], shares[1], n, b)
    BY <1>4, <1>9 DEF AllOf
  <2>2. ShareShape(paths[1], shares[1], n, b)
    BY <2>1, ShareParts, Zenon
  <2> QED  BY <1>4, <1>5, <2>2 DEF ShareShape
<1>11. RestoreError(shares, pass) = Passed
  <2>1. count \in Nat \ {0}
    BY <1>4
  <2> QED  BY <1>5, <1>7, <1>9, <1>10, <2>1, SharesRestore
<1> QED  BY <1>1, <1>3, <1>11

\* RestoredIsSame follows from what is known of the documents and the refusals.
LEMMA RestoredFollows == DocInv /\ RefusalHonest => RestoredIsSame
<1> SUFFICES ASSUME DocInv, RefusalHonest  PROVE RestoredIsSame
  OBVIOUS
<1>1. ASSUME NEW p \in DOMAIN files, p[1] = "restored", files[p].whole
      PROVE  /\ files[p].doc.public = Identity[p[2]]
             /\ files[p].doc.box.seed = Secret[p[2]].seed /\ files[p].doc.box.ikm = Secret[p[2]].ikm
  <2>1. p \in KeyFiles /\ Readable(p)
    BY <1>1 DEF KeyFiles, Readable
  <2>2. KeyDoc(p[2], files[p].doc)
    BY <2>1, KeyRead
  <2> QED  BY <2>2, UnlockExactly
<1> QED  BY <1>1 DEF RestoredIsSame, RefusalHonest

\* In every reachable state what a restoration has written is the identity
\* that was backed up, and a restoration that was refused lacked something:
\* cut short backups, failed writes and shares of other backups give no other
\* identity and keep none from being restored (restore_identity_command).
THEOREM RestorationIsFaithful == Spec => []RestoredIsSame
<1>1. Init => RefusalHonest
  BY DEF Init, RefusalHonest
<1>2. DocInv /\ RefusalHonest /\ [Next]_vars => RefusalHonest'
  <2> SUFFICES ASSUME DocInv, RefusalHonest, [Next]_vars  PROVE RefusalHonest'
    OBVIOUS
  <2>1. LastChanges
    BY LastStep
  <2>2. CASE last' = Nothing
    BY <2>2 DEF RefusalHonest
  <2>3. CASE files' = files /\ last' = last
    BY <2>3 DEF RefusalHonest, OfOneBackup
  <2>4. CASE last'.kind \in {"previewed", "patched"}
    BY <2>4 DEF RefusalHonest
  <2>5. CASE files' = files /\ RestoreRefused
    BY <2>5, RefusalFollows
  <2>6. CASE files' = files /\ AccessReported
    BY <2>6, AccessKind DEF RefusalHonest
  <2> QED  BY <2>1, <2>2, <2>3, <2>4, <2>5, <2>6 DEF LastChanges
<1> QED  BY <1>1, <1>2, DocInvAlways, RestoredFollows, PTL DEF Spec


\* What a list holds is what stands at its places.
LEMMA ListRange ==
  ASSUME NEW S, NEW s \in Seq(S)
  PROVE  Range(s) = {s[i] : i \in 1..Len(s)}
BY DEF Range

-----------------------------------------------------------------------------
(* Opening.                                                                *)

\* The text of a file ends where the first of its endings begins.
LEMMA TextEnds ==
  ASSUME NEW S, NEW file \in Seq(S), NEW k \in 0..Len(file), EndsAt(file, k),
         \A m \in 0..(k - 1) : ~EndsAt(file, m)
  PROVE  TextOf(file) = SubSeq(file, 1, k)
<1> DEFINE Good(n) == EndsAt(file, n) /\ \A m \in 0..(n - 1) : ~EndsAt(file, m)
           chosen == CHOOSE n \in 0..Len(file) : Good(n)
<1>1. chosen \in 0..Len(file) /\ Good(chosen)
  <2>1. Good(k)
    OBVIOUS
  <2> HIDE DEF Good
  <2> QED  BY <2>1
<1>2. TextOf(file) = SubSeq(file, 1, chosen)
  BY Zenon DEF TextOf
<1> HIDE DEF chosen
<1>3. chosen = k
  <2>1. chosen \in Nat /\ k \in Nat
    BY <1>1
  <2>2. ~(chosen < k)
    BY <1>1, <2>1
  <2>3. ~(k < chosen)
    BY <1>1, <2>1
  <2> QED  BY <2>1, <2>2, <2>3
<1> QED  BY <1>2, <1>3

\* A beginning that leaves more than two bytes leaves no line ending.
LEMMA EndsShort ==
  ASSUME NEW S, NEW file \in Seq(S), NEW m \in 0..Len(file), EndsAt(file, m)
  PROVE  \/ Len(file) - m = 0
         \/ Len(file) - m = 1 /\ file[Len(file)] = LF
         \/ Len(file) - m = 2 /\ file[Len(file) - 1] = CR /\ file[Len(file)] = LF
<1>1. PICK rest : rest = SubSeq(file, m + 1, Len(file))
  OBVIOUS
<1>2. /\ Len(file) \in Nat /\ m \in Nat /\ Len(rest) = Len(file) - m
      /\ \A i \in 1..(Len(file) - m) : rest[i] = file[m + i]
  BY <1>1
<1>3. rest = <<>> \/ rest = <<LF>> \/ rest = <<CR, LF>>
  BY <1>1, Zenon DEF EndsAt
<1>4. CASE rest = <<>>
  BY <1>2, <1>4
<1>5. CASE rest = <<LF>>
  <2>1. Len(rest) = 1 /\ rest[1] = LF
    BY <1>5
  <2>2. rest[1] = file[m + 1] /\ m + 1 = Len(file)
    <3>1. Len(file) - m = 1 /\ m + 1 = Len(file)
      <4>1. PICK k \in Nat : k = Len(file)
        BY <1>2
      <4>2. k - m = 1 /\ m \in Nat
        BY <1>2, <2>1, <4>1
      <4> QED  BY <4>1, <4>2
    <3>2. 1 \in 1..(Len(file) - m)
      BY <3>1
    <3> QED  BY <1>2, <3>1, <3>2
  <2>3. Len(file) - m = 1 /\ file[Len(file)] = LF
    BY <1>2, <2>1, <2>2
  <2> QED  BY <2>3
<1>6. CASE rest = <<CR, LF>>
  <2>1. Len(rest) = 2 /\ rest[1] = CR /\ rest[2] = LF
    BY <1>6
  <2>2. rest[1] = file[m + 1] /\ rest[2] = file[m + 2] /\ m + 2 = Len(file) /\ m + 1 = Len(file) - 1
    <3>1. Len(file) - m = 2 /\ m + 2 = Len(file) /\ m + 1 = Len(file) - 1
      <4>1. PICK k \in Nat : k = Len(file)
        BY <1>2
      <4>2. k - m = 2 /\ m \in Nat
        BY <1>2, <2>1, <4>1
      <4> QED  BY <4>1, <4>2
    <3>2. 1 \in 1..(Len(file) - m) /\ 2 \in 1..(Len(file) - m)
      BY <3>1
    <3> QED  BY <1>2, <3>1, <3>2
  <2>3. Len(file) - m = 2 /\ file[Len(file) - 1] = CR /\ file[Len(file)] = LF
    BY <1>2, <2>1, <2>2
  <2> QED  BY <2>3
<1> QED  BY <1>3, <1>4, <1>5, <1>6

\* Reading a solution file leaves its text (read_solution_file).
LEMMA SolutionText ==
  ASSUME NEW file, Bytes(file)
  PROVE  read_solution_file(file) = TextOf(file)
<1>1. PICK S : file \in Seq(S)
  BY DEF Bytes
<1>2. PICK n \in Nat : n = Len(file)
  BY <1>1
<1> DEFINE double == Len(file) >= 2 /\ SubSeq(file, Len(file) - 1, Len(file)) = <<CR, LF>>
           single == file # <<>> /\ Last(file) = LF
<1>3. read_solution_file(file) =
        IF double THEN Front(Front(file)) ELSE IF single THEN Front(file) ELSE file
  BY Zenon DEF read_solution_file
<1>4. double <=> n >= 2 /\ file[n - 1] = CR /\ file[n] = LF
  <2>1. CASE n >= 2
    <3>1. PICK end : end = SubSeq(file, Len(file) - 1, Len(file))
      OBVIOUS
    <3>2. Len(end) = 2 /\ end[1] = file[n - 1] /\ end[2] = file[n] /\ end \in Seq(S)
      BY <1>1, <1>2, <2>1, <3>1
    <3>3. end = <<end[1], end[2]>>
      BY <3>2
    <3>4. end = <<CR, LF>> <=> end[1] = CR /\ end[2] = LF
      <4>1. end = <<CR, LF>> => end[1] = CR /\ end[2] = LF
        OBVIOUS
      <4>2. end[1] = CR /\ end[2] = LF => end = <<CR, LF>>
        BY <3>3
      <4> QED  BY <4>1, <4>2
    <3> QED  BY <1>2, <2>1, <3>1, <3>2, <3>4
  <2>2. CASE ~(n >= 2)
    BY <1>2, <2>2
  <2> QED  BY <2>1, <2>2
<1>5. single <=> n >= 1 /\ file[n] = LF
  BY <1>1, <1>2 DEF Last
<1> HIDE DEF double, single
<1>6. CASE double
  <2>1. n - 2 \in 0..Len(file) /\ n >= 2 /\ file[n - 1] = CR /\ file[n] = LF
    BY <1>2, <1>4, <1>6
  <2>2. EndsAt(file, n - 2)
    <3>1. SubSeq(file, (n - 2) + 1, Len(file)) = SubSeq(file, Len(file) - 1, Len(file))
      BY <1>2
    <3>2. SubSeq(file, (n - 2) + 1, Len(file)) = <<CR, LF>>
      BY <1>6, <3>1 DEF double
    <3> QED  BY <3>2, Zenon DEF EndsAt
  <2>3. ASSUME NEW m \in 0..(n - 3), EndsAt(file, m)  PROVE FALSE
    <3>1. m \in 0..Len(file) /\ Len(file) - m > 2 /\ m \in Nat
      BY <1>2, <2>1
    <3> QED  BY <1>1, <1>2, <2>3, <3>1, EndsShort
  <2>4. TextOf(file) = SubSeq(file, 1, n - 2)
    <3>1. \A m \in 0..((n - 2) - 1) : ~EndsAt(file, m)
      BY <2>3
    <3> QED  BY <1>1, <2>1, <2>2, <3>1, TextEnds
  <2>5. Front(Front(file)) = SubSeq(file, 1, n - 2)
    <3>1. PICK front : front = SubSeq(file, 1, n - 1)
      OBVIOUS
    <3>2. front = Front(file)
      BY <1>2, <3>1 DEF Front
    <3>3. Len(front) = n - 1 /\ front \in Seq(S) /\ \A i \in 1..(n - 1) : front[i] = file[i]
      BY <1>1, <1>2, <2>1, <3>1
    <3>4. Front(front) = SubSeq(front, 1, n - 2)
      BY <1>2, <3>3 DEF Front
    <3>5. SubSeq(front, 1, n - 2) = SubSeq(file, 1, n - 2)
      BY <1>1, <1>2, <2>1, <3>3
    <3> QED  BY <3>2, <3>4, <3>5
  <2> QED  BY <1>3, <1>6, <2>4, <2>5
<1>7. CASE ~double /\ single
  <2>1. n - 1 \in 0..Len(file) /\ n >= 1 /\ file[n] = LF
    BY <1>2, <1>5, <1>7
  <2>2. EndsAt(file, n - 1)
    <3>1. PICK rest : rest = SubSeq(file, (n - 1) + 1, Len(file))
      OBVIOUS
    <3>2. Len(rest) = 1 /\ rest[1] = LF /\ rest \in Seq(S)
      BY <1>1, <1>2, <2>1, <3>1
    <3>3. rest = <<LF>>
      BY <3>2
    <3> QED  BY <3>1, <3>3, Zenon DEF EndsAt
  <2>3. ASSUME NEW m \in 0..(n - 2), EndsAt(file, m)  PROVE FALSE
    <3>1. m \in 0..Len(file) /\ Len(file) - m > 1 /\ m \in Nat
      BY <1>2, <2>1
    <3>2. Len(file) - m = 2 /\ file[n - 1] = CR
      BY <1>1, <1>2, <2>3, <3>1, EndsShort
    <3>3. n >= 2
      BY <1>2, <3>1, <3>2
    <3> QED  BY <1>4, <1>7, <2>1, <3>2, <3>3
  <2>4. TextOf(file) = SubSeq(file, 1, n - 1)
    <3>1. \A m \in 0..((n - 1) - 1) : ~EndsAt(file, m)
      BY <2>3
    <3> QED  BY <1>1, <2>1, <2>2, <3>1, TextEnds
  <2>5. Front(file) = SubSeq(file, 1, n - 1)
    BY <1>2 DEF Front
  <2> QED  BY <1>3, <1>7, <2>4, <2>5
<1>8. CASE ~double /\ ~single
  <2>1. EndsAt(file, n)
    <3>1. SubSeq(file, n + 1, Len(file)) = <<>>
      BY <1>1, <1>2
    <3> QED  BY <3>1, Zenon DEF EndsAt
  <2>2. ASSUME NEW m \in 0..(n - 1), EndsAt(file, m)  PROVE FALSE
    <3>1. m \in 0..Len(file) /\ Len(file) - m > 0 /\ m \in Nat
      BY <1>2
    <3>2. \/ Len(file) - m = 1 /\ file[n] = LF
          \/ Len(file) - m = 2 /\ file[n - 1] = CR /\ file[n] = LF
      BY <1>1, <1>2, <2>2, <3>1, EndsShort
    <3>3. n >= 1
      BY <1>2, <3>1
    <3> QED  BY <1>5, <1>8, <3>2, <3>3
  <2>3. TextOf(file) = SubSeq(file, 1, n)
    BY <1>1, <1>2, <2>1, <2>2, TextEnds
  <2>4. SubSeq(file, 1, n) = file
    BY <1>1, <1>2
  <2> QED  BY <1>3, <1>8, <2>3, <2>4
<1> QED  BY <1>6, <1>7, <1>8

\* The payload opens with the content key of the creation, to the content.
LEMMA PayloadOpens ==
  ASSUME NEW o, NEW e, NEW kind, NEW principals, NEW release,
         EnvelopeShape(o, e, kind, principals, release), validate_plaintext_content(o.content, kind) = Passed
  PROVE  decrypt_payload_core(e, o.cek) = Got(o.content)
<1>1. e.error = Passed /\ e.nonce = o.nonce
  BY DEF EnvelopeShape
<1>2. e.contract.content.digest = o.content /\ e.contract.content.kind = kind
  <2>1. e.contract.content = [kind |-> kind, digest |-> o.content]
    BY DEF EnvelopeShape, ContractOf, Contract
  <2> QED  BY <2>1
<1>3. e.payload.message = o.content /\ Opens(e.payload, o.cek, payload_aad(proposal_core(e.contract, e.nonce)))
  BY <1>1 DEF EnvelopeShape, Box, Opens
<1> DEFINE a == e.error # Passed
           b == ~Opens(e.payload, o.cek, payload_aad(proposal_core(e.contract, e.nonce)))
           c == e.payload.message # e.contract.content.digest
           d == validate_plaintext_content(e.payload.message, e.contract.content.kind) # Passed
           error == FirstError(<< <<a, e.error>>, <<b, "CryptographicFailure">>, <<c, "IntegrityMismatch">>,
                                  <<d, "InvalidContent">> >>)
<1>4. decrypt_payload_core(e, o.cek) = IF error # Passed THEN Failed(error) ELSE Got(e.payload.message)
  BY Zenon DEF decrypt_payload_core
<1>5. ~a /\ ~b /\ ~c /\ ~d
  BY <1>1, <1>2, <1>3
<1>6. a \in BOOLEAN /\ b \in BOOLEAN /\ c \in BOOLEAN /\ d \in BOOLEAN
  OBVIOUS
<1>7. error = Passed
  <2> HIDE DEF a, b, c, d
  <2> QED  BY <1>5, <1>6, FourChecks
<1> HIDE DEF error
<1> QED  BY <1>3, <1>4, <1>7

\* A capsule whose recipients hold the content key.
HolderShape(o, e, kind, release) ==
  /\ EnvelopeShape(o, e, kind, Ids(o.recipients), release) /\ release.kind \in {"Direct", "Challenge", "Sharded"}
  /\ e.slots = HolderSlots(o, e.contract, o.recipients)
  /\ validate_plaintext_content(o.content, kind) = Passed

\* A capsule of any mode but a sequence has slots for its recipients.
LEMMA HolderCapsule ==
  ASSUME NEW k, NEW e, CapsuleDoc(k, e), NEW o, o = Creations[k], Mode(o) \in {"direct", "challenge", "sharded"}
  PROVE  \E release : HolderShape(o, e, KindOf(o), release)
<1>1. o.patch => Mode(o) = "direct"
  <2>1. o.patch => o.sequences = <<>> /\ o.solutions = <<>>
    BY CreationAssumption DEF CapsuleDoc
  <2>2. o.patch => Mode(o) \in {"direct", "quorum"}
    <3> SUFFICES ASSUME o.patch  PROVE Mode(o) \in {"direct", "quorum"}
      OBVIOUS
    <3>1. o.sequences = <<>> /\ o.solutions = <<>> /\ Len(o.solutions) = 0
      BY <2>1
    <3> QED  BY <3>1 DEF Mode
  <2> QED  BY <2>2
<1>2. CASE Mode(o) = "direct"
  <2>1. PICK release, holders : DefaultShape(o, e, release, holders)
    BY <1>2, DefaultCapsule
  <2>2. release = Direct /\ holders = o.recipients
    BY <1>2, <2>1 DEF DefaultShape
  <2>3. release.kind = "Direct"
    BY <2>2 DEF Direct
  <2> QED  BY <2>1, <2>2, <2>3 DEF DefaultShape, HolderShape
<1>3. CASE Mode(o) = "challenge"
  <2>1. PICK solution, key, release : ChallengeShape(o, e, solution, key, release)
    BY <1>3, ChallengeCapsule
  <2>2. KindOf(o) = "ExactArtifact"
    BY <1>1, <1>3 DEF KindOf
  <2>3. release.kind = "Challenge"
    BY <2>1 DEF ChallengeShape, Challenge
  <2> QED  BY <2>1, <2>2, <2>3 DEF ChallengeShape, HolderShape
<1>4. CASE Mode(o) = "sharded"
  <2>1. PICK shards, threshold, release : ShardedShape(o, e, shards, threshold, release)
    BY <1>4, ShardedCapsule
  <2>2. KindOf(o) = "ExactArtifact"
    BY <1>1, <1>4 DEF KindOf
  <2>3. release = Sharded(o.memory, o.iterations, threshold, shards, o.hint)
    BY <2>1 DEF ShardedShape
  <2>4. release.kind = "Sharded"
    BY <2>3 DEF Sharded
  <2> QED  BY <2>1, <2>2, <2>4 DEF ShardedShape, HolderShape
<1> QED  BY <1>2, <1>3, <1>4

\* What a contract grants: everything but a patch may be reconstructed.
LEMMA Granted ==
  ASSUME NEW o, NEW e, NEW kind, NEW principals, NEW release, EnvelopeShape(o, e, kind, principals, release)
  PROVE  /\ e.contract.release = release /\ e.contract.content.kind = kind /\ "Decrypt" \in e.contract.capabilities
         /\ kind = "ExactArtifact" => {"Reconstruct", "Diff", "Apply"} \subseteq e.contract.capabilities
<1>1. /\ e.contract.release = release /\ e.contract.content = [kind |-> kind, digest |-> o.content]
      /\ e.contract.capabilities = IF kind = "SemanticPatch" THEN APPLY_PATCH ELSE APPLY_EXACT
  BY DEF EnvelopeShape, ContractOf, Contract
<1> QED  BY <1>1 DEF APPLY_PATCH, APPLY_EXACT, RECONSTRUCT

\* The slots of a holder hold the content key, boxed for that holder.
SlotFor(o, e, i, n) ==
  /\ e.slots[i].holder = Id(n)
  /\ e.slots[i].box = single_shot_seal(Identity[n].encryption, key_slot_info(o.nonce, Id(n), e.contract.release),
                                       proposal_core(e.contract, o.nonce), o.cek)

\* There is a slot for every recipient and for nobody else.
LEMMA SlotsFor ==
  ASSUME NEW o, NEW e, NEW kind, NEW release, HolderShape(o, e, kind, release), o.recipients \in Seq(Name)
  PROVE  /\ Len(e.slots) = Len(o.recipients)
         /\ \A i \in 1..Len(e.slots) : \E n \in Range(o.recipients) : SlotFor(o, e, i, n)
         /\ \A n \in Range(o.recipients) : \E i \in 1..Len(e.slots) : SlotFor(o, e, i, n)
<1>1. PICK count \in Nat : count = Len(o.recipients) /\ \A i \in 1..count : o.recipients[i] \in Name
  OBVIOUS
<1>2. Range(o.recipients) = {o.recipients[i] : i \in 1..count}
  BY <1>1 DEF Range
<1>3. PICK sorted : sorted = Canonical(o.recipients)
  OBVIOUS
<1>4. Reordered(sorted, o.recipients, count)
  <2>1. \A i \in 1..count : o.recipients[i] \in Nat
    BY <1>1, IdentityAssumption
  <2> QED  BY <1>1, <1>3, <2>1, SortedElements DEF Canonical
<1>5. Len(sorted) = count
  BY <1>4 DEF Reordered
<1>6. e.contract.release.kind # "Quorum"
  BY Granted DEF HolderShape
<1>7. PICK material : material = key_material_for_holders(o, e.contract, count)
  OBVIOUS
<1>8. \A i \in 1..count : material[i] = o.cek
  BY <1>6, <1>7 DEF key_material_for_holders
<1>9. e.slots = [i \in 1..count |->
                  [holder |-> Id(sorted[i]),
                   box |-> single_shot_seal(Identity[sorted[i]].encryption,
                             key_slot_info(o.nonce, Id(sorted[i]), e.contract.release),
                             proposal_core(e.contract, o.nonce), material[i])]]
  BY <1>3, <1>5, <1>7 DEF HolderShape, HolderSlots
<1>10. Len(e.slots) = count /\ \A i \in 1..count : SlotFor(o, e, i, sorted[i])
  BY <1>8, <1>9 DEF SlotFor
<1>11. /\ \A i \in 1..count : sorted[i] \in Range(o.recipients)
       /\ \A n \in Range(o.recipients) : \E i \in 1..count : sorted[i] = n
  <2>1. /\ \A i \in 1..count : \E j \in 1..count : sorted[i] = o.recipients[j]
        /\ \A j \in 1..count : \E i \in 1..count : sorted[i] = o.recipients[j]
    BY <1>4, Zenon DEF Reordered
  <2>2. \A i \in 1..count : sorted[i] \in Range(o.recipients)
    <3> SUFFICES ASSUME NEW i \in 1..count  PROVE sorted[i] \in Range(o.recipients)
      OBVIOUS
    <3>1. PICK j \in 1..count : sorted[i] = o.recipients[j]
      BY <2>1
    <3> QED  BY <1>2, <3>1
  <2>3. ASSUME NEW n \in Range(o.recipients)  PROVE \E i \in 1..count : sorted[i] = n
    <3>1. PICK j \in 1..count : n = o.recipients[j]
      BY <1>2
    <3>2. PICK i \in 1..count : sorted[i] = o.recipients[j]
      BY <2>1
    <3> QED  BY <3>1, <3>2
  <2> QED  BY <2>2, <2>3
<1> QED  BY <1>1, <1>10, <1>11

\* A recipient finds the content key in a slot, and nobody else does
\* (recipient_cek).
LEMMA RecipientKey ==
  ASSUME NEW o, NEW e, NEW kind, NEW release, HolderShape(o, e, kind, release), o.recipients \in Seq(Name),
         NEW n, NEW d, KeyDoc(n, d)
  PROVE  recipient_cek(e, d) = IF n \in Range(o.recipients) THEN Got(o.cek) ELSE Failed("NotRecipient")
<1>1. n \in Name /\ d.public.id = Id(n) /\ d.box.ikm = Secret[n].ikm
  <2>1. n \in Name /\ d.public = Identity[n] /\ d.box.ikm = Secret[n].ikm
    BY UnlockExactly DEF KeyDoc
  <2> QED  BY <2>1, IdentityParts
<1>2. /\ e.error = Passed /\ e.nonce = o.nonce /\ "Decrypt" \in e.contract.capabilities
      /\ e.contract.release.kind \in {"Direct", "Challenge", "Sharded"}
  BY Granted DEF HolderShape, EnvelopeShape
<1> DEFINE mine == SlotsOf(e, d.public.id)
           box == e.slots[CHOOSE i \in mine : TRUE].box
           info == key_slot_info(e.nonce, d.public.id, e.contract.release)
           a == e.error # Passed
           b == e.contract.release.kind \notin {"Direct", "Challenge", "Sharded"}
           c == "Decrypt" \notin e.contract.capabilities
           f == mine = {}
           error == FirstError(<< <<a, e.error>>, <<b, "UnsupportedReleasePolicy">>, <<c, "InvalidContract">>,
                                  <<f, "NotRecipient">> >>)
<1>3. recipient_cek(e, d) =
        IF error # Passed THEN Failed(error)
        ELSE IF ~single_shot_open(box, d.box.ikm, info, proposal_core(e.contract, e.nonce))
             THEN Failed("CryptographicFailure") ELSE Got(box.message)
  BY Zenon DEF recipient_cek
<1>4. ~a /\ ~b /\ ~c
  BY <1>2
<1>5. error = IF f THEN "NotRecipient" ELSE Passed
  <2> HIDE DEF a, b, c, f
  <2> DEFINE l == << <<a, e.error>>, <<b, "UnsupportedReleasePolicy">>, <<c, "InvalidContract">>,
                     <<f, "NotRecipient">> >>
  <2>1. /\ Len(l) = 4 /\ l[1][1] = a /\ l[2][1] = b /\ l[3][1] = c /\ l[4][1] = f /\ l[4][2] = "NotRecipient"
    OBVIOUS
  <2>2. error = FirstError(l)
    OBVIOUS
  <2> HIDE DEF l, error
  <2>3. CASE f
    <3>1. Failing(l) = {4}
      <4>1. \A i \in 1..Len(l) : i = 1 \/ i = 2 \/ i = 3 \/ i = 4
        BY <2>1
      <4>2. \A i \in 1..Len(l) : l[i][1] <=> i = 4
        BY <1>4, <2>1, <2>3, <4>1
      <4>3. 4 \in 1..Len(l)
        BY <2>1
      <4> QED  BY <4>2, <4>3 DEF Failing
    <3>2. (CHOOSE i \in {4} : \A j \in {4} : i <= j) = 4
      OBVIOUS
    <3> QED  BY <2>1, <2>2, <2>3, <3>1, <3>2 DEF FirstError
  <2>4. CASE ~f
    <3>1. Failing(l) = {}
      BY <1>4, <2>1, <2>4 DEF Failing
    <3> QED  BY <2>2, <2>4, <3>1 DEF FirstError
  <2> QED  BY <2>3, <2>4
<1> HIDE DEF error
<1>6. f <=> n \notin Range(o.recipients)
  <2>1. \A i \in 1..Len(e.slots) : \E m \in Range(o.recipients) : SlotFor(o, e, i, m)
    BY SlotsFor, Zenon
  <2>2. \A m \in Range(o.recipients) : \E i \in 1..Len(e.slots) : SlotFor(o, e, i, m)
    BY SlotsFor, Zenon
  <2>3. Range(o.recipients) \subseteq Name
    BY DEF Range
  <2>4. ASSUME NEW i \in 1..Len(e.slots), e.slots[i].holder = Id(n)  PROVE n \in Range(o.recipients)
    <3>1. PICK m \in Range(o.recipients) : SlotFor(o, e, i, m)
      BY <2>1
    <3> QED  BY <1>1, <2>3, <2>4, <3>1, DistinctIds DEF SlotFor
  <2>5. ASSUME n \in Range(o.recipients)  PROVE mine # {}
    <3>1. PICK i \in 1..Len(e.slots) : SlotFor(o, e, i, n)
      BY <2>2, <2>5
    <3> QED  BY <1>1, <3>1 DEF SlotsOf, SlotFor
  <2> QED  BY <1>1, <2>4, <2>5 DEF SlotsOf
<1>7. CASE n \in Range(o.recipients)
  <2>1. PICK i \in mine : i = CHOOSE j \in mine : TRUE
    BY <1>6, <1>7
  <2>2. i \in 1..Len(e.slots) /\ e.slots[i].holder = Id(n)
    BY <1>1, <2>1 DEF SlotsOf
  <2>3. PICK m \in Range(o.recipients) : SlotFor(o, e, i, m)
    BY <2>2, SlotsFor, Zenon
  <2>4. m = n
    <3>1. m \in Name
      BY <2>3 DEF Range
    <3> QED  BY <1>1, <2>2, <2>3, <3>1, DistinctIds DEF SlotFor
  <2>5. box = single_shot_seal(Identity[n].encryption, key_slot_info(o.nonce, Id(n), e.contract.release),
                               proposal_core(e.contract, o.nonce), o.cek)
    BY <2>1, <2>3, <2>4 DEF SlotFor
  <2> HIDE DEF box, mine
  <2>6. Identity[n].encryption = EncryptionKey(d.box.ikm)
    BY <1>1, IdentityParts
  <2>7. single_shot_open(box, d.box.ikm, info, proposal_core(e.contract, e.nonce)) /\ box.message = o.cek
    BY <1>1, <1>2, <2>5, <2>6 DEF single_shot_open, single_shot_seal
  <2>8. error = Passed
    BY <1>5, <1>6, <1>7
  <2> QED  BY <1>3, <1>7, <2>7, <2>8
<1>8. CASE n \notin Range(o.recipients)
  <2>1. error = "NotRecipient" /\ error # Passed
    BY <1>5, <1>6, <1>8 DEF Passed
  <2> QED  BY <1>3, <1>8, <2>1
<1> QED  BY <1>7, <1>8

\* The lists of a creation whose capsule is there are lists of names.
LEMMA CapsuleType ==
  ASSUME NEW k, NEW e, CapsuleDoc(k, e), NEW o, o = Creations[k]
  PROVE  /\ o.recipients \in Seq(Name) /\ o.sequences \in Seq(Seq(Name)) /\ o.cek \in Element /\ o.nonce = k
         /\ Len(o.solutions) \in Nat /\ o.challengeThreshold \in Nat
         /\ Mode(o) \in {"sequence", "challenge", "sharded", "direct", "quorum"} /\ o.patch \in BOOLEAN
         /\ Len(o.solutions) > 1 => o.polynomial \in [1..(ThresholdOf(o) - 1) -> Element]
<1>1. k \in DOMAIN Creations
  BY DEF CapsuleDoc
<1>2. Mode(o) \in {"sequence", "challenge", "sharded", "direct", "quorum"}
  BY DEF Mode
<1> QED  BY <1>1, <1>2, CreationAssumption DEF ThresholdOf

\* A capsule that needs a quorum or a sequence opens to no single key.
LEMMA NoSingleKey ==
  ASSUME NEW k, NEW e, CapsuleDoc(k, e), NEW o, o = Creations[k], Mode(o) \in {"sequence", "quorum"}, NEW d
  PROVE  recipient_cek(e, d).error # Passed
<1>1. PICK kind, principals, release :
        /\ EnvelopeShape(o, e, kind, principals, release) /\ e.contract.release = release
        /\ release.kind = CASE Mode(o) = "sequence" -> "KeySequence" [] Mode(o) = "challenge" -> "Challenge"
                            [] Mode(o) = "sharded" -> "Sharded" [] Mode(o) = "direct" -> "Direct"
                            [] OTHER -> "Quorum"
  BY EnvelopeKind
<1>2. e.contract.release.kind \in {"KeySequence", "Quorum"}
  BY <1>1
<1> DEFINE mine == SlotsOf(e, d.public.id)
           a == e.error # Passed
           b == e.contract.release.kind \notin {"Direct", "Challenge", "Sharded"}
           c == "Decrypt" \notin e.contract.capabilities
           f == mine = {}
           error == FirstError(<< <<a, e.error>>, <<b, "UnsupportedReleasePolicy">>, <<c, "InvalidContract">>,
                                  <<f, "NotRecipient">> >>)
<1>3. error # Passed => recipient_cek(e, d) = Failed(error)
  BY Zenon DEF recipient_cek
<1>4. b /\ a \in BOOLEAN /\ b \in BOOLEAN /\ c \in BOOLEAN /\ f \in BOOLEAN
  BY <1>2
<1>5. /\ a => e.error # Passed
      /\ b => "UnsupportedReleasePolicy" # Passed
      /\ c => "InvalidContract" # Passed
      /\ f => "NotRecipient" # Passed
  BY DEF Passed
<1>6. error # Passed
  <2>1. PICK first : first = e.error
    OBVIOUS
  <2>2. a => first # Passed
    BY <1>5, <2>1
  <2>3. error = FirstError(<< <<a, first>>, <<b, "UnsupportedReleasePolicy">>, <<c, "InvalidContract">>,
                              <<f, "NotRecipient">> >>)
    BY <2>1, Zenon
  <2>4. a \in BOOLEAN /\ b \in BOOLEAN /\ c \in BOOLEAN /\ f \in BOOLEAN
    BY <1>4
  <2>5. b
    BY <1>4
  <2>6. /\ b => "UnsupportedReleasePolicy" # Passed
        /\ c => "InvalidContract" # Passed
        /\ f => "NotRecipient" # Passed
    BY <1>5
  <2> HIDE DEF a, b, c, f, error
  <2>7. FirstError(<< <<a, first>>, <<b, "UnsupportedReleasePolicy">>, <<c, "InvalidContract">>,
                      <<f, "NotRecipient">> >>) = Passed <=> ~a /\ ~b /\ ~c /\ ~f
    BY <2>2, <2>4, <2>6, FourChecks
  <2> QED  BY <2>3, <2>5, <2>7
<1> HIDE DEF error
<1>7. recipient_cek(e, d) = Failed(error)
  BY <1>3, <1>6
<1> QED  BY <1>6, <1>7 DEF Failed

\* A key opens the exact artifact of a capsule if it is a recipient's, and
\* finds what was protected (open_capsule).
Reaches(o, n) == Mode(o) \in {"direct", "challenge", "sharded"} /\ ~o.patch /\ n \in Range(o.recipients)

\* A key opens a capsule exactly when its owner is a recipient (open_capsule).
LEMMA KeyOpens ==
  ASSUME NEW k, NEW e, CapsuleDoc(k, e), NEW o, o = Creations[k], NEW n, NEW d, KeyDoc(n, d)
  PROVE  /\ Reaches(o, n) => open_content(e, d, "ExactArtifact") = Got(o.content)
         /\ ~Reaches(o, n) => open_content(e, d, "ExactArtifact").error # Passed
<1> DEFINE cek == recipient_cek(e, d)
<1>1. open_content(e, d, "ExactArtifact") =
        IF e.contract.content.kind # "ExactArtifact" THEN Failed("InvalidContent")
        ELSE IF cek.error # Passed THEN cek
        ELSE IF d.public.id \notin Range(e.contract.recipients) THEN Failed("NotRecipient")
        ELSE decrypt_payload_core(e, cek.content)
  BY Zenon DEF open_content
<1>2. Failed("InvalidContent").error # Passed /\ Failed("NotRecipient").error # Passed
  BY DEF Failed, Passed
<1>3. CASE Mode(o) \in {"sequence", "quorum"}
  <2>1. cek.error # Passed
    BY <1>3, NoSingleKey
  <2> HIDE DEF cek
  <2> QED  BY <1>1, <1>2, <1>3, <2>1 DEF Reaches
<1>4. CASE Mode(o) \in {"direct", "challenge", "sharded"}
  <2>1. PICK release : HolderShape(o, e, KindOf(o), release)
    BY <1>4, HolderCapsule
  <2>2. o.recipients \in Seq(Name) /\ o.patch \in BOOLEAN
    BY CapsuleType
  <2>3. cek = IF n \in Range(o.recipients) THEN Got(o.cek) ELSE Failed("NotRecipient")
    BY <2>1, <2>2, RecipientKey
  <2>4. e.contract.content.kind = KindOf(o)
    BY <2>1, Granted DEF HolderShape
  <2>5. decrypt_payload_core(e, o.cek) = Got(o.content)
    BY <2>1, PayloadOpens DEF HolderShape
  <2>6. n \in Name /\ d.public.id = Id(n)
    <3>1. n \in Name /\ d.public = Identity[n]
      BY UnlockExactly DEF KeyDoc
    <3> QED  BY <3>1, IdentityParts
  <2>7. n \in Range(o.recipients) <=> d.public.id \in Range(e.contract.recipients)
    BY <1>4, <2>6, RecipientsOf
  <2>8. Got(o.cek).error = Passed /\ Got(o.cek).content = o.cek
    BY DEF Got
  <2>9. KindOf(o) = "ExactArtifact" <=> ~o.patch
    BY <2>2 DEF KindOf
  <2> HIDE DEF cek
  <2>10. CASE Reaches(o, n)
    <3>1. cek = Got(o.cek) /\ e.contract.content.kind = "ExactArtifact"
      BY <2>3, <2>4, <2>9, <2>10 DEF Reaches
    <3>2. cek.error = Passed /\ cek.content = o.cek
      BY <2>8, <3>1
    <3>3. d.public.id \in Range(e.contract.recipients)
      BY <2>7, <2>10 DEF Reaches
    <3> QED  BY <1>1, <2>5, <2>10, <3>1, <3>2, <3>3
  <2>11. CASE ~Reaches(o, n)
    <3>1. CASE o.patch
      BY <1>1, <1>2, <2>2, <2>4, <2>9, <2>11, <3>1
    <3>2. CASE ~o.patch
      <4>1. cek = Failed("NotRecipient")
        BY <1>4, <2>3, <2>11, <3>2 DEF Reaches
      <4> QED  BY <1>1, <1>2, <2>11, <4>1
    <3> QED  BY <2>2, <3>1, <3>2
  <2> QED  BY <2>10, <2>11
<1> QED  BY <1>3, <1>4, CapsuleType

-----------------------------------------------------------------------------
(* What the access commands report.                                        *)

\* What OpensExactly says of a result.
Opened(r) ==
  LET content == Creations[r.capsule].content IN
  CASE r.kind = "check" -> (r.result.error = Passed) = MayOpen(r)
    [] r.kind \in {"Diff", "Apply"} ->
         (r.result.error = Passed) = (MayOpen(r) /\ Placed(content, r.override))
    [] OTHER -> /\ (r.result.error = Passed) = MayOpen(r)
                /\ r.result.error = Passed => r.result.content = content

\* What `open` reports of a readable capsule is what its creation grants.
LEMMA OpenReport ==
  ASSUME DocInv, NEW k, Readable(CapsulePath(k)), NEW path \in KeyFiles, NEW pass, NEW raw,
         open_capsule_command(k, path, pass, raw)
  PROVE  \E r : Report("access", r) /\ Opened(r)
<1>1. PICK e : e = Envelope(k)
  OBVIOUS
<1>2. PICK o : o = Creations[k]
  OBVIOUS
<1>3. PICK d : d = files[path].doc
  OBVIOUS
<1> DEFINE result == IF ~raw /\ "Reconstruct" \notin e.contract.capabilities THEN Failed("Policy")
                     ELSE IF UnlockError(d, pass) # Passed THEN Failed(UnlockError(d, pass))
                     ELSE open_content(e, d, "ExactArtifact")
           r == [kind |-> "open", capsule |-> k, path |-> path, pass |-> pass, result |-> result]
<1>4. Readable(path) /\ Report("access", r)
  BY <1>1, <1>3, Zenon DEF open_capsule_command
<1>5. CapsuleDoc(k, e)
  BY <1>1, CapsuleRead DEF Envelope
<1>6. KeyDoc(path[2], d)
  BY <1>3, <1>4, KeyRead
<1>7. UnlockError(d, pass) = Passed <=> pass = PassOf(d)
  BY <1>6, UnlockExactly
<1>8. ~o.patch => "Reconstruct" \in e.contract.capabilities
  <2>1. PICK kind, principals, release :
          EnvelopeShape(o, e, kind, principals, release) /\ kind = IF o.patch THEN "SemanticPatch" ELSE "ExactArtifact"
    BY <1>2, <1>5, EnvelopeKind
  <2> QED  BY <2>1, Granted
<1>9. /\ Reaches(o, path[2]) => open_content(e, d, "ExactArtifact") = Got(o.content)
      /\ ~Reaches(o, path[2]) => open_content(e, d, "ExactArtifact").error # Passed
  BY <1>2, <1>5, <1>6, KeyOpens
<1>10. /\ Failed("Policy").error # Passed /\ Got(o.content).error = Passed /\ Got(o.content).content = o.content
       /\ UnlockError(d, pass) # Passed => Failed(UnlockError(d, pass)).error # Passed
  BY DEF Failed, Got, Passed
<1>11. result.error = Passed <=> Reaches(o, path[2]) /\ pass = PassOf(d)
  <2>1. CASE Reaches(o, path[2])
    <3>1. result = IF UnlockError(d, pass) # Passed THEN Failed(UnlockError(d, pass)) ELSE Got(o.content)
      BY <1>8, <1>9, <2>1 DEF Reaches
    <3> QED  BY <1>7, <1>10, <2>1, <3>1
  <2>2. CASE ~Reaches(o, path[2])
    BY <1>9, <1>10, <2>2
  <2> QED  BY <2>1, <2>2
<1>12. result.error = Passed => result.content = o.content
  <2> SUFFICES ASSUME result.error = Passed  PROVE result.content = o.content
    OBVIOUS
  <2>1. Reaches(o, path[2]) /\ pass = PassOf(d)
    BY <1>11
  <2>2. result = Got(o.content)
    BY <1>7, <1>8, <1>9, <2>1 DEF Reaches
  <2> QED  BY <1>10, <2>2
<1> HIDE DEF result
<1>13. r.kind = "open" /\ r.capsule = k /\ r.path = path /\ r.pass = pass /\ r.result = result
  OBVIOUS
<1> HIDE DEF r
<1>14. MayOpen(r) = (Reaches(o, path[2]) /\ pass = PassOf(d))
  BY <1>2, <1>3, <1>13 DEF MayOpen, Reaches
<1>15. Opened(r)
  <2>1. (r.result.error = Passed) = MayOpen(r)
    BY <1>11, <1>13, <1>14
  <2>2. r.result.error = Passed => r.result.content = o.content
    BY <1>12, <1>13
  <2> QED  BY <1>2, <1>13, <2>1, <2>2 DEF Opened
<1> QED  BY <1>4, <1>15

\* Where an artifact goes (artifact_verified_tree).
LEMMA TreePlaced ==
  ASSUME NEW a, NEW override
  PROVE  artifact_verified_tree(a, override).error = Passed <=> Placed(a, override)
<1> DEFINE chosen == CHOOSE p \in {override, a.path, a.name} :
                       IF override # "none" THEN p = override
                       ELSE IF a.path # "none" THEN p = a.path ELSE p = a.name
<1>1. artifact_verified_tree(a, override) =
        IF a.shape = "directory"
        THEN IF override # "none" THEN Failed("Policy") ELSE Got(a.entries)
        ELSE IF chosen = "none" THEN Failed("Policy") ELSE Got({chosen})
  BY Zenon DEF artifact_verified_tree
<1>2. IF override # "none" THEN chosen = override
      ELSE IF a.path # "none" THEN chosen = a.path ELSE chosen = a.name
  OBVIOUS
<1> HIDE DEF chosen
<1>3. Failed("Policy").error # Passed /\ Got(a.entries).error = Passed /\ Got({chosen}).error = Passed
  BY DEF Failed, Got, Passed
<1> QED  BY <1>1, <1>2, <1>3 DEF Placed

\* The kind of the release says the mode of the creation.
ReleaseSays(o, e) ==
  /\ (e.contract.release.kind = "Challenge") = (Mode(o) = "challenge")
  /\ (e.contract.release.kind = "Sharded") = (Mode(o) = "sharded")
  /\ (e.contract.release.kind = "KeySequence") = (Mode(o) = "sequence")
  /\ ~o.patch => {"Reconstruct", "Diff", "Apply"} \subseteq e.contract.capabilities
  /\ Mode(o) \in {"challenge", "sharded", "sequence"} => ~o.patch

\* The release policy of a capsule is the one its creation chose.
LEMMA ReleaseKind ==
  ASSUME NEW k, NEW e, CapsuleDoc(k, e), NEW o, o = Creations[k]
  PROVE  ReleaseSays(o, e)
<1>1. PICK kind, principals, release :
        /\ EnvelopeShape(o, e, kind, principals, release) /\ e.contract.release = release
        /\ release.kind = CASE Mode(o) = "sequence" -> "KeySequence" [] Mode(o) = "challenge" -> "Challenge"
                            [] Mode(o) = "sharded" -> "Sharded" [] Mode(o) = "direct" -> "Direct"
                            [] OTHER -> "Quorum"
        /\ kind = IF o.patch THEN "SemanticPatch" ELSE "ExactArtifact"
  BY EnvelopeKind
<1>2. Mode(o) \in {"sequence", "challenge", "sharded", "direct", "quorum"}
  BY CapsuleType
<1>3. ~o.patch => {"Reconstruct", "Diff", "Apply"} \subseteq e.contract.capabilities
  BY <1>1, Granted
<1>4. Mode(o) \in {"challenge", "sharded", "sequence"} => ~o.patch
  <2>1. o.patch => o.sequences = <<>> /\ o.solutions = <<>>
    BY CreationAssumption DEF CapsuleDoc
  <2> SUFFICES ASSUME o.patch  PROVE Mode(o) \in {"direct", "quorum"}
    OBVIOUS
  <2>2. o.sequences = <<>> /\ o.solutions = <<>> /\ Len(o.solutions) = 0
    BY <2>1
  <2> QED  BY <2>2 DEF Mode
<1>5. /\ e.contract.release.kind = "Challenge" <=> Mode(o) = "challenge"
      /\ e.contract.release.kind = "Sharded" <=> Mode(o) = "sharded"
      /\ e.contract.release.kind = "KeySequence" <=> Mode(o) = "sequence"
  BY <1>1, <1>2
<1> QED  BY <1>3, <1>4, <1>5 DEF ReleaseSays

\* What a diff or an apply may do is what the creation and the override allow.
LEMMA FileReport ==
  ASSUME DocInv, NEW k, Readable(CapsulePath(k)), NEW path \in KeyFiles, NEW pass, NEW override,
         NEW required \in {"Diff", "Apply"}, authorize_file_operations(k, path, pass, override, required)
  PROVE  \E r : Report("access", r) /\ Opened(r)
<1>1. PICK e : e = Envelope(k)
  OBVIOUS
<1>2. PICK o : o = Creations[k]
  OBVIOUS
<1>3. PICK d : d = files[path].doc
  OBVIOUS
<1> DEFINE opened == open_content(e, d, "ExactArtifact")
           result == IF required \notin e.contract.capabilities THEN Failed("Policy")
                     ELSE IF UnlockError(d, pass) # Passed THEN Failed(UnlockError(d, pass))
                     ELSE IF opened.error # Passed THEN opened
                     ELSE artifact_verified_tree(opened.content, override)
           r == [kind |-> required, capsule |-> k, path |-> path, pass |-> pass, override |-> override,
                 result |-> result]
<1>4. Readable(path) /\ Report("access", r)
  BY <1>1, <1>3, Zenon DEF authorize_file_operations
<1>5. CapsuleDoc(k, e)
  BY <1>1, CapsuleRead DEF Envelope
<1>6. KeyDoc(path[2], d)
  BY <1>3, <1>4, KeyRead
<1>7. UnlockError(d, pass) = Passed <=> pass = PassOf(d)
  BY <1>6, UnlockExactly
<1>8. ~o.patch => required \in e.contract.capabilities
  BY <1>2, <1>5, ReleaseKind DEF ReleaseSays
<1>9. /\ Reaches(o, path[2]) => opened = Got(o.content)
      /\ ~Reaches(o, path[2]) => opened.error # Passed
  BY <1>2, <1>5, <1>6, KeyOpens
<1> HIDE DEF opened
<1>10. /\ Failed("Policy").error # Passed /\ Got(o.content).error = Passed /\ Got(o.content).content = o.content
       /\ UnlockError(d, pass) # Passed => Failed(UnlockError(d, pass)).error # Passed
  BY DEF Failed, Got, Passed
<1>11. artifact_verified_tree(o.content, override).error = Passed <=> Placed(o.content, override)
  BY TreePlaced
<1>12. result.error = Passed <=> Reaches(o, path[2]) /\ pass = PassOf(d) /\ Placed(o.content, override)
  <2>1. CASE Reaches(o, path[2])
    <3>1. opened.error = Passed /\ opened.content = o.content
      BY <1>9, <1>10, <2>1
    <3>2. result = IF UnlockError(d, pass) # Passed THEN Failed(UnlockError(d, pass))
                   ELSE artifact_verified_tree(o.content, override)
      BY <1>8, <2>1, <3>1 DEF Reaches
    <3> QED  BY <1>7, <1>10, <1>11, <2>1, <3>2
  <2>2. CASE ~Reaches(o, path[2])
    BY <1>9, <1>10, <2>2
  <2> QED  BY <2>1, <2>2
<1> HIDE DEF result
<1>13. r.kind = required /\ r.capsule = k /\ r.path = path /\ r.pass = pass /\ r.result = result
       /\ r.override = override
  OBVIOUS
<1> HIDE DEF r
<1>14. MayOpen(r) = (Reaches(o, path[2]) /\ pass = PassOf(d))
  BY <1>2, <1>3, <1>13 DEF MayOpen, Reaches
<1>15. Opened(r)
  <2>1. (r.result.error = Passed) = (MayOpen(r) /\ Placed(o.content, r.override))
    BY <1>12, <1>13, <1>14
  <2>2. r.kind \in {"Diff", "Apply"} /\ r.kind # "check"
    BY <1>13
  <2> QED  BY <1>2, <1>13, <2>1, <2>2 DEF Opened
<1> QED  BY <1>4, <1>15

-----------------------------------------------------------------------------
(* Solutions.                                                              *)

\* The solution of a challenge, and no other, gives its key
\* (verified_solution_key).
LEMMA SolutionKey ==
  ASSUME NEW o, NEW e, NEW own, NEW key, NEW release, ChallengeShape(o, e, own, key, release), NEW solution
  PROVE  /\ solution = own => verified_solution_key(e, solution) = Got(key)
         /\ solution # own => verified_solution_key(e, solution).error # Passed
<1>1. /\ e.error = Passed /\ e.contract.release = release
      /\ release.salt = o.nonce /\ release.memory = o.memory /\ release.iterations = o.iterations
      /\ release.commitment = solution_commitment(key) /\ release.kind = "Challenge"
  <2>1. EnvelopeShape(o, e, "ExactArtifact", Ids(o.recipients), release)
    BY DEF ChallengeShape
  <2> QED  BY <2>1, Granted DEF ChallengeShape, Challenge, EnvelopeShape
<1>2. key = derive_key_at(own, o.nonce, o.memory, o.iterations) /\ ~SolutionCheck(own)[1]
  BY DEF ChallengeShape
<1> DEFINE r == e.contract.release
           found == derive_key_at(solution, r.salt, r.memory, r.iterations)
           a == e.error # Passed
           b == Len(solution) \notin 1..MaxSolutionBytes
           c == solution_commitment(found) # r.commitment
           error == FirstError(<< <<a, e.error>>, <<b, "InvalidContent">>, <<c, "AuthenticationFailed">> >>)
<1>3. verified_solution_key(e, solution) =
        IF r.kind # "Challenge" THEN Failed("UnsupportedReleasePolicy")
        ELSE IF error # Passed THEN Failed(error) ELSE Got(found)
  BY Zenon DEF verified_solution_key, SolutionCheck
<1>4. found = derive_key_at(solution, o.nonce, o.memory, o.iterations)
  BY <1>1
<1>5. ~c <=> solution = own
  BY <1>1, <1>2, <1>4 DEF solution_commitment, derive_key_at
<1>6. solution = own => ~a /\ ~b /\ ~c /\ found = key
  BY <1>1, <1>2, <1>4, <1>5 DEF SolutionCheck
<1>7. a \in BOOLEAN /\ b \in BOOLEAN /\ c \in BOOLEAN
  OBVIOUS
<1>8. ~a
  BY <1>1
<1>9. /\ b => "InvalidContent" # Passed
      /\ c => "AuthenticationFailed" # Passed
  BY DEF Passed
<1>10. error = Passed <=> ~a /\ ~b /\ ~c
  <2>1. PICK first : first = e.error
    OBVIOUS
  <2>2. error = FirstError(<< <<a, first>>, <<b, "InvalidContent">>, <<c, "AuthenticationFailed">> >>)
    BY <2>1, Zenon
  <2> HIDE DEF a, b, c, error
  <2>3. a => first # Passed
    BY <1>8
  <2>4. FirstError(<< <<a, first>>, <<b, "InvalidContent">>, <<c, "AuthenticationFailed">> >>) = Passed
          <=> ~a /\ ~b /\ ~c
    BY <1>7, <1>9, <2>3, ThreeChecks
  <2> QED  BY <2>2, <2>4
<1> HIDE DEF error, a, b, c, found
<1>11. r.kind = "Challenge"
  BY <1>1
<1>12. error # Passed => Failed(error).error # Passed
  BY DEF Failed
<1> QED  BY <1>3, <1>5, <1>6, <1>10, <1>11, <1>12

\* Results that are refused whatever the envelope holds.
LEMMA Refused ==
  ASSUME NEW e, NEW solution, NEW entries, NEW i
  PROVE  /\ e.contract.release.kind # "Challenge" => verified_solution_key(e, solution).error # Passed
         /\ e.contract.release.kind # "Sharded" => release_sharded_cek(e, entries).error # Passed
         /\ e.contract.release.kind # "Sharded" => verify_challenge_shard(e, i, solution) # Passed
<1>1. Failed("UnsupportedReleasePolicy").error # Passed /\ "UnsupportedReleasePolicy" # Passed
  BY DEF Failed, Passed
<1>2. e.contract.release.kind # "Challenge"
        => verified_solution_key(e, solution) = Failed("UnsupportedReleasePolicy")
  BY Zenon DEF verified_solution_key
<1>3. e.contract.release.kind # "Sharded" =>
        release_sharded_cek(e, entries) = IF e.error # Passed THEN Failed(e.error)
                                          ELSE Failed("UnsupportedReleasePolicy")
  BY Zenon DEF release_sharded_cek
<1>4. e.contract.release.kind # "Sharded" =>
        verify_challenge_shard(e, i, solution) = IF e.error # Passed THEN e.error ELSE "UnsupportedReleasePolicy"
  BY Zenon DEF verify_challenge_shard
<1>5. e.error # Passed => Failed(e.error).error # Passed
  BY DEF Failed
<1> QED  BY <1>1, <1>2, <1>3, <1>4, <1>5

\* What `solve` reports of a challenge capsule is what its creation grants.
LEMMA SolveReport ==
  ASSUME DocInv, NEW k, Readable(CapsulePath(k)), NEW file \in SolutionFiles, solve_challenge_command(k, file)
  PROVE  \E r : Report("access", r) /\ Opened(r)
<1>1. PICK e : e = Envelope(k)
  OBVIOUS
<1>2. PICK o : o = Creations[k]
  OBVIOUS
<1>3. PICK solution : solution = read_solution_file(file)
  OBVIOUS
<1> DEFINE result == IF "Reconstruct" \notin e.contract.capabilities THEN Failed("Policy")
                     ELSE OpenReleased(e, release_challenge_cek(e, solution))
           r == [kind |-> "solve", capsule |-> k, file |-> file, result |-> result]
<1>4. Report("access", r)
  BY <1>1, <1>3, Zenon DEF solve_challenge_command
<1>5. CapsuleDoc(k, e)
  BY <1>1, CapsuleRead DEF Envelope
<1>6. ReleaseSays(o, e)
  BY <1>2, <1>5, ReleaseKind
<1> DEFINE cek == release_challenge_cek(e, solution)
           key == verified_solution_key(e, solution)
<1>7. cek = IF key.error # Passed THEN key
            ELSE IF ~Opens(e.challenge, key.content, challenge_aad(proposal_core(e.contract, e.nonce)))
                 THEN Failed("AuthenticationFailed") ELSE Got(e.challenge.message)
  BY Zenon DEF release_challenge_cek
<1>8. OpenReleased(e, cek) = IF cek.error # Passed THEN cek ELSE decrypt_payload_core(e, cek.content)
  BY Zenon DEF OpenReleased
<1>9. /\ Failed("Policy").error # Passed /\ Got(o.content).error = Passed /\ Got(o.content).content = o.content
      /\ Got(o.cek).error = Passed /\ Got(o.cek).content = o.cek
  BY DEF Failed, Got, Passed
<1> DEFINE may == Mode(o) = "challenge" /\ TextOf(file) = TextOf(o.solutions[1])
<1>10. IF may THEN result = Got(o.content) ELSE result.error # Passed
  <2>1. CASE Mode(o) # "challenge"
    <3>1. key.error # Passed
      BY <1>6, <2>1, Refused DEF ReleaseSays
    <3> HIDE DEF key
    <3>2. cek.error # Passed
      BY <1>7, <3>1
    <3> HIDE DEF cek
    <3>3. result.error # Passed
      BY <1>8, <1>9, <3>2 DEF cek
    <3> QED  BY <2>1, <3>3
  <2>2. CASE Mode(o) = "challenge"
    <3>1. PICK own, ownKey, release : ChallengeShape(o, e, own, ownKey, release)
      BY <1>2, <1>5, <2>2, ChallengeCapsule
    <3>2. own = TextOf(o.solutions[1]) /\ solution = TextOf(file)
      <4>1. Len(o.solutions) = 1
        BY <2>2 DEF Mode
      <4>2. Bytes(o.solutions[1]) /\ Bytes(file)
        BY <1>2, <1>5, <4>1, SolutionAssumption DEF CapsuleDoc
      <4> QED  BY <1>3, <3>1, <4>2, SolutionText DEF ChallengeShape
    <3>3. "Reconstruct" \in e.contract.capabilities
      BY <1>6, <2>2 DEF ReleaseSays
    <3>4. CASE solution = own
      <4>1. key = Got(ownKey)
        BY <3>1, <3>4, SolutionKey
      <4>2. e.challenge = Box(ownKey, challenge_aad(proposal_core(e.contract, o.nonce)), o.cek) /\ e.nonce = o.nonce
        BY <3>1 DEF ChallengeShape, EnvelopeShape
      <4>3. key.error = Passed /\ key.content = ownKey
        BY <4>1 DEF Got
      <4> HIDE DEF key
      <4>4. cek = Got(o.cek)
        BY <1>7, <4>2, <4>3 DEF Opens, Box
      <4> HIDE DEF cek
      <4>5. decrypt_payload_core(e, o.cek) = Got(o.content)
        BY <3>1, PayloadOpens DEF ChallengeShape
      <4>6. OpenReleased(e, cek) = Got(o.content)
        BY <1>8, <1>9, <4>4, <4>5
      <4>7. result = Got(o.content)
        BY <3>3, <4>6 DEF cek
      <4> QED  BY <2>2, <3>2, <3>4, <4>7
    <3>5. CASE solution # own
      <4>1. key.error # Passed
        BY <3>1, <3>5, SolutionKey
      <4> HIDE DEF key
      <4>2. cek.error # Passed
        BY <1>7, <4>1
      <4> HIDE DEF cek
      <4>3. result.error # Passed
        BY <1>8, <1>9, <4>2 DEF cek
      <4> QED  BY <3>2, <3>5, <4>3
    <3> QED  BY <3>4, <3>5
  <2> QED  BY <2>1, <2>2
<1> HIDE DEF result, cek, key
<1>11. r.kind = "solve" /\ r.capsule = k /\ r.file = file /\ r.result = result
  OBVIOUS
<1> HIDE DEF r
<1>12. MayOpen(r) = may
  BY <1>2, <1>11 DEF MayOpen
<1>13. (r.result.error = Passed) = MayOpen(r)
  BY <1>9, <1>10, <1>11, <1>12
<1>14. r.result.error = Passed => r.result.content = o.content
  BY <1>9, <1>10, <1>11
<1>15. Opened(r)
  BY <1>2, <1>11, <1>13, <1>14 DEF Opened
<1> QED  BY <1>4, <1>15

-----------------------------------------------------------------------------
(* Shards.                                                                 *)

\* The threshold of a sharded challenge is one its shards can meet.
LEMMA ShardLimits ==
  ASSUME NEW r, r.kind = "Sharded", ReleaseError(r) = Passed, Len(r.shards) \in Nat
  PROVE  /\ Len(r.shards) \in MinChallengeShards..MaxChallengeShards
         /\ r.threshold # 0 /\ ~(r.threshold > Len(r.shards))
<1> DEFINE count == Len(r.shards)
           a == r.memory \notin MinMemory..MaxMemory \/ r.iterations \notin 1..MaxIterations
           b == count \notin MinChallengeShards..MaxChallengeShards
           c == r.threshold = 0 \/ r.threshold > count
           l == << <<a, "UnsupportedValue">>, <<b, "LimitExceeded">>, <<c, "InvalidThreshold">> >>
           m == [i \in 1..count |-> HintCheck(r.shards[i])]
           n == << HintCheck(r) >>
<1>1. ReleaseError(r) = FirstError(l \o m \o n)
  <2>1. ReleaseError(r) = FirstError(ShardedChecks(r))
    BY DEF ReleaseError
  <2>2. ShardedChecks(r) = l \o m \o n
    BY Zenon DEF ShardedChecks, CostCheck
  <2> QED  BY <2>1, <2>2, Zenon
<1>2. Listed(l, 3) /\ l[1] = <<a, "UnsupportedValue">> /\ l[2] = <<b, "LimitExceeded">> /\ l[3] = <<c, "InvalidThreshold">>
  <2> HIDE DEF a, b, c
  <2> QED  BY DEF Listed
<1>3. Listed(m, count) /\ \A i \in 1..count : m[i][2] = "LimitExceeded"
  BY DEF Listed, HintCheck
<1>4. Listed(n, 1) /\ n[1][2] = "LimitExceeded"
  BY DEF Listed, HintCheck
<1>5. count \in Nat
  OBVIOUS
<1>6. b <=> l[2][1]
  BY <1>2
<1>7. c <=> l[3][1]
  BY <1>2
<1>8. \A i \in 1..3 : l[i][2] # Passed
  <2>1. l[1][2] # Passed /\ l[2][2] # Passed /\ l[3][2] # Passed
    <3> HIDE DEF a, b, c, l
    <3> QED  BY <1>2 DEF Passed
  <2> HIDE DEF l
  <2> QED  BY <2>1
<1>9. /\ \A i \in 1..count : m[i][2] # Passed
      /\ n[1][2] # Passed
  BY <1>3, <1>4 DEF Passed
<1> HIDE DEF count, a, b, c, l, m, n
<1>10. PICK three \in Nat : three = 3
  OBVIOUS
<1>11. PICK one \in Nat : one = 1
  OBVIOUS
<1>12. PICK lm : lm = l \o m
  OBVIOUS
<1>13. Chained(lm, l, m, three, count)
  <2>1. Listed(l, three)
    BY <1>2, <1>10
  <2> QED  BY <1>3, <1>5, <1>12, <2>1, Joined
<1>14. Listed(lm, three + count) /\ three + count \in Nat
  <2>1. three + count \in Nat
    BY <1>5
  <2>2. l \in [1..three -> {l[i] : i \in 1..three}] /\ m \in [1..count -> {m[i] : i \in 1..count}]
    BY <1>2, <1>3, <1>10 DEF Listed
  <2>3. PICK T : l \in [1..three -> T] /\ m \in [1..count -> T]
    <3> DEFINE T == {l[i] : i \in 1..three} \cup {m[i] : i \in 1..count}
    <3>1. l \in [1..three -> T] /\ m \in [1..count -> T]
      BY <2>2
    <3> QED  BY <3>1
  <2>4. l \in Seq(T) /\ m \in Seq(T)
    BY <1>5, <2>3
  <2>5. lm \in Seq(T) /\ Len(lm) = three + count
    BY <1>12, <1>13, <2>4 DEF Chained
  <2>6. lm = [i \in 1..(three + count) |-> lm[i]]
    BY <2>1, <2>5
  <2> QED  BY <2>1, <2>6 DEF Listed
<1>15. PICK all : all = lm \o n
  OBVIOUS
<1>16. Chained(all, lm, n, three + count, one)
  <2>1. Listed(n, one)
    BY <1>4, <1>11
  <2> QED  BY <1>14, <1>15, <2>1, Joined
<1>17. /\ Len(all) = 3 + count + 1 /\ \A i \in 1..3 : all[i] = l[i]
       /\ \A i \in 1..count : all[3 + i] = m[i]
       /\ all[3 + count + 1] = n[1]
  <2>1. \A i \in 1..(3 + count) : all[i] = lm[i]
    BY <1>10, <1>16 DEF Chained
  <2>2. /\ \A i \in 1..3 : lm[i] = l[i]
        /\ \A i \in 1..count : lm[3 + i] = m[i]
    BY <1>10, <1>13 DEF Chained
  <2>3. Len(all) = 3 + count + 1 /\ all[3 + count + 1] = n[1]
    BY <1>10, <1>11, <1>16 DEF Chained
  <2>4. (\A i \in 1..3 : i \in 1..(3 + count)) /\ \A i \in 1..count : 3 + i \in 1..(3 + count)
    BY <1>5
  <2> QED  BY <2>1, <2>2, <2>3, <2>4
<1>18. \A i \in 1..Len(all) : all[i][2] # Passed
  <2> SUFFICES ASSUME NEW i \in 1..Len(all)  PROVE all[i][2] # Passed
    OBVIOUS
  <2>1. i \in 1..3 \/ i - 3 \in 1..count \/ i = 3 + count + 1
    <3>1. Len(all) = 3 + count + 1
      BY <1>17
    <3> QED  BY <1>5, <3>1
  <2>2. CASE i \in 1..3
    BY <1>8, <1>17, <2>2
  <2>3. CASE i - 3 \in 1..count
    <3>1. PICK j \in 1..count : i = 3 + j
      <4>1. i \in Int
        BY <1>5, <1>17
      <4> QED  BY <2>3, <4>1
    <3>2. all[i] = m[j]
      BY <1>17, <3>1
    <3> QED  BY <1>9, <3>2
  <2>4. CASE i = 3 + count + 1
    BY <1>9, <1>17, <2>4
  <2> QED  BY <2>1, <2>2, <2>3, <2>4
<1>19. FirstError(all) = Passed /\ Len(all) \in Nat
  BY <1>1, <1>5, <1>12, <1>15, <1>17
<1>20. \A i \in 1..Len(all) : ~all[i][1]
  BY <1>18, <1>19, AllHold
<1>21. ~b /\ ~c
  <2>1. 2 \in 1..Len(all) /\ 3 \in 1..Len(all) /\ all[2] = l[2] /\ all[3] = l[3]
    BY <1>5, <1>17
  <2> QED  BY <1>6, <1>7, <1>20, <2>1
<1> QED  BY <1>21 DEF b, c, count

\* What a sharded envelope says of shard i.
ShardAt(o, e, i) ==
  /\ e.contract.release.shards[i].salt = <<o.nonce, i>>
  /\ e.contract.release.shards[i].commitment = shard_commitment(ShardKeyOf(o, i))
  /\ ~SolutionCheck(read_solution_file(o.solutions[i]))[1]
  /\ e.shards[i] = Box(ShardKeyOf(o, i), shard_aad(proposal_core(e.contract, e.nonce), i),
                       [x |-> i, y |-> evaluate_polynomial(o.cek, o.polynomial, i)])
ShardedParts(o, e) ==
  /\ e.error = Passed
  /\ e.contract.release.kind = "Sharded" /\ e.contract.release.threshold = ThresholdOf(o)
  /\ e.contract.release.memory = o.memory /\ e.contract.release.iterations = o.iterations
  /\ Len(e.contract.release.shards) = Len(o.solutions)
  /\ Len(o.solutions) \in 2..MaxShares /\ ThresholdOf(o) \in 1..Len(o.solutions)
  /\ \A i \in 1..Len(o.solutions) : ShardAt(o, e, i)

\* The parts of a sharded capsule, one shard for each solution.
LEMMA ShardedPartsOf ==
  ASSUME NEW k, NEW e, CapsuleDoc(k, e), NEW o, o = Creations[k], Mode(o) = "sharded"
  PROVE  ShardedParts(o, e)
<1>1. PICK shards, threshold, release : ShardedShape(o, e, shards, threshold, release)
  BY ShardedCapsule
<1>2. /\ release.kind = "Sharded" /\ release.threshold = threshold /\ release.shards = shards
      /\ release.memory = o.memory /\ release.iterations = o.iterations
  <2>1. release = Sharded(o.memory, o.iterations, threshold, shards, o.hint)
    BY <1>1 DEF ShardedShape
  <2> QED  BY <2>1 DEF Sharded
<1>3. e.contract.release = release /\ e.nonce = o.nonce /\ e.error = Passed
  <2>1. EnvelopeShape(o, e, "ExactArtifact", Ids(o.recipients), release)
    BY <1>1 DEF ShardedShape
  <2> QED  BY <2>1, Granted DEF EnvelopeShape
<1>4. PICK count \in Nat : count = Len(o.solutions)
  BY CapsuleType
<1>5. Len(shards) = count /\ threshold = ThresholdOf(o) /\ ReleaseError(release) = Passed
  BY <1>1, <1>4 DEF ShardedShape, ShardsOf
<1>6. /\ count \in MinChallengeShards..MaxChallengeShards
      /\ threshold # 0 /\ ~(threshold > count)
  BY <1>2, <1>4, <1>5, ShardLimits
<1>7. threshold \in Nat
  BY <1>4, <1>5, CapsuleType DEF ThresholdOf
<1>8. count # 1
  BY <1>4 DEF Mode
<1>9. count \in 2..MaxShares /\ threshold \in 1..count
  <2>1. MaxChallengeShards \in 1..MaxShares /\ MaxShares \in Nat
    BY CreationAssumption, FieldAssumption DEF FieldSize
  <2>2. count <= MaxChallengeShards
    BY <1>6, <2>1
  <2>3. threshold \in 1..count
    BY <1>4, <1>6, <1>7
  <2>4. MaxChallengeShards \in Nat /\ MaxChallengeShards <= MaxShares
    BY <2>1
  <2>5. count >= 2 /\ count <= MaxShares
    <3>1. count >= 1
      BY <2>3
    <3>2. count >= 2
      BY <1>8, <3>1
    <3> QED  BY <2>1, <2>2, <2>4, <3>2
  <2> QED  BY <1>4, <2>1, <2>3, <2>5
<1>10. ASSUME NEW i \in 1..count  PROVE ShardAt(o, e, i)
  <2>1. /\ shards[i].salt = <<o.nonce, i>> /\ shards[i].commitment = shard_commitment(ShardKeyOf(o, i))
        /\ ~SolutionCheck(read_solution_file(o.solutions[i]))[1]
    BY <1>1, <1>4 DEF ShardedShape, ShardsOf
  <2>2. e.shards[i] = Box(ShardKeyOf(o, i), shard_aad(proposal_core(e.contract, o.nonce), i),
                          split_secret(o.cek, count, o.polynomial)[i])
    BY <1>1, <1>4 DEF ShardedShape
  <2>3. split_secret(o.cek, count, o.polynomial)[i] = [x |-> i, y |-> evaluate_polynomial(o.cek, o.polynomial, i)]
    BY DEF split_secret
  <2> QED  BY <1>2, <1>3, <2>1, <2>2, <2>3 DEF ShardAt
<1> QED  BY <1>2, <1>3, <1>4, <1>5, <1>9, <1>10 DEF ShardedParts

\* A sub-solution is accepted for its shard, and for no other
\* (verify_challenge_shard).
LEMMA ShardAccepted ==
  ASSUME NEW o, NEW e, ShardedParts(o, e), NEW i, NEW solution
  PROVE  /\ verify_challenge_shard(e, i, solution) = Passed
              <=> i \in 1..Len(o.solutions) /\ solution = read_solution_file(o.solutions[i])
         /\ i \in 1..Len(o.solutions) =>
              ShardKey(e, i, read_solution_file(o.solutions[i])) = ShardKeyOf(o, i)
<1> DEFINE r == e.contract.release
           a == Len(solution) \notin 1..MaxSolutionBytes
           b == shard_commitment(ShardKey(e, i, solution)) # r.shards[i].commitment
<1>1. verify_challenge_shard(e, i, solution) =
        IF e.error # Passed THEN e.error
        ELSE IF r.kind # "Sharded" THEN "UnsupportedReleasePolicy"
        ELSE IF i \notin 1..Len(r.shards) THEN "InvalidShare"
        ELSE FirstError(<< <<a, "InvalidContent">>, <<b, "AuthenticationFailed">> >>)
  BY Zenon DEF verify_challenge_shard, SolutionCheck
<1>2. /\ e.error = Passed /\ r.kind = "Sharded" /\ Len(r.shards) = Len(o.solutions)
      /\ r.memory = o.memory /\ r.iterations = o.iterations
  BY DEF ShardedParts
<1>3. "InvalidShare" # Passed
  BY DEF Passed
<1>4. ASSUME i \in 1..Len(o.solutions)
      PROVE  /\ ~a /\ ~b <=> solution = read_solution_file(o.solutions[i])
             /\ ShardKey(e, i, read_solution_file(o.solutions[i])) = ShardKeyOf(o, i)
  <2>1. ShardAt(o, e, i)
    BY <1>4 DEF ShardedParts
  <2>2. \A s : ShardKey(e, i, s) = derive_key_at(s, <<o.nonce, i>>, o.memory, o.iterations)
    BY <1>2, <2>1 DEF ShardKey, ShardAt
  <2>3. ShardKey(e, i, read_solution_file(o.solutions[i])) = ShardKeyOf(o, i)
    BY <2>2 DEF ShardKeyOf
  <2>4. PICK own : own = read_solution_file(o.solutions[i])
    OBVIOUS
  <2>5. ~b <=> solution = own
    BY <2>1, <2>2, <2>4 DEF ShardAt, ShardKeyOf, shard_commitment, derive_key_at
  <2>6. solution = own => ~a
    BY <2>1, <2>4 DEF ShardAt, SolutionCheck
  <2> QED  BY <2>3, <2>4, <2>5, <2>6
<1>5. FirstError(<< <<a, "InvalidContent">>, <<b, "AuthenticationFailed">> >>) = Passed <=> ~a /\ ~b
  <2>1. a \in BOOLEAN /\ b \in BOOLEAN
    OBVIOUS
  <2>2. /\ a => "InvalidContent" # Passed
        /\ b => "AuthenticationFailed" # Passed
    BY DEF Passed
  <2> HIDE DEF a, b
  <2> QED  BY <2>1, <2>2, TwoChecks
<1> HIDE DEF a, b
<1> QED  BY <1>1, <1>2, <1>3, <1>4, <1>5

\* What `check` reports of a shard is whether the answer is its solution.
LEMMA CheckReport ==
  ASSUME DocInv, NEW k, Readable(CapsulePath(k)), NEW i, NEW file \in SolutionFiles, check_challenge_command(k, i, file)
  PROVE  \E r : Report("access", r) /\ Opened(r)
<1>1. PICK e : e = Envelope(k)
  OBVIOUS
<1>2. PICK o : o = Creations[k]
  OBVIOUS
<1>3. PICK solution : solution = read_solution_file(file)
  OBVIOUS
<1> DEFINE error == verify_challenge_shard(e, i, solution)
           r == [kind |-> "check", capsule |-> k, entries |-> <<(<<i, file>>)>>, result |-> [error |-> error]]
<1>4. Report("access", r)
  BY <1>1, <1>3, Zenon DEF check_challenge_command
<1>5. CapsuleDoc(k, e)
  BY <1>1, CapsuleRead DEF Envelope
<1>6. ReleaseSays(o, e)
  BY <1>2, <1>5, ReleaseKind
<1>7. error = Passed <=> Mode(o) = "sharded" /\ i \in 1..Len(o.solutions) /\ TextOf(file) = TextOf(o.solutions[i])
  <2>1. CASE Mode(o) # "sharded"
    BY <1>6, <2>1, Refused DEF ReleaseSays
  <2>2. CASE Mode(o) = "sharded"
    <3>1. ShardedParts(o, e)
      BY <1>2, <1>5, <2>2, ShardedPartsOf
    <3>2. error = Passed <=> i \in 1..Len(o.solutions) /\ solution = read_solution_file(o.solutions[i])
      BY <3>1, ShardAccepted
    <3>3. solution = TextOf(file)
      BY <1>3, SolutionAssumption, SolutionText
    <3>4. \A j \in 1..Len(o.solutions) : read_solution_file(o.solutions[j]) = TextOf(o.solutions[j])
      BY <1>2, <1>5, SolutionAssumption, SolutionText DEF CapsuleDoc
    <3> HIDE DEF error
    <3> QED  BY <2>2, <3>2, <3>3, <3>4
  <2> QED  BY <2>1, <2>2
<1> HIDE DEF error
<1>8. /\ r.kind = "check" /\ r.capsule = k /\ r.entries[1][1] = i /\ r.entries[1][2] = file
      /\ r.result.error = error
  OBVIOUS
<1> HIDE DEF r
<1>9. MayOpen(r) = (Mode(o) = "sharded" /\ i \in 1..Len(o.solutions) /\ TextOf(file) = TextOf(o.solutions[i]))
  BY <1>2, <1>8 DEF MayOpen, Solved
<1>10. (r.result.error = Passed) = MayOpen(r)
  BY <1>7, <1>8, <1>9
<1>11. Opened(r)
  BY <1>8, <1>10 DEF Opened
<1> QED  BY <1>4, <1>11

\* As many sub-solutions as the threshold, each of a shard of its own, release
\* the content key (release_sharded_cek).
Solves(o, entries) ==
  /\ Len(entries) = ThresholdOf(o)
  /\ \A i \in 1..Len(entries) :
       entries[i][1] \in 1..Len(o.solutions) /\ entries[i][2] = read_solution_file(o.solutions[entries[i][1]])
  /\ \A i, j \in 1..Len(entries) : i # j => entries[i][1] # entries[j][1]

\* The values under the threshold of distinct shards combine to the content key.
LEMMA SharesCombine ==
  ASSUME NEW count \in 1..MaxShares, NEW secret \in Element, NEW coefficients \in [1..(count - 1) -> Element],
         NEW xs \in [1..count -> 1..MaxShares], Distinct(xs, count),
         NEW shares, shares = SharesAt(secret, coefficients, xs, count)
  PROVE  CombineError(shares, count) = Passed /\ combine_shares(shares) = secret
<1>1. MaxShares \in Nat /\ count \in Nat
  BY FieldAssumption DEF FieldSize
<1>2. Len(shares) = count /\ \A i \in 1..count : shares[i].x = xs[i]
  BY <1>1 DEF SharesAt
<1> DEFINE a == Len(shares) = 0 \/ Len(shares) > MaxShares \/ count = 0 \/ count > Len(shares)
           b == Len(shares) # count
           c == \E i \in 1..Len(shares) : shares[i].x = 0
           d == \E i, j \in 1..Len(shares) : i < j /\ shares[i].x = shares[j].x
<1>3. CombineError(shares, count) = FirstError(<< <<a, "InvalidThreshold">>, <<b, "InvalidShare">>,
                                                 <<c, "InvalidShare">>, <<d, "InvalidShare">> >>)
  BY Zenon DEF CombineError, validate_parameters
<1>4. ~a /\ ~b
  BY <1>1, <1>2
<1>5. ~c
  <2>1. \A i \in 1..count : xs[i] # 0
    BY <1>1
  <2> QED  BY <1>2, <2>1
<1>6. ~d
  <2>1. \A i, j \in 1..count : i < j => xs[i] # xs[j]
    BY <1>1 DEF Distinct
  <2> QED  BY <1>2, <2>1
<1>7. a \in BOOLEAN /\ b \in BOOLEAN /\ c \in BOOLEAN /\ d \in BOOLEAN
  OBVIOUS
<1>8. FirstError(<< <<a, "InvalidThreshold">>, <<b, "InvalidShare">>, <<c, "InvalidShare">>,
                    <<d, "InvalidShare">> >>) = Passed
  <2> HIDE DEF a, b, c, d
  <2> QED  BY <1>4, <1>5, <1>6, <1>7, FourChecks
<1>9. combine_shares(shares) = secret
  BY Interpolation
<1> QED  BY <1>3, <1>8, <1>9

\* Solved shards release the content exactly when there are enough distinct ones.
LEMMA ShardsRelease ==
  ASSUME NEW o, NEW e, ShardedParts(o, e), o.cek \in Element,
         o.polynomial \in [1..(ThresholdOf(o) - 1) -> Element], NEW entries, Len(entries) \in Nat
  PROVE  /\ Solves(o, entries) => release_sharded_cek(e, entries) = Got(o.cek)
         /\ ~Solves(o, entries) => release_sharded_cek(e, entries).error # Passed
<1> DEFINE count == Len(entries)
           r == e.contract.release
           core == proposal_core(e.contract, e.nonce)
           Again(k) == \E j \in 1..(k - 1) : entries[j][1] = entries[k][1]
           EntryError(k) == IF \E j \in 1..(k - 1) : entries[j][1] = entries[k][1] THEN "InvalidShare"
                            ELSE verify_challenge_shard(e, entries[k][1], entries[k][2])
           l == [k \in 1..count |-> <<EntryError(k) # Passed, EntryError(k)>>]
           entryErrors == FirstError(l)
           Wrapped(k) == e.shards[entries[k][1]]
           closed == \E k \in 1..count :
                       ~Opens(Wrapped(k), ShardKey(e, entries[k][1], entries[k][2]), shard_aad(core, entries[k][1]))
           shares == [k \in 1..count |-> Wrapped(k).message]
<1>1. release_sharded_cek(e, entries) =
        IF e.error # Passed THEN Failed(e.error)
        ELSE IF r.kind # "Sharded" THEN Failed("UnsupportedReleasePolicy")
        ELSE IF count # r.threshold THEN Failed("InvalidShare")
        ELSE IF entryErrors # Passed THEN Failed(entryErrors)
        ELSE IF closed THEN Failed("AuthenticationFailed")
        ELSE IF CombineError(shares, r.threshold) # Passed THEN Failed(CombineError(shares, r.threshold))
             ELSE Got(combine_shares(shares))
  BY Zenon DEF release_sharded_cek
<1>2. e.error = Passed /\ r.kind = "Sharded" /\ r.threshold = ThresholdOf(o)
  BY DEF ShardedParts
<1>3. /\ Failed("InvalidShare").error # Passed
      /\ entryErrors # Passed => Failed(entryErrors).error # Passed
  BY DEF Failed, Passed
<1> DEFINE Fits(k) == /\ entries[k][1] \in 1..Len(o.solutions)
                      /\ entries[k][2] = read_solution_file(o.solutions[entries[k][1]])
<1>4. ASSUME NEW k \in 1..count  PROVE EntryError(k) = Passed <=> ~Again(k) /\ Fits(k)
  <2>1. verify_challenge_shard(e, entries[k][1], entries[k][2]) = Passed <=> Fits(k)
    BY ShardAccepted
  <2>2. "InvalidShare" # Passed
    BY DEF Passed
  <2>3. EntryError(k) = IF Again(k) THEN "InvalidShare" ELSE verify_challenge_shard(e, entries[k][1], entries[k][2])
    OBVIOUS
  <2> HIDE DEF Again, Fits
  <2> QED  BY <2>1, <2>2, <2>3
<1>5. entryErrors = Passed <=> \A k \in 1..count : EntryError(k) = Passed
  <2>1. Len(l) = count /\ count \in Nat
    OBVIOUS
  <2>2. \A k \in 1..count : l[k][1] <=> EntryError(k) # Passed
    OBVIOUS
  <2>3. \A k \in 1..count : l[k][2] = EntryError(k)
    OBVIOUS
  <2> HIDE DEF l, EntryError
  <2>4. (\A k \in 1..count : ~l[k][1]) => FirstError(l) = Passed
    BY <2>1, NoneFails
  <2>5. FirstError(l) = Passed => \A k \in 1..count : ~l[k][1]
    BY <2>1, <2>2, <2>3, AllHold
  <2> QED  BY <2>2, <2>4, <2>5
<1>6. (\A k \in 1..count : ~Again(k)) <=> \A i, j \in 1..count : i # j => entries[i][1] # entries[j][1]
  <2>1. ASSUME \A k \in 1..count : ~Again(k), NEW i \in 1..count, NEW j \in 1..count, i # j
        PROVE  entries[i][1] # entries[j][1]
    <3>1. CASE i < j
      <4>1. i \in 1..(j - 1)
        BY <3>1
      <4> QED  BY <2>1, <4>1
    <3>2. CASE j < i
      <4>1. j \in 1..(i - 1)
        BY <3>2
      <4> QED  BY <2>1, <4>1
    <3> QED  BY <2>1, <3>1, <3>2
  <2>2. ASSUME \A i, j \in 1..count : i # j => entries[i][1] # entries[j][1], NEW k \in 1..count, Again(k)
        PROVE  FALSE
    <3>1. PICK j \in 1..(k - 1) : entries[j][1] = entries[k][1]
      BY <2>2
    <3>2. j \in 1..count /\ j # k
      OBVIOUS
    <3> QED  BY <2>2, <3>1, <3>2
  <2> QED  BY <2>1, <2>2
<1>7. entryErrors = Passed /\ count = ThresholdOf(o) <=> Solves(o, entries)
  <2> HIDE DEF Again, EntryError, entryErrors
  <2>1. (\A k \in 1..count : EntryError(k) = Passed)
          <=> (\A k \in 1..count : ~Again(k)) /\ (\A k \in 1..count : Fits(k))
    BY <1>4
  <2> QED  BY <1>5, <1>6, <2>1 DEF Solves
<1>8. CASE ~Solves(o, entries)
  <2> HIDE DEF entryErrors, closed, shares
  <2> QED  BY <1>1, <1>2, <1>3, <1>7, <1>8
<1>9. CASE Solves(o, entries)
  <2>1. /\ entryErrors = Passed /\ count = ThresholdOf(o)
        /\ \A k \in 1..count : Fits(k)
    BY <1>7, <1>9 DEF Solves
  <2> DEFINE xs == [k \in 1..count |-> entries[k][1]]
  <2>2. \A k \in 1..count : ShardAt(o, e, entries[k][1])
    BY <2>1 DEF ShardedParts
  <2>3. ~closed
    <3> SUFFICES ASSUME NEW k \in 1..count
                 PROVE  Opens(Wrapped(k), ShardKey(e, entries[k][1], entries[k][2]), shard_aad(core, entries[k][1]))
      OBVIOUS
    <3>1. PICK i : i = entries[k][1] /\ i \in 1..Len(o.solutions)
      BY <2>1
    <3>2. ShardKey(e, i, entries[k][2]) = ShardKeyOf(o, i)
      BY <2>1, <3>1, ShardAccepted
    <3>3. Wrapped(k) = Box(ShardKeyOf(o, i), shard_aad(core, i),
                           [x |-> i, y |-> evaluate_polynomial(o.cek, o.polynomial, i)])
      BY <2>2, <3>1 DEF ShardAt
    <3> HIDE DEF Wrapped
    <3> QED  BY <3>1, <3>2, <3>3 DEF Opens, Box
  <2>4. shares = SharesAt(o.cek, o.polynomial, xs, count)
    <3>1. ASSUME NEW k \in 1..count
          PROVE  Wrapped(k).message = [x |-> xs[k], y |-> evaluate_polynomial(o.cek, o.polynomial, xs[k])]
      <4>1. PICK i : i = entries[k][1]
        OBVIOUS
      <4>2. xs[k] = i
        BY <4>1
      <4>3. Wrapped(k) = Box(ShardKeyOf(o, i), shard_aad(core, i),
                             [x |-> i, y |-> evaluate_polynomial(o.cek, o.polynomial, i)])
        BY <2>2, <4>1 DEF ShardAt
      <4> HIDE DEF Wrapped, xs
      <4> QED  BY <4>2, <4>3 DEF Box
    <3> HIDE DEF xs, Wrapped
    <3> QED  BY <3>1 DEF SharesAt
  <2>5. /\ count \in 1..MaxShares /\ xs \in [1..count -> 1..MaxShares] /\ Distinct(xs, count)
    <3>1. Len(o.solutions) \in 2..MaxShares /\ ThresholdOf(o) \in 1..Len(o.solutions) /\ MaxShares \in Nat
      BY FieldAssumption DEF ShardedParts, FieldSize
    <3>2. count \in 1..MaxShares
      BY <2>1, <3>1
    <3>3. \A k \in 1..count : entries[k][1] \in 1..MaxShares
      BY <2>1, <3>1
    <3>4. \A i, j \in 1..count : i # j => entries[i][1] # entries[j][1]
      BY <1>9 DEF Solves
    <3>5. Distinct(xs, count)
      BY <3>4 DEF Distinct
    <3> QED  BY <3>2, <3>3, <3>5
  <2>6. o.polynomial \in [1..(count - 1) -> Element]
    BY <2>1
  <2> HIDE DEF xs, shares, count, closed, entryErrors
  <2>7. CombineError(shares, count) = Passed /\ combine_shares(shares) = o.cek
    BY <2>4, <2>5, <2>6, SharesCombine
  <2>8. release_sharded_cek(e, entries) = Got(o.cek)
    BY <1>1, <1>2, <2>1, <2>3, <2>7
  <2> QED  BY <1>9, <2>8
<1> QED  BY <1>8, <1>9

\* What `solve-shards` reports is what the creation grants.
LEMMA ShardsReport ==
  ASSUME DocInv, NEW k, Readable(CapsulePath(k)), NEW entries \in Attempts, solve_shards_command(k, entries)
  PROVE  \E r : Report("access", r) /\ Opened(r)
<1>1. PICK e : e = Envelope(k)
  OBVIOUS
<1>2. PICK o : o = Creations[k]
  OBVIOUS
<1>3. PICK read : read = read_shard_solutions(entries)
  OBVIOUS
<1> DEFINE result == IF "Reconstruct" \notin e.contract.capabilities THEN Failed("Policy")
                     ELSE OpenReleased(e, release_sharded_cek(e, read))
           r == [kind |-> "solve-shards", capsule |-> k, entries |-> entries, result |-> result]
<1>4. Report("access", r)
  BY <1>1, <1>3, Zenon DEF solve_shards_command
<1>5. CapsuleDoc(k, e)
  BY <1>1, CapsuleRead DEF Envelope
<1>6. ReleaseSays(o, e)
  BY <1>2, <1>5, ReleaseKind
<1> DEFINE cek == release_sharded_cek(e, read)
<1>7. OpenReleased(e, cek) = IF cek.error # Passed THEN cek ELSE decrypt_payload_core(e, cek.content)
  BY Zenon DEF OpenReleased
<1>8. /\ Failed("Policy").error # Passed /\ Got(o.content).error = Passed /\ Got(o.content).content = o.content
      /\ Got(o.cek).error = Passed /\ Got(o.cek).content = o.cek
  BY DEF Failed, Got, Passed
<1> DEFINE may == /\ Mode(o) = "sharded" /\ Len(entries) = ThresholdOf(o)
                  /\ \A i \in 1..Len(entries) : Solved(o, entries[i])
                  /\ \A i, j \in 1..Len(entries) : i # j => entries[i][1] # entries[j][1]
<1>9. IF may THEN result = Got(o.content) ELSE result.error # Passed
  <2>1. CASE Mode(o) # "sharded"
    <3>1. cek.error # Passed
      BY <1>6, <2>1, Refused DEF ReleaseSays
    <3> HIDE DEF cek
    <3>2. result.error # Passed
      BY <1>7, <1>8, <3>1 DEF cek
    <3> QED  BY <2>1, <3>2
  <2>2. CASE Mode(o) = "sharded"
    <3>1. ShardedParts(o, e)
      BY <1>2, <1>5, <2>2, ShardedPartsOf
    <3>2. o.cek \in Element /\ o.polynomial \in [1..(ThresholdOf(o) - 1) -> Element]
      <4>1. Len(o.solutions) > 1
        BY <3>1 DEF ShardedParts
      <4> QED  BY <1>2, <1>5, <4>1, CapsuleType
    <3>3. Len(read) = Len(entries) /\ Len(entries) \in Nat
      BY <1>3, SolutionAssumption DEF read_shard_solutions
    <3>4. \A i \in 1..Len(entries) : read[i][1] = entries[i][1] /\ read[i][2] = TextOf(entries[i][2])
      <4>1. \A i \in 1..Len(entries) : read[i] = <<entries[i][1], read_solution_file(entries[i][2])>>
        BY <1>3 DEF read_shard_solutions
      <4>2. \A i \in 1..Len(entries) : read_solution_file(entries[i][2]) = TextOf(entries[i][2])
        BY SolutionAssumption, SolutionText
      <4> QED  BY <4>1, <4>2
    <3>5. \A i \in 1..Len(o.solutions) : read_solution_file(o.solutions[i]) = TextOf(o.solutions[i])
      BY <1>2, <1>5, SolutionAssumption, SolutionText DEF CapsuleDoc
    <3>6. \A i \in 1..Len(entries) :
            Solved(o, entries[i]) <=> /\ read[i][1] \in 1..Len(o.solutions)
                                      /\ read[i][2] = read_solution_file(o.solutions[read[i][1]])
      BY <3>4, <3>5 DEF Solved
    <3>7. Solves(o, read) <=> may
      BY <2>2, <3>3, <3>4, <3>6 DEF Solves
    <3>8. "Reconstruct" \in e.contract.capabilities
      BY <1>6, <2>2 DEF ReleaseSays
    <3>9. CASE Solves(o, read)
      <4>1. cek = Got(o.cek)
        BY <3>1, <3>2, <3>3, <3>9, ShardsRelease
      <4>2. decrypt_payload_core(e, o.cek) = Got(o.content)
        <5>1. PICK shards, threshold, release : ShardedShape(o, e, shards, threshold, release)
          BY <1>2, <1>5, <2>2, ShardedCapsule
        <5>2. /\ EnvelopeShape(o, e, "ExactArtifact", Ids(o.recipients), release)
              /\ validate_plaintext_content(o.content, "ExactArtifact") = Passed
          BY <5>1 DEF ShardedShape
        <5> QED  BY <5>2, PayloadOpens
      <4> HIDE DEF cek
      <4>3. OpenReleased(e, cek) = Got(o.content)
        BY <1>7, <1>8, <4>1, <4>2
      <4>4. result = Got(o.content)
        BY <3>8, <4>3 DEF cek
      <4> HIDE DEF result
      <4> QED  BY <3>7, <3>9, <4>4
    <3>10. CASE ~Solves(o, read)
      <4>1. cek.error # Passed
        BY <3>1, <3>2, <3>3, <3>10, ShardsRelease
      <4> HIDE DEF cek
      <4>2. result.error # Passed
        BY <1>7, <1>8, <4>1 DEF cek
      <4> HIDE DEF result
      <4> QED  BY <3>7, <3>10, <4>2
    <3> QED  BY <3>9, <3>10
  <2> QED  BY <2>1, <2>2
<1> HIDE DEF result, cek
<1>10. r.kind = "solve-shards" /\ r.capsule = k /\ r.entries = entries /\ r.result = result
  OBVIOUS
<1> HIDE DEF r
<1>11. MayOpen(r) = may
  BY <1>2, <1>10 DEF MayOpen
<1> HIDE DEF may
<1>12. (r.result.error = Passed) = MayOpen(r)
  <2>1. may \in BOOLEAN
    BY DEF may
  <2> QED  BY <1>8, <1>9, <1>10, <1>11, <2>1
<1>13. r.result.error = Passed => r.result.content = o.content
  BY <1>8, <1>9, <1>10
<1>14. Opened(r)
  BY <1>2, <1>10, <1>12, <1>13 DEF Opened
<1> QED  BY <1>4, <1>14

-----------------------------------------------------------------------------
(* Sequences of keys.                                                      *)

\* The layers of a slot, the content key innermost.
Layered(f, o, core, s, n) ==
  f = [i \in 0..n |->
         IF i = 0 THEN o.cek
         ELSE single_shot_seal(Identity[s[i]].encryption, sequence_slot_info(o.nonce, Id(s[i]), i), core, f[i - 1])]

\* The layers of a slot are a function that exists: its equation can be solved.
LEMMA LayersExist ==
  ASSUME NEW o, NEW core, NEW s, NEW n \in Nat
  PROVE  \E f : Layered(f, o, core, s, n)
<1> DEFINE S == {m \in Nat : ~\E f : Layered(f, o, core, s, m)}
<1> SUFFICES ASSUME S # {}  PROVE FALSE
  OBVIOUS
<1>1. PICK m \in S : \A j \in S : m <= j
  <2>1. S \subseteq Nat
    OBVIOUS
  <2> HIDE DEF S
  <2> QED  BY <2>1, Smallest
<1>2. m \in Nat /\ ~\E f : Layered(f, o, core, s, m)
  OBVIOUS
<1>3. m # 0
  <2> SUFFICES ASSUME m = 0  PROVE FALSE
    OBVIOUS
  <2> DEFINE f == [i \in 0..0 |-> o.cek]
  <2>1. Layered(f, o, core, s, 0)
    BY DEF Layered
  <2> QED  BY <1>2, <2>1
<1>4. m - 1 \in Nat /\ m - 1 \notin S
  BY <1>1, <1>2, <1>3
<1>5. PICK f : Layered(f, o, core, s, m - 1)
  BY <1>4
<1> DEFINE Around(i, v) == single_shot_seal(Identity[s[i]].encryption, sequence_slot_info(o.nonce, Id(s[i]), i), core, v)
           g == [i \in 0..m |-> IF i = m THEN Around(m, f[m - 1]) ELSE f[i]]
<1>6. \A i \in 0..(m - 1) : f[i] = IF i = 0 THEN o.cek ELSE Around(i, f[i - 1])
  BY <1>5 DEF Layered
<1> HIDE DEF Around, S
<1>7. \A i \in 0..m : g[i] = IF i = 0 THEN o.cek ELSE Around(i, g[i - 1])
  <2> SUFFICES ASSUME NEW i \in 0..m  PROVE g[i] = IF i = 0 THEN o.cek ELSE Around(i, g[i - 1])
    OBVIOUS
  <2>1. CASE i = m
    <3>1. g[m] = Around(m, f[m - 1]) /\ g[m - 1] = f[m - 1]
      BY <1>2, <1>3
    <3> QED  BY <1>3, <2>1, <3>1
  <2>2. CASE i # m
    <3>1. i \in 0..(m - 1) /\ g[i] = f[i]
      BY <1>2, <2>2
    <3>2. i # 0 => g[i - 1] = f[i - 1]
      BY <1>2, <3>1
    <3> HIDE DEF g
    <3> QED  BY <1>6, <3>1, <3>2
  <2> QED  BY <2>1, <2>2
<1>8. g = [i \in 0..m |-> IF i = 0 THEN o.cek ELSE Around(i, g[i - 1])]
  BY <1>7
<1>9. Layered(g, o, core, s, m)
  <2>1. PICK h : h = g
    OBVIOUS
  <2>2. h = [i \in 0..m |-> IF i = 0 THEN o.cek ELSE Around(i, h[i - 1])]
    BY <1>8, <2>1, Zenon
  <2> HIDE DEF g
  <2>3. Layered(h, o, core, s, m)
    BY <2>2, Zenon DEF Layered, Around
  <2> QED  BY <2>1, <2>3
<1> QED  BY <1>2, <1>9

\* The box of a slot is the outermost of its layers.
LEMMA SlotLayers ==
  ASSUME NEW o, NEW core, NEW s, NEW n \in Nat, Len(s) = n
  PROVE  \E f : Layered(f, o, core, s, n) /\ SequenceSlot(o, core, s) = f[n]
<1> DEFINE layer == CHOOSE f : f = [i \in 0..Len(s) |->
              IF i = 0 THEN o.cek
              ELSE single_shot_seal(Identity[s[i]].encryption, sequence_slot_info(o.nonce, Id(s[i]), i), core,
                                    f[i - 1])]
<1>1. SequenceSlot(o, core, s) = layer[Len(s)]
  BY DEF SequenceSlot
<1>2. \E f : Layered(f, o, core, s, Len(s))
  BY LayersExist
<1>3. Layered(layer, o, core, s, Len(s))
  BY <1>2, Zenon DEF Layered
<1> HIDE DEF layer
<1> QED  BY <1>1, <1>3

\* The ids of a list of names determine it, and so do a recipe and its holder.
LEMMA IdsOf ==
  ASSUME NEW s \in Seq(Name), NEW t \in Seq(Name)
  PROVE  /\ Ids(s) = Ids(t) <=> s = t
         /\ Len(s) >= 1 => Append(Ids(Front(s)), Id(Last(s))) = Ids(s)
<1>1. /\ Len(s) \in Nat /\ \A i \in 1..Len(s) : s[i] \in Name
      /\ Len(t) \in Nat /\ \A i \in 1..Len(t) : t[i] \in Name
  OBVIOUS
<1>2. ASSUME Ids(s) = Ids(t)  PROVE s = t
  <2>1. /\ Len(Ids(s)) = Len(s) /\ \A i \in 1..Len(s) : Ids(s)[i] = Id(s[i])
        /\ Len(Ids(t)) = Len(t) /\ \A i \in 1..Len(t) : Ids(t)[i] = Id(t[i])
    BY <1>1 DEF Ids
  <2>2. Len(s) = Len(t) /\ \A i \in 1..Len(s) : Id(s[i]) = Id(t[i])
    BY <1>2, <2>1
  <2>3. \A i \in 1..Len(s) : s[i] = t[i]
    BY <1>1, <2>2, DistinctIds
  <2> QED  BY <2>2, <2>3
<1>3. ASSUME Len(s) >= 1  PROVE Append(Ids(Front(s)), Id(Last(s))) = Ids(s)
  <2>1. PICK n \in Nat : n = Len(s) - 1
    BY <1>1, <1>3
  <2>2. PICK front : front = Front(s)
    OBVIOUS
  <2>3. Len(front) = n /\ \A i \in 1..n : front[i] = s[i]
    BY <1>1, <2>1, <2>2 DEF Front
  <2>4. PICK ids : ids = Ids(front)
    OBVIOUS
  <2> DEFINE T == {Id(m) : m \in Name}
  <2>5. ids \in [1..n -> T] /\ \A i \in 1..n : ids[i] = Id(s[i])
    <3>1. ids = [i \in 1..n |-> Id(front[i])]
      BY <2>3, <2>4 DEF Ids
    <3>2. \A i \in 1..n : Id(s[i]) \in T
      BY <1>1, <2>1
    <3> HIDE DEF T
    <3> QED  BY <2>3, <3>1, <3>2
  <2>6. Last(s) = s[n + 1] /\ Id(s[n + 1]) \in T
    BY <1>1, <2>1 DEF Last
  <2> HIDE DEF T
  <2>7. ids \in Seq(T) /\ Len(ids) = n
    BY <2>5
  <2>8. PICK all : all = Append(ids, Id(s[n + 1]))
    OBVIOUS
  <2>9. all \in Seq(T) /\ Len(all) = n + 1 /\ (\A i \in 1..n : all[i] = ids[i]) /\ all[n + 1] = Id(s[n + 1])
    BY <2>6, <2>7, <2>8
  <2>10. \A i \in 1..(n + 1) : all[i] = Id(s[i])
    BY <2>5, <2>9
  <2>11. all = [i \in 1..(n + 1) |-> Id(s[i])]
    BY <2>9, <2>10
  <2>12. Len(s) = n + 1
    BY <1>1, <2>1
  <2> QED  BY <2>2, <2>4, <2>6, <2>8, <2>11, <2>12 DEF Ids
<1> QED  BY <1>2, <1>3

\* The slots of a sequence capsule are one for every list, in some order.
SlotOf(o, e, i, s) ==
  /\ Append(e.recipes[i], e.slots[i].holder) = Ids(s)
  /\ e.slots[i].box = SequenceSlot(o, proposal_core(e.contract, o.nonce), s)

\* There is a slot for every list and for nothing else.
LEMMA SlotsOfLists ==
  ASSUME NEW o, NEW e, NEW depth, NEW principals, SequenceShape(o, e, depth, principals),
         o.sequences \in Seq(Seq(Name))
  PROVE  /\ \A i \in 1..Len(e.slots) : \E s \in Range(o.sequences) : SlotOf(o, e, i, s)
         /\ \A s \in Range(o.sequences) : \E i \in 1..Len(e.slots) : SlotOf(o, e, i, s)
<1>1. PICK count \in Nat : count = Len(o.sequences) /\ \A i \in 1..count : o.sequences[i] \in Seq(Name)
  OBVIOUS
<1>2. Range(o.sequences) = {o.sequences[i] : i \in 1..count}
  BY <1>1, ListRange
<1>3. depth >= 1 /\ \A i \in 1..count : Len(o.sequences[i]) = depth
  <2>1. \A i \in 1..count : o.sequences[i] \in Range(o.sequences)
    BY <1>2
  <2>2. MinDepth \in Nat \ {0} /\ depth \in MinDepth..MaxDepth
    BY CreationAssumption DEF SequenceShape
  <2>3. depth >= 1
    BY <2>2
  <2> QED  BY <2>1, <2>3 DEF SequenceShape
<1>4. PICK outer : outer = [i \in 1..Len(o.sequences) |-> Last(o.sequences[i])]
  OBVIOUS
<1>5. Len(outer) = count /\ \A i \in 1..count : outer[i] \in Nat
  <2>1. Len(outer) = count /\ \A i \in 1..count : outer[i] = Last(o.sequences[i])
    BY <1>1, <1>4
  <2>2. ASSUME NEW i \in 1..count  PROVE Last(o.sequences[i]) \in Nat
    <3>1. PICK s \in Seq(Name) : s = o.sequences[i] /\ Len(s) >= 1
      BY <1>1, <1>3
    <3>2. s[Len(s)] \in Name
      BY <3>1
    <3> QED  BY <3>1, <3>2, IdentityAssumption DEF Last
  <2> QED  BY <2>1, <2>2
<1>6. PICK ordered : ordered = SequenceOrder(o.sequences)
  OBVIOUS
<1>7. Reordered(ordered, o.sequences, count)
  BY <1>1, <1>4, <1>5, <1>6, SortedElements DEF SequenceOrder
<1>8. /\ Len(ordered) = count
      /\ \A i \in 1..count : \E j \in 1..count : ordered[i] = o.sequences[j]
      /\ \A j \in 1..count : \E i \in 1..count : ordered[i] = o.sequences[j]
  BY <1>7, Zenon DEF Reordered
<1>9. PICK core : core = proposal_core(e.contract, o.nonce)
  OBVIOUS
<1>10. /\ e.recipes = [i \in 1..count |-> Ids(Front(ordered[i]))]
       /\ e.slots = [i \in 1..count |->
                      [holder |-> Id(Last(ordered[i])), box |-> SequenceSlot(o, core, ordered[i])]]
  BY <1>6, <1>8, <1>9 DEF SequenceShape, SequenceSlots
<1>11. Len(e.slots) = count
  BY <1>1, <1>10
<1>12. ASSUME NEW i \in 1..count  PROVE SlotOf(o, e, i, ordered[i])
  <2>1. PICK j \in 1..count : ordered[i] = o.sequences[j]
    BY <1>8
  <2>2. PICK s \in Seq(Name) : s = ordered[i] /\ Len(s) >= 1
    BY <1>1, <1>3, <2>1
  <2>3. /\ e.recipes[i] = Ids(Front(s)) /\ e.slots[i].holder = Id(Last(s))
        /\ e.slots[i].box = SequenceSlot(o, core, s)
    BY <1>10, <2>2
  <2>4. Append(Ids(Front(s)), Id(Last(s))) = Ids(s)
    BY <2>2, IdsOf
  <2>5. Append(e.recipes[i], e.slots[i].holder) = Ids(s)
    BY <2>3, <2>4, Zenon
  <2> QED  BY <1>9, <2>2, <2>3, <2>5 DEF SlotOf
<1>13. ASSUME NEW i \in 1..count  PROVE ordered[i] \in Range(o.sequences)
  <2>1. PICK j \in 1..count : ordered[i] = o.sequences[j]
    BY <1>8
  <2> QED  BY <1>2, <2>1
<1>14. ASSUME NEW s \in Range(o.sequences)  PROVE \E i \in 1..count : ordered[i] = s
  <2>1. PICK j \in 1..count : s = o.sequences[j]
    BY <1>2
  <2>2. PICK i \in 1..count : ordered[i] = o.sequences[j]
    BY <1>8
  <2> QED  BY <2>1, <2>2
<1> QED  BY <1>11, <1>12, <1>13, <1>14

\* The keys of a list peel its layers, the last key the outermost.
OpenedBy(f, e, keys, outer, depth) ==
  f = [i \in 0..depth |-> IF i = 0 THEN Got(outer) ELSE OpenLayer(e, keys, f[i - 1], depth + 1 - i)]
OpensFor(o, e, names, depth, keys, outer, opened) ==
  /\ e.nonce = o.nonce /\ names \in Seq(Name) /\ depth \in Nat /\ depth = Len(names)
  /\ \A i \in 1..depth : KeyDoc(names[i], keys[i])
  /\ outer = SequenceSlot(o, proposal_core(e.contract, o.nonce), names)
  /\ opened = CHOOSE f : OpenedBy(f, e, keys, outer, depth)

\* The keys of the list, in its order, take every layer off.
LEMMA LayersOpen ==
  ASSUME NEW o, NEW e, NEW names, NEW depth, NEW keys, NEW outer, NEW opened,
         OpensFor(o, e, names, depth, keys, outer, opened)
  PROVE  opened[depth] = Got(o.cek)
<1>0. /\ e.nonce = o.nonce /\ names \in Seq(Name) /\ depth \in Nat /\ depth = Len(names)
      /\ \A i \in 1..depth : KeyDoc(names[i], keys[i])
      /\ outer = SequenceSlot(o, proposal_core(e.contract, o.nonce), names)
      /\ opened = CHOOSE f : OpenedBy(f, e, keys, outer, depth)
  BY Zenon DEF OpensFor
<1> USE <1>0
<1>1. PICK core : core = proposal_core(e.contract, o.nonce)
  OBVIOUS
<1>2. PICK layer : Layered(layer, o, core, names, depth) /\ outer = layer[depth]
  BY <1>1, SlotLayers
<1>3. /\ layer[0] = o.cek
      /\ \A i \in 1..depth :
           layer[i] = single_shot_seal(Identity[names[i]].encryption, sequence_slot_info(o.nonce, Id(names[i]), i),
                                       core, layer[i - 1])
  <2> DEFINE Around(i, v) ==
               single_shot_seal(Identity[names[i]].encryption, sequence_slot_info(o.nonce, Id(names[i]), i), core, v)
  <2>1. \A i \in 0..depth : layer[i] = IF i = 0 THEN o.cek ELSE Around(i, layer[i - 1])
    BY <1>2 DEF Layered
  <2> HIDE DEF Around
  <2>2. layer[0] = o.cek
    BY <2>1
  <2>3. \A i \in 1..depth : layer[i] = Around(i, layer[i - 1])
    BY <2>1
  <2> QED  BY <2>2, <2>3 DEF Around
<1>4. ASSUME NEW i \in 1..depth  PROVE OpenLayer(e, keys, Got(layer[i]), i) = Got(layer[i - 1])
  <2>1. PICK n \in Name : n = names[i]
    BY <1>4
  <2>2. PICK d : d = keys[i]
    OBVIOUS
  <2>3. d.public = Identity[n] /\ d.box.ikm = Secret[n].ikm
    BY <2>1, <2>2, UnlockExactly
  <2>4. d.public.id = Id(n) /\ Identity[n].encryption = EncryptionKey(d.box.ikm)
    BY <2>3, IdentityParts
  <2> DEFINE info == sequence_slot_info(e.nonce, d.public.id, i)
             box == layer[i]
  <2>5. Got(box).error = Passed /\ Got(box).content = box
    BY DEF Got
  <2>6. OpenLayer(e, keys, Got(box), i) =
          IF Got(box).error # Passed THEN Got(box)
          ELSE IF ~single_shot_open(Got(box).content, d.box.ikm, info, proposal_core(e.contract, e.nonce))
               THEN Failed("CryptographicFailure") ELSE Got(Got(box).content.message)
    BY <2>2, Zenon DEF OpenLayer
  <2>7. box = single_shot_seal(Identity[n].encryption, info, core, layer[i - 1])
    BY <1>3, <2>1, <2>4
  <2> HIDE DEF box, info
  <2>8. single_shot_open(box, d.box.ikm, info, core) /\ box.message = layer[i - 1]
    BY <2>4, <2>7 DEF single_shot_open, single_shot_seal
  <2>9. OpenLayer(e, keys, Got(box), i) = Got(layer[i - 1])
    BY <1>1, <2>5, <2>6, <2>8
  <2> QED  BY <2>9 DEF box
<1> DEFINE g == [i \in 0..depth |-> Got(layer[depth - i])]
<1>5. \A i \in 0..depth : g[i] = IF i = 0 THEN Got(outer) ELSE OpenLayer(e, keys, g[i - 1], depth + 1 - i)
  <2> SUFFICES ASSUME NEW i \in 0..depth
               PROVE  g[i] = IF i = 0 THEN Got(outer) ELSE OpenLayer(e, keys, g[i - 1], depth + 1 - i)
    OBVIOUS
  <2>1. CASE i = 0
    BY <1>2, <2>1
  <2>2. CASE i # 0
    <3>1. PICK j \in 1..depth : j = depth + 1 - i
      <4>1. depth + 1 - i \in 1..depth
        BY <2>2
      <4> QED  BY <4>1
    <3>2. OpenLayer(e, keys, Got(layer[j]), j) = Got(layer[j - 1])
      BY <1>4
    <3>3. i - 1 \in 0..depth /\ depth - (i - 1) = j /\ depth - i = j - 1
      BY <2>2, <3>1
    <3>4. g[i - 1] = Got(layer[j]) /\ g[i] = Got(layer[j - 1])
      BY <3>3
    <3> HIDE DEF g
    <3> QED  BY <2>2, <3>1, <3>2, <3>4
  <2> QED  BY <2>1, <2>2
<1>6. \E f : OpenedBy(f, e, keys, outer, depth)
  <2>1. g = [i \in 0..depth |-> g[i]]
    OBVIOUS
  <2> HIDE DEF g
  <2>2. g = [i \in 0..depth |-> IF i = 0 THEN Got(outer) ELSE OpenLayer(e, keys, g[i - 1], depth + 1 - i)]
    BY <1>5, <2>1
  <2> QED  BY <2>2, Zenon DEF OpenedBy
<1>7. OpenedBy(opened, e, keys, outer, depth)
  BY <1>6, Zenon
<1>8. \A i \in 0..depth :
        opened[i] = IF i = 0 THEN Got(outer) ELSE OpenLayer(e, keys, opened[i - 1], depth + 1 - i)
  BY <1>7 DEF OpenedBy
<1>9. g[depth] = Got(o.cek)
  BY <1>3
<1> HIDE DEF g
<1> DEFINE S == {i \in 0..depth : opened[i] # g[i]}
<1>10. S = {}
  <2> SUFFICES ASSUME S # {}  PROVE FALSE
    OBVIOUS
  <2>1. PICK i \in S : \A j \in S : i <= j
    <3>1. S \subseteq Nat
      OBVIOUS
    <3> HIDE DEF S
    <3> QED  BY <3>1, Smallest
  <2>2. i \in 0..depth /\ opened[i] # g[i]
    OBVIOUS
  <2>3. i # 0
    BY <1>5, <1>8, <2>2
  <2>4. i - 1 \in 0..depth /\ i - 1 \notin S
    BY <2>1, <2>2, <2>3
  <2>5. opened[i - 1] = g[i - 1]
    BY <2>4
  <2>6. opened[i] = OpenLayer(e, keys, opened[i - 1], depth + 1 - i)
    BY <1>8, <2>2, <2>3
  <2>7. g[i] = OpenLayer(e, keys, g[i - 1], depth + 1 - i)
    BY <1>5, <2>2, <2>3
  <2> QED  BY <2>2, <2>5, <2>6, <2>7
<1>11. opened[depth] = g[depth]
  BY <1>10
<1> QED  BY <1>9, <1>11

\* A list of keys opens a sequence capsule if the creation gives that list, in
\* that order (open_key_sequence_capsule).
LEMMA SequenceOpens ==
  ASSUME NEW o, NEW e, NEW depth, NEW principals, SequenceShape(o, e, depth, principals),
         o.sequences \in Seq(Seq(Name)), NEW names \in Seq(Name), NEW keys, Len(keys) = Len(names),
         \A i \in 1..Len(names) : KeyDoc(names[i], keys[i])
  PROVE  /\ names \in Range(o.sequences) => open_key_sequence_capsule(e, keys) = Got(o.content)
         /\ names \notin Range(o.sequences) => open_key_sequence_capsule(e, keys).error # Passed
<1>1. /\ e.error = Passed /\ e.nonce = o.nonce /\ "Decrypt" \in e.contract.capabilities
      /\ e.contract.content.kind = "ExactArtifact" /\ e.contract.release.kind = "KeySequence"
      /\ e.contract.release.depth = depth /\ decrypt_payload_core(e, o.cek) = Got(o.content)
  <2>1. EnvelopeShape(o, e, "ExactArtifact", principals, KeySequence(depth))
    BY DEF SequenceShape
  <2>2. validate_plaintext_content(o.content, "ExactArtifact") = Passed
    BY DEF SequenceShape
  <2>3. decrypt_payload_core(e, o.cek) = Got(o.content)
    BY <2>1, <2>2, PayloadOpens
  <2>4. e.contract.release = KeySequence(depth)
    BY <2>1, Granted
  <2>5. e.contract.content.kind = "ExactArtifact" /\ "Decrypt" \in e.contract.capabilities
    BY <2>1, Granted
  <2>6. e.error = Passed /\ e.nonce = o.nonce
    BY <2>1 DEF EnvelopeShape
  <2>7. KeySequence(depth).kind = "KeySequence" /\ KeySequence(depth).depth = depth
    BY DEF KeySequence
  <2>8. e.contract.release.kind = "KeySequence" /\ e.contract.release.depth = depth
    BY <2>4, <2>7
  <2> QED  BY <2>3, <2>5, <2>6, <2>8
<1> DEFINE deep == e.contract.release.depth
           ids == [i \in 1..Len(keys) |-> keys[i].public.id]
           slots == {i \in 1..Len(e.slots) : Append(e.recipes[i], e.slots[i].holder) = ids}
           a == e.error # Passed
           b == e.contract.content.kind # "ExactArtifact"
           c == "Decrypt" \notin e.contract.capabilities
           d == Len(keys) # deep
           f == slots = {}
           error == FirstError(<< <<a, e.error>>, <<b, "InvalidContent">>, <<c, "InvalidContract">>,
                                  <<d, "NotRecipient">>, <<f, "NotRecipient">> >>)
           outer == e.slots[CHOOSE i \in slots : TRUE].box
           opened == CHOOSE g : OpenedBy(g, e, keys, outer, deep)
<1>2. open_key_sequence_capsule(e, keys) =
        IF e.contract.release.kind # "KeySequence" THEN Failed("UnsupportedReleasePolicy")
        ELSE IF error # Passed THEN Failed(error)
        ELSE IF opened[deep].error # Passed THEN opened[deep]
             ELSE decrypt_payload_core(e, opened[deep].content)
  BY DEF open_key_sequence_capsule, OpenedBy
<1>3. PICK count \in Nat : count = Len(names) /\ \A i \in 1..count : names[i] \in Name
  OBVIOUS
<1>4. ids = Ids(names)
  <2>1. ASSUME NEW i \in 1..count  PROVE keys[i].public.id = Id(names[i])
    <3>1. KeyDoc(names[i], keys[i]) /\ names[i] \in Name
      BY <1>3
    <3>2. keys[i].public = Identity[names[i]]
      BY <3>1, UnlockExactly
    <3> QED  BY <3>1, <3>2, IdentityParts
  <2> QED  BY <1>3, <2>1 DEF Ids
<1> HIDE DEF ids
<1>5. /\ \A i \in 1..Len(e.slots) : \E s \in Range(o.sequences) : SlotOf(o, e, i, s)
      /\ \A s \in Range(o.sequences) : \E i \in 1..Len(e.slots) : SlotOf(o, e, i, s)
  BY SlotsOfLists, Zenon
<1>6. ASSUME NEW s \in Range(o.sequences)  PROVE s \in Seq(Name) /\ Len(s) = depth
  BY <1>6 DEF Range, SequenceShape
<1>7. ASSUME NEW i \in slots  PROVE names \in Range(o.sequences) /\ SlotOf(o, e, i, names)
  <2>1. i \in 1..Len(e.slots) /\ Append(e.recipes[i], e.slots[i].holder) = Ids(names)
    BY <1>4
  <2>2. PICK s \in Range(o.sequences) : SlotOf(o, e, i, s)
    BY <1>5, <2>1
  <2>3. Ids(s) = Ids(names)
    BY <2>1, <2>2, Zenon DEF SlotOf
  <2>4. s = names
    BY <1>6, <2>3, IdsOf
  <2> QED  BY <2>2, <2>4
<1>8. f <=> names \notin Range(o.sequences)
  <2>1. ASSUME names \in Range(o.sequences)  PROVE slots # {}
    <3>1. PICK i \in 1..Len(e.slots) : SlotOf(o, e, i, names)
      BY <1>5, <2>1
    <3>2. Append(e.recipes[i], e.slots[i].holder) = ids
      BY <1>4, <3>1, Zenon DEF SlotOf
    <3>3. i \in slots
      BY <3>2
    <3> QED  BY <3>3
  <2> QED  BY <1>7, <2>1
<1>9. error = Passed <=> names \in Range(o.sequences)
  <2>1. ~a /\ ~b /\ ~c
    BY <1>1
  <2>2. names \in Range(o.sequences) => ~d
    BY <1>1, <1>6
  <2>3. a \in BOOLEAN /\ b \in BOOLEAN /\ c \in BOOLEAN /\ d \in BOOLEAN /\ f \in BOOLEAN
    OBVIOUS
  <2>4. PICK first : first = e.error
    OBVIOUS
  <2>5. error = FirstError(<< <<a, first>>, <<b, "InvalidContent">>, <<c, "InvalidContract">>,
                              <<d, "NotRecipient">>, <<f, "NotRecipient">> >>)
    BY <2>4, Zenon
  <2>6. /\ a => first # Passed
        /\ b => "InvalidContent" # Passed
        /\ c => "InvalidContract" # Passed
        /\ d => "NotRecipient" # Passed
        /\ f => "NotRecipient" # Passed
    BY <2>1 DEF Passed
  <2> HIDE DEF a, b, c, d, f, error
  <2>7. FirstError(<< <<a, first>>, <<b, "InvalidContent">>, <<c, "InvalidContract">>,
                      <<d, "NotRecipient">>, <<f, "NotRecipient">> >>) = Passed <=> ~a /\ ~b /\ ~c /\ ~d /\ ~f
    BY <2>3, <2>6, FiveChecks
  <2> QED  BY <1>8, <2>1, <2>2, <2>5, <2>7
<1> HIDE DEF error
<1>10. CASE names \notin Range(o.sequences)
  <2>1. error # Passed
    BY <1>9, <1>10
  <2>2. Failed(error).error # Passed
    BY <2>1 DEF Failed
  <2> HIDE DEF opened, deep
  <2> QED  BY <1>1, <1>2, <1>10, <2>1, <2>2
<1>11. CASE names \in Range(o.sequences)
  <2>1. PICK i \in slots : i = CHOOSE j \in slots : TRUE
    BY <1>8, <1>11
  <2>2. outer = SequenceSlot(o, proposal_core(e.contract, o.nonce), names)
    BY <1>7, <2>1 DEF SlotOf
  <2> HIDE DEF slots, outer
  <2>3. deep = depth /\ depth \in Nat /\ depth = Len(names)
    BY <1>1, <1>3, <1>6, <1>11
  <2> HIDE DEF deep
  <2>4. opened = CHOOSE g : OpenedBy(g, e, keys, outer, depth)
    BY <2>3
  <2> HIDE DEF opened
  <2>5. opened[depth] = Got(o.cek)
    <3>1. e.nonce = o.nonce
      BY <1>1
    <3>2. \A n \in 1..depth : KeyDoc(names[n], keys[n])
      BY <2>3
    <3>3. depth \in Nat /\ depth = Len(names)
      BY <2>3
    <3>4. PICK first : first = outer
      OBVIOUS
    <3>5. first = SequenceSlot(o, proposal_core(e.contract, o.nonce), names)
      BY <2>2, <3>4, Zenon
    <3>6. PICK all : all = opened
      OBVIOUS
    <3>7. all = CHOOSE g : OpenedBy(g, e, keys, first, depth)
      BY <2>4, <3>4, <3>6, Zenon
    <3>8. OpensFor(o, e, names, depth, keys, first, all)
      BY <3>1, <3>2, <3>3, <3>5, <3>7, Zenon DEF OpensFor
    <3>9. all[depth] = Got(o.cek)
      BY <3>8, LayersOpen
    <3> QED  BY <3>6, <3>9, Zenon
  <2>6. opened[depth].error = Passed /\ opened[depth].content = o.cek
    BY <2>5 DEF Got
  <2>7. open_key_sequence_capsule(e, keys) = Got(o.content)
    BY <1>1, <1>2, <1>9, <1>11, <2>3, <2>6
  <2> QED  BY <1>11, <2>7
<1> QED  BY <1>10, <1>11

\* What opening with a list of keys reports is what the creation grants.
LEMMA SequenceReport ==
  ASSUME DocInv, NEW k, Readable(CapsulePath(k)), NEW names \in KeyLists, NEW pass,
         open_sequence_capsule_command(k, names, pass)
  PROVE  \E r : Report("access", r) /\ Opened(r)
<1>1. PICK e : e = Envelope(k)
  OBVIOUS
<1>2. PICK o : o = Creations[k]
  OBVIOUS
<1>3. PICK keys : keys = [i \in 1..Len(names) |-> files[KeyPath(names[i])].doc]
  OBVIOUS
<1> DEFINE l == [i \in 1..Len(names) |-> <<UnlockError(keys[i], pass) # Passed, "Locked">>]
           locked == FirstError(l)
           result == IF "Reconstruct" \notin e.contract.capabilities THEN Failed("Policy")
                     ELSE IF locked # Passed THEN Failed(locked)
                     ELSE open_key_sequence_capsule(e, keys)
           r == [kind |-> "sequence", capsule |-> k, names |-> names, pass |-> pass, result |-> result]
<1>4. (\A n \in Range(names) : Readable(KeyPath(n))) /\ Report("access", r)
  BY <1>1, <1>3, Zenon DEF open_sequence_capsule_command
<1>5. CapsuleDoc(k, e)
  BY <1>1, CapsuleRead DEF Envelope
<1>6. ReleaseSays(o, e)
  BY <1>2, <1>5, ReleaseKind
<1>7. names \in Seq(Name)
  BY SolutionAssumption
<1>8. PICK count \in Nat : count = Len(names) /\ \A i \in 1..count : names[i] \in Name
  BY <1>7
<1>9. Range(names) = {names[i] : i \in 1..count}
  BY <1>7, <1>8 DEF Range
<1>10. Len(keys) = count /\ \A i \in 1..count : keys[i] = files[KeyPath(names[i])].doc
  BY <1>3, <1>8
<1>11. \A i \in 1..count : KeyDoc(names[i], keys[i])
  <2> SUFFICES ASSUME NEW i \in 1..count  PROVE KeyDoc(names[i], keys[i])
    OBVIOUS
  <2>1. PICK p : p = KeyPath(names[i])
    OBVIOUS
  <2>2. Readable(p) /\ p[1] = "key" /\ p[2] = names[i]
    BY <1>4, <1>9, <2>1 DEF KeyPath
  <2>3. p \in KeyFiles
    BY <2>2 DEF KeyFiles, Readable
  <2>4. KeyDoc(p[2], files[p].doc)
    BY <2>2, <2>3, KeyRead
  <2> QED  BY <1>10, <2>1, <2>2, <2>4
<1> DEFINE known == \A n \in Range(names) : pass = PassOf(files[KeyPath(n)].doc)
<1>12. locked = Passed <=> known
  <2>1. Len(l) = count /\ \A i \in 1..count : l[i][2] = "Locked"
    BY <1>8
  <2>2. \A i \in 1..count : l[i][1] <=> UnlockError(keys[i], pass) # Passed
    BY <1>8
  <2>3. \A i \in 1..count : UnlockError(keys[i], pass) = Passed <=> pass = PassOf(keys[i])
    BY <1>11, UnlockExactly
  <2> HIDE DEF l
  <2>4. (\A i \in 1..count : ~l[i][1]) => FirstError(l) = Passed
    BY <2>1, NoneFails
  <2>5. FirstError(l) = Passed => \A i \in 1..count : ~l[i][1]
    <3>1. "Locked" # Passed
      BY DEF Passed
    <3> QED  BY <2>1, <3>1, AllHold
  <2>6. locked = Passed <=> \A i \in 1..count : pass = PassOf(keys[i])
    BY <2>2, <2>3, <2>4, <2>5
  <2> HIDE DEF locked
  <2> QED  BY <1>9, <1>10, <2>6
<1>13. /\ Failed("Policy").error # Passed /\ Got(o.content).error = Passed /\ Got(o.content).content = o.content
       /\ locked # Passed => Failed(locked).error # Passed
       /\ Failed("UnsupportedReleasePolicy").error # Passed
  BY DEF Failed, Got, Passed
<1> HIDE DEF locked
<1> DEFINE may == Mode(o) = "sequence" /\ names \in Range(o.sequences) /\ known
<1>14. IF may THEN result = Got(o.content) ELSE result.error # Passed
  <2>1. CASE Mode(o) # "sequence"
    <3>1. e.contract.release.kind # "KeySequence"
      BY <1>6, <2>1 DEF ReleaseSays
    <3>2. open_key_sequence_capsule(e, keys) = Failed("UnsupportedReleasePolicy")
      BY <3>1, Zenon DEF open_key_sequence_capsule
    <3>3. result.error # Passed
      BY <1>13, <3>2
    <3> QED  BY <2>1, <3>3
  <2>2. CASE Mode(o) = "sequence"
    <3>1. PICK depth, principals : SequenceShape(o, e, depth, principals)
      BY <1>2, <1>5, <2>2, SequenceCapsule
    <3>2. o.sequences \in Seq(Seq(Name))
      BY <1>2, <1>5, CapsuleType
    <3>3. /\ names \in Range(o.sequences) => open_key_sequence_capsule(e, keys) = Got(o.content)
          /\ names \notin Range(o.sequences) => open_key_sequence_capsule(e, keys).error # Passed
      BY <1>7, <1>8, <1>10, <1>11, <3>1, <3>2, SequenceOpens
    <3>4. "Reconstruct" \in e.contract.capabilities
      BY <1>6, <2>2 DEF ReleaseSays
    <3> HIDE DEF known
    <3> QED  BY <1>12, <1>13, <2>2, <3>3, <3>4
  <2> QED  BY <2>1, <2>2
<1> HIDE DEF result
<1>15. r.kind = "sequence" /\ r.capsule = k /\ r.names = names /\ r.pass = pass /\ r.result = result
  OBVIOUS
<1> HIDE DEF r
<1>16. MayOpen(r) = may
  BY <1>2, <1>15 DEF MayOpen
<1>17. (r.result.error = Passed) = MayOpen(r)
  BY <1>13, <1>14, <1>15, <1>16
<1>18. r.result.error = Passed => r.result.content = o.content
  BY <1>13, <1>14, <1>15
<1>19. Opened(r)
  BY <1>2, <1>15, <1>17, <1>18 DEF Opened
<1> QED  BY <1>4, <1>19

\* Every access command reports what the creation of the capsule grants.
LEMMA ReportsOpen ==
  ASSUME DocInv, AccessReported
  PROVE  \E r : Report("access", r) /\ Opened(r)
<1>1. PICK k \in budget.creations :
        /\ Readable(CapsulePath(k))
        /\ \/ \E path \in KeyFiles, pass \in Passphrases, raw \in BOOLEAN : open_capsule_command(k, path, pass, raw)
           \/ \E path \in KeyFiles, pass \in Passphrases, override \in Overrides, required \in {"Diff", "Apply"} :
                authorize_file_operations(k, path, pass, override, required)
           \/ \E names \in KeyLists, pass \in Passphrases : open_sequence_capsule_command(k, names, pass)
           \/ \E file \in SolutionFiles : solve_challenge_command(k, file)
           \/ \E i \in 1..MaxChallengeShards, file \in SolutionFiles : check_challenge_command(k, i, file)
           \/ \E entries \in Attempts : solve_shards_command(k, entries)
  BY Zenon DEF AccessReported
<1> QED  BY <1>1, OpenReport, FileReport, SequenceReport, SolveReport, CheckReport, ShardsReport

\* In every reachable state what the last access command reported is what the
\* creation of the capsule grants: it released the content exactly to a
\* recipient's key, to the keys of a listed sequence in their order, to the
\* solution, or to the threshold of distinct sub-solutions, and the content is
\* what was protected (open_capsule, open_key_sequence_capsule,
\* open_challenge_content, open_sharded_challenge_content).
THEOREM CapsulesOpenExactly == Spec => []OpensExactly
<1>1. Init => OpensExactly
  BY DEF Init, OpensExactly
<1>2. DocInv /\ OpensExactly /\ [Next]_vars => OpensExactly'
  <2> SUFFICES ASSUME DocInv, OpensExactly, [Next]_vars  PROVE OpensExactly'
    OBVIOUS
  <2>1. LastChanges
    BY LastStep
  <2>2. CASE last' = Nothing
    BY <2>2 DEF OpensExactly
  <2>3. CASE files' = files /\ last' = last
    BY <2>3 DEF OpensExactly, MayOpen
  <2>4. CASE last'.kind \in {"previewed", "patched"}
    BY <2>4 DEF OpensExactly
  <2>5. CASE RestoreRefused
    <3>1. last'.kind = "restore"
      BY <2>5 DEF RestoreRefused
    <3> QED  BY <3>1 DEF OpensExactly
  <2>6. CASE AccessReported
    <3>1. PICK r : Report("access", r) /\ Opened(r)
      BY <2>6, ReportsOpen
    <3>2. last' = r /\ files' = files
      BY <3>1 DEF Report, fileVars
    <3>3. Opened(r)
      BY <3>1
    <3>4. MayOpen(last)' = MayOpen(r)
      BY <3>2 DEF MayOpen
    <3>5. OpensExactly' <=> (last' # Nothing /\ last'.kind \in {"open", "sequence", "solve", "solve-shards", "check",
                                                                "Diff", "Apply"} => Opened(r))
      BY <3>2, <3>4 DEF OpensExactly, Opened
    <3> QED  BY <3>3, <3>5
  <2> QED  BY <2>1, <2>2, <2>3, <2>4, <2>5, <2>6 DEF LastChanges
<1> QED  BY <1>1, <1>2, DocInvAlways, PTL DEF Spec

=============================================================================
