# Rebyte: TLA+ models, model checking and proofs

Rebyte packs a set of files into a signed, content-addressed *capsule* that
travels as text (a token), verifies it, and applies it to a directory tree. Its
*chain* extension seals content for groups of people: members form a group,
approve an envelope, and, if the contract asks for it, a quorum of *witnesses*
releases the content. The repository is a Rust workspace of 16 crates and a
command-line program. There is no server: every participant runs commands on
their own machine, and documents travel between them by any channel.

This directory models the program in seven parts, each with its own
specification: applying a capsule to a file tree, the witness's ledger file, the
release session between witnesses and a recipient, the ceremonies in which a
group is formed and a capsule approved, and the three families of commands
around them: artifacts (encode, decode), signed capsules (keys, pack, verify,
diff, apply) and protected capsules (identities, backups, release policies,
challenges, patches). In the first four an order of steps nobody tested can do
damage to state that outlives a command; in the last three the documents
themselves, made by one command and read by another that trusts nothing, carry
the risk.

    tlc -workers 2 -config ApplyCrash.cfg MCApplyTxn     # one run
    tlapm ApplyTxnProofs.tla                             # one module of proofs

`PROJECT.json` lists runs, mutants, source lines of every definition, findings,
hazards and theorems.

## 1. Inventory

| Component | State it keeps | Operations | Interacts with |
| --- | --- | --- | --- |
| Transaction engine (`rebyte-apply`) | destination files and directories; `.rebyte/transactions/<id>/` with `journal.json`, `staging/`, `backup/`; temporary files | `apply_verified_tree`, `resume_transaction`, `rollback_transaction`, `list_transactions`; inside: prepare, stage, commit, reconcile, rollback, cleanup | every other program that writes to the tree; other Rebyte processes on the same root |
| Release ledger file (`rebyte-cli/release_ledger.rs`) | an append-only file of chained records, advisory lock | open (create, parse, trim), authorize (find, append, sync, undo) | `chain release grant`; other commands of the same witness; kills and power losses |
| Quorum release (`rebyte-chain/release.rs`) | policy in the contract; one clock and one ledger per witness; the recipient's session | create request, grant, open | witnesses and recipient exchange documents; the ledger through the `ReleaseLedger` trait |
| Access contract (`rebyte-contract`) | immutable bytes | validate, encode, decode | proposed, approved and enforced by the ceremony |
| Group and envelope ceremony (`rebyte-chain/group.rs`, `envelope.rs`, `ceremony.rs`, `status.rs`) | documents in circulation: group proposal, acceptances, certificate, capsule proposal, approvals, envelope | create, accept and finalize a group; create, approve and finalize a capsule; status; open | all members; contract; secret sharing; challenge |
| Identities, backup, secret sharing (`rebyte-chain`) | key files, share files, status documents | generate, rekey, back up, restore, issue a status; split, combine | ceremony, release, every private command |
| Computational challenge (`challenge.rs`) | locked key in the capsule; claims and awards | create, solve, check a shard, claim, award | envelope opening |
| Artifact token codec (`rebyte-artifact-token`) | scan, spool and staged file of one command | encode and decode in memory and as a stream | the source tree, the destination; compression |
| Capsule codec and formats (`rebyte-codec`, `rebyte-format`) | none | encode, decode, path and limit checks | verification, packing |
| Compression | none | bounded compress and decompress | codecs |
| Verification (`rebyte-verify`, `-signature`, `-integrity`) | typestate of one capsule | parse, check signature, check policy, check content | apply accepts only its result |
| Packing and diff | none | walk, pack, compare | the publisher's tree, the consumer's destination |
| Semantic patch | the target file, its backup, a staged file | typed JSON and TOML operations; apply with preview | the user's editor |
| Signer and key files | key files | generate, rekey, retire, revoke, sign | verification |
| Command line | none between commands | one command per operation above | all |
| Facade, browser bindings, xtask, fuzz targets | none | re-export, bind, drive | all |

What is hard in this code, and where:

* **Crash recovery of a multi-file commit.** The journal is written after the
  rename it counts, so after a crash it can lag by one file in either
  direction, and recovery reads the truth from the files. Recovery can itself
  be interrupted, in either direction, any number of times.
* **Independent writers.** Other programs change targets between a check and
  the write it protects. There is no lock on the tree.
* **Two engines on one root.** The refusal of unfinished transactions is a
  check before a create, not a lock.
* **Durability.** The ledger must not forget a decision it has answered, and
  must be readable again after any kill or power loss.
* **Agreement without communication.** Witnesses count openings independently,
  may hand out different ordinals for the same session, lose a ledger and
  restore an old copy, and have different clocks; the recipient alone combines
  what they answer.
* **Documents by hand.** Acceptances and approvals are files that people
  collect. Several ceremonies with the same members run at once, so a collection
  may contain repeated, misdirected or damaged documents, and the status shown
  while collecting is computed by other code than the finalization it announces.
* **Reading what changes.** Encode scans a tree and reads it again, pack walks
  first and reads later, decode previews a file and then opens it again, patch
  previews a target and replaces it after the user has answered.
* **Two implementations of one rule.** An artifact is decoded in memory or as a
  stream, by separate code that checks in different orders.
* **Combining what belongs apart.** Shares of two backups, documents of one key
  with different status, claims for another capsule, keys in another order,
  solution files with another line ending: each is well formed by itself.
* **Several files, one command.** A key pair, a set of shares, an audit bundle are
  written file by file; a failure or a kill leaves part of them.

Correctness, per component:

* engine: no original is lost at any crash point; a finished journal tells the
  truth about the files; the files always have the shape recovery accepts; data
  of others is not overwritten; recovery ends and leaves nothing behind;
* ledger: one ordinal per request and one request per ordinal, within the limit;
  a decision handed out stays on record; the file parses after any stop; repeated requests are
  answered in the end; the file implements the trait the release protocol is
  written against;
* release: openings stay within the maximum and are on record, are never early,
  and happen when nothing stands in the way;
* ceremony: content reaches a recipient only if every member accepted the group
  and a threshold of distinct members approved exactly that capsule; once enough
  have signed nothing else in circulation can prevent finalization; the status of a
  collection agrees with finalization; a finalized envelope stays openable;
* artifacts: a streamed artifact is the tree at one instant; what encode commits
  decodes to what was read; both decoders accept the same files; what is
  reconstructed is what was previewed; nothing of others is replaced;
* signed capsules: what is released was signed by a key this command line
  trusts; what pack writes verifies; a public key document stands for a usable
  private one; a destination is given only files of one signed tree;
* protected capsules: a capsule opens to exactly those its policy names; an award
  is for a claim of this solver on this capsule by a listed judge; shares give the
  identity that was backed up or nothing; a patch takes away only what was shown.

The hazards in `PROJECT.json` give each of these at its line.

## 2. Modules

| Module | Models | Role |
| --- | --- | --- |
| `ApplyTxn` | `rebyte-apply/src/lib.rs` | the engine, its operator, its environment |
| `ApplyTxnProofs` | | two inductive invariants and eight theorems |
| `MCApplyTxn` | | instances for the five `apply_*` runs |
| `LimitedLedger` | trait `ReleaseLedger` in `rebyte-chain/src/release.rs` | abstract specification |
| `LimitedLedgerProofs` | | what every implementation of the trait promises |
| `FileLedger` | `rebyte-cli/src/release_ledger.rs`, `chain release grant` | detailed specification, implements `LimitedLedger` |
| `FileLedgerProofs` | | two inductive invariants, the refinement and three more theorems |
| `MCFileLedger` | | instances for the `ledger_*` runs |
| `QuorumRelease` | `rebyte-chain/src/release.rs`, policy part of `rebyte-contract` | witnesses and recipient; each ledger behaves as the trait says |
| `QuorumReleaseProofs` | | inductive invariant and five theorems |
| `MCQuorumRelease` | | the instance for the run `quorum_sessions` |
| `Consensus` | what the ceremony promises | abstract specification |
| `Ceremony` | `rebyte-chain/src/group.rs`, `ceremony.rs`, `envelope.rs`; group and capsule commands of `chain_command.rs` | detailed specification, implements `Consensus` |
| `CeremonyProofs` | | inductive invariant, refinement and four more theorems |
| `MCCeremony` | | the instance for the run `ceremony` |
| `Checks` | `?` and early returns; running offsets | the first failing check of a list, the sum of a list of sizes |
| `PortablePath` | `rebyte-format/src/path.rs` | which paths are portable, their order |
| `Compression` | `rebyte-compression` | bounded compress and decompress, with dictionaries |
| `ArtifactCodec` | `rebyte-artifact-token/src/codec.rs`, the envelope checks of `codec/stream.rs` | encoding and the two decoders |
| `ArtifactFiles` | `codec/stream.rs`, `rebyte-cli/src/artifact_command.rs` | encode and decode on files that change |
| `ArtifactFilesProofs` | | invariants of encoder, decoder and artifact files, the order of paths, lists of checks, five theorems |
| `MCArtifactFiles` | | the instance for the run `artifact` |
| `PublisherKeys` | `rebyte-signer`, `rebyte-signature`, `rebyte-integrity` | key documents, keyring, digests, signatures |
| `CapsuleCodec` | `rebyte-codec`, `rebyte-pack`, `rebyte-verify`, `rebyte-format` | encoding, packing and the stages of verification |
| `CapsuleCommands` | `rebyte-cli/src/keys.rs`, `producer.rs`, `main.rs`, `rebyte-diff` | publisher and consumer |
| `CapsuleCommandsProofs` | | invariants of the documents, the capsules and the consumer's command and of packing, the path order, sums and slices, four theorems |
| `MCCapsuleCommands` | | the instance for the run `capsule` |
| `SecretSharing` | `rebyte-chain/src/secret_sharing.rs` | Shamir sharing by the code's arithmetic |
| `Identities` | `identity.rs`, `backup.rs`, `status.rs` | documents of an identity, its shares and its status |
| `AccessContract` | `rebyte-contract` | the five release policies and their validation |
| `ChainCapsule` | `envelope.rs` | sealing and opening under each policy |
| `Challenge` | `challenge.rs` | solutions, shards, claims, awards |
| `SemanticPatch` | `rebyte-semantic` | operations on JSON and TOML values |
| `ChainCommands` | `rebyte-cli/src/chain_command.rs`, `semantic_command.rs` | the commands that need nobody else |
| `ChainCommandsProofs` | | invariants of the patch command and of all documents, four theorems |
| `MCChainCommands` | | the instance for the run `chain_access` |

### ApplyTxn

State. `target`, `dirs` and `temps` are the file tree; `present` the transaction
directories; `journal` the mutable part of each `journal.json`; `staged` and
`backup` its subdirectories; `orig`, `new`, `missing` and `retain` the part of
the journal that `prepare` writes once; `proc` each process's place in the code
with its in-memory journal (`j`), which at times differs from the one on disk.
`touched`, `raced` and `released` record history for the properties only: which
files someone other than the transaction has changed, which process had a file
changed between its check and its write, and which transaction has begun to
delete its backups on purpose.

Actions. One action is one durable step: creating the directory, writing a
journal, staging one file with its backup, creating a directory, writing a
temporary file, renaming it, removing a file. The code syncs each before the
next, so a crash is the loss of the process between two actions. Reads are
grouped with the step that uses them, except the checks that the code makes in
advance (`Precondition`, `RollbackCheck`): there the window between check and
write is what matters, and it is open to every other actor. `IoFailure` sends an
error along the path the code gives it: out of `stage` into cleanup, out of
commit into rollback (for `apply`) or to the caller (for `resume`), out of
rollback as `RollbackFailed`, elsewhere through `?`. `ResumeTransaction` and
`RollbackTransaction` are the operator's commands on what is left behind. The code
takes no lock and does not look whether the process that made a transaction still
runs; `BeginRecovery` is guarded by `Abandoned`, that it does not, which is what
`docs/use-cases.md` (line 269) asks of the operator. It is an assumption about people.

Data. A file is its bytes and its executable bit. Digests are taken as collision
free. Files are numbered in the order of the capsule; `FilePath` gives each its
parent directories, because creation and removal of directories is part of
commit and rollback.

### LimitedLedger and FileLedger

The trait is a sequence of requests per scope, a limit per scope, and the set of
answers given: `Record`, `Undo` of the last record that nobody was told of, and
`Hand`. `FileLedger` separates the file every process sees (`cache`) from what
survives a power loss (`disk`, and `entry` for its directory entry). The two
writes of a record make torn records; a power loss leaves any beginning of the
cache that contains what was synced. The command holds the lock from open to
exit. The environment of a behaviour (`env`) says where processes may be
stopped and how often the power may fail.

Refinement: `Trait == INSTANCE LimitedLedger` with `requests` mapped to the
records of the file that processes see, by scope, and `granted` to the grants
written out.

### QuorumRelease

Witnesses have a clock each (`Tick`) and a ledger each, which behaves as
`LimitedLedger` says: `GrantRelease` records, `ReplayGrant` repeats. `Init`
takes every policy that `QuorumRelease::validate` accepts. Grants are signed
documents: once issued they exist for good and may be lost, delayed, repeated or
delivered in any order, so they are a set from which the recipient picks.
`OpenQuorumContent` is the recipient's whole check: threshold many grants for
this session, one witness each, one common ordinal, time reached.
`RestoreLedger` puts an older copy of a witness's ledger in place.

Signatures and digests are unforgeable and collision free; a grant bound to
another request or another envelope does not verify, which is the guard `Bound`.

### Consensus and Ceremony

Each command reads documents and writes one, so the state is what is in
circulation: `groups`, `acceptances`, `certificates`, `capsules`, `approvals`,
`envelopes`, and `opened`, the content that reached a recipient. `signed` records
which signatures members have really made. A signature is its signer with the
message it is over; the two messages differ in their domain, and each names its
subject, which is a digest over the content and a nonce, hence fresh. A document
is the fields the code checks. `ReboundAcceptance` and `ReboundApproval` make
documents whose signature belongs to another one.

Validation keeps the nesting of the code: an envelope validates its capsule,
which validates its certificate, which validates its group, and every command
does it again on what it reads. `FromBytes` is the reading of an envelope file,
which stores less of an approval than the document has. Sorted lists without
repetition are sets; the lists as given, with repetitions, are what
`FinalizesGroup`, `FinalizesCapsule` and the status operators take.

Of the release policies, direct recipients and quorum are there; a quorum
capsule is not opened here but by `QuorumRelease`, and the other policies are in
`ChainCapsule`. Identity status documents, which only add a refusal to the two
create commands, are in `Identities`.

Refinement: `Promise == INSTANCE Consensus` with `accepted` and `approved` mapped
to the signatures made. Documents are invisible to `Consensus`, so making,
damaging, collecting and finalizing them are stutters, and opening must be
justified by what members did.

### Artifacts: PortablePath, Compression, ArtifactCodec, ArtifactFiles

An artifact is a sequence of entries with short byte sequences; an envelope is
the record of its decoded header, its manifest and its stored payload, with the
sizes, flags and digests the header claims. Compression is a relation between
the bytes and a frame of some size (`ZstdSizes`), so that both outcomes of every
size comparison occur; a frame made with one dictionary does not open with
another. `FirstError` (module `Checks`) gives the error of the failing check with the
smallest place in a list, which is how a function full of `?` reads: `DecodeError` and
`StreamDecodeError` are two such lists in the two orders of the code. Entries are
sorted by their rank in path order (`Rank`, `Sorted`); entries of one path keep
their order, as under the stable sort of the code.

`ArtifactFiles` is one encoding and one decoding command. The streaming encoder is
taken apart where the source tree can change under it: open and hash each file
(`ScanOpen`, `ScanClose`), the end of the scan, each compression pass over each
file (`SpoolOpen`, `SpoolClose`, `EndPass`), training of the dictionary, staging,
verifying, `Persist`. Each file is read in two halves. `Others` rewrites, removes
and relinks sources, replaces the artifact between preview and reconstruction by
variants with one field changed, creates files at destinations, kills, and makes the
write or the sync of `write_new` fail (`FillFails`). The artifact file is `out`, a record of its form (absent, foreign, torn, or the format it
is written in) and of the envelope it holds.

### Signed capsules: PublisherKeys, CapsuleCodec, CapsuleCommands

A signature is its key and the digest it is over; a key document is what JSON
holds, with the box that only the passphrase opens. `VerifyError` keeps the
stages of the typestate pipeline in order. `CapsuleCommands` has a publisher who
generates, rekeys, retires and revokes keys and packs a tree (walk, then file by
file), and a consumer who inspects, verifies, diffs and applies with any list of
trust documents, in any order, and opts in to channels. `inspect` succeeds on whatever
decodes and says whether it verifies (`valid`); the others end where verification
fails. The names of a directory are listed when the walk enters it and visited later, so
a file may have gone by then. `made` records what
holders of keys have signed. Capsules of other signers take the place of the
publisher's; such a capsule is signed by its signer or carries the signature that was
there, since signatures cannot be made without the key. `apply` itself is one step here; its detail is `ApplyTxn`, which
starts from the verified tree this module releases.

### Protected capsules: SecretSharing to ChainCommands

A document is the record of the fields the code checks. Sealed boxes carry key
and associated data and open with exactly those. A creation (`Creations`) is a
command line with the randomness the proposal draws, so it determines the
capsule; from it `create_capsule` makes the proposal of its policy by the
code's own route: contract, canonical principals, slots, validation of the
result. Each way of opening is the list of checks of its function. Secret sharing
multiplies, inverts and interpolates in the field of four elements by the
code's algorithm, with the polynomial it reduces by as a constant.

`ChainCommands` holds the files of one user. A command checks, and then writes
its files one by one (`WriteNext`, `WriteFails`, `Killed`); identities are
generated, rekeyed, backed up and restored, capsules created, audited, opened,
solved, claimed and awarded. The patch command is taken apart where another
program may write its target: preview, answer, comparison, backup, staging,
second comparison, rename, sync, verification. `last` is what the last command
released and `lost` what the last replacement took away.

## 3. Runs

| Run | Question | Result |
| --- | --- | --- |
| `apply_crash` | Are originals safe and journals true after up to two crashes or I/O errors at any durable step, and for the files an independent writer leaves alone while it writes, deletes or replaces others between any two steps? Is its own data left alone? Do directories that reached the journal go on rollback? | holds, but for the window between check and write |
| `apply_concurrent` | Do two engines on one root overwrite each other's results after their checks? | holds, with the same window |
| `apply_recovery` | Does retried rollback finish every interrupted transaction, without refusals and with a readable journal until then? | holds for the points listed below |
| `apply_leftover_temp` | Is rollback repeatable after it was itself killed? | **no** (finding) |
| `apply_stranded` | Can every leftover be inspected? | **no** (finding) |
| `ledger_crash` | Does the file implement the trait under kills, write errors or power loss, keep what it answered, parse again, and answer repeated requests? | holds |
| `ledger_unsynced` | Is every decision handed out on disk? | **no** (finding) |
| `quorum_sessions` | Are openings bounded, on record, not early, and possible when all saw the same order? Does a recipient with one request get the content in the end? | holds |
| `ceremony` | Does content reach a recipient only as `Consensus` allows, whatever documents circulate? Does the status agree with finalization? Can nothing block a complete ceremony? Do envelopes stay openable? | holds |
| `artifact` | Is an encoded artifact a snapshot that decodes to itself while the sources change? Do the two decoders agree on every variant of it? Is what is committed what was previewed, and nothing replaced? | holds |
| `capsule` | Is only signed content of a trusted key released, whatever documents are named and whatever capsule lies there? Does what was packed verify, is a published key usable, and is a destination given only files of one signed tree, also when the capsule is replaced while the user is asked? | holds |
| `chain_access` | Does a capsule of each policy open to exactly those it names? Are awards honest, restored identities the right ones, and patches made only on what was shown? | holds |

### Findings

* **Leftover temporary file.** `rollback` derives its temporary file name from
  the committed count, which `reconcile` computes to the same value the next
  time, and creates it with `create_new`. Killed between write and rename, it
  leaves a file that makes every later rollback of this transaction fail with
  `Conflict`, although only Rebyte has touched the tree.
* **Stranded directory.** The transaction directory is created before `prepare`
  looks at the targets. If one is a symbolic link, `apply` returns the error and
  leaves a directory without a journal. `list_transactions` fails as a whole,
  recovery cannot load it, and later applies are refused.
* **Unsynced replay.** A command killed after a record is written and before it
  is synced leaves a complete record in the page cache. The repeated command
  answers from it without syncing, so the answer is out while nothing is on
  disk, against the trait's own comment.

Two more disagreements have no run of their own; the model has both behaviours.

* **Missing backup.** `reconcile` counts a file that already has its new content as
  committed. If a capsule's file equals its target and the process dies while staging
  (the point `stage`), rollback reads a backup that was never written and fails with `Io`,
  every time, against the same sentence of the repository's README as the first finding.
* **Orphan directory.** `commit` creates the missing directories and only then persists
  the journal that lists them, against the comment of `apply_verified_tree` (`lib.rs:125`,
  "recorded in the journal before creation"). A kill in between (the points `ensure` and
  `replace`) leaves an empty directory that rollback does not know of. What the journal
  does list is removed, at every crash point (`RecordedDirectoriesGone`).

### Behaviours the models show that are no disagreement with the documents

* A kill inside `remove_dir_all` of a finished transaction can strand the
  directory in the same way as the finding on stranded directories.
* Two applies can both pass `reject_incomplete_transactions`, so two unfinished
  transactions can exist at once. The per-file checks still hold
  (`apply_concurrent`).
* Rolling back an older retained transaction under a newer unfinished one is
  allowed; the newer one is then refused recovery, since its files have changed.
* A kill during the very first header write of the ledger locks the witness out
  until the file is removed by hand. `RequestsAnswered` counts that as an answer.
* Two requests that two witnesses recorded in different orders have no common
  ordinal and can both stay closed for good. `SameOrderOpens` says when this
  cannot happen.
* What `encode` makes in memory is written by `write_new`: a kill or a write error
  leaves a torn file at the output, which no decoder accepts, and an error of the sync a
  whole one beside a reported failure. Streamed output is staged and never torn.
* When only the sync of the public document fails, `key generate` removes the private
  document and leaves the public one, whole, beside the failure it reports.
  `PublishedKeyUsable` is about documents written without an error.
* `apply` takes the destination as it finds it after the question: a file changed since the
  preview is replaced and backed up as it then is, and no document promises otherwise.
* The diff compares bytes: a capsule that changes only the executable bit is
  previewed as unchanged, and applied.
* A failing share write removes the shares before it and leaves its own file,
  whole or torn. A second backup with fewer shares can then be written beside it;
  mixed shares are refused, because the keys they give are compared with the
  public identity.
* `create_backup` of a patch leaves its file when it fails or is killed after
  creating it, and every later patch with `--backup` then fails until the file is
  removed. The target is untouched by it.
* After the rename of a patch a failing sync of the directory is reported as a
  failure although the target is replaced.

### Bounds

* Engine: two files of which one is two directories deep, since every recovery
  question is about the boundary between one replaced and one untouched file and
  about nested directory creation; one transaction with an independent writer, or
  two transactions of two processes, so that one rolls back or is retained while
  the other runs; two faults, so that recovery is itself interrupted; two writes
  of the other program, so that it changes a file and changes it again. The targets start as absent, equal to or different from the
  capsule's files. Five of the safety properties are proved for every bound (section 5).
* `apply_recovery` interrupts at every point except `prepare`, `persistPrepared`,
  `cleanup` (they leave a directory without a journal, as in `apply_stranded`), `stage`
  (the missing backup above) and `rbRename` (`apply_leftover_temp`): there the properties
  are false. `apply_crash` interrupts at every point, and its required directory is
  the outer one, so that the parents of the nested file are created while it commits.
* Ledger: two processes; two requests compete for a scope with limit 1 and two
  share a scope without limit; `MaxRecords` is 2, so that the file fills up; two
  faults. Behaviours either stop processes anywhere and keep the machine up, or
  lose power once and stop no process between a complete write and its sync. The
  combination left out is the finding above, which `ledger_unsynced` runs. The safety
  properties and the refinement are proved for every bound.
* Release: two witnesses, so that the threshold is some or all of them, and may
  record in different orders; two requests compete; clocks are before or after the boundary; the
  maximum is absent, invalid (0) or 1; two ledgers are restored. The safety properties are
  proved for every bound.
* Ceremony: three identities, two groups that share two members, with two or three
  members and a threshold of two (and an invalid one of zero); three proposals in
  all, so that a capsule competes with a second one or a second group; one damaged
  document; collections of up to three documents, as many as members; one
  envelope. Digests and the two members of both groups are symmetric. All its
  properties are proved for every bound.
* Artifact: two files of two halves and a directory; ten command lines, one with
  limits so tight that the compressed form is too large and one that allows the binary
  but not its token; suggestions with and without a
  path; two disturbances, so that a source changes twice or a source and a destination
  change; about thirty variants of an envelope, one field changed in each, with the
  digests computed again or not, so that every check of the decoders is the first to
  fail for one of them.
* Capsule: one key of the publisher beside another signer and the development
  key; two files whose walk order and path order differ; four commands (two of the
  publisher before two of the consumer, and the other mixtures); one disturbance;
  trust lists with a public and a status document in both orders; a file that is too
  large, a name that is too long and a compression that expands too much; about
  fifteen forgeries of a capsule, one field changed in each, signed by another key or not.
  The limits are scaled down together: as in the code, the token of any capsule within its
  limit is within the limit of tokens. All its properties are proved for every bound.
* Chain access: three identities of which two form the group; sixteen creations,
  at least one for each policy and for each refusal; solution files with each line ending,
  with two, and with a solution that itself ends in CR; backups of two of three and of
  three of three shares into two directories, restored from up to three shares. The commands are bounded
  by families (`Budgets`), since a patch and a backup do not meet: three identity
  commands; each creation with one opening, and four of them with an identity command
  beside it, so that a key is generated or rekeyed before the opening; the two
  challenges that share a solution together, with two openings; one protected patch;
  two patches. One fault, two writes of the other program. The field has four
  elements, enough for three shares; its arithmetic is that of the code for any
  width.
* Deadlock is checked in the ledger runs: a command can always be repeated. In
  the others the identifiers or requests of the instance run out and the system
  may stop.

### Fairness

* Engine: weak fairness of each process's own steps (a program that runs goes
  on), and strong fairness of `RollbackTransaction`: the documents tell the
  operator to run it on what is left, and each attempt may be interrupted again.
  Faults are bounded; nothing forces them to happen or not.
* Ledger: weak fairness of the steps of a command; strong fairness of `Open` for each
  request, since the caller repeats the command and the lock may be taken when
  tried.
* Release: a recipient with the lone request repeats it at each witness, an answer
  repeated often enough arrives, clocks advance.

## 4. Properties

Each property is stated in a comment above its definition, and has a mutant:
a changed form of a definition of the code's behaviour (a dropped guard, an
off-by-one, a swapped order) under which TLC finds it violated.

## 5. Proofs

TLAPS proves the following for all values of the constants that satisfy the
named assumptions.

| Module | Theorem | States |
| --- | --- | --- |
| `ApplyTxnProofs` | `TypeCorrect` | types, the committed count within the files |
| | `OriginalsAreSafe` | `OriginalRecoverable` |
| | `CommittedTellsTheTruth` | `CommittedIsNew` |
| | `RolledBackTellsTheTruth` | `RolledBackIsOriginal` |
| | `ReconcileAccepts` | `PrefixShape` |
| | `ForeignDataIsSafe` | `NoForeignOverwrite`, an action property |
| | `RollbackIsNotRefused` | `RollbackNotRefused`, where faults leave no debris |
| | `LeftoversAreInspectable` | `LeftoversInspectable`, where faults leave no debris |
| `LimitedLedgerProofs` | `TraitGrantsAgree` | `GrantsAgree` of the trait |
| `FileLedgerProofs` | `ParseAcceptsTheorem` | `ParseAccepts` |
| | `GrantsSurviveTheorem` | `GrantsSurvive` |
| | `FileLedgerImplementsTrait` | `ImplementsTrait`, the refinement of `LimitedLedger` |
| | `GrantsAgreeTheorem` | `GrantsAgree` |
| `QuorumReleaseProofs` | `TypeCorrect` | types |
| | `RestoredLedgersFailClosed` | `SessionsOnRecord` |
| | `NeverEarly` | `NotEarly` |
| | `MaximumHolds` | `ReleaseBounded` |
| | `SameOrderSuffices` | `SameOrderOpens` |
| `CeremonyProofs` | `TypeCorrect` | types: everything is made from circulating documents with real signatures |
| | `CeremonyImplementsConsensus` | `Implements`, the refinement of `Consensus` |
| | `OpenableForever` | `EnvelopesStayOpenable` |
| | `EnoughSignaturesFinalize` | `SignedIsEnough` |
| | `StatusTellsTheTruth` | `StatusAgrees` |
| `ArtifactFilesProofs` | `StreamedSnapshot` | `SnapshotConsistent` |
| | `PreviewIsCommitted` | `CommittedAsPreviewed` |
| | `NothingIsReplaced` | `NothingReplaced`, an action property |
| | `DecodersAlwaysAgree` | `DecodersAgree` |
| | `EncodingRoundTrips` | `EncodedDecodes` |
| `CapsuleCommandsProofs` | `PublishedKeyOpens` | `PublishedKeyUsable` |
| | `ReleasedWasSigned` | `ReleasedIsSigned` |
| | `WhatIsWrittenWasSigned` | `OnlySignedIsWritten`, an action property |
| | `WhatIsPackedVerifies` | `PackedVerifies` |
| `ChainCommandsProofs` | `PatchTakesWhatWasShown` | `PatchedOnPreviewed` |
| | `AwardsAreHonest` | `AwardsHonest` |
| | `RestorationIsFaithful` | `RestoredIsSame` |
| | `CapsulesOpenExactly` | `OpensExactly` |

**Engine.** Assumption: `ConstantsAssumption` (at least one file, typed capsules and
trees, markers that are not file states, a "no transaction" that is neither a
transaction nor a process). None of the safety properties is
inductive: a step of rollback or resume restores a state only if the process
that takes it is where its own earlier checks left it. The invariant therefore
ties, for each process, its program point and its in-memory journal to the
files: below its index everything it has committed is new, above it everything
is original, what it will restore has a matching backup, and no two processes
work on the same transaction. A file changed by someone else drops out of these
statements by `touched`. The proof goes action by action; each action has
one step for each part of the invariant it can disturb. `NoForeignOverwrite`
needs one more part: at each point where a process may write a target, the file
is in the state its check saw, unless it was changed since, which puts the
process in `raced`.

`RollbackNotRefused` and `LeftoversInspectable` are false at some crash points, which is
what `apply_leftover_temp` and `apply_stranded` show. The theorems have two hypotheses.
`RecoverableFaults`: no crash or I/O error at `prepare`, `persistPrepared`, `stage`,
`cleanup` (they leave a directory without a journal or without backups) or `rbRename` (it
leaves a temporary that the next rollback meets). `RegularTrees`: no link or
special file at a target, which `prepare` refuses with the same debris. Faults at all other
points, the points of the run `apply_recovery`, any number of processes and an independent
writer are covered. The invariant `RInv` says that a transaction on disk has its journal and all its backups unless
the process that makes or removes it is at work (`StoredWell`), that each temporary of
rollback belongs to a process about to rename it (`StrayFree`), that a refused
rollback met a file someone else changed after the plan was recorded (`ForeignHand`), and,
for `reconcile`, that the first file it did not count was not new: with the
prefix shape of `IInv` a new file after it is someone else's (`ReconcileRefusal`).

**Trait.** Assumption: `LedgerConstants` (typed scopes and limits). Invariant: no
request occurs twice in a scope, no scope exceeds its limit, and every answer is
the position of its request. `Undo` keeps the last because it takes back only
unanswered records.

**File ledger.** Assumption: `FileLedgerAssumption` (typed scopes, limits and
environments). There are two invariants. `ContentInv` says that the file that
processes see and the one on the disk are always readable up to a torn tail (their
complete records have the ordinals and respect the limits that `parse_ledger` checks),
that a command off idle holds the lock, and what it knows of the file at each point;
`ParseAccepts` follows in every environment. `GrantInv` adds that every grant
written out is on record, and that the disk holds all records but the one being
written where the power may fail. It needs the hypothesis `SyncedEnvironments`: in an
environment with power losses no process is stopped between a complete write and its
sync. Without it the property is false, which is the finding that
`ledger_unsynced` shows; the hypothesis excludes exactly those environments.
`GrantsSurvive` and the refinement follow: a complete record is a `Record` of
the trait, a record that a power loss takes back an `Undo`, the written grant a `Hand`,
and all other steps stutter. `GrantsAgree` comes from the trait's theorem through
the refinement mapping.

**Release.** Assumption: `QuorumAssumption` (finite set of witnesses, typed policies).
Invariant: the ledger of a witness that was never restored contains every grant
it ever issued at the ordinal it issued, without repetition and within the
maximum; opened sessions rest on grants of threshold many witnesses. `MaximumHolds` then
follows: with a finite maximum the policy is unanimous, so every opening has a
grant of one and the same witness that kept its ledger, and its ordinals
inject the openings into 1..maximum. `SameOrderSuffices` uses that each ledger records a
request once, so that ledgers of which one is a beginning of the other give a request one
place.

**Ceremony.** Assumption: `CeremonyAssumption` (finitely many identities, typed
lists). Invariant: everything finalized is still valid, proposal identifiers are
unique, and every signature made is in circulation with its own document. An
opening is justified because the approvals of a valid envelope inject into the
members who really approved this proposal, and its certificate names, for each
member, a signature over this group's acceptance. `StatusTellsTheTruth` holds for
every list of documents: what the status counts and what finalization accepts are
the same set of distinct members, whatever the order and the repetitions.

**Artifacts.** Assumptions: `ArtifactFilesAssumption` (at least one file, nonempty halves,
typed paths in path order, sizes that are numbers, markers that differ) and
`CodecAssumption` (the header has a length). `EncoderInv` follows the versions of each
source file through the two halves of each read: versions only grow, a scanned
entry was read before the end of the scan, and an entry that a later pass reads again
with the same digest was read after it, so both halves are the version at the end of
the scan. This is why one agreeing pass is enough, and why a file changed and
changed back with the same content is no exception. To get from the scan to the
committed envelope the proof needs what sorting does: the path order is
irreflexive, transitive and total (`PathLessIrreflexive`, `PathLessTransitive`,
`PathLessTotal`), so ranks are a bijection (`RankBijective`) and the envelope holds
exactly the scanned entries. `DecoderInv` binds the destination to the envelope
digest of the preview, through every replacement of the artifact in between.

`DecodersAgree` rests on a fact about every file (`DecodersAgreeOn`): a list of checks
passes exactly if none of them fails, in whatever order (`NoneFailing`, `BothPass`), so
the two decoders differ only where they look at different bytes. The streaming one takes
as many stored bytes as the header says and compares the rest of the file afterwards; the
other compares the lengths first. Once the lengths of header, manifest, stored part and
trailing bytes add up (`WellFormed`) both see the same bytes (`TakenWhole`) and inflate
them to the same (`InflateAgrees`). `EnvelopeInv` says that every file at the output is
well formed: an envelope that encode built of the scanned tree (`Built`) is, and what
another program puts there is bytes, with lengths (`IsBinary`). For the round trip,
`BuiltDecodes` shows that a built envelope which one of the decoders accepts decodes to
the scanned tree in canonical order: each slice has the digest of the entry it was
written for. The streaming encoder asks one decoder and `encode_artifact` the other;
`DecodersAgreeOn` makes the two the same.

The last part of `EncodedDecodes`, that no encoding is given up because its own
verification finds a digest, a range, an order, a flag or a frame wrong, is about what
the decoders do with an *honest* envelope (`Honest`: manifest and payload of one tree).
It needs `DictionaryAssumption` (training returns at most `MAX_DICTIONARY_SIZE` bytes) and
the invariant `SpoolInv`: the files are scanned in path order, a pass has spooled exactly
the files before its position, after a complete pass what is spooled is the payload, a
dictionary is only kept with a Zstandard frame, and the command did not end with one of
these errors. That the spooled bytes are the payload (`PayloadSpooled`) is not obvious:
the encoder spools files as the scan found them, the manifest counts offsets over sorted
entries with the directories in between, which add nothing (`JoinsSkipping`). Offsets
and slices agree at every entry because a smallest entry at which they would not cannot
exist (`Slices`). `HonestAccepted` then goes through the checks of both decoders, each a
list in which a failing check names another error (`Innocent`): limits, paths, sizes.
`StagedHonest` brings the streaming encoder to that lemma, `MemoryInnocent` the one in
memory; a source that changes between the passes ends the command before an envelope is
built of it (`SpoolCloseInnocent`).

**Signed capsules.** Assumption: `CapsuleCommandsAssumption` (typed trees, distinct
signers, a key file is neither absent nor foreign, trust is given by the three public
documents). `KeyInv` says which file `generate` writes next and what is already there, so
a public document is never whole without its private one; no other command removes or
replaces the latter except by a document that a passphrase opens.

`ReleasedIsSigned` needs more than the state of the consumer. `PublishInv` says what may
lie under each name, and what is about to be written there: a trust document is a public
document of one of the statuses; a capsule, whole or torn, carries a signature that
*vouches* (`Vouches`): for every capsule that this signature is over and whose payload
verifies, its key holder signed exactly those files. `pack` establishes this because the
payload it compresses is only released if each slice has the digest of its entry, and the
entries are the files it read, in another order (`PackedVouched`); another signer because
the signature is over the capsule itself (`OtherVouched`); and a capsule with a copied
signature inherits it, since digests are of one capsule only. `ConInv` then follows a
command: verification passed means that each check of each stage passed
(`VerifiedStages`, `SignatureHolds`, `PayloadHolds`), the keyring holds each key once, so
the document that admitted the key is the only one of that key (`KeyringAdmits`), and
documents are never replaced (`DocsKept`), so this stays true for as long as the result is
used. Nothing is said of an inspection that did not verify. `OnlySignedIsWritten` follows:
a command only goes on to compare and write when it has verified, and it writes what it
verified, not what lies there by then.

`PackedVerifies` (what `pack` writes passes verification, and `pack` never ends with an
error of its own verification) has two more assumptions. `CapsuleCodecAssumption`: the
token of a capsule within its limit is within the limit of tokens, as `SecurityLimits::V1`
has it (34 MiB of capsule are less than 46 MiB of token, 48 are allowed).
`PackAssumption`: paths, contents and names are sequences, compressed sizes numbers. The
invariant `PackInv` adds to `PublishInv` that a private document is one that was generated
(`PrivateSound`), that what the walk has read are regular files of the source tree
(`WalkPlain`), that a capsule about to be written or being written verifies and releases
what was read (`WrittenVerifies`), and that `pack` ended with none of these errors
(`EndsWell`). The step that matters is `SignPacked`. That verification then passes is
shown stage by stage, each as a list of checks none of which fails: the path order is total
and transitive, so sorting gives a permutation in strictly ascending order; the
offsets are running sums, and the slice at each of them is the file put there, by the
smallest position at which it would not be (the provers have no induction, but a
smallest counterexample serves); the lengths of header, manifest and payload are
those that the decoder counts. That no other list of checks can end in one of the
twelve errors follows from which errors each of them names.

**Patch.** No assumption. `PatchInv` says which look at the target and which copy of it
each point of `apply_patch_document` relies on.

**Chain commands.** Assumptions: `IdentityAssumption` (identities come from generation),
`BackupAssumption` and `CreationAssumption` (polynomials of the degree their threshold
asks for, options that do not exclude each other, a fresh nonce for each creation),
`SolutionAssumption` (a solution file is a sequence of bytes, whatever lines it has) and
`SharingAssumption`: in the field of the instance, interpolation at as many distinct
points as the threshold gives back the constant term. The last is the correctness of
Shamir's scheme; it is stated about the modelled `combine_shares` and
`evaluate_polynomial`, and TLC evaluates it for the field of the run. `DocInv` says what
may lie under each name or is about to be written there: a key is an identity's own, a
capsule is the one its creation makes, a share belongs to the polynomial of the backup in
its directory (`OneBackup`), an award is for a claim and a capsule that stay
(`AllAwards`), and a command that writes several files has written those before its
position and will write none that is there (`CmdShape`). An error or a kill in the middle
leaves a prefix, for which all of this still holds. `AwardsHonest` follows since a claim
is signed over the identifiers of envelope and contract, which `verify_claim_with_key`
compares before anybody countersigns, and nonces differ. The other two speak about the last
answer: `LastStep` ties it to the files it was computed from, which stay. For
`RestoredIsSame` the shares a restoration accepts have one binding and distinct points,
so they are values of one polynomial, whatever its threshold and however many shares are
handed in (`MaxGivenShares`). For `OpensExactly` one lemma for each policy shows
that the wrapped key is unwrapped by exactly the identities or solutions that wrapped it:
one line ending is trimmed (`TextOf`), so that files open the same challenge exactly if
they differ at most in it, the layers of a key sequence open
only from the outside in, and shards only count once.

Only model-checked:

* everything under fairness (`RecoveryConverges`, `RequestsAnswered`,
  `LoneRequestOpens`): the prover has no liveness under fairness;
* `RecordedDirectoriesGone` of the engine: it depends on one process at a time (a directory
  that two transactions use is recorded by one of them), which the invariants of section 5
  do not assume.

## 6. Not modelled

* Cryptography (signatures, digests, encryption, key derivation): assumed ideal.
* The third-party compression codecs, the JSON and TOML parsers: relations between
  values and their encoded forms.
* The text of tokens, documents and reports: base64, armour, JSON layout, diffs.
* The bytes of journals and ledgers: a torn or foreign journal is refused
  as a whole by the code, and the models have it present or absent.
* Error names where several checks fail at once and the code repeats a validation at the
  end (`create_key_sequence_content_proposal_with_contract`); the refusal of a ledger file
  longer than its largest possible content, which no writer makes; nulls deeper than one
  level in a TOML patch and the second walk over the TOML syntax tree after the mirror
  accepted the operations. No property distinguishes these.
* Permissions, file descriptors and path resolution of the engine (cap-std
  opens below the root): a target is a regular file, absent or special.
* Terminal output, argument parsing, environment variables.
* `hash`, environment setup and the inspect commands of the chain, which change
  nothing; `parse_operation` of the patch command line.
* The facade, the browser bindings, `xtask` and the fuzz targets: they call what is
  modelled and keep no state.

## 7. Plan

In the order of importance:

1. *Done:* all models with their runs; the proofs of section 5.
2. Composition: a quorum capsule's grants presuppose a finalized envelope
   (`Ceremony` with `QuorumRelease`); an opened capsule's tree is what `ApplyTxn`
   starts from.
