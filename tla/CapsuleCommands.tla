-------------------------- MODULE CapsuleCommands --------------------------
(***************************************************************************)
(* The commands around signed capsules: `key generate`, `key status`,      *)
(* `key rekey` and `pack` of a publisher (crates/rebyte-cli/src/keys.rs,   *)
(* producer.rs), `inspect`, `verify`, `diff` and `apply` of a consumer     *)
(* (crates/rebyte-cli/src/main.rs, crates/rebyte-diff), with other         *)
(* programs that change the source tree and the destination, other signers *)
(* whose capsules take the place of the publisher's, kills and write       *)
(* errors.                                                                 *)
(*                                                                         *)
(* The transaction by which `apply` writes is one step here; ApplyTxn is   *)
(* its detail.                                                             *)
(***************************************************************************)
EXTENDS CapsuleCodec

CONSTANTS
  SourcePaths,      \* the paths of the source files, in the order of the walk
  SourceFiles,      \* what a source file may be: Absent, Link or [bytes, executable]
  RootFiles,        \* what a destination file may be
  Trees, Roots,     \* the source trees and the destinations at the start
  MaxDepth,         \* MAX_DIRECTORY_DEPTH
  Keys, OtherKey,   \* keys the publisher generates; the key of another signer
  Passphrases, Channels, PackCommands, ZstdSizes,
  TrustLists,       \* sequences of key documents a consumer trusts
  ChannelArguments, \* sets of channels a consumer opts in to
  Absent, Link, Foreign, Nothing,
  Forgeries(_),     \* capsules made from a capsule by another signer
  MaxCommands, MaxDisturbances

N == Len(SourcePaths)
Names == {"private", "public", "status", "status2", "rekeyed", "capsule"}

\* What generate and status write.
Statuses == {"Active", "Retired", "Revoked"}
PublicDocuments ==
  {PublicDocument(<<1>>, key, channel, status) : key \in Keys, channel \in Channels, status \in Statuses}
KeyDocuments ==
  PublicDocuments \cup {PrivateDocument(key, pass, 1, "v2") : key \in Keys, pass \in Passphrases}

ASSUME CapsuleCommandsAssumption ==
  /\ N \in Nat \ {0} /\ Trees \subseteq [1..N -> SourceFiles] /\ Roots \subseteq [1..N -> RootFiles]
  /\ MaxDepth \in Nat /\ MaxCommands \in Nat /\ MaxDisturbances \in Nat
  /\ DevelopmentKey \notin Keys /\ OtherKey \notin Keys \cup {DevelopmentKey}
  /\ \A doc \in KeyDocuments, state \in {"torn", "unsynced", "whole"} : \* a file is neither absent nor foreign
       [state |-> state, content |-> doc] \notin {Absent, Foreign}
  /\ TrustLists \subseteq Seq({"public", "status", "status2"})

\* Paths, contents and names are sequences; what zstd makes of a payload has a size.
ASSUME PackAssumption ==
  /\ SourcePaths \in Seq(Seq(Nat)) /\ \A f \in SourceFiles \ {Absent, Link} : f.bytes \in Seq(Nat)
  /\ ZstdSizes \subseteq Nat
  /\ \A o \in PackCommands :
       o.producer \in Seq(Nat) /\ {o.name, o.description, o.version} \subseteq Seq(Seq(Nat))

VARIABLES
  files,    \* name -> Absent, Foreign or [state, content]
  tree,     \* the publisher's source tree
  pub,      \* the publisher's command
  con,      \* the consumer's command
  root,     \* the consumer's destination
  made,     \* what holders of keys have signed: [key, files]
  clock     \* commands and disturbances so far

vars == <<files, tree, pub, con, root, made, clock>>

NoCommand == [pc |-> "idle", kind |-> "none", todo |-> <<>>, idx |-> 1, o |-> Nothing, pass |-> "none",
              listed |-> <<>>, read |-> <<>>, capsule |-> Nothing, res |-> "none"]
NoConsumer == [pc |-> "idle", kind |-> "none", trust |-> <<>>, channels |-> {}, input |-> Nothing,
               steps |-> 0, valid |-> FALSE, report |-> <<>>, res |-> "none"]

Init ==
  /\ files = [n \in Names |-> Absent]
  /\ tree \in Trees
  /\ pub = NoCommand /\ con = NoConsumer
  /\ root \in Roots
  /\ made = {}
  /\ clock = [commands |-> 0, disturbances |-> 0]

publisher == <<files, pub>>
Disturb == /\ clock.disturbances < MaxDisturbances
           /\ clock' = [clock EXCEPT !.disturbances = @ + 1]
Started == /\ clock.commands < MaxCommands
           /\ clock' = [clock EXCEPT !.commands = @ + 1]

\* A document is readable when all of it is there.
Complete(n) == files[n] \notin {Absent, Foreign} /\ files[n].state # "torn"

-----------------------------------------------------------------------------
(* write_new: a file is created where nothing is, filled and synchronized. *)

PubFail(error) == pub' = [NoCommand EXCEPT !.pc = "failed", !.kind = pub.kind, !.res = error]
Undone(fs, undo) == [n \in Names |-> IF n \in undo THEN Absent ELSE fs[n]]

\* A file of pub.todo is [name, content, undo]: undo is removed if it fails.
Create ==
  /\ pub.pc = "create"
  /\ LET w == Head(pub.todo) IN
     IF files[w.name] # Absent
     THEN PubFail("Io") /\ files' = Undone(files, w.undo)
     ELSE /\ files' = [files EXCEPT ![w.name] = [state |-> "torn", content |-> w.content]]
          /\ pub' = [pub EXCEPT !.pc = "fill"]
  /\ UNCHANGED <<tree, con, root, made, clock>>

Fill ==
  /\ pub.pc = "fill"
  /\ files' = [files EXCEPT ![Head(pub.todo).name].state = "whole"]
  /\ pub' = IF Len(pub.todo) = 1 THEN [pub EXCEPT !.pc = "done", !.todo = <<>>, !.res = Passed]
            ELSE [pub EXCEPT !.pc = "create", !.todo = Tail(@)]
  /\ UNCHANGED <<tree, con, root, made, clock>>

\* The write fails, or only the synchronization after it.
FillFails ==
  /\ pub.pc = "fill" /\ Disturb
  /\ LET w == Head(pub.todo) IN
     \E state \in {"torn", "unsynced"} :
       files' = Undone([files EXCEPT ![w.name].state = state], w.undo)
  /\ PubFail("Io")
  /\ UNCHANGED <<tree, con, root, made>>

-----------------------------------------------------------------------------
(* Key documents.                                                          *)

Idle == pub.pc \in {"idle", "done", "failed", "crashed"}
Begin(kind, todo) == pub' = [NoCommand EXCEPT !.pc = "create", !.kind = kind, !.todo = todo]
Refused(kind, error) == pub' = [NoCommand EXCEPT !.pc = "failed", !.kind = kind, !.res = error]

\* Mutant: the public document first.
GeneratePublicFirst(key, channel, pass) ==
  /\ Idle /\ Started
  /\ \A m \in made : m.key # key
  /\ LET error == GenerateError(<<1>>, key, pass) IN
     IF files["private"] # Absent \/ files["public"] # Absent THEN Refused("generate", "OutputExists")
     ELSE IF error # Passed THEN Refused("generate", error)
     ELSE Begin("generate",
            << [name |-> "public", content |-> PublicDocument(<<1>>, key, channel, "Active"), undo |-> {}],
               [name |-> "private", content |-> PrivateDocument(key, pass, 1, "v2"), undo |-> {"public"}] >>)
  /\ UNCHANGED <<files, tree, con, root, made>>

\* key generate: the private document first; if the public one cannot be
\* written the private one is removed.
Generate(key, channel, pass) ==
  /\ Idle /\ Started
  /\ \A m \in made : m.key # key
  /\ LET error == GenerateError(<<1>>, key, pass) IN
     IF files["private"] # Absent \/ files["public"] # Absent THEN Refused("generate", "OutputExists")
     ELSE IF error # Passed THEN Refused("generate", error)
     ELSE Begin("generate",
            << [name |-> "private", content |-> PrivateDocument(key, pass, 1, "v2"), undo |-> {}],
               [name |-> "public", content |-> PublicDocument(<<1>>, key, channel, "Active"),
                undo |-> {"private"}] >>)
  /\ UNCHANGED <<files, tree, con, root, made>>

\* key status: a new document from an old one.
Status(from, to, status) ==
  /\ Idle /\ Started
  /\ LET doc == files[from].content IN
     IF files[to] # Absent THEN Refused("status", "OutputExists")
     ELSE IF ~Complete(from) THEN Refused("status", "InvalidDocument")
     ELSE IF to_trusted_key(doc) # Passed THEN Refused("status", to_trusted_key(doc))
     ELSE IF FirstError(<<with_status(doc, status)>>) # Passed
     THEN Refused("status", "InvalidStatusTransition")
     ELSE Begin("status", <<[name |-> to, content |-> [doc EXCEPT !.status = status], undo |-> {}]>>)
  /\ UNCHANGED <<files, tree, con, root, made>>

\* key rekey: the key under a new passphrase, in a new document.
Rekey(pass, newPass) ==
  /\ Idle /\ Started
  /\ LET doc == files["private"].content IN
     IF files["rekeyed"] # Absent THEN Refused("rekey", "OutputExists")
     ELSE IF ~Complete("private") THEN Refused("rekey", "InvalidDocument")
     ELSE IF RekeyError(doc, pass, newPass) # Passed THEN Refused("rekey", RekeyError(doc, pass, newPass))
     ELSE Begin("rekey", <<[name |-> "rekeyed", content |-> Rekeyed(doc, newPass, 2), undo |-> {}]>>)
  /\ UNCHANGED <<files, tree, con, root, made>>

-----------------------------------------------------------------------------
(* pack.                                                                   *)

\* entries(): the names in a directory when it is listed.
Directory(i) == SubSeq(SourcePaths[i], 1, Len(SourcePaths[i]) - 1)
Listing(d) == {i \in 1..N : Directory(i) = d /\ tree[i] # Absent}

\* The source directory itself is listed first.
Pack(o, pass) ==
  /\ Idle /\ Started
  /\ files["private"] # Absent
  /\ pub' = [NoCommand EXCEPT !.pc = "walk", !.kind = "pack", !.o = o, !.pass = pass,
                              !.listed = (<<>> :> Listing(<<>>))]
  /\ UNCHANGED <<files, tree, con, root, made>>

\* read_artifact: the next file, with the sums over the files read so far.
read_artifact(read, i) ==
  LET f == tree[i]
      total == Len(FlattenSeq([k \in 1..Len(read) |-> read[k].bytes])) + Len(f.bytes)
  IN FirstError(<< <<Len(SourcePaths[i]) > MaxDepth + 1, "nesting is too deep">>,
                   <<Len(read) + 1 > V1.max_file_count, "TooManyFiles">>,
                   <<Len(f.bytes) > V1.max_single_file_bytes, "FileTooLarge">>,
                   <<total > V1.max_uncompressed_payload_bytes, "OutputTooLarge">>,
                   <<~ValidPath(SourcePaths[i], V1.max_path_bytes), "Path">> >>)
\* walk_directory: a directory is listed when the walk enters it, and its names
\* are visited in their order: one that came later is not seen, one that has gone
\* ends the command. Directories stay.
Walk ==
  /\ pub.pc = "walk" /\ pub.idx <= N
  /\ LET i == pub.idx
         d == Directory(i)
         f == tree[i]
         error == read_artifact(pub.read, i)
     IN IF d \notin DOMAIN pub.listed THEN pub' = [pub EXCEPT !.listed = @ @@ (d :> Listing(d))]
        ELSE IF i \notin pub.listed[d] THEN pub' = [pub EXCEPT !.idx = @ + 1]
        ELSE IF f = Absent THEN PubFail("cannot inspect source")
        ELSE IF f = Link THEN PubFail("source symlink is forbidden")
        ELSE IF error # Passed THEN PubFail(error)
        ELSE pub' = [pub EXCEPT !.idx = @ + 1,
                       !.read = Append(@, [path |-> SourcePaths[i], bytes |-> f.bytes, executable |-> f.executable])]
  /\ UNCHANGED <<files, tree, con, root, made, clock>>

\* The rest of producer::run: options, pack, the signer, the signature, and
\* verification by a keyring of the signer alone.
SelfCheck(c, key) ==
  VerifyError([form |-> "binary", capsule |-> c], {},
              <<PublicDocument(<<1>>, key, "Production", "Active")>>)

SignPacked(zsize) ==
  /\ pub.pc = "walk" /\ pub.idx > N
  /\ LET doc == files["private"].content
         error ==
           FirstError(<< <<pub.read = <<>>, "source directory contains no files">>,
                         <<PackOptionsError(pub.o) # Passed, "Format">> >>)
         packing == PackError(pub.read, pub.o, zsize)
         c == sign_capsule(Packed(pub.read, pub.o, zsize), doc.box.seed)
     IN IF error # Passed THEN PubFail(error) /\ UNCHANGED made
        ELSE IF packing # Passed THEN PubFail(packing) /\ UNCHANGED made
        ELSE IF ~Complete("private") THEN PubFail("InvalidDocument") /\ UNCHANGED made
        ELSE IF SignerError(doc, pub.pass) # Passed THEN PubFail(SignerError(doc, pub.pass)) /\ UNCHANGED made
        ELSE /\ made' = made \cup {[key |-> doc.box.seed, files |-> pub.read]}
             /\ IF encode_capsule(c) # Passed THEN PubFail(encode_capsule(c))
                ELSE IF SelfCheck(c, doc.box.seed) # Passed THEN PubFail(SelfCheck(c, doc.box.seed))
                ELSE pub' = [pub EXCEPT !.pc = "create", !.capsule = c,
                       !.todo = <<[name |-> "capsule", undo |-> {},
                                   content |-> IF pub.o.format = "token" THEN encode_token(c)
                                               ELSE [form |-> "binary", capsule |-> c, defect |-> Passed]]>>]
  /\ UNCHANGED <<files, tree, con, root, clock>>

-----------------------------------------------------------------------------
(* inspect, verify, diff, apply.                                           *)

\* read_input: a file is taken as the binary form, anything else as a token.
read_input(option) ==
  LET f == files["capsule"] IN
  IF f.state = "torn" \/ (option = "--file" /\ f.content.form # "binary")
  THEN [f.content EXCEPT !.form = "torn"] ELSE f.content

\* CliError::verification.
exit_code(error) ==
  CASE error = Passed -> 0
    [] error = "UnsupportedProtocolVersion" -> 6
    [] error = "InvalidSignature" -> 3
    [] error = "UnknownKey" -> 4
    [] error \in {"Policy", "DuplicateKey", "RetiredKey", "RevokedKey", "DisallowedChannel"} -> 7
    [] error \in {"CapsuleDigestMismatch", "FileDigestMismatch", "PayloadRangeMismatch",
                  "InvalidTextContent", "Compression"} -> 5
    [] OTHER -> 2

Documents(trust) == [i \in 1..Len(trust) |-> files[trust[i]].content]

\* The keyring of a command line; a document that is not all there is no key.
TrustError(trust) ==
  IF \E i \in 1..Len(trust) : ~Complete(trust[i]) THEN "Policy"
  ELSE KeyringError(trusted_keys(Documents(trust)))

\* verify_explained: how many of the five steps pass.
ExplainSteps(input, channels, keyring) ==
  IF from_input(input) # Passed THEN 0
  ELSE IF DecodeStage(input) # Passed THEN 1
  ELSE IF SignatureStage(input.capsule, channels, keyring) # Passed THEN 2
  ELSE IF PayloadStage(input.capsule) # Passed THEN 3
  ELSE 5

\* verify_structural_status: of a capsule that decodes, under a keyring that is
\* one, inspect reports whether it verifies; the others need a verified capsule.
Refuses(kind, structure, untrusted, error) ==
  error # Passed /\ (kind # "inspect" \/ structure # Passed \/ untrusted # Passed)

Consume(kind, option, trust, channels) ==
  /\ con.pc \in {"idle", "done", "failed"} /\ Started
  /\ files["capsule"] \notin {Absent, Foreign}
  /\ option = "--file" \/ files["capsule"].content.form = "token"
  /\ LET input == read_input(option)
         keyring == trusted_keys(Documents(trust))
         untrusted == TrustError(trust)
         structure == IF from_input(input) # Passed THEN from_input(input) ELSE DecodeStage(input)
         error == IF kind = "inspect" /\ structure # Passed THEN structure
                  ELSE IF untrusted # Passed THEN untrusted
                  ELSE VerifyError(input, channels, keyring)
         begun == [NoConsumer EXCEPT !.kind = kind, !.trust = trust, !.channels = channels, !.input = input]
     IN con' = IF Refuses(kind, structure, untrusted, error)
               THEN [NoConsumer EXCEPT !.pc = "failed", !.kind = kind, !.res = exit_code(error)]
               ELSE [begun EXCEPT !.pc = IF kind \in {"diff", "apply"} THEN "diff" ELSE "done",
                                  !.steps = ExplainSteps(input, channels, keyring),
                                  !.valid = (error = Passed), !.res = 0]
  /\ UNCHANGED <<files, tree, pub, root, made>>

\* Where a verified file goes.
Target(f) == CHOOSE i \in 1..N : SourcePaths[i] = f.path
Released == VerifiedFiles(con.input.capsule)

\* compare_file: the bytes decide, the executable bit does not.
compare_file(f, existing) ==
  CASE existing = Absent -> "Create"
    [] existing # Absent /\ existing.bytes = f.bytes -> "Unchanged"
    [] existing # Absent /\ existing.bytes # f.bytes /\ f.kind = "TextUtf8" /\ IsText(existing.bytes) -> "UpdateText"
    [] OTHER -> "UpdateBinary"

\* diff_verified_files; read_existing refuses a link.
Diff ==
  /\ con.pc = "diff"
  /\ LET targets == {Target(Released[k]) : k \in 1..Len(Released)} IN
     IF \E i \in targets : root[i] = Link
     THEN con' = [NoConsumer EXCEPT !.pc = "failed", !.kind = con.kind, !.res = IF con.kind = "apply" THEN 10 ELSE 1]
     ELSE con' = [con EXCEPT !.pc = IF con.kind = "apply" THEN "confirm" ELSE "done",
                    !.report = [k \in 1..Len(Released) |->
                      [path |-> Released[k].path, kind |-> compare_file(Released[k], root[Target(Released[k])])]]]
  /\ UNCHANGED <<publisher, tree, root, made, clock>>

\* --dry-run, or the answer is no.
Decline ==
  /\ con.pc = "confirm"
  /\ con' = [con EXCEPT !.pc = "done"]
  /\ UNCHANGED <<publisher, tree, root, made, clock>>

Written(f) == [bytes |-> f.bytes, executable |-> f.executable]
ApplyFiles(verified) ==
  /\ con.pc = "confirm"
  /\ LET targets == {Target(verified[k]) : k \in 1..Len(verified)}
         new(i) == verified[CHOOSE k \in 1..Len(verified) : Target(verified[k]) = i]
     IN IF \E i \in targets : root[i] = Link
        THEN con' = [NoConsumer EXCEPT !.pc = "failed", !.kind = con.kind, !.res = 8] /\ UNCHANGED root
        ELSE /\ root' = [i \in 1..N |-> IF i \in targets THEN Written(new(i)) ELSE root[i]]
             /\ con' = [con EXCEPT !.pc = "done"]
  /\ UNCHANGED <<publisher, tree, made, clock>>

\* Mutant: the capsule is read again after the question, without its signature.
ApplyReread ==
  /\ con.pc = "confirm" /\ PayloadStage(files["capsule"].content.capsule) = Passed
  /\ ApplyFiles(VerifiedFiles(files["capsule"].content.capsule))

\* apply_transaction takes the capsule that was verified and the destination as
\* it is now.
Apply == ApplyFiles(Released)

-----------------------------------------------------------------------------
(* Everybody else.                                                         *)

\* Another program changes a source file the walk has not come to, or a
\* destination.
WriteSource(i, f) ==
  /\ pub.pc = "walk" /\ i >= pub.idx /\ Disturb
  /\ tree[i] # f /\ tree' = [tree EXCEPT ![i] = f]
  /\ UNCHANGED <<files, pub, con, root, made>>
WriteRoot(i, f) ==
  /\ con.pc \in {"diff", "confirm"} /\ Disturb
  /\ root[i] # f /\ root' = [root EXCEPT ![i] = f]
  /\ UNCHANGED <<files, tree, pub, con, made>>

\* A file appears where the publisher is about to write.
CreateForeign(n) ==
  /\ pub.pc \in {"create", "walk"} /\ Disturb
  /\ files[n] = Absent /\ files' = [files EXCEPT ![n] = Foreign]
  /\ UNCHANGED <<tree, pub, con, root, made>>

\* A holder of another key signed this capsule.
SignedByOther(c) ==
  \E key \in {OtherKey, DevelopmentKey} :
    c.signature = Sign(key, signature_message(capsule_digest(c.header, c.manifest, c.stored)))

\* Another signer, or nobody in particular, replaces the capsule when the
\* publisher is done with it, by one that some signer made or with the
\* signature that was there.
Forge(c) ==
  /\ Disturb
  /\ Len(c.manifest.files) \in Nat
  /\ SignedByOther(c) \/ c.signature = files["capsule"].content.capsule.signature
  /\ files' = [files EXCEPT !["capsule"].content.capsule = c]
  /\ made' = IF SignedByOther(c) /\ PayloadStage(c) = Passed
             THEN made \cup {[key |-> c.signature.by, files |-> VerifiedFiles(c)]} ELSE made
  /\ UNCHANGED <<tree, pub, con, root>>

\* The publisher's command is killed.
Kill ==
  /\ ~Idle /\ Disturb
  /\ pub' = [NoCommand EXCEPT !.pc = "crashed"]
  /\ UNCHANGED <<files, tree, con, root, made>>

MayStart(ready) == ready /\ clock.commands < MaxCommands
Publish ==
  \/ /\ MayStart(Idle)
     /\ \E key \in Keys, channel \in Channels, pass \in Passphrases : Generate(key, channel, pass)
  \/ /\ MayStart(Idle)
     /\ \E from \in {"public", "status"}, to \in {"status", "status2"}, status \in {"Retired", "Revoked"} :
          from # to /\ files[from] \notin {Absent, Foreign} /\ Status(from, to, status)
  \/ /\ MayStart(Idle) /\ files["private"] \notin {Absent, Foreign}
     /\ \E pass, newPass \in Passphrases : Rekey(pass, newPass)
  \/ /\ MayStart(Idle) /\ files["private"] \notin {Absent, Foreign}
     /\ \E o \in PackCommands, pass \in Passphrases : Pack(o, pass)
  \/ Walk
  \/ \E zsize \in ZstdSizes : SignPacked(zsize)
  \/ Create \/ Fill \/ FillFails
Receive ==
  \/ /\ MayStart(con.pc \in {"idle", "done", "failed"}) /\ files["capsule"] \notin {Absent, Foreign}
     /\ \E trust \in {t \in TrustLists : \A i \in 1..Len(t) : files[t[i]] \notin {Absent, Foreign}} :
          \E kind \in {"inspect", "verify", "diff", "apply"}, option \in {"--file", "token"},
             channels \in ChannelArguments : Consume(kind, option, trust, channels)
  \/ Diff \/ Decline \/ Apply
Others ==
  \/ \E i \in 1..N, f \in SourceFiles : WriteSource(i, f)
  \/ \E i \in 1..N, f \in RootFiles : WriteRoot(i, f)
  \/ \E n \in {"public", "capsule"} : CreateForeign(n)
  \/ /\ Idle /\ Complete("capsule") /\ clock.disturbances < MaxDisturbances
     /\ \E c \in Forgeries(files["capsule"].content.capsule) : Forge(c)
  \/ Kill

Next == Publish \/ Receive \/ Others
Spec == Init /\ [][Next]_vars

-----------------------------------------------------------------------------
(* Properties.                                                             *)

\* What a command releases, or an inspection calls valid, is a tree that the
\* holder of a key signed, and that key is trusted by this command line: one of its documents is active in a
\* channel it allows, and none of them says that the key is retired or revoked,
\* whatever capsule lies there and in whichever order the documents are named
\* (TrustedKeyring::new, verify_signature, enforce_policy).
Triples(fs) == {<<fs[i].path, fs[i].bytes, fs[i].executable>> : i \in 1..Len(fs)}
Admitted(key, trust, channels) ==
  /\ \/ key = DevelopmentKey /\ "Development" \in channels
     \/ \E i \in 1..Len(trust) :
          /\ files[trust[i]].content.public_key = key
          /\ \/ files[trust[i]].content.channel = "Production"
             \/ files[trust[i]].content.channel \in channels
  /\ \A i \in 1..Len(trust) :
       files[trust[i]].content.public_key = key => files[trust[i]].content.status = "Active"
ReleasedIsSigned ==
  con.valid =>
    \E m \in made : Triples(m.files) = Triples(Released) /\ Admitted(m.key, con.trust, con.channels)

\* What only a capsule of one's own making that is wrong would be refused for.
SelfCheckErrors ==
  {"CapsuleDigestMismatch", "FileDigestMismatch", "PayloadRangeMismatch", "InvalidTextContent",
   "NonContiguousPayload", "NonCanonicalPathOrder", "FileCountMismatch", "PayloadSizeMismatch",
   "TrailingBytes", "UnexpectedEof", "InvalidSignature", "UnknownKey"}

\* A capsule that `pack` writes is accepted in the form it is written in, by
\* whoever trusts its key, and holds the files as they were read; packing never
\* ends because the capsule it just signed does not verify, except for an
\* expansion or a size beyond the limits (sign_capsule, the self-verification).
PackedVerifies ==
  pub.kind = "pack" =>
    /\ pub.pc \in {"create", "fill"} =>
         LET written == Head(pub.todo).content
             key == pub.capsule.signature.by
         IN /\ VerifyError(written, {}, trusted_keys(<<PublicDocument(<<1>>, key, "Production", "Active")>>)) = Passed
            /\ {<<f.path, f.bytes, f.executable>> : f \in {VerifiedFiles(pub.capsule)[i] : i \in 1..Len(pub.read)}}
                 = {<<f.path, f.bytes, f.executable>> : f \in {pub.read[i] : i \in 1..Len(pub.read)}}
    /\ pub.res \notin SelfCheckErrors

\* A public document that was written without an error belongs to a private
\* document that one of the publisher's passphrases opens, whatever is killed
\* or fails, and also while the key is moved to a new passphrase (keys::generate,
\* keys::rekey).
PublishedKeyUsable ==
  files["public"] \notin {Absent, Foreign} /\ files["public"].state = "whole" =>
    \E n \in {"private", "rekeyed"}, pass \in Passphrases :
      /\ Complete(n)
      /\ SignerError(files[n].content, pass) = Passed
      /\ files[n].content.box.seed = files["public"].content.public_key

\* A command changes the destination only to what one tree says that the
\* holder of an admitted key signed, each file at its own path and with its own
\* executable bit, and everything else stays: also when the capsule file is
\* replaced, or other programs write, while the user is asked (apply,
\* confirm_apply, apply_transaction).
OnlySignedIsWritten ==
  [][con' # con /\ root' # root =>
       \E m \in made :
         /\ Admitted(m.key, con.trust, con.channels)
         /\ \A i \in 1..N : root'[i] # root[i] =>
              \E k \in 1..Len(m.files) : Target(m.files[k]) = i /\ root'[i] = Written(m.files[k])]_vars

=============================================================================
