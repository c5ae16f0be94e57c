---------------------------- MODULE ArtifactFiles ----------------------------
(***************************************************************************)
(* `rebyte encode` and `rebyte decode` on files                            *)
(* (crates/rebyte-cli/src/artifact_command.rs over the streaming codec     *)
(* crates/rebyte-artifact-token/src/codec/stream.rs), next to programs     *)
(* that change the source tree while it is read, replace the artifact      *)
(* between the preview and the reconstruction, or create the destination   *)
(* meanwhile.                                                              *)
(*                                                                         *)
(* A source file has two halves that are read one after the other; version *)
(* v fills both with the byte v, and every rewrite has a new version.      *)
(***************************************************************************)
EXTENDS ArtifactCodec

CONSTANTS
  FilePaths,      \* paths of the source files, in path order
  DirPaths,       \* paths of the source directories, listed with the files
  Suggestions,    \* pairs <<name, path>> the user may embed
  Overrides,      \* names the decoding user may give instead, or <<>>
  Options,        \* command lines of `encode`
  ZstdSizes,      \* sizes Zstandard may reach
  Dictionary,     \* what training returns when it succeeds
  HalfSize,       \* bytes of half a file
  Output,         \* the destination named with --output
  Absent, Link, EmptyDir, Foreign, Nothing,
  Variants(_),    \* envelopes another program may put in place of one
  MaxDisturbances \* bound on what other programs do and on killed commands

N == Len(FilePaths)
Half(v) == [i \in 1..HalfSize |-> v]

\* resolve_target_hints: the suggested path, else the suggested name, with the
\* last component replaced by the name the user gives instead.
Hinted(suggested, override) ==
  LET relative == IF suggested[2] # <<>> THEN suggested[2] ELSE suggested[1] IN
  IF override = <<>> THEN relative
  ELSE IF relative = <<>> THEN override ELSE Front(relative) \o override

Parents(to) == IF to = Output THEN {} ELSE {SubSeq(to, 1, k) : k \in 1..(Len(to) - 1)}
Destinations == {Output} \cup {Hinted(s, name) : s \in Suggestions, name \in Overrides}
Places == (Destinations \cup UNION {Parents(to) : to \in Destinations}) \ {<<>>}

ASSUME ArtifactFilesAssumption ==
  /\ N \in Nat \ {0} /\ HalfSize \in Nat \ {0}
  /\ \A o \in Options : o.format \in {"binary", "token"} /\ o.kind \in {"File", "Directory"}
  /\ Output # <<>>
  /\ Absent # Foreign /\ EmptyDir # Foreign
  /\ FilePaths \in Seq(Seq(Nat)) /\ DirPaths \in Seq(Seq(Nat))
  /\ \A i, j \in 1..N : i < j => PathLess(FilePaths[i], FilePaths[j])
  /\ MaxDisturbances \in Nat /\ ZstdSizes \subseteq Nat

\* train_artifact_dictionary and train_stream_dictionary ask for a dictionary of
\* at most MAX_DICTIONARY_SIZE bytes.
ASSUME DictionaryAssumption ==
  MaxDictionarySize \in Nat /\ Dictionary \in Seq(Nat) /\ Len(Dictionary) <= MaxDictionarySize

VARIABLES
  src,       \* source file -> [ver, exec], Absent or Link
  enc,       \* the encoding command
  out,       \* the artifact file, [form, binary]: "absent", "foreign", "torn" or its format
  dec,       \* the decoding command
  target,    \* destination -> what is there
  atScan,    \* the source tree when the scan ended
  clock      \* disturbances so far

vars == <<src, enc, out, dec, target, atScan, clock>>

NoEncoder == [pc |-> "idle", mode |-> "none", opts |-> Nothing, hint |-> <<>>, pass |-> "none",
              idx |-> 1, half |-> 0, exec |-> FALSE, scanned |-> <<>>, spooled |-> <<>>,
              ordinary |-> 0, dict |-> <<>>, compression |-> "None", binary |-> Nothing, res |-> "none"]
NoOutput == [form |-> "absent", binary |-> Nothing]
NoDecoder == [pc |-> "idle", mode |-> "none", hints |-> FALSE, name |-> <<>>, expected |-> Nothing, to |-> Output,
              head |-> Nothing, tree |-> Nothing, identity |-> Nothing, res |-> "none"]

Init ==
  /\ src = [i \in 1..N |-> [ver |-> 0, exec |-> FALSE]]
  /\ enc = NoEncoder /\ dec = NoDecoder
  /\ out = NoOutput
  /\ target = [t \in Places |-> Absent]
  /\ atScan = src
  /\ clock = 0

decoder == <<dec, target>>
environment == <<src, clock>>

EncodeFail(e) == enc' = [enc EXCEPT !.pc = "failed", !.res = e] /\ UNCHANGED out

-----------------------------------------------------------------------------
(* encode: the command line, the scan of the source tree.                  *)

\* What the command line may not ask for.
CommandError(o) ==
  FirstError(<< <<o.format = "binary" /\ ~o.output, "binary requires output">>,
                <<o.large /\ o.format # "binary", "large requires binary">>,
                <<o.large /\ o.stdin, "large requires a file">> >>)

\* A binary of a path is streamed and refuses an existing output first; all
\* other forms are built in memory.
EncodeStart(o, hint) ==
  /\ enc.pc = "idle"
  /\ IF CommandError(o) # Passed THEN EncodeFail(CommandError(o))
     ELSE IF o.format = "binary" /\ ~o.stdin /\ out.form # "absent" THEN EncodeFail("OutputExists")
     ELSE enc' = [enc EXCEPT !.pc = "scan", !.opts = o, !.hint = hint,
                             !.mode = IF o.format = "binary" /\ ~o.stdin THEN "stream" ELSE "memory"]
          /\ UNCHANGED out
  /\ UNCHANGED <<decoder, atScan, environment>>

\* The files the command reads: one of them for a single file or stdin.
FilesRead(o) == IF o.kind = "File" THEN 1 ELSE N

\* A directory entry is opened and its first half read.  A file removed before
\* its directory was listed is not part of the tree; one removed later is an error.
ScanOpen ==
  /\ enc.pc = "scan" /\ enc.half = 0 /\ enc.idx <= FilesRead(enc.opts)
  /\ LET f == src[enc.idx] IN
     CASE f = Absent ->
            \/ EncodeFail("Io")
            \/ /\ enc.opts.kind = "Directory"
               /\ enc' = [enc EXCEPT !.idx = @ + 1] /\ UNCHANGED out
       [] f = Link -> EncodeFail("SymbolicLink")
       [] OTHER -> /\ enc' = [enc EXCEPT !.half = f.ver + 1, !.exec = f.exec]
                   /\ UNCHANGED out
  /\ UNCHANGED <<decoder, atScan, environment>>

\* What an open file yields for its second half: a removed or relinked name
\* leaves the open file as it was.
SecondHalf(i, first) == IF src[i] \in {Absent, Link} THEN first ELSE src[i].ver
BytesRead(i) == Half(enc.half - 1) \o Half(SecondHalf(i, enc.half - 1))

ScannedFile(o, i, bytes, ex) ==
  [kind |-> "File", path |-> IF o.kind = "File" THEN <<>> ELSE FilePaths[i],
   bytes |-> bytes, executable |-> ex /\ ~o.stdin, index |-> i]

ScanClose ==
  /\ enc.pc = "scan" /\ enc.half # 0
  /\ LET bytes == BytesRead(enc.idx) IN
     IF FirstError(<<enforce_file_size(Len(bytes), enc.opts.limits)>>) # Passed
     THEN EncodeFail("FileTooLarge")
     ELSE /\ enc' = [enc EXCEPT !.idx = @ + 1, !.half = 0,
                       !.scanned = Append(@, ScannedFile(enc.opts, enc.idx, bytes, enc.exec))]
          /\ UNCHANGED out
  /\ UNCHANGED <<decoder, atScan, environment>>

\* The artifact that was scanned.
ScannedArtifact ==
  LET file(i) == LET e == enc.scanned[i] IN
                 [kind |-> e.kind, path |-> e.path, bytes |-> e.bytes, executable |-> e.executable]
      dirs == IF enc.opts.kind = "File" THEN <<>>
              ELSE [k \in 1..Len(DirPaths) |-> [kind |-> "Directory", path |-> DirPaths[k],
                                                bytes |-> <<>>, executable |-> FALSE]]
  IN [kind |-> enc.opts.kind, name |-> enc.hint[1], path |-> enc.hint[2],
      entries |-> [i \in 1..Len(enc.scanned) |-> file(i)] \o dirs]

Original == PayloadOf(Sorted(ScannedArtifact))

\* Streaming: the tree is checked and the payload is spooled, first with
\* Zstandard unless it is to be stored verbatim.
EndScan ==
  /\ enc.pc = "scan" /\ enc.half = 0 /\ enc.idx > FilesRead(enc.opts)
  /\ IF enc.mode = "memory"
     THEN enc' = [enc EXCEPT !.pc = "encode"] /\ UNCHANGED out
     ELSE LET error == canonicalize(ScannedArtifact, enc.opts.limits) IN
          IF error # Passed THEN EncodeFail(error)
          ELSE /\ enc' = [enc EXCEPT !.pc = "spool", !.idx = 1,
                            !.pass = IF enc.opts.compression = "None" THEN "verbatim" ELSE "zstd"]
               /\ UNCHANGED out
  /\ atScan' = src
  /\ UNCHANGED <<decoder, environment>>

-----------------------------------------------------------------------------
(* Streaming: the payload is read again, once for each candidate.          *)

SpoolOpen ==
  /\ enc.pc = "spool" /\ enc.half = 0 /\ enc.idx <= Len(enc.scanned)
  /\ LET f == src[enc.scanned[enc.idx].index] IN
     CASE f = Absent -> EncodeFail("Io")
       [] f = Link -> EncodeFail("SourceChanged")
       [] OTHER -> enc' = [enc EXCEPT !.half = f.ver + 1] /\ UNCHANGED out
  /\ UNCHANGED <<decoder, atScan, environment>>

\* Mutant: a file that changed is taken as it is now.
SpoolCloseRefreshed ==
  /\ enc.pc = "spool" /\ enc.half # 0
  /\ LET bytes == BytesRead(enc.scanned[enc.idx].index) IN
     enc' = [enc EXCEPT !.half = 0, !.idx = @ + 1, !.spooled = @ \o bytes,
                        !.scanned[enc.idx].bytes = bytes]
  /\ UNCHANGED <<out, decoder, atScan, environment>>

\* finish_current: the bytes must have the digest of the scan.
SpoolClose ==
  /\ enc.pc = "spool" /\ enc.half # 0
  /\ LET entry == enc.scanned[enc.idx]
         bytes == BytesRead(entry.index)
     IN IF file_digest(bytes) # file_digest(entry.bytes) THEN EncodeFail("SourceChanged")
        ELSE enc' = [enc EXCEPT !.half = 0, !.idx = @ + 1, !.spooled = @ \o bytes] /\ UNCHANGED out
  /\ UNCHANGED <<decoder, atScan, environment>>

AgainAs(e, pass) == [e EXCEPT !.pc = "spool", !.pass = pass, !.idx = 1, !.spooled = <<>>]

\* Mutant: the dictionary of an earlier pass stays in the manifest.
ChooseStaleDictionary(e, dict, size) ==
  IF e.opts.compression = "Auto" /\ size + DictionaryCost(dict) >= Len(Original)
  THEN AgainAs(e, "verbatim")
  ELSE [e EXCEPT !.pc = "stage", !.compression = "Zstd", !.dict = dict, !.ordinary = size]

\* The payload is compressed with dict to size bytes: keep it, or under Auto
\* store the source verbatim in one more pass.
Choose(e, dict, size) ==
  IF e.opts.compression = "Auto" /\ size + DictionaryCost(dict) >= Len(Original)
  THEN AgainAs([e EXCEPT !.dict = <<>>], "verbatim")
  ELSE [e EXCEPT !.pc = "stage", !.compression = "Zstd", !.dict = dict, !.ordinary = size]

\* The pass ends: the bounded writer and the declared size are checked
\* (spool_with_method), then spool_payload goes on.
EndPass(size) ==
  /\ enc.pc = "spool" /\ enc.half = 0 /\ enc.idx > Len(enc.scanned)
  /\ LET o == enc.opts
         dict == IF enc.pass = "dict" THEN enc.dict ELSE <<>>
         algorithm == IF enc.pass = "verbatim" THEN "None" ELSE "Zstd"
         error == CompressStreamError(enc.spooled, Len(Original), algorithm, dict, size, o.limits)
         next ==
           CASE enc.pass = "verbatim" -> [enc EXCEPT !.pc = "stage", !.compression = "None"]
             [] enc.pass = "zstd" ->
                  IF o.dictionary = "Auto" /\ Trainable(CanonicalEntries(ScannedArtifact))
                  THEN [enc EXCEPT !.pc = "train", !.ordinary = size]
                  ELSE Choose(enc, <<>>, size)
             [] enc.pass = "dict" /\ size + DictionaryCost(dict) >= enc.ordinary ->
                  Choose(enc, <<>>, enc.ordinary)
             [] OTHER -> Choose(enc, dict, size)
     IN IF error # Passed THEN EncodeFail(error) ELSE enc' = next /\ UNCHANGED out
  /\ UNCHANGED <<decoder, atScan, environment>>

\* train_stream_dictionary samples the head of every file; only the length of
\* a file is compared.  A training that fails means no dictionary.
Train(dict) ==
  /\ enc.pc = "train"
  /\ LET sampled == {src[e.index] : e \in {enc.scanned[i] : i \in 1..Len(enc.scanned)}} IN
     IF Link \in sampled THEN EncodeFail("SymbolicLink")
     ELSE IF Absent \in sampled THEN EncodeFail("Io")
     ELSE /\ enc' = IF dict = <<>> THEN Choose(enc, <<>>, enc.ordinary)
                    ELSE AgainAs([enc EXCEPT !.dict = dict], "dict")
          /\ UNCHANGED out
  /\ UNCHANGED <<decoder, atScan, environment>>

\* The envelope is written next to the output: manifest of the scan, payload
\* of the last pass.
Stage ==
  /\ enc.pc = "stage"
  /\ LET a == ScannedArtifact
         limits == enc.opts.limits
         stored == Encoded(enc.spooled, enc.compression, enc.dict, enc.ordinary)
         b == Envelope(a, enc.dict, CanonicalEntries(a), enc.compression, enc.opts.profile, stored)
         error == FirstError(<< <<ManifestSize(b.manifest) > limits.max_manifest_bytes, "ManifestTooLarge">>,
                                enforce_binary_size(BinarySize(b), limits) >>)
     IN IF error # Passed THEN EncodeFail(error)
        ELSE enc' = [enc EXCEPT !.pc = "verify", !.binary = b] /\ UNCHANGED out
  /\ UNCHANGED <<decoder, atScan, environment>>

\* The staged file is decoded before it is committed.
Verify ==
  /\ enc.pc = "verify"
  /\ LET error == StreamDecodeError(enc.binary, enc.opts.limits) IN
     IF error # Passed THEN EncodeFail(error)
     ELSE enc' = [enc EXCEPT !.pc = "persist"] /\ UNCHANGED out
  /\ UNCHANGED <<decoder, atScan, environment>>

\* Mutant: an ordinary rename.
PersistClobber ==
  /\ enc.pc = "persist"
  /\ out' = [form |-> "binary", binary |-> enc.binary]
  /\ enc' = [enc EXCEPT !.pc = "done", !.res = Passed]
  /\ UNCHANGED <<decoder, atScan, environment>>

\* persist_noclobber.
Persist ==
  /\ enc.pc = "persist"
  /\ IF out.form # "absent" THEN EncodeFail("Io")
     ELSE /\ out' = [form |-> "binary", binary |-> enc.binary]
          /\ enc' = [enc EXCEPT !.pc = "done", !.res = Passed]
  /\ UNCHANGED <<decoder, atScan, environment>>

-----------------------------------------------------------------------------
(* In memory: one reading, encode_artifact, write_new.                     *)

EncodeInMemory(dict, ordinary, dictSize) ==
  /\ enc.pc = "encode"
  /\ dict # <<>> => /\ enc.opts.dictionary = "Auto"
                    /\ Trainable(CanonicalEntries(ScannedArtifact))
  /\ LET r == EncodeResult(ScannedArtifact, enc.opts, dict, ordinary, dictSize) IN
     IF r.error # Passed THEN EncodeFail(r.error)
     ELSE IF r.verify # Passed THEN EncodeFail(r.verify)
     ELSE IF enc.opts.format = "token" /\ TokenError(r.binary, enc.opts.limits) # Passed
     THEN EncodeFail("TokenTooLarge")
     ELSE /\ enc' = [enc EXCEPT !.pc = IF enc.opts.output THEN "create" ELSE "done",
                                !.binary = r.binary, !.res = Passed]
          /\ UNCHANGED out
  /\ UNCHANGED <<decoder, atScan, environment>>

\* write_new creates the output and then fills it.
CreateOutput ==
  /\ enc.pc = "create"
  /\ IF out.form # "absent" THEN EncodeFail("Io")
     ELSE /\ out' = [form |-> "torn", binary |-> enc.binary]
          /\ enc' = [enc EXCEPT !.pc = "fill"]
  /\ UNCHANGED <<decoder, atScan, environment>>
FillOutput ==
  /\ enc.pc = "fill"
  /\ out' = [out EXCEPT !.form = enc.opts.format]
  /\ enc' = [enc EXCEPT !.pc = "done"]
  /\ UNCHANGED <<decoder, atScan, environment>>

-----------------------------------------------------------------------------
(* decode.                                                                 *)

DecodeFail(e) == dec' = [dec EXCEPT !.pc = "failed", !.res = e] /\ UNCHANGED target
encoder == <<enc, out, atScan>>
Readable == out.form \notin {"absent", "foreign"}
Limits == enc.opts.limits

\* A file that starts with the magic is streamed, everything else is read as
\* text; with hints the destination comes from the artifact.
DecodeStart(hints, name) ==
  /\ name # <<>> => hints
  /\ dec.pc = "idle" /\ Readable /\ enc.pc \in {"done", "failed", "crashed"}
  /\ IF out.form # "binary" /\ enc.opts.large THEN DecodeFail("large requires binary")
     ELSE IF out.form = "torn" THEN DecodeFail("UnexpectedEof")
     ELSE /\ dec' = [dec EXCEPT !.pc = "load", !.hints = hints, !.name = name,
                                !.mode = IF out.form = "binary" THEN "stream" ELSE "memory"]
          /\ UNCHANGED target
  /\ UNCHANGED <<encoder, environment>>

Committing == dec.mode = "stream" /\ (~dec.hints \/ dec.expected # Nothing)

\* Mutant: the reconstruction does not ask for the previewed envelope.
LoadAny ==
  /\ dec.pc = "load"
  /\ LET b == out.binary
         error == IF dec.mode = "memory" THEN TokenError(b, Limits) ELSE LoadError(b, Limits)
     IN IF error # Passed THEN DecodeFail(error)
        ELSE IF Committing /\ target[dec.to] # Absent THEN DecodeFail("OutputExists")
        ELSE /\ dec' = [dec EXCEPT !.pc = "body", !.head = [header |-> b.header, manifest |-> b.manifest]]
             /\ UNCHANGED target
  /\ UNCHANGED <<encoder, environment>>

\* load_envelope: header and manifest are read; the reconstruction after a
\* preview must find the envelope digest of the preview, and no output.
Load ==
  /\ dec.pc = "load"
  /\ LET b == out.binary
         held == [header |-> b.header, manifest |-> b.manifest]
         error == IF dec.mode = "memory" THEN TokenError(b, Limits) ELSE LoadError(b, Limits)
     IN IF error # Passed THEN DecodeFail(error)
        ELSE IF dec.expected # Nothing /\ dec.expected # b.header.envelope_digest
             THEN DecodeFail("SourceChanged")
        ELSE IF Committing /\ target[dec.to] # Absent THEN DecodeFail("OutputExists")
        ELSE dec' = [dec EXCEPT !.pc = "body", !.head = held] /\ UNCHANGED target
  /\ UNCHANGED <<encoder, environment>>

\* The stored bytes are read and everything is verified; in memory, by
\* decode_artifact over the bytes that were read.
Body ==
  /\ dec.pc = "body"
  /\ LET h == dec.head.header
         m == dec.head.manifest
         b == out.binary
         error == IF dec.mode = "memory"
                  THEN DecodeError([header |-> h, manifest |-> m, stored |-> b.stored,
                                    trailing |-> b.trailing], Limits)
                  ELSE BodyError(h, m, b.stored, b.trailing, Limits)
         stored == Taken(b.stored, b.trailing, h.stored_size)
     IN IF error # Passed THEN DecodeFail(error)
        ELSE /\ dec' = [dec EXCEPT !.pc = IF Committing THEN "commit" ELSE "resolve",
                          !.tree = reconstruct(h.kind, m, DecodedBytes(stored, h.compression)),
                          !.identity = envelope_digest(h, m, stored)]
             /\ UNCHANGED target
  /\ UNCHANGED <<encoder, environment>>

HintOf(a) == Hinted(<<a.name, a.path>>, dec.name)

\* validate_override_name and prepare_confined_target: each parent of a hinted
\* destination is a directory or is created; the check is not repeated.
ConfinedError(to) ==
  FirstError(<< <<dec.name # <<>> /\ (Len(dec.name) # 1 \/ ~ValidPath(dec.name, Limits.max_path_bytes)), "Name">>,
                <<to = <<>>, "no suggested destination">>,
                <<to # <<>> /\ \E p \in Parents(to) : target[p] \notin {Absent, EmptyDir}, "crosses a link">> >>)
Prepared(to) == [t \in Places |-> IF t \in Parents(to) THEN EmptyDir ELSE target[t]]

\* The preview is over: a streamed artifact is read again for the destination
\* it suggests, an artifact in memory is restored (restore looks first).  Bound:
\* a suggested destination is one of Places.
Resolve ==
  /\ dec.pc = "resolve"
  /\ dec.hints => HintOf(dec.tree) \in Places \cup {<<>>}
  /\ LET to == IF dec.hints THEN HintOf(dec.tree) ELSE Output
         error == IF dec.hints THEN ConfinedError(to) ELSE Passed
     IN IF error # Passed THEN DecodeFail(error)
        ELSE IF dec.mode = "stream"
        THEN /\ dec' = [dec EXCEPT !.pc = "load", !.to = to, !.expected = dec.identity]
             /\ target' = Prepared(to)
        ELSE IF target[to] # Absent
        THEN dec' = [dec EXCEPT !.pc = "failed", !.res = "OutputExists"] /\ target' = Prepared(to)
        ELSE dec' = [dec EXCEPT !.pc = "commit", !.to = to] /\ target' = Prepared(to)
  /\ UNCHANGED <<encoder, environment>>

\* commit_raw, materialize_tree: a file is linked only where nothing is; a staged
\* tree is renamed, which an empty directory allows.
FreeFor(kind) == IF kind = "File" THEN {Absent} ELSE {Absent, EmptyDir}

\* restore, restore_file and restore_directory do the same from memory.
Commit ==
  /\ dec.pc = "commit"
  /\ IF target[dec.to] \notin FreeFor(dec.tree.kind) THEN DecodeFail("Io")
     ELSE /\ target' = [target EXCEPT ![dec.to] = dec.tree]
          /\ dec' = [dec EXCEPT !.pc = "done", !.res = Passed]
  /\ UNCHANGED <<encoder, environment>>

-----------------------------------------------------------------------------
(* Everybody else.                                                         *)

\* Replacing the artifact counts for two, so that it is not combined with others.
Disturb(weight) == clock + weight <= MaxDisturbances /\ clock' = clock + weight

Running(c) == c.pc \notin {"idle", "done", "failed", "crashed"}

\* Another program rewrites, removes, relinks or re-modes a source file.
Rewritten(file, what) ==
  CASE what = "rewrite" -> [file EXCEPT !.ver = clock + 1]
    [] what = "mode" -> [file EXCEPT !.exec = ~@]
    [] what = "remove" -> Absent
    [] what = "relink" -> Link
WriteSource(i, what) ==
  /\ Disturb(1)
  /\ enc.pc \in {"scan", "spool", "train"}
  /\ src[i] \notin {Absent, Link}
  /\ src' = [src EXCEPT ![i] = Rewritten(@, what)]
  /\ UNCHANGED <<enc, out, decoder, atScan>>

\* What stands in a file is bytes: its declared and its real lengths are
\* numbers, and what is stored verbatim is as long as it is.
IsBinary(b) ==
  /\ b.header.manifest_size \in Nat /\ b.header.stored_size \in Nat
  /\ b.stored.size \in Nat /\ b.trailing \in Nat /\ Len(b.manifest.entries) \in Nat
  /\ b.stored.form = "raw" => b.stored.data \in Seq(Int) /\ b.stored.size = Len(b.stored.data)
Replacements(b) == {c \in Variants(b) : IsBinary(c)}

\* Another envelope takes the place of the artifact, or a destination appears.
SwapArtifact ==
  /\ Disturb(2) /\ Readable /\ out.form # "torn"
  /\ enc.pc \in {"done", "failed", "crashed"} /\ dec.pc \notin {"done", "failed", "crashed"}
  /\ \E b \in Replacements(enc.binary) \cup {enc.binary} : out' = [out EXCEPT !.binary = b]
  /\ UNCHANGED <<src, enc, decoder, atScan>>
CreateForeign(t, what) ==
  /\ Disturb(1) /\ target[t] = Absent /\ Running(dec)
  /\ target' = [target EXCEPT ![t] = what]
  /\ UNCHANGED <<src, enc, out, dec, atScan>>
CreateForeignOutput ==
  /\ Disturb(1) /\ out.form = "absent" /\ enc.pc \notin {"done", "failed", "crashed"}
  /\ out' = [out EXCEPT !.form = "foreign"]
  /\ UNCHANGED <<src, enc, decoder, atScan>>

\* The filesystem refuses to write or to sync the file that write_new created:
\* it stays, torn or whole, and the command reports the error.
FillFails(form) ==
  /\ Disturb(1)
  /\ enc.pc = "fill"
  /\ form \in {"torn", enc.opts.format}
  /\ out' = [out EXCEPT !.form = form]
  /\ enc' = [enc EXCEPT !.pc = "failed", !.res = "Io"]
  /\ UNCHANGED <<src, decoder, atScan>>

\* A command is killed: what it staged stays under temporary names.
Crash ==
  /\ Disturb(1)
  /\ \/ Running(enc) /\ enc' = [enc EXCEPT !.pc = "crashed"] /\ UNCHANGED dec
     \/ Running(dec) /\ dec' = [dec EXCEPT !.pc = "crashed"] /\ UNCHANGED enc
  /\ UNCHANGED <<src, out, target, atScan>>

Encode ==
  \/ \E o \in Options, hint \in Suggestions : EncodeStart(o, hint)
  \/ ScanOpen \/ ScanClose \/ EndScan
  \/ SpoolOpen \/ SpoolClose \/ \E size \in ZstdSizes : EndPass(size)
  \/ \E dict \in {<<>>, Dictionary} : Train(dict)
  \/ Stage \/ Verify \/ Persist
  \/ \E dict \in {<<>>, Dictionary}, s, t \in ZstdSizes : EncodeInMemory(dict, s, t)
  \/ CreateOutput \/ FillOutput
Decode ==
  \/ \E hints \in BOOLEAN, name \in Overrides : DecodeStart(hints, name)
  \/ Load \/ Body \/ Resolve \/ Commit
Others ==
  \/ \E i \in 1..N, what \in {"rewrite", "mode", "remove", "relink"} : WriteSource(i, what)
  \/ SwapArtifact
  \/ \E t \in Places, what \in {EmptyDir, Foreign} : CreateForeign(t, what)
  \/ CreateForeignOutput
  \/ \E form \in {"torn", "token", "binary"} : FillFails(form)
  \/ Crash

Next == Encode \/ Decode \/ Others
Spec == Init /\ [][Next]_vars

-----------------------------------------------------------------------------
(* Properties.                                                             *)

FilesOf(a) == {<<a.entries[i].path, a.entries[i].bytes>> : i \in {j \in 1..Len(a.entries) : a.entries[j].kind = "File"}}
FilesAt(tree) ==
  {<<IF enc.opts.kind = "File" THEN <<>> ELSE FilePaths[i], Half(tree[i].ver) \o Half(tree[i].ver)>> :
     i \in {j \in 1..FilesRead(enc.opts) : tree[j] \notin {Absent, Link}}}

\* A streamed artifact holds the source files as they all were at one instant,
\* the end of the scan: every file is hashed before that instant and read again
\* after it, whichever passes follow, so a rewrite at any other time ends the
\* command (hash_source_file, ArtifactReader::finish_current).
SnapshotConsistent ==
  enc.mode = "stream" /\ enc.pc \in {"persist", "done"} =>
    FilesOf(decode_artifact(enc.binary)) = FilesAt(atScan)

\* What only an envelope of one's own making that is wrong would be refused for.
SelfVerificationErrors ==
  {"EnvelopeDigestMismatch", "ContentDigestMismatch", "FileDigestMismatch", "InvalidPayloadRange",
   "InvalidStream", "InvalidDictionary", "MetadataFlagMismatch", "EntryCountMismatch", "NonCanonicalOrder", "UnexpectedEof"}

\* What encode is about to commit, in memory or streamed, is accepted by both
\* decoders and decodes to the scanned artifact in canonical order.
CommittedDecodes ==
  enc.pc \in {"persist", "create", "fill", "done"} =>
    /\ DecodeError(enc.binary, enc.opts.limits) = Passed
    /\ StreamDecodeError(enc.binary, enc.opts.limits) = Passed
    /\ decode_artifact(enc.binary) = [ScannedArtifact EXCEPT !.entries = Sorted(ScannedArtifact)]

\* A file that is not complete, or one beside a reported failure, is only left by
\* write_new, killed in it or refused by the filesystem: a command that reports
\* success never leaves a torn file, and a streamed one that fails leaves none.
LeftByWriteNew ==
  Readable /\ (out.form = "torn" \/ enc.pc = "failed") =>
    /\ enc.mode = "memory"
    /\ enc.pc \in {"fill", "crashed"} \/ (enc.pc = "failed" /\ enc.res = "Io")

\* What encode commits decodes to what was scanned, nothing else is left of it
\* but by write_new, and no encoding is given up because its own verification
\* rejects it (encode_artifact, encode_artifact_file, write_new).
EncodedDecodes == CommittedDecodes /\ LeftByWriteNew /\ enc.res \notin SelfVerificationErrors

\* The one-pass decoder and the streaming decoder, which make their checks in
\* different orders and the last of them over different bytes, accept the same
\* files (decode_artifact, decode_artifact_file_inner).
DecodersAgree ==
  Readable =>
    (DecodeError(out.binary, enc.opts.limits) = Passed
       <=> StreamDecodeError(out.binary, enc.opts.limits) = Passed)

\* Whatever replaces the artifact while it is read, what appears at a
\* destination chosen by the artifact's own suggestion is the artifact of the
\* preview, and suggests that destination (decode_artifact_file_expected).
CommittedAsPreviewed ==
  dec.pc = "done" =>
    /\ target[dec.to] = dec.tree
    /\ dec.hints => HintOf(dec.tree) = dec.to
    /\ dec.hints /\ dec.mode = "stream" => dec.identity = dec.expected

\* Nothing that another program put at the output of encode or at a
\* destination of decode after the command looked there is replaced
\* (persist_noclobber, write_new, rename of a staged tree).
NothingReplaced ==
  [][/\ out.form = "foreign" => out'.form = "foreign"
     /\ \A t \in Places : target[t] = Foreign => target'[t] = Foreign]_vars

=============================================================================
