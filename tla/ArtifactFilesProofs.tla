------------------------ MODULE ArtifactFilesProofs ------------------------
(***************************************************************************)
(* Encoding and decoding on files, for every source tree, command line and *)
(* destination, whatever other programs do meanwhile.                      *)
(*                                                                         *)
(* DecoderInv follows a decoding from its preview to its commit, EncoderInv*)
(* the versions of the source files through the readings of an encoding,   *)
(* EnvelopeInv every artifact file that there is, SpoolInv the payload from*)
(* the scan to the envelope that the encoder itself verifies.              *)
(***************************************************************************)
EXTENDS ArtifactFiles, WellFoundedInduction, SequenceTheorems, FiniteSetTheorems, TLAPS

-----------------------------------------------------------------------------
(* Checks.                                                                 *)

\* A set of natural numbers that is not empty has a smallest element.
LEMMA Smallest ==
  ASSUME NEW S, S \subseteq Nat, S # {}
  PROVE  \E i \in S : \A j \in S : i <= j
<1>1. PICK i \in S : \A j \in S : ~(<<j, i>> \in OpToRel(<, Nat))
  BY NatLessThanWellFounded, WFMin
<1>2. \A j \in S : <<j, i>> \in OpToRel(<, Nat) <=> j < i
  BY DEF OpToRel
<1>3. \A j \in S : ~(j < i)
  BY <1>1, <1>2, Zenon
<1> QED  BY <1>3

\* The error of a validator is that of one of its failing checks.
LEMMA SomeFails ==
  ASSUME NEW checks, Failing(checks) # {}, Len(checks) \in Nat
  PROVE  \E i \in Failing(checks) : FirstError(checks) = checks[i][2]
<1>1. Failing(checks) \subseteq Nat
  BY DEF Failing
<1>2. \E i \in Failing(checks) : \A j \in Failing(checks) : i <= j
  BY <1>1, Smallest
<1>3. (CHOOSE i \in Failing(checks) : \A j \in Failing(checks) : i <= j) \in Failing(checks)
  BY <1>2
<1> QED  BY <1>3 DEF FirstError

\* Three checks that pass hold.
LEMMA ThreePass ==
  ASSUME NEW a \in BOOLEAN, NEW b \in BOOLEAN, NEW c \in BOOLEAN, NEW e, NEW f, NEW g, NEW l,
         e # Passed, f # Passed, g # Passed, FirstError(l) = Passed,
         Len(l) = 3, l[1] = <<a, e>>, l[2] = <<b, f>>, l[3] = <<c, g>>
  PROVE  ~a /\ ~b /\ ~c
<1>1. /\ Len(l) = 3 /\ l[1][1] = a /\ l[2][1] = b /\ l[3][1] = c
      /\ l[1][2] = e /\ l[2][2] = f /\ l[3][2] = g
  OBVIOUS
<1>2. FirstError(l) = Passed
  OBVIOUS
<1>3. Failing(l) = {i \in {1, 2, 3} : l[i][1]}
  BY <1>1 DEF Failing
<1>4. Failing(l) = {}
  BY <1>1, <1>2, <1>3, SomeFails
<1> QED  BY <1>1, <1>3, <1>4

-----------------------------------------------------------------------------
(* Destinations.                                                           *)

\* The parents of a destination that passed the check hold directories or nothing.
LEMMA ConfinedParents ==
  ASSUME NEW to, ConfinedError(to) = Passed
  PROVE  /\ to # <<>>
         /\ \A p \in Parents(to) : target[p] \in {Absent, EmptyDir}
<1> DEFINE a == dec.name # <<>> /\ (Len(dec.name) # 1 \/ ~ValidPath(dec.name, Limits.max_path_bytes))
           b == to = <<>>
           c == to # <<>> /\ \E p \in Parents(to) : target[p] \notin {Absent, EmptyDir}
<1>1. a \in BOOLEAN /\ b \in BOOLEAN /\ c \in BOOLEAN
  OBVIOUS
<1>2. FirstError(<< <<a, "Name">>, <<b, "no suggested destination">>, <<c, "crosses a link">> >>) = Passed
  BY Zenon DEF ConfinedError
<1>3. "Name" # Passed /\ "no suggested destination" # Passed /\ "crosses a link" # Passed
  BY DEF Passed
<1> HIDE DEF a, b, c
<1> DEFINE l == << <<a, "Name">>, <<b, "no suggested destination">>, <<c, "crosses a link">> >>
<1>4. /\ Len(l) = 3 /\ l[1] = <<a, "Name">> /\ l[2] = <<b, "no suggested destination">>
      /\ l[3] = <<c, "crosses a link">>
  BY <1>1
<1>5. ~b /\ ~c
  BY <1>1, <1>2, <1>3, <1>4, ThreePass, Zenon
<1> QED  BY <1>5 DEF b, c

\* Concatenation of two checks and one.
LEMMA TwoAndOne ==
  ASSUME NEW x, NEW y, NEW z
  PROVE  /\ Len(<<x, y>> \o <<z>>) = 3
         /\ (<<x, y>> \o <<z>>)[1] = x /\ (<<x, y>> \o <<z>>)[2] = y /\ (<<x, y>> \o <<z>>)[3] = z
<1> DEFINE S == {x, y, z}
<1>1. <<x, y>> \in Seq(S) /\ <<z>> \in Seq(S)
  OBVIOUS
<1> HIDE DEF S
<1> QED  BY <1>1

\* The body of an envelope that passes has the digest its header names.
LEMMA BodyPasses ==
  ASSUME NEW h, NEW m, NEW stored, NEW trailing, NEW limits,
         BodyError(h, m, stored, trailing, limits) = Passed
  PROVE  /\ h.envelope_digest = envelope_digest(h, m, Taken(stored, trailing, h.stored_size))
         /\ \A i \in 1..Len(m.entries) :
              m.entries[i].kind = "File" =>
                m.entries[i].digest =
                  file_digest(Slice(DecodedBytes(Taken(stored, trailing, h.stored_size), h.compression), m.entries[i]))
<1> DEFINE taken == Taken(stored, trailing, h.stored_size)
           payload == DecodedBytes(taken, h.compression)
           a == h.envelope_digest # envelope_digest(h, m, taken)
           b == stored.size + trailing # h.stored_size
           c == \E i \in 1..Len(m.entries) :
                  LET e == m.entries[i] IN
                  e.kind = "File" /\ e.digest # file_digest(Slice(payload, e))
<1>1. a \in BOOLEAN /\ b \in BOOLEAN /\ c \in BOOLEAN
  OBVIOUS
<1>2. FirstError(<< <<a, "EnvelopeDigestMismatch">>, <<b, "EnvelopeLengthMismatch">> >>
                 \o << <<c, "FileDigestMismatch">> >>) = Passed
  <2>1. FirstError(<< EnvelopeCheck(h, m, taken),
                      <<stored.size + trailing # h.stored_size, "EnvelopeLengthMismatch">> >>
                   \o PayloadChecks(m, payload)) = Passed
    BY Zenon DEF BodyError
  <2>2. EnvelopeCheck(h, m, taken) = <<a, "EnvelopeDigestMismatch">>
    BY Zenon DEF EnvelopeCheck
  <2>3. PayloadChecks(m, payload) = << <<c, "FileDigestMismatch">> >>
    BY Zenon DEF PayloadChecks
  <2> QED  BY <2>1, <2>2, <2>3, Zenon
<1>3. /\ "EnvelopeDigestMismatch" # Passed /\ "EnvelopeLengthMismatch" # Passed
      /\ "FileDigestMismatch" # Passed
  BY DEF Passed
<1> HIDE DEF a, b, c
<1> DEFINE x == <<a, "EnvelopeDigestMismatch">>
           y == <<b, "EnvelopeLengthMismatch">>
           z == <<c, "FileDigestMismatch">>
           l == <<x, y>> \o <<z>>
<1>4. /\ Len(l) = 3 /\ l[1] = x /\ l[2] = y /\ l[3] = z
  <2> HIDE DEF x, y, z
  <2> QED  BY TwoAndOne
<1>8. FirstError(l) = Passed
  BY <1>2
<1> HIDE DEF l
<1>5. ~a /\ ~c
  BY <1>1, <1>3, <1>4, <1>8, ThreePass, Zenon
<1>6. h.envelope_digest = envelope_digest(h, m, taken)
  BY <1>5 DEF a
<1>7. \A i \in 1..Len(m.entries) :
        m.entries[i].kind = "File" => m.entries[i].digest = file_digest(Slice(payload, m.entries[i]))
  BY <1>5, Zenon DEF c
<1> QED  BY <1>6, <1>7, Zenon

-----------------------------------------------------------------------------
(* The decoder.                                                            *)

\* The destination an envelope digest stands for: the suggestion of its manifest.
SuggestedBy(identity) == Hinted(<<identity[11].name, identity[11].path>>, dec.name)

DecoderShape ==
  /\ dec = [pc |-> dec.pc, mode |-> dec.mode, hints |-> dec.hints, name |-> dec.name,
            expected |-> dec.expected, to |-> dec.to, head |-> dec.head, tree |-> dec.tree,
            identity |-> dec.identity, res |-> dec.res]
  /\ target = [t \in Places |-> target[t]]
  /\ dec.to \in Places

\* Between the preview and the commit, the destination is the one suggested by
\* the envelope that the reconstruction must find again.
PreviewBinds ==
  /\ dec.pc = "idle" => dec.expected = Nothing
  /\ dec.pc \in {"load", "body"} /\ dec.hints /\ dec.mode = "stream" /\ dec.expected # Nothing =>
       dec.to = SuggestedBy(dec.expected)
  /\ dec.pc = "body" /\ dec.expected # Nothing =>
       dec.head.header.envelope_digest = dec.expected
  /\ dec.pc = "resolve" => HintOf(dec.tree) = SuggestedBy(dec.identity)
  /\ dec.pc = "commit" /\ dec.hints =>
       /\ HintOf(dec.tree) = dec.to
       /\ dec.mode = "stream" => dec.identity = dec.expected

DecoderInv == DecoderShape /\ PreviewBinds /\ CommittedAsPreviewed

\* A failed command commits nothing.
LEMMA DecodeFailStep ==
  ASSUME DecoderInv, NEW e, DecodeFail(e)
  PROVE  DecoderInv'
BY DEF DecoderInv, DecoderShape, PreviewBinds, CommittedAsPreviewed, DecodeFail

\* A command that starts has no destination of a preview yet.
LEMMA DecodeStartStep ==
  ASSUME DecoderInv, NEW hints, NEW name, DecodeStart(hints, name)
  PROVE  DecoderInv'
<1>1. CASE \E e : DecodeFail(e)
  BY <1>1, DecodeFailStep
<1>2. CASE /\ dec.pc = "idle" /\ UNCHANGED target
           /\ dec' = [dec EXCEPT !.pc = "load", !.hints = hints, !.name = name,
                                 !.mode = IF out.form = "binary" THEN "stream" ELSE "memory"]
  <2>1. PICK mode : mode = IF out.form = "binary" THEN "stream" ELSE "memory"
    OBVIOUS
  <2>2. dec' = [dec EXCEPT !.pc = "load", !.hints = hints, !.name = name, !.mode = mode]
    BY <1>2, <2>1, Zenon
  <2>3. dec.expected = Nothing
    BY <1>2 DEF DecoderInv, PreviewBinds
  <2> QED  BY <1>2, <2>2, <2>3 DEF DecoderInv, DecoderShape, PreviewBinds, CommittedAsPreviewed
<1> QED  BY <1>1, <1>2, Zenon DEF DecodeStart

\* The reconstruction goes on only with the envelope of the preview.
LEMMA LoadStep ==
  ASSUME DecoderInv, Load
  PROVE  DecoderInv'
<1> DEFINE b == out.binary
           held == [header |-> b.header, manifest |-> b.manifest]
<1>1. CASE \E e : DecodeFail(e)
  BY <1>1, DecodeFailStep
<1>2. CASE /\ dec.pc = "load" /\ UNCHANGED target
           /\ ~(dec.expected # Nothing /\ dec.expected # b.header.envelope_digest)
           /\ dec' = [dec EXCEPT !.pc = "body", !.head = held]
  <2>1. dec.expected # Nothing => held.header.envelope_digest = dec.expected
    BY <1>2
  <2> HIDE DEF b, held
  <2> QED  BY <1>2, <2>1 DEF DecoderInv, DecoderShape, PreviewBinds, CommittedAsPreviewed,
                               SuggestedBy, HintOf
<1> QED  BY <1>1, <1>2, Zenon DEF Load

\* A suggestion is read from the manifest, and so is the digest.
LEMMA DigestSuggests ==
  ASSUME NEW h, NEW m, NEW stored, NEW payload
  PROVE  /\ envelope_digest(h, m, stored)[11] = m
         /\ \A kind : /\ reconstruct(kind, m, payload).name = m.name
                      /\ reconstruct(kind, m, payload).path = m.path
BY DEF envelope_digest, reconstruct

\* What the body holds suggests the destination of the envelope that was
\* found, which is the one of the preview.
LEMMA BodyStep ==
  ASSUME DecoderInv, Body
  PROVE  DecoderInv'
<1> DEFINE h == dec.head.header
           m == dec.head.manifest
           b == out.binary
           stored == Taken(b.stored, b.trailing, h.stored_size)
           tree == reconstruct(h.kind, m, DecodedBytes(stored, h.compression))
           identity == envelope_digest(h, m, stored)
<1>1. CASE \E e : DecodeFail(e)
  BY <1>1, DecodeFailStep
<1>2. CASE /\ dec.pc = "body" /\ UNCHANGED target
           /\ dec.mode = "memory" \/ BodyError(h, m, b.stored, b.trailing, Limits) = Passed
           /\ dec' = [dec EXCEPT !.pc = IF Committing THEN "commit" ELSE "resolve",
                                 !.tree = tree, !.identity = identity]
  <2>3. dec.expected # Nothing => h.envelope_digest = dec.expected
    BY <1>2 DEF DecoderInv, PreviewBinds
  <2> HIDE DEF h, m, b
  <2>1. /\ identity[11] = m /\ tree.name = m.name /\ tree.path = m.path
    <3> DEFINE payload == DecodedBytes(stored, h.compression)
    <3> HIDE DEF stored, payload
    <3>1. \A kind : /\ reconstruct(kind, m, payload).name = m.name
                   /\ reconstruct(kind, m, payload).path = m.path
      BY DigestSuggests
    <3>2. envelope_digest(h, m, stored)[11] = m
      BY DigestSuggests
    <3> QED  BY <3>1, <3>2 DEF payload
  <2>2. dec.mode # "memory" => h.envelope_digest = identity
    <3>1. ASSUME dec.mode # "memory"
          PROVE  BodyError(h, m, b.stored, b.trailing, Limits) = Passed
      BY <1>2, <3>1
    <3> DEFINE st == b.stored
               tr == b.trailing
               lim == Limits
    <3> HIDE DEF st, tr, lim
    <3>2. ASSUME BodyError(h, m, st, tr, lim) = Passed
          PROVE  h.envelope_digest = envelope_digest(h, m, Taken(st, tr, h.stored_size))
      BY <3>2, BodyPasses, Zenon
    <3> QED  BY <3>1, <3>2 DEF st, tr, lim
  <2> HIDE DEF stored, tree, identity
  <2>4. /\ dec'.tree = tree /\ dec'.identity = identity /\ dec'.name = dec.name
        /\ dec'.hints = dec.hints /\ dec'.mode = dec.mode /\ dec'.expected = dec.expected
        /\ dec'.to = dec.to
        /\ dec'.pc = IF Committing THEN "commit" ELSE "resolve"
        /\ DecoderShape'
    BY <1>2 DEF DecoderInv, DecoderShape
  <2>5. HintOf(dec.tree)' = SuggestedBy(dec.identity)'
    BY <2>1, <2>4 DEF HintOf, SuggestedBy
  <2>6. CASE Committing
    <3>1. dec'.pc = "commit" /\ dec.mode = "stream"
      BY <2>4, <2>6 DEF Committing
    <3>2. ASSUME dec.hints
          PROVE  HintOf(dec.tree)' = dec'.to /\ identity = dec.expected
      <4>1. dec.expected # Nothing
        BY <2>6, <3>2 DEF Committing
      <4>2. identity = dec.expected
        BY <4>1, <2>2, <2>3, <3>1
      <4>3. dec.to = SuggestedBy(dec.expected)
        BY <1>2, <3>1, <3>2, <4>1 DEF DecoderInv, PreviewBinds
      <4>4. SuggestedBy(dec.identity)' = dec.to
        BY <4>2, <4>3, <2>4 DEF SuggestedBy
      <4> QED  BY <2>4, <2>5, <4>2, <4>4
    <3>3. PreviewBinds'
      BY <3>1, <3>2, <2>4 DEF PreviewBinds
    <3>4. CommittedAsPreviewed'
      BY <3>1 DEF CommittedAsPreviewed
    <3> QED  BY <2>4, <3>3, <3>4 DEF DecoderInv
  <2>7. CASE ~Committing
    BY <2>4, <2>5, <2>7 DEF DecoderInv, PreviewBinds, CommittedAsPreviewed
  <2> QED  BY <2>6, <2>7
<1> QED  BY <1>1, <1>2, Zenon DEF Body

\* The destination is taken from the preview.
LEMMA ResolveStep ==
  ASSUME DecoderInv, Resolve
  PROVE  DecoderInv'
<1> DEFINE to == IF dec.hints THEN HintOf(dec.tree) ELSE Output
<1>1. CASE \E e : DecodeFail(e)
  BY <1>1, DecodeFailStep
<1>2. dec.pc = "resolve" /\ (dec.hints => HintOf(dec.tree) \in Places \cup {<<>>})
  BY DEF Resolve
<1>3. HintOf(dec.tree) = SuggestedBy(dec.identity)
  BY <1>2 DEF DecoderInv, PreviewBinds
<1>4. Output \in Places
  BY ArtifactFilesAssumption DEF Places, Destinations
<1>5. CASE (dec.hints => ConfinedError(to) = Passed) /\ target' = Prepared(to)
  <2>1. dec.hints => to # <<>>
    BY <1>5, ConfinedParents, Zenon
  <2>2. to \in Places
    BY <1>2, <1>4, <2>1
  <2>3. target' = [t \in Places |-> target'[t]]
    BY <1>5 DEF Prepared
  <2>4. dec.hints => to = HintOf(dec.tree) /\ to = SuggestedBy(dec.identity)
    BY <1>3
  <2> HIDE DEF to
  <2>5. CASE dec' = [dec EXCEPT !.pc = "load", !.to = to, !.expected = dec.identity]
    <3>1. DecoderShape' /\ dec'.pc = "load" /\ dec'.to = to /\ dec'.expected = dec.identity
          /\ dec'.hints = dec.hints /\ dec'.name = dec.name
      BY <2>2, <2>3, <2>5 DEF DecoderInv, DecoderShape
    <3>2. SuggestedBy(dec.expected)' = SuggestedBy(dec.identity)
      BY <3>1 DEF SuggestedBy
    <3> QED  BY <2>4, <3>1, <3>2 DEF DecoderInv, PreviewBinds, CommittedAsPreviewed
  <2>6. CASE dec' = [dec EXCEPT !.pc = "failed", !.res = "OutputExists"]
    BY <2>3, <2>6 DEF DecoderInv, DecoderShape, PreviewBinds, CommittedAsPreviewed
  <2>7. CASE dec.mode # "stream" /\ dec' = [dec EXCEPT !.pc = "commit", !.to = to]
    <3>1. DecoderShape' /\ dec'.pc = "commit" /\ dec'.to = to /\ dec'.tree = dec.tree
          /\ dec'.hints = dec.hints /\ dec'.name = dec.name /\ dec'.mode = dec.mode
      BY <2>2, <2>3, <2>7 DEF DecoderInv, DecoderShape
    <3>2. HintOf(dec.tree)' = HintOf(dec.tree)
      BY <3>1 DEF HintOf
    <3> QED  BY <2>4, <2>7, <3>1, <3>2 DEF DecoderInv, PreviewBinds, CommittedAsPreviewed
  <2>8. \/ dec' = [dec EXCEPT !.pc = "load", !.to = to, !.expected = dec.identity]
        \/ dec' = [dec EXCEPT !.pc = "failed", !.res = "OutputExists"]
        \/ dec.mode # "stream" /\ dec' = [dec EXCEPT !.pc = "commit", !.to = to]
        \/ \E e : DecodeFail(e)
    BY Zenon DEF Resolve, to
  <2> QED  BY <1>1, <2>5, <2>6, <2>7, <2>8
<1>6. (\E e : DecodeFail(e)) \/ ((dec.hints => ConfinedError(to) = Passed) /\ target' = Prepared(to))
  BY Zenon DEF Resolve
<1> QED  BY <1>1, <1>5, <1>6

\* The tree is linked or renamed into a free place.
LEMMA CommitStep ==
  ASSUME DecoderInv, Commit
  PROVE  DecoderInv'
<1>1. CASE \E e : DecodeFail(e)
  BY <1>1, DecodeFailStep
<1>2. CASE /\ dec.pc = "commit"
           /\ target' = [target EXCEPT ![dec.to] = dec.tree]
           /\ dec' = [dec EXCEPT !.pc = "done", !.res = Passed]
  <2>1. /\ dec'.pc = "done" /\ dec'.to = dec.to /\ dec'.tree = dec.tree /\ dec'.hints = dec.hints
        /\ dec'.name = dec.name /\ dec'.mode = dec.mode /\ dec'.identity = dec.identity
        /\ dec'.expected = dec.expected
        /\ dec' = [pc |-> dec'.pc, mode |-> dec'.mode, hints |-> dec'.hints, name |-> dec'.name,
                   expected |-> dec'.expected, to |-> dec'.to, head |-> dec'.head, tree |-> dec'.tree,
                   identity |-> dec'.identity, res |-> dec'.res]
    BY <1>2 DEF DecoderInv, DecoderShape
  <2>2. target'[dec.to] = dec.tree /\ target' = [t \in Places |-> target'[t]] /\ dec.to \in Places
    BY <1>2 DEF DecoderInv, DecoderShape
  <2>3. HintOf(dec.tree)' = HintOf(dec.tree)
    BY <2>1 DEF HintOf
  <2> QED  BY <1>2, <2>1, <2>2, <2>3 DEF DecoderInv, DecoderShape, PreviewBinds, CommittedAsPreviewed
<1> QED  BY <1>1, <1>2, Zenon DEF Commit

\* Another program creates something only where nothing is, while the command
\* runs.
LEMMA CreateForeignStep ==
  ASSUME DecoderInv, NEW t \in Places, NEW what, CreateForeign(t, what)
  PROVE  DecoderInv'
BY DEF DecoderInv, DecoderShape, PreviewBinds, CommittedAsPreviewed, SuggestedBy, HintOf,
       CreateForeign, Running

\* A killed command is over.
LEMMA CrashDecodeStep ==
  ASSUME DecoderInv, Crash
  PROVE  DecoderInv'
<1>1. CASE dec' = [dec EXCEPT !.pc = "crashed"] /\ UNCHANGED target
  BY <1>1 DEF DecoderInv, DecoderShape, PreviewBinds, CommittedAsPreviewed
<1>2. CASE UNCHANGED <<dec, target>>
  BY <1>2 DEF DecoderInv, DecoderShape, PreviewBinds, CommittedAsPreviewed, SuggestedBy, HintOf
<1> QED  BY <1>1, <1>2 DEF Crash

-----------------------------------------------------------------------------
(* The encoder.                                                            *)

EncoderShape ==
  /\ enc = [pc |-> enc.pc, mode |-> enc.mode, opts |-> enc.opts, hint |-> enc.hint,
            pass |-> enc.pass, idx |-> enc.idx, half |-> enc.half, exec |-> enc.exec,
            scanned |-> enc.scanned, spooled |-> enc.spooled, ordinary |-> enc.ordinary,
            dict |-> enc.dict, compression |-> enc.compression, binary |-> enc.binary,
            res |-> enc.res]
  /\ out = [form |-> out.form, binary |-> out.binary]

\* An entry of the scan, with the place of its file in the source tree.
ScannedFiles ==
  [kind : {"File"}, path : {<<>>} \cup {FilePaths[i] : i \in 1..N}, bytes : Seq(Nat),
   executable : BOOLEAN, index : 1..N]

EncoderTypes ==
  /\ enc.idx \in Nat \ {0} /\ enc.half \in Nat /\ enc.exec \in BOOLEAN
  /\ enc.scanned \in Seq(ScannedFiles) /\ enc.spooled \in Seq(Nat)
  /\ enc.pc = "idle" => enc.idx = 1 /\ enc.half = 0 /\ enc.scanned = <<>>
  /\ enc.pc \notin {"idle", "failed", "crashed"} =>
       enc.opts \in Options /\ enc.mode \in {"stream", "memory"}
  /\ enc.pc \in {"encode", "create", "fill"} => enc.mode = "memory"
  /\ enc.pc \in {"spool", "train", "stage", "verify", "persist"} => enc.mode = "stream"
  /\ enc.pc = "train" => enc.half = 0
  /\ enc.pc = "fill" => out.form = "torn"

\* A source file is there to be read.
Here(tree, i) == tree[i] \notin {Absent, Link}

TreeTypes(tree) ==
  /\ tree = [i \in 1..N |-> tree[i]]
  /\ \A i \in 1..N : Here(tree, i) =>
       /\ tree[i] = [ver |-> tree[i].ver, exec |-> tree[i].exec]
       /\ tree[i].ver \in 0..clock /\ tree[i].exec \in BOOLEAN

\* Versions only grow, and what was removed or relinked does not come back.
SourceInv ==
  /\ clock \in Nat
  /\ TreeTypes(src) /\ TreeTypes(atScan)
  /\ \A i \in 1..N : Here(src, i) => Here(atScan, i) /\ atScan[i].ver <= src[i].ver

\* The halves of e were read one after the other, before tree was as it is.
ReadBefore(e, tree) ==
  \E v, w \in 0..clock :
    /\ e.bytes = Half(v) \o Half(w) /\ v <= w
    /\ Here(tree, e.index) => w <= tree[e.index].ver

\* The scan of the first n files, seen from tree: every entry is such a file,
\* and every file is an entry unless it is absent.
Covers(tree, n) ==
  /\ \A k \in 1..Len(enc.scanned) :
       LET e == enc.scanned[k] IN
       /\ e.index \in 1..n
       /\ e.path = IF enc.opts.kind = "File" THEN <<>> ELSE FilePaths[e.index]
       /\ ReadBefore(e, tree)
  /\ \A j \in 1..n :
       tree[j] = Absent \/ \E k \in 1..Len(enc.scanned) : enc.scanned[k].index = j

ScanInv ==
  enc.pc = "scan" =>
    /\ enc.idx <= FilesRead(enc.opts) + 1
    /\ Covers(src, enc.idx - 1)
    /\ enc.half # 0 => /\ enc.idx <= FilesRead(enc.opts) /\ enc.half - 1 <= clock
                       /\ Here(src, enc.idx) => enc.half - 1 <= src[enc.idx].ver

\* The entry holds the file as it was when the scan ended.
Confirmed(e) ==
  /\ Here(atScan, e.index)
  /\ e.bytes = Half(atScan[e.index].ver) \o Half(atScan[e.index].ver)

\* After the scan a pass confirms one entry after the other.
Streaming ==
  enc.pc \in {"spool", "train", "stage", "verify", "persist"} \/ (enc.pc = "done" /\ enc.mode = "stream")
StreamInv ==
  /\ Streaming => Covers(atScan, FilesRead(enc.opts))
  /\ Streaming /\ enc.pc # "spool" => \A k \in 1..Len(enc.scanned) : Confirmed(enc.scanned[k])
  /\ enc.pc = "spool" =>
       /\ enc.idx <= Len(enc.scanned) + 1
       /\ \A k \in 1..(enc.idx - 1) : Confirmed(enc.scanned[k])
       /\ enc.half # 0 =>
            LET i == enc.scanned[enc.idx].index IN
            enc.idx <= Len(enc.scanned) /\ Here(atScan, i) /\ atScan[i].ver <= enc.half - 1
  /\ enc.pc = "verify" =>
       enc.binary = Envelope(ScannedArtifact, enc.dict, CanonicalEntries(ScannedArtifact),
                             enc.compression, enc.opts.profile,
                             Encoded(enc.spooled, enc.compression, enc.dict, enc.ordinary))

EncoderInv == EncoderShape /\ EncoderTypes /\ SourceInv /\ ScanInv /\ StreamInv

\* The source tree stays; the end of the scan may remember it.
LEMMA SourceKept ==
  ASSUME SourceInv, UNCHANGED <<src, clock>>, atScan' = atScan \/ atScan' = src
  PROVE  SourceInv'
<1>1. CASE atScan' = atScan
  BY <1>1 DEF SourceInv, TreeTypes, Here
<1>2. CASE atScan' = src
  BY <1>2 DEF SourceInv, TreeTypes, Here
<1> QED  BY <1>1, <1>2

\* A command that has failed or was killed promises nothing.
LEMMA EncodeEnds ==
  ASSUME EncoderInv, UNCHANGED src, out' = [form |-> out'.form, binary |-> out'.binary], clock' = clock \/ clock' = clock + 1,
         atScan' = atScan \/ atScan' = src, NEW e,
         \/ enc' = [enc EXCEPT !.pc = "failed", !.res = e]
         \/ enc' = [enc EXCEPT !.pc = "crashed"]
  PROVE  EncoderInv'
<1>1. EncoderShape'
  BY DEF EncoderInv, EncoderShape
<1>2. /\ enc'.pc \in {"failed", "crashed"} /\ enc'.idx = enc.idx /\ enc'.half = enc.half
      /\ enc'.exec = enc.exec /\ enc'.scanned = enc.scanned /\ enc'.spooled = enc.spooled
  BY DEF EncoderInv, EncoderShape
<1>3. EncoderTypes'
  BY <1>2 DEF EncoderInv, EncoderTypes
<1>4. SourceInv'
  <2>1. clock \in Nat /\ clock' \in Nat /\ clock <= clock'
    BY DEF EncoderInv, SourceInv
  <2>2. TreeTypes(src)' /\ TreeTypes(atScan)'
    <3>1. TreeTypes(src)'
      BY <2>1 DEF EncoderInv, SourceInv, TreeTypes, Here
    <3>2. CASE atScan' = atScan
      BY <2>1, <3>1, <3>2 DEF EncoderInv, SourceInv, TreeTypes, Here
    <3>3. CASE atScan' = src
      BY <3>1, <3>3 DEF TreeTypes, Here
    <3> QED  BY <3>1, <3>2, <3>3
  <2>3. \A i \in 1..N : Here(src, i)' => Here(atScan, i)' /\ atScan'[i].ver <= src'[i].ver
    <3>1. CASE atScan' = atScan
      BY <3>1 DEF EncoderInv, SourceInv, TreeTypes, Here
    <3>2. CASE atScan' = src
      BY <3>2 DEF EncoderInv, SourceInv, TreeTypes, Here
    <3> QED  BY <3>1, <3>2
  <2> QED  BY <2>1, <2>2, <2>3 DEF SourceInv
<1>5. ScanInv' /\ StreamInv'
  BY <1>2 DEF ScanInv, StreamInv, Streaming
<1> QED  BY <1>1, <1>3, <1>4, <1>5 DEF EncoderInv

\* So does one that fails or is killed with the output as it was.
LEMMA EncodeOver ==
  ASSUME EncoderInv, UNCHANGED <<out, src>>, clock' = clock \/ clock' = clock + 1,
         atScan' = atScan \/ atScan' = src, NEW e,
         \/ enc' = [enc EXCEPT !.pc = "failed", !.res = e]
         \/ enc' = [enc EXCEPT !.pc = "crashed"]
  PROVE  EncoderInv'
<1>1. out' = [form |-> out'.form, binary |-> out'.binary]
  BY DEF EncoderInv, EncoderShape
<1> QED  BY <1>1, EncodeEnds

\* Steps that leave the encoder and the source tree alone.
LEMMA EncoderKept ==
  ASSUME EncoderInv, UNCHANGED <<enc, src, atScan>>, clock' \in Nat, clock <= clock',
         out' = [form |-> out'.form, binary |-> out'.binary],
         enc.pc = "fill" => out'.form = "torn"
  PROVE  EncoderInv'
<1>0. clock \in Nat
  BY DEF EncoderInv, SourceInv
<1>1. EncoderShape' /\ EncoderTypes'
  BY DEF EncoderInv, EncoderShape, EncoderTypes
<1>2. SourceInv'
  BY <1>0 DEF EncoderInv, SourceInv, TreeTypes, Here
<1>4. ASSUME NEW n, Covers(src, n) PROVE Covers(src, n)'
  <2>1. ASSUME NEW k \in 1..Len(enc.scanned) PROVE ReadBefore(enc.scanned[k], src)'
    <3> DEFINE e == enc.scanned[k]
    <3>1. PICK v \in 0..clock, w \in 0..clock :
            /\ e.bytes = Half(v) \o Half(w) /\ v <= w
            /\ Here(src, e.index) => w <= src[e.index].ver
      BY <1>4 DEF Covers, ReadBefore
    <3>2. v \in 0..clock' /\ w \in 0..clock' /\ e' = e
      BY <1>0
    <3>3. Here(src, e.index)' <=> Here(src, e.index)
      BY <3>2 DEF Here
    <3> HIDE DEF e
    <3>4. ReadBefore(e, src)'
      BY <3>1, <3>2, <3>3 DEF ReadBefore, Half
    <3> QED  BY <3>4 DEF e
  <2> QED  BY <1>4, <2>1 DEF Covers
<1>5. ASSUME NEW n, Covers(atScan, n) PROVE Covers(atScan, n)'
  <2>1. ASSUME NEW k \in 1..Len(enc.scanned) PROVE ReadBefore(enc.scanned[k], atScan)'
    <3> DEFINE e == enc.scanned[k]
    <3>1. PICK v \in 0..clock, w \in 0..clock :
            /\ e.bytes = Half(v) \o Half(w) /\ v <= w
            /\ Here(atScan, e.index) => w <= atScan[e.index].ver
      BY <1>5 DEF Covers, ReadBefore
    <3>2. v \in 0..clock' /\ w \in 0..clock' /\ e' = e
      BY <1>0
    <3>3. Here(atScan, e.index)' <=> Here(atScan, e.index)
      BY <3>2 DEF Here
    <3> HIDE DEF e
    <3>4. ReadBefore(e, atScan)'
      BY <3>1, <3>2, <3>3 DEF ReadBefore, Half
    <3> QED  BY <3>4 DEF e
  <2> QED  BY <1>5, <2>1 DEF Covers
<1>6. ScanInv'
  BY <1>0, <1>4 DEF EncoderInv, ScanInv, EncoderTypes, Here
<1>7. ScannedArtifact' = ScannedArtifact
  BY DEF ScannedArtifact
<1>8. StreamInv'
  BY <1>5, <1>7 DEF EncoderInv, StreamInv, Streaming, Confirmed, Here
<1> QED  BY <1>1, <1>2, <1>6, <1>8 DEF EncoderInv

\* A command reads one file or all of them.
LEMMA FilesReadType ==
  ASSUME NEW o \in Options
  PROVE  FilesRead(o) \in 1..N
<1>1. N \in Nat \ {0}
  BY ArtifactFilesAssumption
<1>2. FilesRead(o) = 1 \/ FilesRead(o) = N
  BY DEF FilesRead
<1> QED  BY <1>1, <1>2

\* What a rewrite, a change of mode, a removal or a link makes of a file.
LEMMA WrittenFile ==
  ASSUME SourceInv, NEW i \in 1..N, NEW what \in {"rewrite", "mode", "remove", "relink"},
         WriteSource(i, what)
  PROVE  /\ clock' = clock + 1 /\ clock' \in Nat /\ UNCHANGED <<enc, out, atScan>>
         /\ src' = [j \in 1..N |-> src'[j]] /\ \A j \in 1..N \ {i} : src'[j] = src[j]
         /\ Here(src, i)
         /\ \/ src'[i] \in {Absent, Link}
            \/ /\ src'[i] = [ver |-> src'[i].ver, exec |-> src'[i].exec]
               /\ src'[i].ver \in 0..clock' /\ src[i].ver <= src'[i].ver
               /\ src'[i].exec \in BOOLEAN
<1>1. /\ clock \in Nat /\ src = [j \in 1..N |-> src[j]] /\ Here(src, i)
      /\ src[i] = [ver |-> src[i].ver, exec |-> src[i].exec]
      /\ src[i].ver \in 0..clock /\ src[i].exec \in BOOLEAN
  BY DEF SourceInv, TreeTypes, WriteSource, Here
<1>2. clock' = clock + 1 /\ clock' \in Nat /\ UNCHANGED <<enc, out, atScan>>
  BY <1>1 DEF WriteSource, Disturb
<1>3. PICK f : f = Rewritten(src[i], what) /\ src' = [src EXCEPT ![i] = f]
  BY DEF WriteSource
<1>4. src'[i] = f /\ src' = [j \in 1..N |-> src'[j]] /\ \A j \in 1..N \ {i} : src'[j] = src[j]
  BY <1>1, <1>3
<1>5. CASE what = "rewrite"
  <2>1. f = [src[i] EXCEPT !.ver = clock + 1]
    BY <1>3, <1>5 DEF Rewritten
  <2> QED  BY <1>1, <1>2, <1>4, <2>1
<1>6. CASE what = "mode"
  <2>1. PICK b \in BOOLEAN : b = ~src[i].exec
    BY <1>1
  <2>2. f = [src[i] EXCEPT !.exec = ~src[i].exec]
    BY <1>3, <1>6, Zenon DEF Rewritten
  <2>3. f = [src[i] EXCEPT !.exec = b]
    BY <2>1, <2>2, Zenon
  <2> QED  BY <1>1, <1>2, <1>4, <2>3
<1>7. CASE what \in {"remove", "relink"}
  <2>1. f \in {Absent, Link}
    BY <1>3, <1>7 DEF Rewritten
  <2> QED  BY <1>1, <1>2, <1>4, <2>1
<1> QED  BY <1>5, <1>6, <1>7

\* A source file changes while the command reads: what was read before stays
\* older than what is there.
LEMMA WriteSourceStep ==
  ASSUME EncoderInv, NEW i \in 1..N, NEW what \in {"rewrite", "mode", "remove", "relink"},
         WriteSource(i, what)
  PROVE  EncoderInv'
<1>0. SourceInv /\ clock \in Nat
  BY DEF EncoderInv, SourceInv
<1>1. /\ clock' = clock + 1 /\ clock' \in Nat /\ UNCHANGED <<enc, out, atScan>>
      /\ src' = [j \in 1..N |-> src'[j]] /\ \A j \in 1..N \ {i} : src'[j] = src[j]
      /\ Here(src, i)
      /\ \/ src'[i] \in {Absent, Link}
         \/ /\ src'[i] = [ver |-> src'[i].ver, exec |-> src'[i].exec]
            /\ src'[i].ver \in 0..clock' /\ src[i].ver <= src'[i].ver
            /\ src'[i].exec \in BOOLEAN
  BY <1>0, WrittenFile
<1>2. \A j \in 1..N : Here(src, j) => /\ src[j].ver \in 0..clock /\ src[j].exec \in BOOLEAN
                                     /\ src[j] = [ver |-> src[j].ver, exec |-> src[j].exec]
  BY <1>0 DEF SourceInv, TreeTypes
<1>3. \A j \in 1..N : Here(src, j)' =>
        /\ Here(src, j) /\ src[j].ver <= src'[j].ver /\ src'[j].ver \in 0..clock'
        /\ src'[j].exec \in BOOLEAN /\ src'[j] = [ver |-> src'[j].ver, exec |-> src'[j].exec]
  <2> SUFFICES ASSUME NEW j \in 1..N, Here(src, j)'
               PROVE  /\ Here(src, j) /\ src[j].ver <= src'[j].ver /\ src'[j].ver \in 0..clock'
                      /\ src'[j].exec \in BOOLEAN
                      /\ src'[j] = [ver |-> src'[j].ver, exec |-> src'[j].exec]
    OBVIOUS
  <2>1. CASE j = i
    BY <1>1, <2>1 DEF Here
  <2>2. CASE j # i
    <3>1. src'[j] = src[j]
      BY <1>1, <2>2
    <3>2. Here(src, j)
      BY <3>1 DEF Here
    <3> QED  BY <1>0, <1>1, <1>2, <3>1, <3>2
  <2> QED  BY <2>1, <2>2
<1>4. SourceInv'
  <2>1. TreeTypes(src)'
    BY <1>1, <1>3 DEF TreeTypes
  <2>2. TreeTypes(atScan)'
    BY <1>0, <1>1 DEF SourceInv, TreeTypes, Here
  <2>3. \A j \in 1..N : Here(src, j)' => Here(atScan, j)' /\ atScan'[j].ver <= src'[j].ver
    <3> SUFFICES ASSUME NEW j \in 1..N, Here(src, j)'
                 PROVE  Here(atScan, j)' /\ atScan'[j].ver <= src'[j].ver
      OBVIOUS
    <3>1. /\ Here(atScan, j) /\ atScan[j].ver <= src[j].ver /\ src[j].ver <= src'[j].ver
          /\ src[j].ver \in 0..clock /\ src'[j].ver \in 0..clock' /\ atScan[j].ver \in 0..clock
      BY <1>0, <1>2, <1>3 DEF SourceInv, TreeTypes
    <3> QED  BY <1>0, <1>1, <3>1 DEF Here
  <2> QED  BY <1>1, <2>1, <2>2, <2>3 DEF SourceInv
<1>5. EncoderShape' /\ EncoderTypes'
  BY <1>1 DEF EncoderInv, EncoderShape, EncoderTypes
<1>6. ASSUME NEW k \in 1..Len(enc.scanned), NEW n \in 0..N, Covers(src, n)
      PROVE  ReadBefore(enc.scanned[k], src)'
  <2> DEFINE e == enc.scanned[k]
  <2>1. PICK v \in 0..clock, w \in 0..clock :
          /\ e.bytes = Half(v) \o Half(w) /\ v <= w
          /\ Here(src, e.index) => w <= src[e.index].ver
    BY <1>6 DEF Covers, ReadBefore
  <2>2. v \in 0..clock' /\ w \in 0..clock' /\ e' = e /\ e.index \in 1..N
    <3>1. e.index \in 1..n /\ N \in Nat
      BY <1>6, ArtifactFilesAssumption DEF Covers
    <3> QED  BY <1>0, <1>1, <3>1
  <2>3. Here(src, e.index)' => w <= src'[e.index].ver
    <3> SUFFICES ASSUME Here(src, e.index)' PROVE w <= src'[e.index].ver
      OBVIOUS
    <3>1. Here(src, e.index) /\ src[e.index].ver <= src'[e.index].ver
          /\ src'[e.index].ver \in 0..clock' /\ src[e.index].ver \in 0..clock
      BY <1>2, <1>3, <2>2 DEF Here
    <3>2. w <= src[e.index].ver
      BY <2>1, <3>1
    <3> HIDE DEF e
    <3> QED  BY <1>0, <1>1, <3>1, <3>2
  <2> HIDE DEF e
  <2>4. ReadBefore(e, src)'
    BY <2>1, <2>2, <2>3 DEF ReadBefore, Half
  <2> QED  BY <2>4 DEF e
<1>7. ASSUME NEW k \in 1..Len(enc.scanned), NEW n \in 0..N, Covers(atScan, n)
      PROVE  ReadBefore(enc.scanned[k], atScan)'
  <2> DEFINE e == enc.scanned[k]
  <2>1. PICK v \in 0..clock, w \in 0..clock :
          /\ e.bytes = Half(v) \o Half(w) /\ v <= w
          /\ Here(atScan, e.index) => w <= atScan[e.index].ver
    BY <1>7 DEF Covers, ReadBefore
  <2>2. v \in 0..clock' /\ w \in 0..clock' /\ e' = e
    BY <1>0, <1>1
  <2>3. Here(atScan, e.index)' => w <= atScan'[e.index].ver
    BY <1>1, <2>1, <2>2 DEF Here
  <2> HIDE DEF e
  <2>4. ReadBefore(e, atScan)'
    BY <2>1, <2>2, <2>3 DEF ReadBefore, Half
  <2> QED  BY <2>4 DEF e
<1>8. ASSUME NEW n \in 0..N, Covers(src, n) PROVE Covers(src, n)'
  <2>0. \A j \in 1..n : j \in 1..N
    BY ArtifactFilesAssumption
  <2>1. \A j \in 1..n : src[j] = Absent => src'[j] = Absent
    BY <1>1, <2>0 DEF Here
  <2> QED  BY <1>1, <1>6, <1>8, <2>1 DEF Covers
<1>9. ASSUME NEW n \in 0..N, Covers(atScan, n) PROVE Covers(atScan, n)'
  BY <1>1, <1>7, <1>9 DEF Covers
<1>10. ScanInv'
  <2> SUFFICES ASSUME enc.pc = "scan" PROVE ScanInv'
    BY <1>1 DEF ScanInv
  <2>1. enc.opts \in Options /\ enc.idx \in Nat \ {0} /\ FilesRead(enc.opts) \in 1..N
    <3>1. enc.opts \in Options /\ enc.idx \in Nat \ {0}
      BY DEF EncoderInv, EncoderTypes
    <3> QED  BY <3>1, FilesReadType
  <2>2. /\ enc.idx - 1 \in 0..N /\ enc.idx <= FilesRead(enc.opts) + 1 /\ Covers(src, enc.idx - 1)
    BY <2>1, ArtifactFilesAssumption DEF EncoderInv, ScanInv
  <2>3. Covers(src, enc.idx - 1)'
    <3>1. PICK n \in 0..N : n = enc.idx - 1
      BY <2>2
    <3>2. Covers(src, n)'
      BY <1>8, <2>2, <3>1
    <3>3. n = (enc.idx - 1)'
      BY <1>1, <3>1
    <3> QED  BY <3>2, <3>3
  <2>4. ASSUME enc.half # 0
        PROVE  /\ enc.idx <= FilesRead(enc.opts) /\ enc.half - 1 <= clock'
               /\ Here(src, enc.idx)' => enc.half - 1 <= src'[enc.idx].ver
    <3>1. /\ enc.half \in Nat /\ enc.idx \in 1..N /\ enc.half - 1 <= clock
          /\ enc.idx <= FilesRead(enc.opts)
          /\ Here(src, enc.idx) => enc.half - 1 <= src[enc.idx].ver
      BY <2>1, <2>4, ArtifactFilesAssumption DEF EncoderInv, ScanInv, EncoderTypes
    <3>2. ASSUME Here(src, enc.idx)' PROVE enc.half - 1 <= src'[enc.idx].ver
      <4>1. /\ Here(src, enc.idx) /\ src[enc.idx].ver <= src'[enc.idx].ver
            /\ src[enc.idx].ver \in 0..clock /\ src'[enc.idx].ver \in 0..clock'
        BY <1>1, <1>2, <1>3, <3>1, <3>2 DEF Here
      <4> QED  BY <1>0, <1>1, <3>1, <4>1
    <3> QED  BY <1>0, <1>1, <3>1, <3>2
  <2> QED  BY <1>1, <2>2, <2>3, <2>4 DEF ScanInv, Here
<1>11. StreamInv'
  <2>1. ScannedArtifact' = ScannedArtifact
    BY <1>1 DEF ScannedArtifact
  <2>2. ASSUME Streaming PROVE Covers(atScan, FilesRead(enc.opts))'
    <3>1. enc.opts \in Options
      BY <2>2 DEF EncoderInv, EncoderTypes, Streaming
    <3>2. PICK n \in 0..N : n = FilesRead(enc.opts)
      BY <3>1, FilesReadType, ArtifactFilesAssumption
    <3>3. Covers(atScan, n)
      BY <2>2, <3>2 DEF EncoderInv, StreamInv
    <3>4. Covers(atScan, n)'
      BY <1>9, <3>3
    <3>5. n = FilesRead(enc.opts)'
      BY <1>1, <3>2
    <3> QED  BY <3>4, <3>5
  <2> QED  BY <1>1, <2>1, <2>2 DEF EncoderInv, StreamInv, Streaming, Confirmed, Here
<1> QED  BY <1>4, <1>5, <1>10, <1>11 DEF EncoderInv

\* The same entries seen from the same trees.
LEMMA CoversSame ==
  ASSUME NEW n, UNCHANGED <<src, clock>>, enc'.scanned = enc.scanned, enc'.opts = enc.opts
  PROVE  /\ Covers(src, n) => Covers(src, n)'
         /\ atScan' = atScan /\ Covers(atScan, n) => Covers(atScan, n)'
         /\ atScan' = src /\ Covers(src, n) => Covers(atScan, n)'
<1> DEFINE here(tree, i) == tree[i] \notin {Absent, Link}
           C(scanned, opts, top, tree) ==
             /\ \A k \in 1..Len(scanned) :
                  LET e == scanned[k] IN
                  /\ e.index \in 1..n
                  /\ e.path = IF opts.kind = "File" THEN <<>> ELSE FilePaths[e.index]
                  /\ \E v, w \in 0..top :
                       /\ e.bytes = Half(v) \o Half(w) /\ v <= w
                       /\ here(tree, e.index) => w <= tree[e.index].ver
             /\ \A j \in 1..n :
                  tree[j] = Absent \/ \E k \in 1..Len(scanned) : scanned[k].index = j
<1>1. \A tree : Covers(tree, n) <=> C(enc.scanned, enc.opts, clock, tree)
  BY Zenon DEF Covers, ReadBefore, Here
<1>2. Covers(src, n)' <=> C(enc'.scanned, enc'.opts, clock', src')
  BY Zenon DEF Covers, ReadBefore, Here
<1>3. Covers(atScan, n)' <=> C(enc'.scanned, enc'.opts, clock', atScan')
  BY Zenon DEF Covers, ReadBefore, Here
<1> HIDE DEF C
<1> QED  BY <1>1, <1>2, <1>3

\* The command line is accepted: nothing is read yet.
LEMMA EncodeStartStep ==
  ASSUME EncoderInv, NEW o \in Options, NEW hint, EncodeStart(o, hint)
  PROVE  EncoderInv'
<1>1. UNCHANGED <<src, clock, atScan>> /\ enc.pc = "idle"
  BY DEF EncodeStart, environment
<1>2. CASE \E e : EncodeFail(e)
  BY <1>1, <1>2, EncodeOver DEF EncodeFail
<1>3. CASE /\ enc' = [enc EXCEPT !.pc = "scan", !.opts = o, !.hint = hint,
                                !.mode = IF o.format = "binary" /\ ~o.stdin THEN "stream" ELSE "memory"]
           /\ UNCHANGED out
  <2>1. PICK mode \in {"stream", "memory"} :
          mode = IF o.format = "binary" /\ ~o.stdin THEN "stream" ELSE "memory"
    OBVIOUS
  <2>2. enc' = [enc EXCEPT !.pc = "scan", !.opts = o, !.hint = hint, !.mode = mode]
    BY <1>3, <2>1, Zenon
  <2>3. EncoderShape'
    BY <1>3, <2>2 DEF EncoderInv, EncoderShape
  <2>4. /\ enc'.pc = "scan" /\ enc'.opts = o /\ enc'.mode = mode /\ enc'.idx = 1 /\ enc'.half = 0
        /\ enc'.exec = enc.exec /\ enc'.scanned = <<>> /\ enc'.spooled = enc.spooled
    BY <1>1, <2>2 DEF EncoderInv, EncoderShape, EncoderTypes
  <2>5. EncoderTypes'
    BY <1>3, <2>1, <2>4 DEF EncoderInv, EncoderTypes
  <2>6. SourceInv'
    BY <1>1, SourceKept DEF EncoderInv
  <2>7. ScanInv'
    <3>1. Covers(src, 0)'
      BY <2>4 DEF Covers
    <3>2. FilesRead(o) \in Nat
      BY FilesReadType, ArtifactFilesAssumption
    <3> QED  BY <2>4, <3>1, <3>2 DEF ScanInv
  <2>8. StreamInv'
    BY <2>4 DEF StreamInv, Streaming
  <2> QED  BY <2>3, <2>5, <2>6, <2>7, <2>8 DEF EncoderInv
<1> QED  BY <1>2, <1>3, Zenon DEF EncodeStart

\* The next file is skipped because it is absent, or opened.
LEMMA ScanOpenStep ==
  ASSUME EncoderInv, ScanOpen
  PROVE  EncoderInv'
<1>1. /\ UNCHANGED <<src, clock, atScan>> /\ enc.pc = "scan" /\ enc.half = 0
      /\ enc.idx <= FilesRead(enc.opts)
  BY DEF ScanOpen, environment
<1>2. CASE \E e : EncodeFail(e)
  BY <1>1, <1>2, EncodeOver DEF EncodeFail
<1>3. /\ enc.idx \in Nat \ {0} /\ FilesRead(enc.opts) \in 1..N /\ enc.idx \in 1..N
      /\ Covers(src, enc.idx - 1) /\ enc.opts \in Options /\ N \in Nat
  <2>1. enc.opts \in Options /\ enc.idx \in Nat \ {0} /\ Covers(src, enc.idx - 1)
    BY <1>1 DEF EncoderInv, EncoderTypes, ScanInv
  <2> QED  BY <1>1, <2>1, FilesReadType, ArtifactFilesAssumption
<1>4. SourceInv'
  BY <1>1, SourceKept DEF EncoderInv
<1>5. CASE src[enc.idx] = Absent /\ enc' = [enc EXCEPT !.idx = @ + 1] /\ UNCHANGED out
  <2>1. EncoderShape'
    BY <1>5 DEF EncoderInv, EncoderShape
  <2>2. /\ enc'.pc = "scan" /\ enc'.opts = enc.opts /\ enc'.mode = enc.mode
        /\ enc'.idx = enc.idx + 1 /\ enc'.half = 0
        /\ enc'.exec = enc.exec /\ enc'.scanned = enc.scanned /\ enc'.spooled = enc.spooled
    BY <1>1, <1>5 DEF EncoderInv, EncoderShape
  <2>3. EncoderTypes'
    BY <1>1, <1>5, <2>2 DEF EncoderInv, EncoderTypes
  <2>4. PICK n : n = enc.idx
    OBVIOUS
  <2>5. Covers(src, n)
    <3>1. enc.scanned \in Seq(ScannedFiles)
      BY DEF EncoderInv, EncoderTypes
    <3>2. \A k \in 1..Len(enc.scanned) :
            enc.scanned[k].index \in 1..(enc.idx - 1) => enc.scanned[k].index \in 1..n
      BY <1>3, <2>4
    <3>3. \A j \in 1..n : j \in 1..(enc.idx - 1) \/ j = enc.idx
      BY <1>3, <2>4
    <3> QED  BY <1>3, <1>5, <3>2, <3>3 DEF Covers
  <2>6. Covers(src, n)'
    BY <1>1, <2>2, <2>5, CoversSame
  <2>7. n = (enc.idx - 1)'
    BY <1>3, <2>2, <2>4
  <2>8. ScanInv'
    BY <1>1, <1>3, <2>2, <2>6, <2>7 DEF ScanInv
  <2>9. StreamInv'
    BY <2>2 DEF StreamInv, Streaming
  <2> QED  BY <1>4, <2>1, <2>3, <2>8, <2>9 DEF EncoderInv
<1>6. CASE /\ src[enc.idx] \notin {Absent, Link} /\ UNCHANGED out
           /\ enc' = [enc EXCEPT !.half = src[enc.idx].ver + 1, !.exec = src[enc.idx].exec]
  <2>0. Here(src, enc.idx) /\ src[enc.idx].ver \in 0..clock /\ src[enc.idx].exec \in BOOLEAN
        /\ clock \in Nat
    BY <1>3, <1>6 DEF EncoderInv, SourceInv, TreeTypes, Here
  <2>1. EncoderShape'
    BY <1>6 DEF EncoderInv, EncoderShape
  <2>2. /\ enc'.pc = "scan" /\ enc'.opts = enc.opts /\ enc'.mode = enc.mode
        /\ enc'.idx = enc.idx /\ enc'.half = src[enc.idx].ver + 1
        /\ enc'.exec = src[enc.idx].exec /\ enc'.scanned = enc.scanned /\ enc'.spooled = enc.spooled
    BY <1>1, <1>6 DEF EncoderInv, EncoderShape
  <2>3. EncoderTypes'
    BY <1>1, <1>6, <2>0, <2>2 DEF EncoderInv, EncoderTypes
  <2>4. PICK n : n = enc.idx - 1
    OBVIOUS
  <2>5. Covers(src, n)'
    BY <1>1, <1>3, <2>2, <2>4, CoversSame
  <2>6. n = (enc.idx - 1)'
    BY <2>2, <2>4
  <2>7. ScanInv'
    BY <1>1, <1>3, <2>0, <2>2, <2>5, <2>6 DEF ScanInv, Here
  <2>8. StreamInv'
    BY <2>2 DEF StreamInv, Streaming
  <2> QED  BY <1>4, <2>1, <2>3, <2>7, <2>8 DEF EncoderInv
<1>7. \/ \E e : EncodeFail(e)
      \/ src[enc.idx] = Absent /\ enc' = [enc EXCEPT !.idx = @ + 1] /\ UNCHANGED out
      \/ /\ src[enc.idx] \notin {Absent, Link} /\ UNCHANGED out
         /\ enc' = [enc EXCEPT !.half = src[enc.idx].ver + 1, !.exec = src[enc.idx].exec]
  BY Zenon DEF ScanOpen
<1> QED  BY <1>2, <1>5, <1>6, <1>7

\* Two halves of a file, the first of which can be told from the bytes.
LEMMA Halves ==
  ASSUME NEW v \in Nat, NEW w \in Nat
  PROVE  Half(v) \o Half(w) \in Seq(Nat) /\ (Half(v) \o Half(w))[1] = v
<1>1. HalfSize \in Nat \ {0}
  BY ArtifactFilesAssumption
<1>2. /\ Half(v) \in Seq(Nat) /\ Half(w) \in Seq(Nat)
      /\ Len(Half(v)) = HalfSize /\ Half(v)[1] = v /\ Len(Half(w)) = HalfSize
  BY <1>1 DEF Half
<1> QED  BY <1>1, <1>2

\* The bytes a close finds: the first half read before, and what the file
\* holds now.
LEMMA BytesReadAre ==
  ASSUME SourceInv, NEW i \in 1..N, NEW v \in 0..clock, v = enc.half - 1
  PROVE  \E w \in 0..clock :
           /\ BytesRead(i) = Half(v) \o Half(w)
           /\ Here(src, i) => w = src[i].ver
           /\ ~Here(src, i) => w = v
<1>1. CASE Here(src, i)
  <2>1. src[i].ver \in 0..clock
    BY <1>1 DEF SourceInv, TreeTypes
  <2>2. SecondHalf(i, enc.half - 1) = src[i].ver
    BY <1>1 DEF SecondHalf, Here
  <2> QED  BY <1>1, <2>1, <2>2 DEF BytesRead
<1>2. CASE ~Here(src, i)
  <2>1. SecondHalf(i, enc.half - 1) = v
    BY <1>2 DEF SecondHalf, Here
  <2> QED  BY <1>2, <2>1 DEF BytesRead
<1> QED  BY <1>1, <1>2

\* A file was read to its end and joins the scan.
LEMMA ScanCloseStep ==
  ASSUME EncoderInv, ScanClose
  PROVE  EncoderInv'
<1>1. /\ UNCHANGED <<src, clock, atScan>> /\ enc.pc = "scan" /\ enc.half # 0
  BY DEF ScanClose, environment
<1>2. CASE \E e : EncodeFail(e)
  BY <1>1, <1>2, EncodeOver DEF EncodeFail
<1>3. /\ enc.opts \in Options /\ enc.idx \in Nat \ {0} /\ enc.idx \in 1..N /\ N \in Nat
      /\ enc.idx <= FilesRead(enc.opts) /\ FilesRead(enc.opts) \in 1..N
      /\ Covers(src, enc.idx - 1) /\ clock \in Nat /\ enc.half \in Nat \ {0}
      /\ enc.half - 1 <= clock
      /\ Here(src, enc.idx) => enc.half - 1 <= src[enc.idx].ver
  <2>1. /\ enc.opts \in Options /\ enc.idx \in Nat \ {0} /\ enc.half \in Nat \ {0} /\ clock \in Nat
        /\ enc.idx <= FilesRead(enc.opts) /\ Covers(src, enc.idx - 1) /\ enc.half - 1 <= clock
        /\ Here(src, enc.idx) => enc.half - 1 <= src[enc.idx].ver
    BY <1>1 DEF EncoderInv, EncoderTypes, ScanInv, SourceInv
  <2> QED  BY <2>1, FilesReadType, ArtifactFilesAssumption
<1>4. SourceInv' /\ SourceInv
  BY <1>1, SourceKept DEF EncoderInv
<1>5. PICK v \in 0..clock : v = enc.half - 1
  BY <1>3
<1>6. PICK w \in 0..clock : /\ BytesRead(enc.idx) = Half(v) \o Half(w)
                            /\ Here(src, enc.idx) => w = src[enc.idx].ver
                            /\ ~Here(src, enc.idx) => w = v
  BY <1>3, <1>4, <1>5, BytesReadAre
<1>7. v <= w /\ BytesRead(enc.idx) \in Seq(Nat)
  <2>1. v \in Nat /\ w \in Nat
    BY <1>3
  <2>2. Half(v) \o Half(w) \in Seq(Nat)
    BY <2>1, Halves
  <2>3. CASE Here(src, enc.idx)
    BY <1>3, <1>5, <1>6, <2>1, <2>2, <2>3
  <2>4. CASE ~Here(src, enc.idx)
    BY <1>6, <2>1, <2>2, <2>4
  <2> QED  BY <2>3, <2>4
<1>8. PICK b \in BOOLEAN : b = (enc.exec /\ ~enc.opts.stdin)
  OBVIOUS
<1>12. PICK path : path = IF enc.opts.kind = "File" THEN <<>> ELSE FilePaths[enc.idx]
  OBVIOUS
<1>13. PICK e : e = [kind |-> "File", path |-> path, bytes |-> BytesRead(enc.idx),
                     executable |-> b, index |-> enc.idx]
  OBVIOUS
<1>9. CASE /\ enc' = [enc EXCEPT !.idx = @ + 1, !.half = 0, !.scanned = Append(@, e)]
           /\ UNCHANGED out
  <2>1. path \in {<<>>} \cup {FilePaths[i] : i \in 1..N}
    BY <1>3, <1>12
  <2>2. e \in ScannedFiles
    BY <1>3, <1>7, <1>13, <2>1 DEF ScannedFiles
  <2>3. e.index = enc.idx /\ e.path = path /\ e.bytes = Half(v) \o Half(w)
    BY <1>6, <1>13
  <2>4. EncoderShape'
    BY <1>9 DEF EncoderInv, EncoderShape
  <2>5. /\ enc'.pc = "scan" /\ enc'.opts = enc.opts /\ enc'.mode = enc.mode
        /\ enc'.idx = enc.idx + 1 /\ enc'.half = 0
        /\ enc'.exec = enc.exec /\ enc'.scanned = Append(enc.scanned, e) /\ enc'.spooled = enc.spooled
    BY <1>1, <1>9 DEF EncoderInv, EncoderShape
  <2>6. /\ enc.scanned \in Seq(ScannedFiles) /\ Len(enc.scanned) \in Nat
        /\ enc'.scanned \in Seq(ScannedFiles) /\ Len(enc'.scanned) = Len(enc.scanned) + 1
        /\ enc'.scanned[Len(enc.scanned) + 1] = e
        /\ \A k \in 1..Len(enc.scanned) : enc'.scanned[k] = enc.scanned[k]
    <3>1. enc.scanned \in Seq(ScannedFiles)
      BY DEF EncoderInv, EncoderTypes
    <3> QED  BY <2>2, <2>5, <3>1
  <2>7. EncoderTypes'
    BY <1>1, <1>3, <1>9, <2>5, <2>6 DEF EncoderInv, EncoderTypes
  <2>8. PICK n : n = enc.idx
    OBVIOUS
  <2>9. ReadBefore(e, src)'
    <3>1. Here(src, e.index)' => w <= src'[e.index].ver
      BY <1>1, <1>3, <1>4, <1>6, <2>3 DEF Here, SourceInv, TreeTypes
    <3> QED  BY <1>1, <1>7, <2>3, <3>1 DEF ReadBefore, Half
  <2>10. ASSUME NEW k \in 1..Len(enc'.scanned)
         PROVE  /\ enc'.scanned[k].index \in 1..n
                /\ enc'.scanned[k].path = IF enc'.opts.kind = "File" THEN <<>>
                                          ELSE FilePaths[enc'.scanned[k].index]
                /\ ReadBefore(enc.scanned[k], src)'
    <3>1. CASE k \in 1..Len(enc.scanned)
      <4>1. /\ enc.scanned[k].index \in 1..(enc.idx - 1)
            /\ enc.scanned[k].path = IF enc.opts.kind = "File" THEN <<>>
                                     ELSE FilePaths[enc.scanned[k].index]
            /\ ReadBefore(enc.scanned[k], src)
        BY <1>3, <3>1 DEF Covers
      <4>2. enc'.scanned[k] = enc.scanned[k]
        BY <2>6, <3>1
      <4>3. ReadBefore(enc.scanned[k], src)'
        BY <1>1, <4>1, <4>2 DEF ReadBefore, Here, Half
      <4> QED  BY <1>3, <2>5, <2>8, <4>1, <4>2, <4>3
    <3>2. CASE k = Len(enc.scanned) + 1
      <4>1. enc'.scanned[k] = e
        BY <2>6, <3>2
      <4>2. ReadBefore(enc.scanned[k], src)'
        BY <2>9, <4>1 DEF ReadBefore
      <4>3. e.path = IF enc.opts.kind = "File" THEN <<>> ELSE FilePaths[enc.idx]
        BY <1>12, <2>3
      <4> QED  BY <1>3, <2>3, <2>5, <2>8, <4>1, <4>2, <4>3
    <3> QED  BY <2>6, <3>1, <3>2
  <2>11. ASSUME NEW j \in 1..n
         PROVE  src'[j] = Absent \/ \E k \in 1..Len(enc'.scanned) : enc'.scanned[k].index = j
    <3>1. CASE j = enc.idx
      <4>1. Len(enc.scanned) + 1 \in 1..Len(enc'.scanned)
        BY <2>6
      <4> QED  BY <2>3, <2>6, <3>1, <4>1
    <3>2. CASE j \in 1..(enc.idx - 1)
      <4>1. src[j] = Absent \/ \E k \in 1..Len(enc.scanned) : enc.scanned[k].index = j
        BY <1>3, <3>2 DEF Covers
      <4>2. \A k \in 1..Len(enc.scanned) : k \in 1..Len(enc'.scanned)
        BY <2>6
      <4> QED  BY <1>1, <2>6, <4>1, <4>2
    <3> QED  BY <1>3, <2>8, <3>1, <3>2
  <2>12. Covers(src, n)'
    BY <2>10, <2>11 DEF Covers
  <2>13. n = (enc.idx - 1)'
    BY <1>3, <2>5, <2>8
  <2>14. ScanInv'
    BY <1>3, <2>5, <2>12, <2>13 DEF ScanInv
  <2>15. StreamInv'
    BY <2>5 DEF StreamInv, Streaming
  <2> QED  BY <1>4, <2>4, <2>7, <2>14, <2>15 DEF EncoderInv
<1>10. ScannedFile(enc.opts, enc.idx, BytesRead(enc.idx), enc.exec) = e
  BY <1>8, <1>12, <1>13, Zenon DEF ScannedFile
<1>11. (\E x : EncodeFail(x))
       \/ (/\ enc' = [enc EXCEPT !.idx = @ + 1, !.half = 0,
                        !.scanned = Append(@, ScannedFile(enc.opts, enc.idx, BytesRead(enc.idx), enc.exec))]
           /\ UNCHANGED out)
  BY Zenon DEF ScanClose
<1> QED  BY <1>2, <1>9, <1>10, <1>11

\* The scan ends: all files were looked at, and the tree is remembered.
LEMMA EndScanStep ==
  ASSUME EncoderInv, EndScan
  PROVE  EncoderInv'
<1>1. /\ UNCHANGED <<src, clock>> /\ atScan' = src /\ enc.pc = "scan" /\ enc.half = 0
      /\ enc.idx > FilesRead(enc.opts)
  BY DEF EndScan, environment
<1>2. CASE \E e : EncodeFail(e)
  BY <1>1, <1>2, EncodeOver DEF EncodeFail
<1>3. SourceInv'
  BY <1>1, SourceKept DEF EncoderInv
<1>4. CASE enc.mode = "memory" /\ enc' = [enc EXCEPT !.pc = "encode"] /\ UNCHANGED out
  <2>1. EncoderShape'
    BY <1>4 DEF EncoderInv, EncoderShape
  <2>2. /\ enc'.pc = "encode" /\ enc'.opts = enc.opts /\ enc'.mode = enc.mode /\ enc'.idx = enc.idx
        /\ enc'.half = 0 /\ enc'.exec = enc.exec /\ enc'.scanned = enc.scanned
        /\ enc'.spooled = enc.spooled
    BY <1>1, <1>4 DEF EncoderInv, EncoderShape
  <2>3. EncoderTypes'
    BY <1>1, <1>4, <2>2 DEF EncoderInv, EncoderTypes
  <2>4. ScanInv' /\ StreamInv'
    BY <2>2 DEF ScanInv, StreamInv, Streaming
  <2> QED  BY <1>3, <2>1, <2>3, <2>4 DEF EncoderInv
<1>5. CASE /\ enc.mode # "memory" /\ UNCHANGED out
           /\ enc' = [enc EXCEPT !.pc = "spool", !.idx = 1,
                        !.pass = IF enc.opts.compression = "None" THEN "verbatim" ELSE "zstd"]
  <2>0. PICK pass : pass = IF enc.opts.compression = "None" THEN "verbatim" ELSE "zstd"
    OBVIOUS
  <2>1. enc' = [enc EXCEPT !.pc = "spool", !.idx = 1, !.pass = pass]
    BY <1>5, <2>0, Zenon
  <2>2. EncoderShape'
    BY <1>5, <2>1 DEF EncoderInv, EncoderShape
  <2>3. /\ enc'.pc = "spool" /\ enc'.opts = enc.opts /\ enc'.mode = enc.mode /\ enc'.idx = 1
        /\ enc'.half = 0 /\ enc'.exec = enc.exec /\ enc'.scanned = enc.scanned
        /\ enc'.spooled = enc.spooled
    BY <1>1, <2>1 DEF EncoderInv, EncoderShape
  <2>4. EncoderTypes'
    BY <1>1, <1>5, <2>3 DEF EncoderInv, EncoderTypes
  <2>5. /\ enc.opts \in Options /\ enc.idx \in Nat \ {0} /\ enc.idx <= FilesRead(enc.opts) + 1
        /\ Covers(src, enc.idx - 1) /\ enc.scanned \in Seq(ScannedFiles)
    BY <1>1 DEF EncoderInv, EncoderTypes, ScanInv
  <2>6. PICK n \in 1..N : n = FilesRead(enc.opts)
    BY <2>5, FilesReadType
  <2>7. enc.idx - 1 = n
    BY <1>1, <2>5, <2>6, ArtifactFilesAssumption
  <2>8. Covers(atScan, n)'
    BY <1>1, <2>3, <2>5, <2>7, CoversSame
  <2>9. n = FilesRead(enc.opts)'
    BY <2>3, <2>6
  <2>10. StreamInv'
    BY <2>3, <2>5, <2>8, <2>9 DEF StreamInv, Streaming
  <2>11. ScanInv'
    BY <2>3 DEF ScanInv
  <2> QED  BY <1>3, <2>2, <2>4, <2>10, <2>11 DEF EncoderInv
<1>6. \/ \E e : EncodeFail(e)
      \/ enc.mode = "memory" /\ enc' = [enc EXCEPT !.pc = "encode"] /\ UNCHANGED out
      \/ /\ enc.mode # "memory" /\ UNCHANGED out
         /\ enc' = [enc EXCEPT !.pc = "spool", !.idx = 1,
                      !.pass = IF enc.opts.compression = "None" THEN "verbatim" ELSE "zstd"]
  BY Zenon DEF EndScan
<1> QED  BY <1>2, <1>4, <1>5, <1>6

\* The entries and their confirmations outlive a step that keeps them.
LEMMA ConfirmedSame ==
  ASSUME UNCHANGED <<src, clock, atScan>>, enc'.scanned = enc.scanned
  PROVE  \A k : Confirmed(enc.scanned[k]) => Confirmed(enc.scanned[k])'
BY DEF Confirmed, Here, Half

\* A file is opened once more: it is not older than at the end of the scan.
LEMMA SpoolOpenStep ==
  ASSUME EncoderInv, SpoolOpen
  PROVE  EncoderInv'
<1>1. /\ UNCHANGED <<src, clock, atScan>> /\ enc.pc = "spool" /\ enc.half = 0
      /\ enc.idx <= Len(enc.scanned)
  BY DEF SpoolOpen, environment
<1>2. CASE \E e : EncodeFail(e)
  BY <1>1, <1>2, EncodeOver DEF EncodeFail
<1> DEFINE i == enc.scanned[enc.idx].index
<1>3. CASE /\ src[i] \notin {Absent, Link} /\ UNCHANGED out
           /\ enc' = [enc EXCEPT !.half = src[i].ver + 1]
  <2>1. /\ enc.idx \in Nat \ {0} /\ enc.scanned \in Seq(ScannedFiles) /\ Len(enc.scanned) \in Nat
        /\ enc.opts \in Options
    BY <1>1 DEF EncoderInv, EncoderTypes
  <2>2. enc.scanned[enc.idx] \in ScannedFiles
    BY <1>1, <2>1
  <2>3. i \in 1..N
    BY <2>2 DEF ScannedFiles
  <2>4. /\ Here(src, i) /\ src[i].ver \in 0..clock /\ clock \in Nat
        /\ Here(atScan, i) /\ atScan[i].ver <= src[i].ver
    BY <1>3, <2>3 DEF EncoderInv, SourceInv, TreeTypes, Here
  <2>5. EncoderShape'
    BY <1>3 DEF EncoderInv, EncoderShape
  <2>6. /\ enc'.pc = "spool" /\ enc'.opts = enc.opts /\ enc'.mode = enc.mode /\ enc'.idx = enc.idx
        /\ enc'.half = src[i].ver + 1 /\ enc'.exec = enc.exec /\ enc'.scanned = enc.scanned
        /\ enc'.spooled = enc.spooled
    BY <1>1, <1>3 DEF EncoderInv, EncoderShape
  <2>7. EncoderTypes'
    BY <1>1, <1>3, <2>4, <2>6 DEF EncoderInv, EncoderTypes
  <2>8. SourceInv'
    BY <1>1, SourceKept DEF EncoderInv
  <2>9. PICK n : n = FilesRead(enc.opts)
    OBVIOUS
  <2>10. Covers(atScan, n)' /\ n = FilesRead(enc.opts)'
    <3>1. Covers(atScan, n)
      BY <1>1, <2>9 DEF EncoderInv, StreamInv, Streaming
    <3> QED  BY <1>1, <2>6, <2>9, <3>1, CoversSame
  <2>11. \A k \in 1..(enc.idx - 1) : Confirmed(enc.scanned[k])'
    BY <1>1, <2>6, ConfirmedSame DEF EncoderInv, StreamInv
  <2>12. i' = i /\ Here(atScan, i)' /\ atScan'[i].ver <= enc'.half - 1
    BY <1>1, <2>4, <2>6 DEF Here
  <2> HIDE DEF i
  <2>13. StreamInv'
    <3>1. (enc.scanned[enc.idx].index)' = i
      BY <2>12 DEF i
    <3>2. Here(atScan, enc.scanned[enc.idx].index)' /\ (atScan[enc.scanned[enc.idx].index].ver <= enc.half - 1)'
      BY <2>12, <3>1 DEF Here
    <3> QED  BY <1>1, <2>1, <2>6, <2>10, <2>11, <3>2 DEF StreamInv, Streaming
  <2>14. ScanInv'
    BY <2>6 DEF ScanInv
  <2> QED  BY <2>5, <2>7, <2>8, <2>13, <2>14 DEF EncoderInv
<1>4. \/ \E e : EncodeFail(e)
      \/ /\ src[i] \notin {Absent, Link} /\ UNCHANGED out
         /\ enc' = [enc EXCEPT !.half = src[i].ver + 1]
  BY Zenon DEF SpoolOpen
<1> QED  BY <1>2, <1>3, <1>4

\* Whatever happened since the file was opened, its first half is known.
LEMMA FirstHalfRead ==
  ASSUME SourceInv, NEW i \in 1..N, NEW v \in Nat, v = enc.half - 1
  PROVE  BytesRead(i) \in Seq(Nat) /\ BytesRead(i)[1] = v
<1>1. clock \in Nat
  BY DEF SourceInv
<1>2. CASE Here(src, i)
  <2>1. src[i].ver \in Nat
    BY <1>1, <1>2 DEF SourceInv, TreeTypes
  <2>2. SecondHalf(i, enc.half - 1) = src[i].ver
    BY <1>2 DEF SecondHalf, Here
  <2>3. BytesRead(i) = Half(v) \o Half(src[i].ver)
    BY <2>2 DEF BytesRead
  <2> QED  BY <2>1, <2>3, Halves
<1>3. CASE ~Here(src, i)
  <2>1. SecondHalf(i, enc.half - 1) = v
    BY <1>3 DEF SecondHalf, Here
  <2>2. BytesRead(i) = Half(v) \o Half(v)
    BY <2>1 DEF BytesRead
  <2> QED  BY <2>2, Halves
<1> QED  BY <1>2, <1>3

\* A file whose bytes have the digest of the scan is confirmed: its first half
\* was read before the end of the scan and again after it, with one version.
LEMMA SpoolCloseStep ==
  ASSUME EncoderInv, SpoolClose
  PROVE  EncoderInv'
<1>1. UNCHANGED <<src, clock, atScan>> /\ enc.pc = "spool" /\ enc.half # 0
  BY DEF SpoolClose, environment
<1>2. CASE \E e : EncodeFail(e)
  BY <1>1, <1>2, EncodeOver DEF EncodeFail
<1>3. PICK e : e = enc.scanned[enc.idx]
  OBVIOUS
<1>4. PICK bytes : bytes = BytesRead(e.index)
  OBVIOUS
<1>5. CASE /\ file_digest(bytes) = file_digest(e.bytes) /\ UNCHANGED out
           /\ enc' = [enc EXCEPT !.half = 0, !.idx = @ + 1, !.spooled = @ \o bytes]
  <2>1. /\ enc.idx \in Nat \ {0} /\ enc.scanned \in Seq(ScannedFiles) /\ Len(enc.scanned) \in Nat
        /\ enc.opts \in Options /\ enc.half \in Nat \ {0} /\ enc.spooled \in Seq(Nat)
        /\ clock \in Nat /\ SourceInv
    BY <1>1 DEF EncoderInv, EncoderTypes, SourceInv
  <2>2. /\ enc.idx <= Len(enc.scanned) /\ Here(atScan, e.index)
        /\ atScan[e.index].ver <= enc.half - 1
        /\ \A k \in 1..(enc.idx - 1) : Confirmed(enc.scanned[k])
    BY <1>1, <1>3 DEF EncoderInv, StreamInv
  <2>3. e \in ScannedFiles /\ enc.idx \in 1..Len(enc.scanned)
    BY <1>3, <2>1, <2>2
  <2>4. e.index \in 1..N /\ atScan[e.index].ver \in 0..clock
    BY <2>1, <2>2, <2>3 DEF ScannedFiles, SourceInv, TreeTypes
  <2>5. PICK v \in 0..clock, w \in 0..clock :
          /\ e.bytes = Half(v) \o Half(w) /\ v <= w
          /\ Here(atScan, e.index) => w <= atScan[e.index].ver
    <3>1. Covers(atScan, FilesRead(enc.opts))
      BY <1>1 DEF EncoderInv, StreamInv, Streaming
    <3>2. ReadBefore(e, atScan)
      BY <1>3, <2>3, <3>1 DEF Covers
    <3> QED  BY <3>2 DEF ReadBefore
  <2>6. bytes = e.bytes
    BY <1>5 DEF file_digest
  <2>7. PICK h \in Nat : h = enc.half - 1
    BY <2>1
  <2>8. bytes \in Seq(Nat) /\ bytes[1] = h
    BY <1>4, <2>1, <2>4, <2>7, FirstHalfRead
  <2>9. v \in Nat /\ w \in Nat /\ e.bytes[1] = v
    <3>1. v \in Nat /\ w \in Nat
      BY <2>1
    <3> QED  BY <2>5, <3>1, Halves
  <2>10. v = h /\ w <= atScan[e.index].ver /\ atScan[e.index].ver <= h
    BY <2>2, <2>5, <2>6, <2>7, <2>8, <2>9
  <2>11. v = atScan[e.index].ver /\ w = atScan[e.index].ver
    BY <2>1, <2>4, <2>5, <2>9, <2>10
  <2>12. Confirmed(e)
    BY <2>2, <2>5, <2>11 DEF Confirmed
  <2>13. EncoderShape'
    BY <1>5 DEF EncoderInv, EncoderShape
  <2>14. /\ enc'.pc = "spool" /\ enc'.opts = enc.opts /\ enc'.mode = enc.mode
         /\ enc'.idx = enc.idx + 1 /\ enc'.half = 0 /\ enc'.exec = enc.exec
         /\ enc'.scanned = enc.scanned /\ enc'.spooled = enc.spooled \o bytes
    BY <1>1, <1>5 DEF EncoderInv, EncoderShape
  <2>15. EncoderTypes'
    <3>1. enc'.spooled \in Seq(Nat)
      BY <2>1, <2>8, <2>14
    <3> QED  BY <1>1, <1>5, <2>1, <2>14, <3>1 DEF EncoderInv, EncoderTypes
  <2>16. SourceInv'
    BY <1>1, SourceKept DEF EncoderInv
  <2>17. PICK n : n = FilesRead(enc.opts)
    OBVIOUS
  <2>18. Covers(atScan, n)' /\ n = FilesRead(enc.opts)'
    <3>1. Covers(atScan, n)
      BY <1>1, <2>17 DEF EncoderInv, StreamInv, Streaming
    <3> QED  BY <1>1, <2>14, <2>17, <3>1, CoversSame
  <2>19. \A k \in 1..enc.idx : Confirmed(enc.scanned[k])'
    <3>1. \A k \in 1..enc.idx : k \in 1..(enc.idx - 1) \/ k = enc.idx
      BY <2>1
    <3>2. \A k \in 1..enc.idx : Confirmed(enc.scanned[k])
      BY <1>3, <2>2, <2>12, <3>1
    <3> QED  BY <1>1, <2>14, <3>2, ConfirmedSame
  <2>20. StreamInv'
    <3>1. \A k \in 1..(enc'.idx - 1) : k \in 1..enc.idx
      BY <2>1, <2>14
    <3>2. \A k \in 1..(enc'.idx - 1) : Confirmed(enc.scanned[k])'
      BY <2>19, <3>1
    <3> QED  BY <2>1, <2>2, <2>14, <2>18, <3>2 DEF StreamInv, Streaming
  <2>21. ScanInv'
    BY <2>14 DEF ScanInv
  <2> QED  BY <2>13, <2>15, <2>16, <2>20, <2>21 DEF EncoderInv
<1>6. \/ \E x : EncodeFail(x)
      \/ /\ file_digest(bytes) = file_digest(e.bytes) /\ UNCHANGED out
         /\ enc' = [enc EXCEPT !.half = 0, !.idx = @ + 1, !.spooled = @ \o bytes]
  BY <1>3, <1>4, Zenon DEF SpoolClose
<1> QED  BY <1>2, <1>5, <1>6

-----------------------------------------------------------------------------
(* The end of a pass.                                                      *)

\* A pass that was complete is followed by training, staging, or one more pass.
PassEnds(r) ==
  /\ r = [pc |-> r.pc, mode |-> enc.mode, opts |-> enc.opts, hint |-> enc.hint,
          pass |-> r.pass, idx |-> r.idx, half |-> enc.half, exec |-> enc.exec,
          scanned |-> enc.scanned, spooled |-> r.spooled, ordinary |-> r.ordinary,
          dict |-> r.dict, compression |-> r.compression, binary |-> enc.binary,
          res |-> enc.res]
  /\ \/ r.pc \in {"stage", "train"} /\ r.spooled = enc.spooled /\ r.idx = enc.idx
     \/ r.pc = "spool" /\ r.spooled = <<>> /\ r.idx = 1

\* The payload is spooled once more, with a dictionary or without.
LEMMA AgainEnds ==
  ASSUME EncoderShape, NEW dict, NEW pass
  PROVE  PassEnds(AgainAs([enc EXCEPT !.dict = dict], pass))
<1>1. PICK e : e = [enc EXCEPT !.dict = dict]
  OBVIOUS
<1>2. PICK r : r = [e EXCEPT !.pc = "spool", !.pass = pass, !.idx = 1, !.spooled = <<>>]
  OBVIOUS
<1>3. e = [pc |-> enc.pc, mode |-> enc.mode, opts |-> enc.opts, hint |-> enc.hint,
           pass |-> enc.pass, idx |-> enc.idx, half |-> enc.half, exec |-> enc.exec,
           scanned |-> enc.scanned, spooled |-> enc.spooled, ordinary |-> enc.ordinary,
           dict |-> dict, compression |-> enc.compression, binary |-> enc.binary,
           res |-> enc.res]
  BY <1>1 DEF EncoderShape
<1>4. r = [pc |-> "spool", mode |-> enc.mode, opts |-> enc.opts, hint |-> enc.hint,
           pass |-> pass, idx |-> 1, half |-> enc.half, exec |-> enc.exec,
           scanned |-> enc.scanned, spooled |-> <<>>, ordinary |-> enc.ordinary,
           dict |-> dict, compression |-> enc.compression, binary |-> enc.binary,
           res |-> enc.res]
  BY <1>2, <1>3
<1>5. PassEnds(r)
  BY <1>4 DEF PassEnds
<1> QED  BY <1>1, <1>2, <1>5 DEF AgainAs

\* Choose ends a pass, and so does every way on from the end of one.
LEMMA ChooseEnds ==
  ASSUME EncoderShape, NEW dict, NEW size
  PROVE  PassEnds(Choose(enc, dict, size))
<1>1. PassEnds([enc EXCEPT !.pc = "stage", !.compression = "Zstd", !.dict = dict, !.ordinary = size])
  <2>1. PICK r : r = [enc EXCEPT !.pc = "stage", !.compression = "Zstd", !.dict = dict, !.ordinary = size]
    OBVIOUS
  <2>2. PassEnds(r)
    BY <2>1 DEF PassEnds, EncoderShape
  <2> QED  BY <2>1, <2>2
<1>2. PassEnds(AgainAs([enc EXCEPT !.dict = <<>>], "verbatim"))
  BY AgainEnds
<1> QED  BY <1>1, <1>2, Zenon DEF Choose

\* Every entry is confirmed at the end of a pass.
LEMMA PassEndsStep ==
  ASSUME EncoderInv, enc.pc \in {"spool", "train"}, enc.half = 0,
         \A k \in 1..Len(enc.scanned) : Confirmed(enc.scanned[k]),
         PassEnds(enc'), UNCHANGED <<out, src, clock, atScan>>
  PROVE  EncoderInv'
<1>1. /\ enc'.opts = enc.opts /\ enc'.mode = enc.mode /\ enc'.half = 0 /\ enc'.exec = enc.exec
      /\ enc'.scanned = enc.scanned
      /\ \/ enc'.pc \in {"stage", "train"} /\ enc'.spooled = enc.spooled /\ enc'.idx = enc.idx
         \/ enc'.pc = "spool" /\ enc'.spooled = <<>> /\ enc'.idx = 1
  BY DEF PassEnds
<1>2. EncoderShape'
  BY DEF PassEnds, EncoderInv, EncoderShape
<1>3. EncoderTypes'
  <2>0. enc.spooled \in Seq(Nat) /\ enc.idx \in Nat \ {0} /\ <<>> \in Seq(Nat)
    BY DEF EncoderInv, EncoderTypes
  <2>1. enc'.spooled \in Seq(Nat) /\ enc'.idx \in Nat \ {0}
    <3>1. (enc'.spooled = enc.spooled /\ enc'.idx = enc.idx) \/ (enc'.spooled = <<>> /\ enc'.idx = 1)
      BY <1>1, Zenon
    <3>2. CASE enc'.spooled = enc.spooled /\ enc'.idx = enc.idx
      BY <2>0, <3>2, Zenon
    <3>3. CASE enc'.spooled = <<>> /\ enc'.idx = 1
      <4>1. 1 \in Nat \ {0}
        OBVIOUS
      <4> QED  BY <2>0, <3>3, <4>1, Zenon
    <3> QED  BY <3>1, <3>2, <3>3
  <2>2. enc'.pc \in {"stage", "train", "spool"}
    BY <1>1
  <2> QED  BY <1>1, <2>1, <2>2 DEF EncoderInv, EncoderTypes
<1>4. SourceInv'
  BY SourceKept DEF EncoderInv
<1>5. PICK n : n = FilesRead(enc.opts)
  OBVIOUS
<1>6. Covers(atScan, n)' /\ n = FilesRead(enc.opts)'
  <2>1. Covers(atScan, n)
    BY <1>5 DEF EncoderInv, StreamInv, Streaming
  <2> QED  BY <1>1, <1>5, <2>1, CoversSame
<1>7. \A k \in 1..Len(enc.scanned) : Confirmed(enc.scanned[k])'
  BY <1>1, ConfirmedSame
<1>8. Len(enc.scanned) \in Nat
  BY DEF EncoderInv, EncoderTypes
<1>9. StreamInv'
  BY <1>1, <1>6, <1>7, <1>8 DEF StreamInv, Streaming
<1>10. ScanInv'
  BY <1>1 DEF ScanInv
<1> QED  BY <1>2, <1>3, <1>4, <1>9, <1>10 DEF EncoderInv


\* A pass that read every entry leaves all of them confirmed.
LEMMA EndPassStep ==
  ASSUME EncoderInv, NEW size, EndPass(size)
  PROVE  EncoderInv'
<1>1. /\ UNCHANGED <<src, clock, atScan>> /\ enc.pc = "spool" /\ enc.half = 0
      /\ enc.idx > Len(enc.scanned)
  BY DEF EndPass, environment
<1>2. CASE \E e : EncodeFail(e)
  BY <1>1, <1>2, EncodeOver DEF EncodeFail
<1>3. \A k \in 1..Len(enc.scanned) : Confirmed(enc.scanned[k])
  <2>1. enc.idx \in Nat \ {0} /\ Len(enc.scanned) \in Nat
    BY DEF EncoderInv, EncoderTypes
  <2>2. enc.idx <= Len(enc.scanned) + 1 /\ \A k \in 1..(enc.idx - 1) : Confirmed(enc.scanned[k])
    BY <1>1 DEF EncoderInv, StreamInv
  <2>3. enc.idx - 1 = Len(enc.scanned)
    BY <1>1, <2>1, <2>2
  <2> QED  BY <2>2, <2>3
<1>4. EncoderShape
  BY DEF EncoderInv
<1>5. CASE UNCHANGED out /\ enc' = [enc EXCEPT !.pc = "stage", !.compression = "None"]
  <2>1. PassEnds(enc')
    BY <1>4, <1>5 DEF PassEnds, EncoderShape
  <2> QED  BY <1>1, <1>3, <1>5, <2>1, PassEndsStep
<1>6. CASE UNCHANGED out /\ enc' = [enc EXCEPT !.pc = "train", !.ordinary = size]
  <2>1. PassEnds(enc')
    BY <1>4, <1>6 DEF PassEnds, EncoderShape
  <2> QED  BY <1>1, <1>3, <1>6, <2>1, PassEndsStep
<1>7. CASE UNCHANGED out /\ \E dict, s : enc' = Choose(enc, dict, s)
  <2>1. PICK dict, s : enc' = Choose(enc, dict, s)
    BY <1>7
  <2>2. PassEnds(enc')
    BY <1>4, <2>1, ChooseEnds
  <2> QED  BY <1>1, <1>3, <1>7, <2>2, PassEndsStep
<1>8. \/ \E e : EncodeFail(e)
      \/ UNCHANGED out /\ enc' = [enc EXCEPT !.pc = "stage", !.compression = "None"]
      \/ UNCHANGED out /\ enc' = [enc EXCEPT !.pc = "train", !.ordinary = size]
      \/ UNCHANGED out /\ \E dict, s : enc' = Choose(enc, dict, s)
  BY Zenon DEF EndPass
<1> QED  BY <1>2, <1>5, <1>6, <1>7, <1>8

\* Training reads the sources but takes nothing from them.
LEMMA TrainStep ==
  ASSUME EncoderInv, NEW dict, Train(dict)
  PROVE  EncoderInv'
<1>1. UNCHANGED <<src, clock, atScan>> /\ enc.pc = "train"
  BY DEF Train, environment
<1>2. CASE \E e : EncodeFail(e)
  BY <1>1, <1>2, EncodeOver DEF EncodeFail
<1>3. /\ EncoderShape /\ enc.half = 0
      /\ \A k \in 1..Len(enc.scanned) : Confirmed(enc.scanned[k])
  BY <1>1 DEF EncoderInv, EncoderTypes, StreamInv, Streaming
<1>4. CASE UNCHANGED out /\ enc' = Choose(enc, <<>>, enc.ordinary)
  <2>1. PassEnds(enc')
    BY <1>3, <1>4, ChooseEnds
  <2> QED  BY <1>1, <1>3, <1>4, <2>1, PassEndsStep
<1>5. CASE UNCHANGED out /\ enc' = AgainAs([enc EXCEPT !.dict = dict], "dict")
  <2>1. PassEnds(enc')
    BY <1>3, <1>5, AgainEnds
  <2> QED  BY <1>1, <1>3, <1>5, <2>1, PassEndsStep
<1>6. \/ \E e : EncodeFail(e)
      \/ UNCHANGED out /\ enc' = Choose(enc, <<>>, enc.ordinary)
      \/ UNCHANGED out /\ enc' = AgainAs([enc EXCEPT !.dict = dict], "dict")
  BY Zenon DEF Train
<1> QED  BY <1>2, <1>4, <1>5, <1>6

-----------------------------------------------------------------------------
(* Staging, verification and the commit.                                   *)

\* The steps after the passes keep the options, the scan and its confirmations.
Settles(pc) ==
  /\ enc'.pc = pc /\ enc'.mode = enc.mode /\ enc'.opts = enc.opts /\ enc'.hint = enc.hint
  /\ enc'.idx = enc.idx /\ enc'.half = enc.half /\ enc'.exec = enc.exec
  /\ enc'.scanned = enc.scanned /\ enc'.spooled = enc.spooled /\ enc'.ordinary = enc.ordinary
  /\ enc'.dict = enc.dict /\ enc'.compression = enc.compression

\* Such a step keeps the invariant of a streamed command.
LEMMA SettlesStep ==
  ASSUME EncoderInv, Streaming, enc.pc # "spool", UNCHANGED <<src, clock, atScan>>,
         NEW pc \in {"verify", "persist", "done"}, Settles(pc), EncoderShape', enc.mode = "stream",
         enc.opts \in Options,
         pc = "verify" =>
           enc'.binary = Envelope(ScannedArtifact, enc.dict, CanonicalEntries(ScannedArtifact),
                                  enc.compression, enc.opts.profile,
                                  Encoded(enc.spooled, enc.compression, enc.dict, enc.ordinary))
  PROVE  EncoderInv'
<1>1. EncoderTypes'
  BY DEF EncoderInv, EncoderTypes, Settles
<1>2. SourceInv'
  BY SourceKept DEF EncoderInv
<1>3. PICK n : n = FilesRead(enc.opts)
  OBVIOUS
<1>4. Covers(atScan, n)' /\ n = FilesRead(enc.opts)'
  <2>1. Covers(atScan, n)
    BY <1>3 DEF EncoderInv, StreamInv
  <2> QED  BY <1>3, <2>1, CoversSame DEF Settles
<1>5. \A k \in 1..Len(enc.scanned) : Confirmed(enc.scanned[k])'
  BY ConfirmedSame DEF EncoderInv, StreamInv, Settles
<1>6. ScannedArtifact' = ScannedArtifact
  BY DEF ScannedArtifact, Settles
<1>7. StreamInv'
  BY <1>4, <1>5, <1>6 DEF StreamInv, Streaming, Settles
<1>8. ScanInv'
  BY DEF ScanInv, Settles
<1> QED  BY <1>1, <1>2, <1>7, <1>8 DEF EncoderInv

\* The envelope is built from the scan and the last pass.
LEMMA StageStep ==
  ASSUME EncoderInv, Stage
  PROVE  EncoderInv'
<1>1. UNCHANGED <<src, clock, atScan>> /\ enc.pc = "stage"
  BY DEF Stage, environment
<1>2. CASE \E e : EncodeFail(e)
  BY <1>1, <1>2, EncodeOver DEF EncodeFail
<1>3. PICK b : b = Envelope(ScannedArtifact, enc.dict, CanonicalEntries(ScannedArtifact),
                            enc.compression, enc.opts.profile,
                            Encoded(enc.spooled, enc.compression, enc.dict, enc.ordinary))
  OBVIOUS
<1>4. CASE UNCHANGED out /\ enc' = [enc EXCEPT !.pc = "verify", !.binary = b]
  <2>1. EncoderShape' /\ Settles("verify") /\ enc'.binary = b
    BY <1>4 DEF EncoderInv, EncoderShape, Settles
  <2>2. Streaming /\ enc.mode = "stream" /\ enc.opts \in Options
    BY <1>1 DEF EncoderInv, EncoderTypes, Streaming
  <2> QED  BY <1>1, <1>3, <2>1, <2>2, SettlesStep
<1>5. (\E e : EncodeFail(e)) \/ (UNCHANGED out /\ enc' = [enc EXCEPT !.pc = "verify", !.binary = b])
  BY <1>3, Zenon DEF Stage
<1> QED  BY <1>2, <1>4, <1>5

\* The envelope that was verified is the one that is committed.
LEMMA VerifyStep ==
  ASSUME EncoderInv, Verify
  PROVE  EncoderInv'
<1>1. UNCHANGED <<src, clock, atScan>> /\ enc.pc = "verify"
  BY DEF Verify, environment
<1>2. CASE \E e : EncodeFail(e)
  BY <1>1, <1>2, EncodeOver DEF EncodeFail
<1>3. CASE UNCHANGED out /\ enc' = [enc EXCEPT !.pc = "persist"]
  <2>1. EncoderShape' /\ Settles("persist")
    BY <1>3 DEF EncoderInv, EncoderShape, Settles
  <2>2. Streaming /\ enc.mode = "stream" /\ enc.opts \in Options
    BY <1>1 DEF EncoderInv, EncoderTypes, Streaming
  <2> QED  BY <1>1, <2>1, <2>2, SettlesStep
<1>4. (\E e : EncodeFail(e)) \/ (UNCHANGED out /\ enc' = [enc EXCEPT !.pc = "persist"])
  BY Zenon DEF Verify
<1> QED  BY <1>2, <1>3, <1>4

\* The commit ends the command.
LEMMA PersistStep ==
  ASSUME EncoderInv, Persist
  PROVE  EncoderInv'
<1>1. UNCHANGED <<src, clock, atScan>> /\ enc.pc = "persist"
  BY DEF Persist, environment
<1>2. CASE \E e : EncodeFail(e)
  BY <1>1, <1>2, EncodeOver DEF EncodeFail
<1>3. CASE /\ out' = [form |-> "binary", binary |-> enc.binary]
           /\ enc' = [enc EXCEPT !.pc = "done", !.res = Passed]
  <2>1. EncoderShape' /\ Settles("done")
    BY <1>3 DEF EncoderInv, EncoderShape, Settles
  <2>2. Streaming /\ enc.mode = "stream" /\ enc.opts \in Options
    BY <1>1 DEF EncoderInv, EncoderTypes, Streaming
  <2> QED  BY <1>1, <2>1, <2>2, SettlesStep
<1>4. \/ \E e : EncodeFail(e)
      \/ /\ out' = [form |-> "binary", binary |-> enc.binary]
         /\ enc' = [enc EXCEPT !.pc = "done", !.res = Passed]
  BY Zenon DEF Persist
<1> QED  BY <1>2, <1>3, <1>4

\* The steps of a command in memory have nothing to do with the passes.
LEMMA MemoryStep ==
  ASSUME EncoderInv, UNCHANGED <<src, clock, atScan>>, enc.pc \in {"encode", "create", "fill"},
         NEW pc \in {"create", "fill", "done"}, EncoderShape', pc = "fill" => out'.form = "torn",
         /\ enc'.pc = pc /\ enc'.mode = enc.mode /\ enc'.opts = enc.opts
         /\ enc'.idx = enc.idx /\ enc'.half = enc.half /\ enc'.exec = enc.exec
         /\ enc'.scanned = enc.scanned /\ enc'.spooled = enc.spooled
  PROVE  EncoderInv'
<1>1. enc.mode = "memory" /\ enc.opts \in Options
  BY DEF EncoderInv, EncoderTypes
<1>2. EncoderTypes'
  BY <1>1 DEF EncoderInv, EncoderTypes
<1>3. SourceInv'
  BY SourceKept DEF EncoderInv
<1>4. ScanInv' /\ StreamInv'
  BY <1>1 DEF ScanInv, StreamInv, Streaming
<1> QED  BY <1>2, <1>3, <1>4 DEF EncoderInv

\* encode_artifact.
LEMMA EncodeInMemoryStep ==
  ASSUME EncoderInv, NEW dict, NEW ordinary, NEW dictSize, EncodeInMemory(dict, ordinary, dictSize)
  PROVE  EncoderInv'
<1>1. UNCHANGED <<src, clock, atScan>> /\ enc.pc = "encode"
  BY DEF EncodeInMemory, environment
<1>2. CASE \E e : EncodeFail(e)
  BY <1>1, <1>2, EncodeOver DEF EncodeFail
<1>3. CASE /\ UNCHANGED out
           /\ \E b : enc' = [enc EXCEPT !.pc = IF enc.opts.output THEN "create" ELSE "done",
                                        !.binary = b, !.res = Passed]
  <2>1. PICK b : enc' = [enc EXCEPT !.pc = IF enc.opts.output THEN "create" ELSE "done",
                                    !.binary = b, !.res = Passed]
    BY <1>3
  <2>2. PICK pc : pc = IF enc.opts.output THEN "create" ELSE "done"
    OBVIOUS
  <2>3. enc' = [enc EXCEPT !.pc = pc, !.binary = b, !.res = Passed]
    BY <2>1, <2>2, Zenon
  <2>4. pc \in {"create", "done"}
    BY <2>2
  <2>5. /\ EncoderShape'
        /\ enc'.pc = pc /\ enc'.mode = enc.mode /\ enc'.opts = enc.opts
        /\ enc'.idx = enc.idx /\ enc'.half = enc.half /\ enc'.exec = enc.exec
        /\ enc'.scanned = enc.scanned /\ enc'.spooled = enc.spooled
    BY <1>3, <2>3 DEF EncoderInv, EncoderShape
  <2> QED  BY <1>1, <2>4, <2>5, MemoryStep
<1>4. \/ \E e : EncodeFail(e)
      \/ /\ UNCHANGED out
         /\ \E b : enc' = [enc EXCEPT !.pc = IF enc.opts.output THEN "create" ELSE "done",
                                      !.binary = b, !.res = Passed]
  BY Zenon DEF EncodeInMemory
<1> QED  BY <1>2, <1>3, <1>4

\* write_new: the output is torn until it is filled.
LEMMA WriteNewStep ==
  ASSUME EncoderInv, CreateOutput \/ FillOutput
  PROVE  EncoderInv'
<1>1. UNCHANGED <<src, clock, atScan>>
  BY DEF CreateOutput, FillOutput, environment
<1>2. CASE \E e : EncodeFail(e)
  BY <1>1, <1>2, EncodeOver DEF EncodeFail
<1>3. CASE /\ enc.pc = "create" /\ out' = [form |-> "torn", binary |-> enc.binary]
           /\ enc' = [enc EXCEPT !.pc = "fill"]
  <2>1. /\ EncoderShape' /\ out'.form = "torn"
        /\ enc'.pc = "fill" /\ enc'.mode = enc.mode /\ enc'.opts = enc.opts
        /\ enc'.idx = enc.idx /\ enc'.half = enc.half /\ enc'.exec = enc.exec
        /\ enc'.scanned = enc.scanned /\ enc'.spooled = enc.spooled
    BY <1>3 DEF EncoderInv, EncoderShape
  <2> QED  BY <1>1, <1>3, <2>1, MemoryStep
<1>4. CASE FillOutput
  <2>1. /\ EncoderShape' /\ enc.pc = "fill"
        /\ enc'.pc = "done" /\ enc'.mode = enc.mode /\ enc'.opts = enc.opts
        /\ enc'.idx = enc.idx /\ enc'.half = enc.half /\ enc'.exec = enc.exec
        /\ enc'.scanned = enc.scanned /\ enc'.spooled = enc.spooled
    BY <1>4 DEF EncoderInv, EncoderShape, FillOutput
  <2> QED  BY <1>1, <2>1, MemoryStep
<1>5. \/ \E e : EncodeFail(e)
      \/ /\ enc.pc = "create" /\ out' = [form |-> "torn", binary |-> enc.binary]
         /\ enc' = [enc EXCEPT !.pc = "fill"]
      \/ FillOutput
  BY Zenon DEF CreateOutput
<1> QED  BY <1>2, <1>3, <1>4, <1>5


-----------------------------------------------------------------------------
(* Every step.                                                             *)

\* Whatever the decoder does, the encoder is left as it is.
LEMMA DecodeLeavesEncoder ==
  ASSUME Decode
  PROVE  UNCHANGED <<enc, out, atScan, src, clock>>
<1>1. UNCHANGED <<encoder, environment>>
  BY Zenon DEF Decode, DecodeStart, Load, Body, Resolve, Commit
<1> QED  BY <1>1 DEF encoder, environment

\* Whatever the encoder does, the decoder is left as it is.
LEMMA EncodeLeavesDecoder ==
  ASSUME Encode
  PROVE  UNCHANGED <<dec, target>>
<1>1. UNCHANGED decoder
  BY Zenon DEF Encode, EncodeStart, ScanOpen, ScanClose, EndScan, SpoolOpen, SpoolClose, EndPass,
               Train, Stage, Verify, Persist, EncodeInMemory, CreateOutput, FillOutput
<1> QED  BY <1>1 DEF decoder

\* What other programs do to the artifact or the destinations, and a killed command.
LEMMA OthersEncoderStep ==
  ASSUME EncoderInv, SwapArtifact \/ CreateForeignOutput \/ Crash
                     \/ \E form \in {"torn", "token", "binary"} : FillFails(form)
                     \/ \E t \in Places, what \in {EmptyDir, Foreign} : CreateForeign(t, what)
  PROVE  EncoderInv'
<1>1. clock \in Nat /\ EncoderShape
  BY DEF EncoderInv, SourceInv
<1>2. CASE SwapArtifact
  <2>1. /\ UNCHANGED <<enc, src, atScan>> /\ clock' = clock + 2 /\ enc.pc # "fill"
        /\ out' = [form |-> out'.form, binary |-> out'.binary]
    BY <1>1, <1>2 DEF SwapArtifact, Disturb, EncoderShape
  <2> QED  BY <1>1, <2>1, EncoderKept
<1>3. CASE CreateForeignOutput
  <2>1. /\ UNCHANGED <<enc, src, atScan>> /\ clock' = clock + 1 /\ out.form = "absent"
        /\ out' = [form |-> out'.form, binary |-> out'.binary]
    BY <1>1, <1>3 DEF CreateForeignOutput, Disturb, EncoderShape
  <2>2. enc.pc # "fill"
    BY <2>1 DEF EncoderInv, EncoderTypes
  <2> QED  BY <1>1, <2>1, <2>2, EncoderKept
<1>4. CASE Crash
  <2>1. UNCHANGED <<src, out, atScan>> /\ clock' = clock + 1
    BY <1>4 DEF Crash, Disturb
  <2>2. CASE enc' = [enc EXCEPT !.pc = "crashed"]
    BY <2>1, <2>2, EncodeOver
  <2>3. CASE UNCHANGED enc
    <3>1. /\ out' = [form |-> out'.form, binary |-> out'.binary]
          /\ enc.pc = "fill" => out'.form = "torn"
      BY <1>1, <2>1 DEF EncoderShape, EncoderInv, EncoderTypes
    <3> QED  BY <1>1, <2>1, <2>3, <3>1, EncoderKept
  <2> QED  BY <1>4, <2>2, <2>3 DEF Crash
<1>5. CASE \E t \in Places, what \in {EmptyDir, Foreign} : CreateForeign(t, what)
  <2>1. UNCHANGED <<enc, src, atScan, out>> /\ clock' = clock + 1
    BY <1>5 DEF CreateForeign, Disturb
  <2>2. /\ out' = [form |-> out'.form, binary |-> out'.binary]
        /\ enc.pc = "fill" => out'.form = "torn"
    BY <1>1, <2>1 DEF EncoderShape, EncoderInv, EncoderTypes
  <2> QED  BY <1>1, <2>1, <2>2, EncoderKept
<1>6. CASE \E form \in {"torn", "token", "binary"} : FillFails(form)
  <2>1. PICK form : FillFails(form)
    BY <1>6
  <2>2. /\ UNCHANGED <<src, atScan>> /\ clock' = clock + 1
        /\ enc' = [enc EXCEPT !.pc = "failed", !.res = "Io"]
        /\ out' = [form |-> out'.form, binary |-> out'.binary]
    BY <1>1, <2>1 DEF FillFails, Disturb, EncoderShape
  <2> QED  BY <2>2, EncodeEnds
<1> QED  BY <1>2, <1>3, <1>4, <1>5, <1>6

\* The invariant of the encoder.
LEMMA EncoderStep ==
  ASSUME EncoderInv, [Next]_vars
  PROVE  EncoderInv'
<1>1. CASE Encode
  BY <1>1, EncodeStartStep, ScanOpenStep, ScanCloseStep, EndScanStep, SpoolOpenStep, SpoolCloseStep,
     EndPassStep, TrainStep, StageStep, VerifyStep, PersistStep, EncodeInMemoryStep, WriteNewStep,
     Zenon DEF Encode
<1>2. ASSUME UNCHANGED <<enc, out, atScan, src, clock>> PROVE EncoderInv'
  <2>1. clock \in Nat /\ clock' = clock
    BY <1>2 DEF EncoderInv, SourceInv
  <2>2. /\ out' = [form |-> out'.form, binary |-> out'.binary]
        /\ enc.pc = "fill" => out'.form = "torn"
    BY <1>2 DEF EncoderShape, EncoderInv, EncoderTypes
  <2> QED  BY <1>2, <2>1, <2>2, EncoderKept
<1>3. CASE Decode
  BY <1>2, <1>3, DecodeLeavesEncoder
<1>4. CASE Others
  <2>1. CASE \E i \in 1..N, what \in {"rewrite", "mode", "remove", "relink"} : WriteSource(i, what)
    BY <2>1, WriteSourceStep
  <2>2. CASE SwapArtifact \/ CreateForeignOutput \/ Crash
             \/ \E form \in {"torn", "token", "binary"} : FillFails(form)
             \/ \E t \in Places, what \in {EmptyDir, Foreign} : CreateForeign(t, what)
    BY <2>2, OthersEncoderStep
  <2> QED  BY <1>4, <2>1, <2>2, Zenon DEF Others
<1>5. CASE UNCHANGED vars
  BY <1>2, <1>5 DEF vars
<1> QED  BY <1>1, <1>3, <1>4, <1>5 DEF Next

\* The invariant of the decoder.
LEMMA DecoderStep ==
  ASSUME DecoderInv, [Next]_vars
  PROVE  DecoderInv'
<1>1. ASSUME UNCHANGED <<dec, target>> PROVE DecoderInv'
  BY <1>1 DEF DecoderInv, DecoderShape, PreviewBinds, CommittedAsPreviewed, SuggestedBy, HintOf
<1>2. CASE Decode
  BY <1>2, DecodeStartStep, LoadStep, BodyStep, ResolveStep, CommitStep, Zenon DEF Decode
<1>3. CASE Encode
  BY <1>1, <1>3, EncodeLeavesDecoder
<1>4. CASE Others
  <2>1. CASE \E t \in Places, what \in {EmptyDir, Foreign} : CreateForeign(t, what)
    BY <2>1, CreateForeignStep
  <2>2. CASE Crash
    BY <2>2, CrashDecodeStep
  <2>3. CASE \/ \E i \in 1..N, what \in {"rewrite", "mode", "remove", "relink"} : WriteSource(i, what)
             \/ SwapArtifact \/ CreateForeignOutput
             \/ \E form \in {"torn", "token", "binary"} : FillFails(form)
    <3>1. UNCHANGED <<dec, target>>
      BY <2>3 DEF WriteSource, SwapArtifact, CreateForeignOutput, FillFails, decoder
    <3> QED  BY <1>1, <3>1
  <2> QED  BY <1>4, <2>1, <2>2, <2>3, Zenon DEF Others
<1>5. CASE UNCHANGED vars
  BY <1>1, <1>5 DEF vars
<1> QED  BY <1>2, <1>3, <1>4, <1>5 DEF Next

\* The program starts with an untouched tree and idle commands.
LEMMA ArtifactInit ==
  ASSUME Init
  PROVE  EncoderInv /\ DecoderInv
<1>0. N \in Nat \ {0}
  BY ArtifactFilesAssumption
<1>1. enc = NoEncoder /\ dec = NoDecoder /\ out = NoOutput /\ clock = 0 /\ atScan = src
  BY DEF Init
<1>2. EncoderShape
  BY <1>1 DEF EncoderShape, NoEncoder, NoOutput
<1>3. EncoderTypes
  BY <1>1 DEF EncoderTypes, NoEncoder
<1>4. SourceInv
  <2>1. src = [i \in 1..N |-> [ver |-> 0, exec |-> FALSE]]
    BY DEF Init
  <2>2. \A i \in 1..N : src[i] = [ver |-> 0, exec |-> FALSE]
    BY <2>1
  <2>3. \A i \in 1..N : src[i].ver = 0 /\ src[i].exec = FALSE
    BY <2>2
  <2>4. TreeTypes(src)
    <3>1. src = [i \in 1..N |-> src[i]]
      BY <2>1
    <3>2. \A i \in 1..N : src[i] = [ver |-> src[i].ver, exec |-> src[i].exec]
      BY <2>2
    <3>3. \A i \in 1..N : src[i].ver \in 0..clock
      BY <1>1, <2>3
    <3>4. \A i \in 1..N : src[i].exec \in BOOLEAN
      BY <2>3, Zenon
    <3> QED  BY <3>1, <3>2, <3>3, <3>4, Zenon DEF TreeTypes
  <2> QED  BY <1>1, <2>3, <2>4 DEF SourceInv, TreeTypes
<1>5. ScanInv /\ StreamInv
  BY <1>1 DEF ScanInv, StreamInv, Streaming, NoEncoder
<1>6. DecoderShape
  <2>1. Output \in Places
    BY ArtifactFilesAssumption DEF Places, Destinations
  <2>2. target = [t \in Places |-> target[t]]
    BY DEF Init
  <2> QED  BY <1>1, <2>1, <2>2 DEF DecoderShape, NoDecoder
<1>7. PreviewBinds /\ CommittedAsPreviewed
  BY <1>1 DEF PreviewBinds, CommittedAsPreviewed, NoDecoder
<1> QED  BY <1>2, <1>3, <1>4, <1>5, <1>6, <1>7 DEF EncoderInv, DecoderInv

\* Both invariants hold in every state.
LEMMA ArtifactInvariants == Spec => [](EncoderInv /\ DecoderInv)
<1>1. Init => EncoderInv /\ DecoderInv
  BY ArtifactInit
<1>2. EncoderInv /\ DecoderInv /\ [Next]_vars => (EncoderInv /\ DecoderInv)'
  BY EncoderStep, DecoderStep
<1> QED  BY <1>1, <1>2, PTL DEF Spec

\* Whatever replaces the artifact while it is read, what appears at a hinted
\* destination is the artifact of the preview, which suggests that destination
\* (decode_artifact_file_expected).
THEOREM PreviewIsCommitted == Spec => []CommittedAsPreviewed
<1>1. EncoderInv /\ DecoderInv => CommittedAsPreviewed
  BY DEF DecoderInv
<1> QED  BY <1>1, ArtifactInvariants, PTL

-----------------------------------------------------------------------------
(* Nothing is replaced.                                                    *)

\* The output of encode.
LEMMA OutputKept ==
  ASSUME EncoderInv, [Next]_vars, out.form = "foreign"
  PROVE  out'.form = "foreign"
<1>1. CASE UNCHANGED out
  BY <1>1
<1>2. CASE Encode
  <2>1. CASE Persist
    BY <1>1, <2>1, Zenon DEF Persist, EncodeFail
  <2>2. CASE CreateOutput
    BY <1>1, <2>2, Zenon DEF CreateOutput, EncodeFail
  <2>3. CASE FillOutput
    BY <2>3 DEF FillOutput, EncoderInv, EncoderTypes
  <2>4. CASE ~Persist /\ ~CreateOutput /\ ~FillOutput
    <3>1. UNCHANGED out
      BY <1>2, <2>4, Zenon DEF Encode, EncodeStart, ScanOpen, ScanClose, EndScan, SpoolOpen,
         SpoolClose, EndPass, Train, Stage, Verify, EncodeInMemory, EncodeFail
    <3> QED  BY <1>1, <3>1
  <2> QED  BY <2>1, <2>2, <2>3, <2>4
<1>3. CASE Decode
  BY <1>1, <1>3, DecodeLeavesEncoder
<1>4. CASE Others
  <2>1. CASE SwapArtifact
    BY <2>1 DEF SwapArtifact, EncoderInv, EncoderShape
  <2>2. CASE CreateForeignOutput
    BY <2>2 DEF CreateForeignOutput
  <2>3. CASE \E form \in {"torn", "token", "binary"} : FillFails(form)
    BY <2>3 DEF FillFails, EncoderInv, EncoderTypes
  <2>4. CASE ~SwapArtifact /\ ~CreateForeignOutput /\ ~\E form \in {"torn", "token", "binary"} : FillFails(form)
    BY <1>4, <2>4 DEF Others, WriteSource, CreateForeign, Crash
  <2> QED  BY <2>1, <2>2, <2>3, <2>4
<1> QED  BY <1>1, <1>2, <1>3, <1>4 DEF Next, vars

\* A destination of decode.
LEMMA DestinationKept ==
  ASSUME DecoderInv, [Next]_vars, NEW t \in Places, target[t] = Foreign
  PROVE  target'[t] = Foreign
<1>1. CASE UNCHANGED target
  BY <1>1
<1>2. Absent # Foreign /\ EmptyDir # Foreign
  BY ArtifactFilesAssumption
<1>3. CASE Encode
  BY <1>1, <1>3, EncodeLeavesDecoder
<1>4. CASE Resolve
  <2> DEFINE to == IF dec.hints THEN HintOf(dec.tree) ELSE Output
  <2>1. \/ UNCHANGED target
        \/ (dec.hints => ConfinedError(to) = Passed) /\ target' = Prepared(to)
    BY <1>4, Zenon DEF Resolve, DecodeFail
  <2>2. CASE (dec.hints => ConfinedError(to) = Passed) /\ target' = Prepared(to)
    <3>1. \A p \in Parents(to) : target[p] \in {Absent, EmptyDir}
      <4>1. CASE dec.hints
        BY <2>2, <4>1, ConfinedParents, Zenon
      <4>2. CASE ~dec.hints
        BY <4>2 DEF Parents
      <4> QED  BY <4>1, <4>2
    <3>2. t \notin Parents(to)
      BY <1>2, <3>1
    <3> HIDE DEF to
    <3> QED  BY <2>2, <3>2 DEF Prepared
  <2> QED  BY <1>1, <2>1, <2>2
<1>5. CASE Commit
  <2>1. CASE UNCHANGED target
    BY <2>1
  <2>2. CASE /\ target[dec.to] \in FreeFor(dec.tree.kind)
             /\ target' = [target EXCEPT ![dec.to] = dec.tree]
    <3>1. dec.to # t
      BY <1>2, <2>2 DEF FreeFor
    <3> QED  BY <2>2, <3>1 DEF DecoderInv, DecoderShape
  <2> QED  BY <1>5, <2>1, <2>2, Zenon DEF Commit, DecodeFail
<1>6. CASE Decode /\ ~Resolve /\ ~Commit
  <2>1. UNCHANGED target
    BY <1>6, Zenon DEF Decode, DecodeStart, Load, Body, DecodeFail
  <2> QED  BY <1>1, <2>1
<1>7. CASE Others
  <2>1. CASE \E u \in Places, what \in {EmptyDir, Foreign} : CreateForeign(u, what)
    <3>1. PICK u \in Places, what \in {EmptyDir, Foreign} : target[u] = Absent /\ target' = [target EXCEPT ![u] = what]
      BY <2>1 DEF CreateForeign
    <3> QED  BY <1>2, <3>1 DEF DecoderInv, DecoderShape
  <2>2. CASE ~\E u \in Places, what \in {EmptyDir, Foreign} : CreateForeign(u, what)
    BY <1>7, <2>2 DEF Others, WriteSource, SwapArtifact, CreateForeignOutput, FillFails, Crash, decoder
  <2> QED  BY <2>1, <2>2
<1> QED  BY <1>1, <1>3, <1>4, <1>5, <1>6, <1>7 DEF Next, vars

\* No step replaces what another program put at the output of encode or at a
\* destination of decode after the command looked there (persist_noclobber,
\* write_new, prepare_confined_target, the rename of a staged tree).
THEOREM NothingIsReplaced == Spec => NothingReplaced
<1>1. EncoderInv /\ DecoderInv /\ [Next]_vars =>
        [/\ out.form = "foreign" => out'.form = "foreign"
         /\ \A t \in Places : target[t] = Foreign => target'[t] = Foreign]_vars
  BY OutputKept, DestinationKept
<1> QED  BY <1>1, ArtifactInvariants, PTL DEF Spec, NothingReplaced


-----------------------------------------------------------------------------
(* The order of paths.                                                     *)

\* p and q part at the i-th component, where p ends or has the smaller one.
PartsAt(p, q, i) ==
  /\ i <= Len(p) + 1 /\ i <= Len(q)
  /\ \A j \in 1..(i - 1) : p[j] = q[j]
  /\ i <= Len(p) => p[i] < q[i]

\* One path is less than another when they part somewhere.
LEMMA PathLessParts ==
  ASSUME NEW p \in Seq(Nat), NEW q \in Seq(Nat)
  PROVE  PathLess(p, q) <=> \E i \in Nat \ {0} : PartsAt(p, q, i)
<1>1. /\ Len(p) \in Nat /\ Len(q) \in Nat /\ DOMAIN p = 1..Len(p) /\ DOMAIN q = 1..Len(q)
      /\ \A i \in 1..Len(p) : p[i] \in Nat
      /\ \A i \in 1..Len(q) : q[i] \in Nat
  OBVIOUS
<1>2. IsStrictPrefix(p, q) <=> Len(p) < Len(q) /\ \A j \in 1..Len(p) : p[j] = q[j]
  <2>1. ASSUME IsStrictPrefix(p, q)
        PROVE  Len(p) < Len(q) /\ \A j \in 1..Len(p) : p[j] = q[j]
    <3>1. Len(p) <= Len(q) /\ SubSeq(p, 1, Len(p)) = SubSeq(q, 1, Len(p)) /\ p # q
      BY <2>1 DEF IsStrictPrefix, IsPrefix
    <3>2. \A j \in 1..Len(p) : SubSeq(p, 1, Len(p))[j] = p[j] /\ SubSeq(q, 1, Len(p))[j] = q[j]
      BY <1>1, <3>1
    <3>3. \A j \in 1..Len(p) : p[j] = q[j]
      BY <3>1, <3>2
    <3>4. Len(p) # Len(q)
      BY <3>1, <3>3, SeqEqual
    <3>5. Len(p) < Len(q)
      <4>1. Len(p) \in Nat /\ Len(q) \in Nat /\ Len(p) <= Len(q)
        BY <1>1, <3>1, Zenon
      <4> QED  BY <3>4, <4>1
    <3> QED  BY <3>3, <3>5
  <2>2. ASSUME Len(p) < Len(q), \A j \in 1..Len(p) : p[j] = q[j]
        PROVE  IsStrictPrefix(p, q)
    <3>1. SubSeq(p, 1, Len(p)) = SubSeq(q, 1, Len(p))
      <4>1. SubSeq(p, 1, Len(p)) = [j \in 1..Len(p) |-> p[j]]
        BY <1>1
      <4>2. SubSeq(q, 1, Len(p)) = [j \in 1..Len(p) |-> q[j]]
        BY <1>1, <2>2
      <4> QED  BY <2>2, <4>1, <4>2
    <3>2. p # q
      BY <1>1, <2>2
    <3> QED  BY <1>1, <2>2, <3>1, <3>2 DEF IsStrictPrefix, IsPrefix
  <2> QED  BY <2>1, <2>2
<1>3. ASSUME PathLess(p, q) PROVE \E i \in Nat \ {0} : PartsAt(p, q, i)
  <2>1. CASE IsStrictPrefix(p, q)
    <3>1. PartsAt(p, q, Len(p) + 1)
      BY <1>1, <1>2, <2>1 DEF PartsAt
    <3> QED  BY <1>1, <3>1
  <2>2. CASE \E i \in DOMAIN p \cap DOMAIN q : (\A j \in 1..(i - 1) : p[j] = q[j]) /\ p[i] < q[i]
    <3>1. PICK i \in DOMAIN p \cap DOMAIN q : (\A j \in 1..(i - 1) : p[j] = q[j]) /\ p[i] < q[i]
      BY <2>2
    <3>2. i \in Nat \ {0} /\ PartsAt(p, q, i)
      BY <1>1, <3>1 DEF PartsAt
    <3> QED  BY <3>2
  <2> QED  BY <1>3, <2>1, <2>2 DEF PathLess
<1>4. ASSUME NEW i \in Nat \ {0}, PartsAt(p, q, i) PROVE PathLess(p, q)
  <2>1. CASE i <= Len(p)
    <3>1. i \in DOMAIN p \cap DOMAIN q
      BY <1>1, <1>4, <2>1 DEF PartsAt
    <3> QED  BY <1>4, <2>1, <3>1 DEF PartsAt, PathLess
  <2>2. CASE i > Len(p)
    <3>1. i - 1 = Len(p)
      BY <1>1, <1>4, <2>2 DEF PartsAt
    <3>2. IsStrictPrefix(p, q)
      BY <1>1, <1>2, <1>4, <3>1 DEF PartsAt
    <3> QED  BY <3>2 DEF PathLess
  <2> QED  BY <1>1, <2>1, <2>2
<1> QED  BY <1>3, <1>4

\* No path is less than itself.
LEMMA PathLessIrreflexive ==
  ASSUME NEW p \in Seq(Nat)
  PROVE  ~PathLess(p, p)
<1>1. /\ Len(p) \in Nat /\ \A i \in 1..Len(p) : p[i] \in Nat
  OBVIOUS
<1>2. ASSUME NEW i \in Nat \ {0}, PartsAt(p, p, i) PROVE FALSE
  BY <1>1, <1>2 DEF PartsAt
<1> QED  BY <1>2, PathLessParts

\* The order is transitive: the first and the last path part where the first two
\* do or where the last two do, whichever comes first.
LEMMA PathLessTransitive ==
  ASSUME NEW p \in Seq(Nat), NEW q \in Seq(Nat), NEW r \in Seq(Nat), PathLess(p, q), PathLess(q, r)
  PROVE  PathLess(p, r)
<1>1. /\ Len(p) \in Nat /\ Len(q) \in Nat /\ Len(r) \in Nat
      /\ \A i \in 1..Len(p) : p[i] \in Nat
      /\ \A i \in 1..Len(q) : q[i] \in Nat
      /\ \A i \in 1..Len(r) : r[i] \in Nat
  OBVIOUS
<1>2. PICK i \in Nat \ {0} : PartsAt(p, q, i)
  BY PathLessParts
<1>3. PICK k \in Nat \ {0} : PartsAt(q, r, k)
  BY PathLessParts
<1>4. CASE i < k
  <2>1. PartsAt(p, r, i)
    <3>1. i <= Len(p) + 1 /\ i <= Len(q) /\ k <= Len(r)
      BY <1>2, <1>3 DEF PartsAt
    <3>2. \A j \in 1..(i - 1) : p[j] = q[j] /\ q[j] = r[j]
      <4>1. \A j \in 1..(i - 1) : j \in 1..(k - 1)
        BY <1>4
      <4> QED  BY <1>2, <1>3, <4>1 DEF PartsAt
    <3>3. q[i] = r[i]
      BY <1>3, <1>4 DEF PartsAt
    <3>4. i <= Len(p) => p[i] < r[i]
      BY <1>2, <3>3 DEF PartsAt
    <3> QED  BY <1>1, <1>4, <3>1, <3>2, <3>4 DEF PartsAt
  <2> QED  BY <2>1, PathLessParts
<1>5. CASE k <= i
  <2>1. PartsAt(p, r, k)
    <3>1. i <= Len(p) + 1 /\ i <= Len(q) /\ k <= Len(r) /\ k <= Len(q) /\ k <= Len(p) + 1
      BY <1>1, <1>2, <1>3, <1>5 DEF PartsAt
    <3>2. \A j \in 1..(k - 1) : p[j] = q[j] /\ q[j] = r[j]
      <4>1. \A j \in 1..(k - 1) : j \in 1..(i - 1)
        BY <1>5
      <4>2. \A j \in 1..(i - 1) : p[j] = q[j]
        BY <1>2, Zenon DEF PartsAt
      <4>3. \A j \in 1..(k - 1) : q[j] = r[j]
        BY <1>3, Zenon DEF PartsAt
      <4> QED  BY <4>1, <4>2, <4>3, Zenon
    <3>3. q[k] < r[k]
      BY <1>3, <3>1 DEF PartsAt
    <3>4. k <= Len(p) => p[k] <= q[k]
      <4>1. CASE k = i
        BY <1>1, <1>2, <3>1, <4>1 DEF PartsAt
      <4>2. CASE k < i
        BY <1>1, <1>2, <3>1, <4>2 DEF PartsAt
      <4> QED  BY <1>5, <4>1, <4>2
    <3>5. k <= Len(p) => p[k] < r[k]
      <4> SUFFICES ASSUME k <= Len(p) PROVE p[k] < r[k]
        OBVIOUS
      <4>1. k \in 1..Len(p) /\ k \in 1..Len(q) /\ k \in 1..Len(r)
        BY <1>1, <3>1
      <4>2. p[k] \in Nat /\ q[k] \in Nat /\ r[k] \in Nat
        BY <1>1, <4>1
      <4> QED  BY <3>3, <3>4, <4>2
    <3> QED  BY <3>1, <3>2, <3>5 DEF PartsAt
  <2> QED  BY <2>1, PathLessParts
<1> QED  BY <1>4, <1>5

\* Of two different paths one is less.
LEMMA PathLessTotal ==
  ASSUME NEW p \in Seq(Nat), NEW q \in Seq(Nat), p # q
  PROVE  PathLess(p, q) \/ PathLess(q, p)
<1>1. /\ Len(p) \in Nat /\ Len(q) \in Nat
      /\ \A i \in 1..Len(p) : p[i] \in Nat
      /\ \A i \in 1..Len(q) : q[i] \in Nat
  OBVIOUS
<1> DEFINE D == {i \in 1..(Len(p) + 1) : i > Len(p) \/ i > Len(q) \/ p[i] # q[i]}
<1>2. D \subseteq Nat /\ D # {}
  <2>1. Len(p) + 1 \in D
    BY <1>1
  <2> QED  BY <2>1
<1>3. PICK i \in D : \A j \in D : i <= j
  BY <1>2, Smallest
<1>4. i \in 1..(Len(p) + 1) /\ \A j \in 1..(i - 1) : j <= Len(p) /\ j <= Len(q) /\ p[j] = q[j]
  <2>1. i \in 1..(Len(p) + 1)
    OBVIOUS
  <2> SUFFICES ASSUME NEW j \in 1..(i - 1) PROVE j <= Len(p) /\ j <= Len(q) /\ p[j] = q[j]
    BY <2>1
  <2>2. j \in 1..(Len(p) + 1) /\ j < i
    BY <1>1, <2>1
  <2>3. j \notin D
    BY <1>3, <2>1, <2>2
  <2> QED  BY <1>1, <2>2, <2>3
<1>5. CASE i <= Len(p) /\ i <= Len(q)
  <2>1. p[i] # q[i] /\ p[i] \in Nat /\ q[i] \in Nat
    BY <1>1, <1>5
  <2>2. PartsAt(p, q, i) \/ PartsAt(q, p, i)
    BY <1>1, <1>4, <1>5, <2>1 DEF PartsAt
  <2> QED  BY <1>4, <2>2, PathLessParts
<1>6. CASE i > Len(p) /\ i <= Len(q)
  <2>1. PartsAt(p, q, i)
    BY <1>1, <1>4, <1>6 DEF PartsAt
  <2> QED  BY <1>4, <2>1, PathLessParts
<1>7. CASE i <= Len(p) /\ i > Len(q)
  <2>1. i <= Len(q) + 1
    <3>1. CASE i = 1
      BY <1>1, <3>1
    <3>2. CASE i > 1
      <4>1. i - 1 \in 1..(i - 1)
        BY <1>4, <3>2
      <4> QED  BY <1>1, <1>4, <4>1
    <3> QED  BY <1>4, <3>1, <3>2
  <2>2. PartsAt(q, p, i)
    BY <1>1, <1>4, <1>7, <2>1 DEF PartsAt
  <2> QED  BY <1>4, <2>2, PathLessParts
<1>8. CASE i > Len(p) /\ i > Len(q)
  <2>1. i - 1 = Len(p)
    BY <1>1, <1>4, <1>8
  <2>2. Len(p) <= Len(q) /\ \A j \in 1..Len(p) : p[j] = q[j]
    <3>1. \A j \in 1..Len(p) : j <= Len(q) /\ p[j] = q[j]
      BY <1>4, <2>1
    <3>2. Len(p) <= Len(q)
      <4>1. CASE Len(p) = 0
        BY <1>1, <4>1
      <4>2. CASE Len(p) > 0
        BY <1>1, <3>1, <4>2
      <4> QED  BY <1>1, <4>1, <4>2
    <3> QED  BY <3>1, <3>2
  <2>3. Len(p) = Len(q)
    BY <1>1, <1>8, <2>1, <2>2
  <2>4. p = q
    BY <2>2, <2>3, SeqEqual
  <2> QED  BY <2>4
<1> QED  BY <1>1, <1>4, <1>5, <1>6, <1>7, <1>8


-----------------------------------------------------------------------------
(* Sorting.                                                                *)

\* The entries that come before the i-th in path order.
Below(entries, i) ==
  {j \in 1..Len(entries) :
     \/ PathLess(entries[j].path, entries[i].path)
     \/ entries[j].path = entries[i].path /\ j < i}

\* The entries before one of two entries are among those before the other,
\* which has at least one more.
LEMMA BelowOrdered ==
  ASSUME NEW entries, Len(entries) \in Nat,
         \A i \in 1..Len(entries) : entries[i].path \in Seq(Nat),
         NEW i \in 1..Len(entries), NEW k \in 1..Len(entries), i \in Below(entries, k)
  PROVE  Below(entries, i) \subseteq Below(entries, k) /\ i \notin Below(entries, i)
<1>1. entries[i].path \in Seq(Nat) /\ entries[k].path \in Seq(Nat)
  OBVIOUS
<1>2. i \notin Below(entries, i)
  BY <1>1, PathLessIrreflexive DEF Below
<1>3. ASSUME NEW j \in Below(entries, i) PROVE j \in Below(entries, k)
  <2>1. j \in 1..Len(entries) /\ entries[j].path \in Seq(Nat)
    BY <1>3 DEF Below
  <2>2. PICK p \in Seq(Nat) : p = entries[j].path
    BY <2>1
  <2>3. PICK q \in Seq(Nat) : q = entries[i].path
    BY <1>1
  <2>4. PICK r \in Seq(Nat) : r = entries[k].path
    BY <1>1
  <2>5. PathLess(p, q) \/ (p = q /\ j < i)
    BY <1>3, <2>2, <2>3 DEF Below
  <2>6. PathLess(q, r) \/ (q = r /\ i < k)
    BY <2>3, <2>4 DEF Below
  <2>7. PathLess(p, q) /\ PathLess(q, r) => PathLess(p, r)
    BY PathLessTransitive
  <2>8. PathLess(p, r) \/ (p = r /\ j < k)
    <3>1. CASE p = q /\ q = r
      BY <2>1, <2>5, <2>6, <3>1, PathLessIrreflexive
    <3>2. CASE p # q \/ q # r
      BY <2>5, <2>6, <2>7, <3>2
    <3> QED  BY <3>1, <3>2
  <2> QED  BY <2>1, <2>2, <2>4, <2>8 DEF Below
<1> QED  BY <1>2, <1>3

\* Every rank from one to the number of entries belongs to exactly one entry.
LEMMA RankBijective ==
  ASSUME NEW entries, Len(entries) \in Nat,
         \A i \in 1..Len(entries) : entries[i].path \in Seq(Nat)
  PROVE  /\ \A i \in 1..Len(entries) : Rank(entries, i) \in 1..Len(entries)
         /\ \A i, k \in 1..Len(entries) : Rank(entries, i) = Rank(entries, k) => i = k
         /\ \A k \in 1..Len(entries) : \E i \in 1..Len(entries) : Rank(entries, i) = k
<1>1. PICK n \in Nat : n = Len(entries)
  OBVIOUS
<1>2. IsFiniteSet(1..n) /\ Cardinality(1..n) = n
  BY FS_Interval
<1>3. \A i \in 1..n : /\ Below(entries, i) \in SUBSET (1..n)
                      /\ IsFiniteSet(Below(entries, i))
                      /\ Cardinality(Below(entries, i)) \in Nat
                      /\ Rank(entries, i) = 1 + Cardinality(Below(entries, i))
  <2>1. \A i \in 1..n : Below(entries, i) \in SUBSET (1..n)
    BY <1>1 DEF Below
  <2>2. \A i \in 1..n : IsFiniteSet(Below(entries, i))
    BY <1>2, <2>1, FS_Subset
  <2>3. \A i \in 1..n : Cardinality(Below(entries, i)) \in Nat
    BY <2>2, FS_CardinalityType
  <2> QED  BY <2>1, <2>2, <2>3 DEF Rank, Below
<1>4. ASSUME NEW i \in 1..n, NEW k \in 1..n, i # k, Rank(entries, i) = Rank(entries, k)
      PROVE  FALSE
  <2>1. i \in Below(entries, k) \/ k \in Below(entries, i)
    <3>1. PICK p \in Seq(Nat) : p = entries[i].path
      BY <1>1
    <3>2. PICK q \in Seq(Nat) : q = entries[k].path
      BY <1>1
    <3>3. PathLess(p, q) \/ PathLess(q, p) \/ p = q
      BY PathLessTotal
    <3>4. i < k \/ k < i
      BY <1>4
    <3> QED  BY <1>1, <3>1, <3>2, <3>3, <3>4 DEF Below
  <2>2. ASSUME NEW x \in 1..n, NEW y \in 1..n, x \in Below(entries, y)
        PROVE  Rank(entries, x) # Rank(entries, y)
    <3>1. Below(entries, x) \in SUBSET Below(entries, y) /\ x \notin Below(entries, x)
      BY <1>1, <2>2, BelowOrdered
    <3>2. Below(entries, x) # Below(entries, y)
      BY <2>2, <3>1
    <3>3. Cardinality(Below(entries, x)) # Cardinality(Below(entries, y))
      BY <1>3, <3>1, <3>2, FS_Subset
    <3> QED  BY <1>3, <3>3
  <2> QED  BY <1>4, <2>1, <2>2
<1>5. \A i \in 1..n : Rank(entries, i) \in 1..n
  <2> SUFFICES ASSUME NEW i \in 1..n PROVE Rank(entries, i) \in 1..n
    OBVIOUS
  <2>1. i \notin Below(entries, i)
    <3>1. PICK p \in Seq(Nat) : p = entries[i].path
      BY <1>1
    <3> QED  BY <3>1, PathLessIrreflexive DEF Below
  <2>2. Cardinality(Below(entries, i)) <= n /\ Cardinality(Below(entries, i)) # n
    BY <1>2, <1>3, <2>1, FS_Subset
  <2> QED  BY <1>3, <2>2
<1>6. PICK f : f = [i \in 1..n |-> Rank(entries, i)]
  OBVIOUS
<1>7. f \in Injection(1..n, 1..n)
  <2>1. f \in [1..n -> 1..n]
    BY <1>5, <1>6
  <2>2. \A x, y \in 1..n : f[x] = f[y] => x = y
    BY <1>4, <1>6
  <2> QED  BY <2>1, <2>2 DEF Injection, IsInjective
<1>8. f \in Surjection(1..n, 1..n)
  BY <1>2, <1>7, FS_Injection
<1>9. \A k \in 1..n : \E i \in 1..n : Rank(entries, i) = k
  BY <1>6, <1>8 DEF Surjection
<1> QED  BY <1>1, <1>4, <1>5, <1>9

\* Sorting loses no entry and adds none.
LEMMA SortedEntries ==
  ASSUME NEW a, Len(a.entries) \in Nat,
         \A i \in 1..Len(a.entries) : a.entries[i].path \in Seq(Nat)
  PROVE  /\ Len(Sorted(a)) = Len(a.entries)
         /\ \A k \in 1..Len(a.entries) : \E i \in 1..Len(a.entries) : Sorted(a)[k] = a.entries[i]
         /\ \A i \in 1..Len(a.entries) : \E k \in 1..Len(a.entries) : Sorted(a)[k] = a.entries[i]
<1>1. CASE a.kind = "File"
  BY <1>1 DEF Sorted
<1>2. CASE a.kind # "File"
  <2>1. PICK n \in Nat : n = Len(a.entries)
    OBVIOUS
  <2>2. PICK entries : entries = a.entries
    OBVIOUS
  <2> DEFINE at(k) == CHOOSE i \in 1..n : Rank(entries, i) = k
  <2>3. Sorted(a) = [k \in 1..n |-> entries[at(k)]]
    BY <1>2, <2>1, <2>2 DEF Sorted
  <2>4. /\ \A i \in 1..n : Rank(entries, i) \in 1..n
        /\ \A i, k \in 1..n : Rank(entries, i) = Rank(entries, k) => i = k
        /\ \A k \in 1..n : \E i \in 1..n : Rank(entries, i) = k
    BY <2>1, <2>2, RankBijective
  <2>5. \A k \in 1..n : at(k) \in 1..n /\ Rank(entries, at(k)) = k
    BY <2>4
  <2> HIDE DEF at
  <2>6. \A i \in 1..n : at(Rank(entries, i)) = i
    BY <2>4, <2>5
  <2>7. Len(Sorted(a)) = n /\ \A k \in 1..n : Sorted(a)[k] = entries[at(k)]
    BY <2>3
  <2>8. \A k \in 1..n : \E i \in 1..n : Sorted(a)[k] = entries[i]
    BY <2>5, <2>7
  <2>9. \A i \in 1..n : \E k \in 1..n : Sorted(a)[k] = entries[i]
    <3> SUFFICES ASSUME NEW i \in 1..n PROVE \E k \in 1..n : Sorted(a)[k] = entries[i]
      OBVIOUS
    <3>1. PICK k \in 1..n : k = Rank(entries, i)
      BY <2>4
    <3>2. at(k) = i
      BY <2>6, <3>1
    <3> QED  BY <2>7, <3>2
  <2> QED  BY <2>1, <2>2, <2>7, <2>8, <2>9
<1> QED  BY <1>1, <1>2


-----------------------------------------------------------------------------
(* What was scanned and what is decoded.                                   *)

\* The scanned artifact has the files of the scan, and directories.
LEMMA ScannedEntries ==
  ASSUME EncoderTypes
  PROVE  LET a == ScannedArtifact IN
         /\ Len(a.entries) \in Nat
         /\ \A i \in 1..Len(a.entries) : a.entries[i].path \in Seq(Nat)
         /\ \A i \in 1..Len(a.entries) : a.entries[i].kind = "File" =>
              \E k \in 1..Len(enc.scanned) :
                a.entries[i].path = enc.scanned[k].path /\ a.entries[i].bytes = enc.scanned[k].bytes
         /\ \A k \in 1..Len(enc.scanned) : \E i \in 1..Len(a.entries) :
              /\ a.entries[i].kind = "File"
              /\ a.entries[i].path = enc.scanned[k].path /\ a.entries[i].bytes = enc.scanned[k].bytes
<1>1. /\ FilePaths \in Seq(Seq(Nat)) /\ DirPaths \in Seq(Seq(Nat)) /\ N \in Nat
      /\ enc.scanned \in Seq(ScannedFiles)
  BY ArtifactFilesAssumption DEF EncoderTypes
<1>2. PICK n \in Nat : n = Len(enc.scanned)
  BY <1>1
<1>3. PICK files : files = [i \in 1..n |-> [kind |-> enc.scanned[i].kind, path |-> enc.scanned[i].path,
                                            bytes |-> enc.scanned[i].bytes,
                                            executable |-> enc.scanned[i].executable]]
  OBVIOUS
<1>4. PICK dirs : dirs = IF enc.opts.kind = "File" THEN <<>>
                         ELSE [k \in 1..Len(DirPaths) |-> [kind |-> "Directory", path |-> DirPaths[k],
                                                           bytes |-> <<>>, executable |-> FALSE]]
  OBVIOUS
<1>5. PICK all : all = files \o dirs
  OBVIOUS
<1>6. ScannedArtifact.entries = all
  BY <1>2, <1>3, <1>4, <1>5 DEF ScannedArtifact
<1>7. \A i \in 1..n : /\ enc.scanned[i].kind = "File" /\ enc.scanned[i].path \in Seq(Nat)
                      /\ enc.scanned[i].bytes \in Seq(Nat) /\ enc.scanned[i].executable \in BOOLEAN
  <2>1. \A i \in 1..n : enc.scanned[i] \in ScannedFiles
    BY <1>1, <1>2
  <2>2. {<<>>} \cup {FilePaths[i] : i \in 1..N} \subseteq Seq(Nat)
    <3>1. \A i \in 1..N : FilePaths[i] \in Seq(Nat)
      BY <1>1 DEF N
    <3>2. <<>> \in Seq(Nat)
      OBVIOUS
    <3> QED  BY <3>1, <3>2
  <2>3. \A e \in ScannedFiles :
          /\ e.kind = "File" /\ e.path \in {<<>>} \cup {FilePaths[i] : i \in 1..N}
          /\ e.bytes \in Seq(Nat) /\ e.executable \in BOOLEAN
    BY DEF ScannedFiles
  <2> QED  BY <2>1, <2>2, <2>3
<1> DEFINE Entries == [kind : {"File", "Directory"}, path : Seq(Nat), bytes : Seq(Nat), executable : BOOLEAN]
<1>8. files \in Seq(Entries)
  <2>1. \A i \in 1..n : files[i] \in Entries
    BY <1>3, <1>7
  <2> QED  BY <1>3, <2>1
<1>9. dirs \in Seq(Entries) /\ \A k \in 1..Len(dirs) : dirs[k].kind = "Directory"
  <2>1. CASE enc.opts.kind = "File"
    BY <1>4, <2>1
  <2>2. CASE enc.opts.kind # "File"
    <3>1. dirs = [k \in 1..Len(DirPaths) |-> [kind |-> "Directory", path |-> DirPaths[k],
                                              bytes |-> <<>>, executable |-> FALSE]]
      BY <1>4, <2>2
    <3>2. \A k \in 1..Len(DirPaths) : dirs[k] \in Entries /\ dirs[k].kind = "Directory"
      BY <1>1, <3>1
    <3> QED  BY <1>1, <3>1, <3>2
  <2> QED  BY <2>1, <2>2
<1>10. /\ \A i \in 1..n : /\ files[i].kind = "File" /\ files[i].path = enc.scanned[i].path
                          /\ files[i].bytes = enc.scanned[i].bytes
       /\ Len(files) = n
  BY <1>3, <1>7
<1> HIDE DEF Entries
<1>11. /\ all \in Seq(Entries) /\ Len(all) = n + Len(dirs) /\ Len(dirs) \in Nat
       /\ \A i \in 1..n : all[i] = files[i]
       /\ \A i \in 1..Len(dirs) : all[n + i] = dirs[i]
  BY <1>2, <1>5, <1>8, <1>9, <1>10
<1>12. \A i \in 1..Len(all) : i \in 1..n \/ i - n \in 1..Len(dirs)
  BY <1>11
<1>13. \A i \in 1..Len(all) : all[i].kind = "File" => i \in 1..n
  <2> SUFFICES ASSUME NEW i \in 1..Len(all), i \notin 1..n PROVE all[i].kind # "File"
    OBVIOUS
  <2>1. PICK k \in 1..Len(dirs) : i = n + k
    BY <1>11, <1>12
  <2>2. all[i].kind = "Directory"
    BY <1>9, <1>11, <2>1
  <2> QED  BY <2>2
<1>14. \A i \in 1..Len(all) : all[i].path \in Seq(Nat)
  <2>1. \A e \in Entries : e.path \in Seq(Nat)
    BY DEF Entries
  <2>2. \A i \in 1..Len(all) : all[i] \in Entries
    BY <1>11
  <2> QED  BY <2>1, <2>2
<1>15. \A i \in 1..n : i \in 1..Len(all)
  BY <1>11
<1>16. \A i \in 1..Len(all) : all[i].kind = "File" =>
         \E k \in 1..Len(enc.scanned) :
           all[i].path = enc.scanned[k].path /\ all[i].bytes = enc.scanned[k].bytes
  BY <1>2, <1>10, <1>11, <1>13
<1>17. \A k \in 1..Len(enc.scanned) : \E i \in 1..Len(all) :
         /\ all[i].kind = "File"
         /\ all[i].path = enc.scanned[k].path /\ all[i].bytes = enc.scanned[k].bytes
  BY <1>2, <1>10, <1>11, <1>15
<1>18. Len(all) \in Nat
  BY <1>11
<1> QED  BY <1>6, <1>14, <1>16, <1>17, <1>18

\* The fields of an envelope.
LEMMA EnvelopeFields ==
  ASSUME NEW a, NEW dict, NEW entries, NEW compression, NEW profile, NEW stored,
         NEW b, b = Envelope(a, dict, entries, compression, profile, stored)
  PROVE  /\ b.header.kind = a.kind /\ b.header.compression = compression
         /\ b.header.stored_size = stored.size
         /\ b.manifest.entries = entries /\ b.stored = stored /\ b.trailing = 0
         /\ b.manifest.name = a.name /\ b.manifest.path = a.path
<1>1. PICK m : m = Manifest(a, dict, entries)
  OBVIOUS
<1>2. PICK flags, size, original, content :
        flags = metadata_flags(m) /\ size = ManifestSize(m)
        /\ original = Len(DecodedBytes(stored, compression)) /\ content = content_digest(a.kind, entries)
  OBVIOUS
<1>3. PICK h : h = [defect |-> Passed, kind |-> a.kind, compression |-> compression, profile |-> profile,
                    flags |-> flags, entry_count |-> Len(entries), manifest_size |-> size,
                    original_size |-> original, stored_size |-> stored.size,
                    content_digest |-> content, envelope_digest |-> NoDigest]
  OBVIOUS
<1>4. PICK e : e = [header |-> h, manifest |-> m, stored |-> stored, trailing |-> 0]
  OBVIOUS
<1>5. b = Sealed(e)
  BY <1>1, <1>2, <1>3, <1>4, Zenon DEF Envelope
<1>6. PICK d : d = envelope_digest(e.header, e.manifest, Taken(e.stored, e.trailing, e.header.stored_size))
  OBVIOUS
<1>7. b = [e EXCEPT !.header.envelope_digest = d]
  BY <1>5, <1>6 DEF Sealed
<1>8. b.header = [h EXCEPT !.envelope_digest = d] /\ b.manifest = m /\ b.stored = stored /\ b.trailing = 0
  BY <1>4, <1>7
<1>9. b.header.kind = a.kind /\ b.header.compression = compression /\ b.header.stored_size = stored.size
  BY <1>3, <1>8
<1>10. m.entries = entries /\ m.name = a.name /\ m.path = a.path
  BY <1>1 DEF Manifest
<1> QED  BY <1>8, <1>9, <1>10

\* The decoder takes all of what a pass stored.
LEMMA TakenAll ==
  ASSUME NEW data \in Seq(Nat), NEW algorithm, NEW dict, NEW size, NEW stored,
         stored = Encoded(data, algorithm, dict, size)
  PROVE  Taken(stored, 0, stored.size) = stored
<1>1. CASE algorithm = "None"
  <2>1. stored = [form |-> "raw", data |-> data, dict |-> <<>>, size |-> Len(data)]
    BY <1>1 DEF Encoded, Raw
  <2>2. PICK nothing : nothing = [i \in 1..0 |-> OpaqueByte]
    OBVIOUS
  <2>3. nothing = <<>>
    BY <2>2
  <2>4. data \o nothing = data
    BY <2>3
  <2>5. SubSeq(data, 1, Len(data)) = data
    OBVIOUS
  <2>6. Taken(stored, 0, stored.size) = Raw(SubSeq(data \o nothing, 1, Len(data)))
    BY <2>1, <2>2, <2>4 DEF Taken
  <2> QED  BY <2>1, <2>4, <2>5, <2>6 DEF Raw
<1>2. CASE algorithm # "None"
  BY <1>2 DEF Encoded, Frame, Taken
<1> QED  BY <1>1, <1>2


-----------------------------------------------------------------------------
(* The snapshot.                                                           *)

\* A manifest entry with the path, kind, mode and digest of an entry.
Describes(e, t) ==
  /\ e.path = t.path
  /\ e.kind = "File" <=> t.kind = "File"
  /\ t.kind = "File" => e.digest = file_digest(t.bytes) /\ e.executable = t.executable
  /\ t.kind # "File" => e.kind = "Directory" /\ e.executable = FALSE

\* The manifest describes every sorted entry.
LEMMA CanonicalFields ==
  ASSUME NEW a, NEW s, s = Sorted(a), Len(s) \in Nat, NEW entries, entries = CanonicalEntries(a)
  PROVE  /\ Len(entries) = Len(s)
         /\ \A i \in 1..Len(s) : Describes(entries[i], s[i])
<1>1. entries = [i \in 1..Len(s) |-> CanonicalEntry(s, i)]
  BY Zenon DEF CanonicalEntries
<1>2. Len(entries) = Len(s) /\ \A i \in 1..Len(s) : entries[i] = CanonicalEntry(s, i)
  BY <1>1
<1>3. ASSUME NEW i \in 1..Len(s)
      PROVE  Describes(entries[i], s[i])
  <2>0. PICK e, t : e = entries[i] /\ t = s[i]
    OBVIOUS
  <2>1. CASE t.kind = "File"
    <3>1. PICK before, size : before = SizeBefore(s, i) /\ size = Len(s[i].bytes)
      OBVIOUS
    <3>2. PICK digest : digest = file_digest(t.bytes)
      OBVIOUS
    <3>3. e = [kind |-> "File", path |-> t.path, offset |-> before,
               size |-> size, digest |-> digest, executable |-> t.executable]
      BY <1>2, <2>0, <2>1, <3>1, <3>2, Zenon DEF CanonicalEntry
    <3>4. e.path = t.path /\ e.kind = "File" /\ e.digest = digest /\ e.executable = t.executable
      BY <3>3
    <3> QED  BY <2>0, <2>1, <3>2, <3>4, Zenon DEF Describes
  <2>2. CASE t.kind # "File"
    <3>0. PICK no : no = FALSE
      OBVIOUS
    <3>1. e = [kind |-> "Directory", path |-> t.path, offset |-> 0, size |-> 0,
               digest |-> NoDigest, executable |-> no]
      BY <1>2, <2>0, <2>2, <3>0, Zenon DEF CanonicalEntry
    <3>2. e.path = t.path /\ e.kind = "Directory" /\ e.executable = no
      BY <3>1
    <3>3. e.kind # "File"
      BY <3>2
    <3> QED  BY <2>0, <2>2, <3>0, <3>2, <3>3, Zenon DEF Describes
  <2> QED  BY <2>1, <2>2
<1> QED  BY <1>2, <1>3

\* A staged envelope that is verified decodes to the entries of the scan: the
\* digest of every file is compared with what the payload holds for it.
LEMMA VerifiedEntries ==
  ASSUME NEW a, NEW s, s = Sorted(a), Len(s) \in Nat, enc.spooled \in Seq(Nat),
         enc.binary = Envelope(a, enc.dict, CanonicalEntries(a), enc.compression, enc.opts.profile,
                               Encoded(enc.spooled, enc.compression, enc.dict, enc.ordinary)),
         StreamDecodeError(enc.binary, enc.opts.limits) = Passed
  PROVE  FilesOf(decode_artifact(enc.binary)) =
           {<<s[i].path, s[i].bytes>> : i \in {j \in 1..Len(s) : s[j].kind = "File"}}
<1>1. PICK b, data, dict, compression, profile, size, limits :
        /\ b = enc.binary /\ data = enc.spooled /\ dict = enc.dict /\ compression = enc.compression
        /\ profile = enc.opts.profile /\ size = enc.ordinary /\ limits = enc.opts.limits
  OBVIOUS
<1>2. PICK stored : stored = Encoded(data, compression, dict, size)
  OBVIOUS
<1>3. /\ data \in Seq(Nat)
      /\ b = Envelope(a, dict, CanonicalEntries(a), compression, profile, stored)
      /\ StreamDecodeError(b, limits) = Passed
  BY <1>1, <1>2, Zenon
<1>4. PICK entries : entries = CanonicalEntries(a)
  OBVIOUS
<1>5. PICK h, m : h = b.header /\ m = b.manifest
  OBVIOUS
<1>6. /\ h.compression = compression /\ h.stored_size = stored.size
      /\ m.entries = entries /\ b.stored = stored /\ b.trailing = 0
  BY <1>3, <1>4, <1>5, EnvelopeFields
<1>7. BodyError(h, m, b.stored, b.trailing, limits) = Passed
  BY <1>3, <1>5, Zenon DEF StreamDecodeError
<1>8. PICK payload : payload = DecodedBytes(stored, compression)
  OBVIOUS
<1>9. Taken(b.stored, b.trailing, h.stored_size) = stored
  BY <1>2, <1>3, <1>6, TakenAll
<1>10. \A i \in 1..Len(entries) :
        entries[i].kind = "File" => entries[i].digest = file_digest(Slice(payload, entries[i]))
  BY <1>6, <1>7, <1>8, <1>9, BodyPasses
<1>11. /\ Len(entries) = Len(s)
       /\ \A i \in 1..Len(s) : Describes(entries[i], s[i])
  BY <1>4, CanonicalFields
<1>12. \A i \in 1..Len(s) : s[i].kind = "File" => Slice(payload, entries[i]) = s[i].bytes
  BY <1>10, <1>11 DEF file_digest, Describes
<1>13. PICK d : d = decode_artifact(b).entries
  OBVIOUS
<1>14. d = [i \in 1..Len(m.entries) |->
              [kind |-> m.entries[i].kind, path |-> m.entries[i].path,
               bytes |-> IF m.entries[i].kind = "File" THEN Slice(payload, m.entries[i]) ELSE <<>>,
               executable |-> m.entries[i].executable]]
  <2>1. decode_artifact(b) = reconstruct(h.kind, m, payload)
    BY <1>5, <1>6, <1>8, Zenon DEF decode_artifact
  <2>2. PICK e : e = [i \in 1..Len(m.entries) |->
              [kind |-> m.entries[i].kind, path |-> m.entries[i].path,
               bytes |-> IF m.entries[i].kind = "File" THEN Slice(payload, m.entries[i]) ELSE <<>>,
               executable |-> m.entries[i].executable]]
    OBVIOUS
  <2>3. reconstruct(h.kind, m, payload) = [kind |-> h.kind, name |-> m.name, path |-> m.path, entries |-> e]
    BY <2>2, Zenon DEF reconstruct
  <2>4. reconstruct(h.kind, m, payload).entries = e
    BY <2>3
  <2> QED  BY <1>13, <2>1, <2>2, <2>4, Zenon
<1>15. \A i \in 1..Len(s) :
         d[i] = [kind |-> entries[i].kind, path |-> entries[i].path,
                 bytes |-> IF entries[i].kind = "File" THEN Slice(payload, entries[i]) ELSE <<>>,
                 executable |-> entries[i].executable]
  BY <1>6, <1>11, <1>14, Zenon
<1>16. Len(d) = Len(s)
  BY <1>6, <1>11, <1>14
<1>17. \A i \in 1..Len(s) : /\ d[i].kind = "File" <=> s[i].kind = "File"
                            /\ d[i].path = s[i].path
                            /\ s[i].kind = "File" => d[i].bytes = s[i].bytes
  <2> SUFFICES ASSUME NEW i \in 1..Len(s)
               PROVE  /\ d[i].kind = "File" <=> s[i].kind = "File"
                      /\ d[i].path = s[i].path
                      /\ s[i].kind = "File" => d[i].bytes = s[i].bytes
    OBVIOUS
  <2>1. PICK bytes : bytes = IF entries[i].kind = "File" THEN Slice(payload, entries[i]) ELSE <<>>
    OBVIOUS
  <2>2. d[i] = [kind |-> entries[i].kind, path |-> entries[i].path, bytes |-> bytes,
                executable |-> entries[i].executable]
    BY <1>15, <2>1, Zenon
  <2>3. d[i].kind = entries[i].kind /\ d[i].path = entries[i].path /\ d[i].bytes = bytes
    BY <2>2
  <2> QED  BY <1>11, <1>12, <2>1, <2>3, Zenon DEF Describes
<1>18. FilesOf(decode_artifact(b)) =
         {<<d[i].path, d[i].bytes>> : i \in {j \in 1..Len(d) : d[j].kind = "File"}}
  BY <1>13 DEF FilesOf
<1>19. {j \in 1..Len(d) : d[j].kind = "File"} = {j \in 1..Len(s) : s[j].kind = "File"}
  BY <1>16, <1>17
<1> QED  BY <1>1, <1>17, <1>18, <1>19

\* After the passes the files of the scan are those of one instant.
LEMMA ScannedFilesAtInstant ==
  ASSUME EncoderTypes, StreamInv, Streaming, enc.pc # "spool", NEW s, s = Sorted(ScannedArtifact)
  PROVE  /\ Len(s) \in Nat
         /\ {<<s[i].path, s[i].bytes>> : i \in {j \in 1..Len(s) : s[j].kind = "File"}} = FilesAt(atScan)
<1>1. PICK e : e = ScannedArtifact.entries
  OBVIOUS
<1>2. /\ Len(e) \in Nat
      /\ \A i \in 1..Len(e) : e[i].kind = "File" =>
           \E k \in 1..Len(enc.scanned) :
             e[i].path = enc.scanned[k].path /\ e[i].bytes = enc.scanned[k].bytes
      /\ \A k \in 1..Len(enc.scanned) : \E i \in 1..Len(e) :
           /\ e[i].kind = "File"
           /\ e[i].path = enc.scanned[k].path /\ e[i].bytes = enc.scanned[k].bytes
  BY <1>1, ScannedEntries
<1>3. /\ Len(s) = Len(e)
      /\ \A k \in 1..Len(e) : \E i \in 1..Len(e) : s[k] = e[i]
      /\ \A i \in 1..Len(e) : \E k \in 1..Len(e) : s[k] = e[i]
  <2>1. \A i \in 1..Len(e) : e[i].path \in Seq(Nat)
    BY <1>1, ScannedEntries
  <2>2. PICK a : a = ScannedArtifact
    OBVIOUS
  <2>3. a.entries = e /\ s = Sorted(a)
    BY <1>1, <2>2
  <2>4. Len(a.entries) \in Nat /\ \A i \in 1..Len(a.entries) : a.entries[i].path \in Seq(Nat)
    BY <1>2, <2>1, <2>3, Zenon
  <2>5. /\ Len(Sorted(a)) = Len(a.entries)
        /\ \A k \in 1..Len(a.entries) : \E i \in 1..Len(a.entries) : Sorted(a)[k] = a.entries[i]
        /\ \A i \in 1..Len(a.entries) : \E k \in 1..Len(a.entries) : Sorted(a)[k] = a.entries[i]
    BY <2>4, SortedEntries
  <2>6. PICK t : t = Sorted(a)
    OBVIOUS
  <2>7. PICK f : f = a.entries
    OBVIOUS
  <2>8. /\ Len(t) = Len(f)
        /\ \A k \in 1..Len(f) : \E i \in 1..Len(f) : t[k] = f[i]
        /\ \A i \in 1..Len(f) : \E k \in 1..Len(f) : t[k] = f[i]
    BY <2>5, <2>6, <2>7, Zenon
  <2>9. t = s /\ f = e
    BY <2>3, <2>6, <2>7, Zenon
  <2> QED  BY <2>8, <2>9, Zenon
<1>4. PICK n : n = FilesRead(enc.opts)
  OBVIOUS
<1>5. Covers(atScan, n) /\ \A k \in 1..Len(enc.scanned) : Confirmed(enc.scanned[k])
  BY <1>4 DEF StreamInv
<1> DEFINE path(i) == IF enc.opts.kind = "File" THEN <<>> ELSE FilePaths[i]
           whole(i) == Half(atScan[i].ver) \o Half(atScan[i].ver)
<1>6. \A k \in 1..Len(enc.scanned) :
        LET i == enc.scanned[k].index IN
        /\ i \in 1..n /\ Here(atScan, i)
        /\ enc.scanned[k].path = path(i) /\ enc.scanned[k].bytes = whole(i)
  BY <1>5 DEF Covers, Confirmed
<1>7. \A i \in 1..n : Here(atScan, i) => \E k \in 1..Len(enc.scanned) : enc.scanned[k].index = i
  BY <1>5 DEF Covers, Here
<1>8. FilesAt(atScan) = {<<path(i), whole(i)>> : i \in {j \in 1..n : Here(atScan, j)}}
  BY <1>4 DEF FilesAt, Here
<1> HIDE DEF path, whole
<1>9. ASSUME NEW i \in 1..Len(s), s[i].kind = "File"
      PROVE  \E j \in 1..n : Here(atScan, j) /\ s[i].path = path(j) /\ s[i].bytes = whole(j)
  <2>1. PICK x \in 1..Len(e) : s[i] = e[x]
    BY <1>3
  <2>2. PICK k \in 1..Len(enc.scanned) : e[x].path = enc.scanned[k].path /\ e[x].bytes = enc.scanned[k].bytes
    BY <1>2, <1>9, <2>1
  <2> QED  BY <1>6, <2>1, <2>2
<1>10. ASSUME NEW j \in 1..n, Here(atScan, j)
       PROVE  \E i \in 1..Len(s) : s[i].kind = "File" /\ s[i].path = path(j) /\ s[i].bytes = whole(j)
  <2>1. PICK k \in 1..Len(enc.scanned) : enc.scanned[k].index = j
    BY <1>7, <1>10
  <2>2. enc.scanned[k].path = path(j) /\ enc.scanned[k].bytes = whole(j)
    BY <1>6, <2>1
  <2>3. PICK x \in 1..Len(e) : /\ e[x].kind = "File"
                               /\ e[x].path = enc.scanned[k].path /\ e[x].bytes = enc.scanned[k].bytes
    BY <1>2
  <2>4. PICK i \in 1..Len(e) : s[i] = e[x]
    BY <1>3
  <2>5. s[i].kind = "File" /\ s[i].path = path(j) /\ s[i].bytes = whole(j)
    BY <2>2, <2>3, <2>4, Zenon
  <2>6. i \in 1..Len(s)
    BY <1>3, Zenon
  <2> QED  BY <2>5, <2>6, Zenon
<1> DEFINE X == {<<s[i].path, s[i].bytes>> : i \in {j \in 1..Len(s) : s[j].kind = "File"}}
           Y == {<<path(i), whole(i)>> : i \in {j \in 1..n : Here(atScan, j)}}
<1>11. X \subseteq Y
  <2> SUFFICES ASSUME NEW i \in 1..Len(s), s[i].kind = "File" PROVE <<s[i].path, s[i].bytes>> \in Y
    OBVIOUS
  <2>1. PICK j \in 1..n : Here(atScan, j) /\ s[i].path = path(j) /\ s[i].bytes = whole(j)
    BY <1>9
  <2> QED  BY <2>1
<1>12. Y \subseteq X
  <2> SUFFICES ASSUME NEW j \in 1..n, Here(atScan, j) PROVE <<path(j), whole(j)>> \in X
    OBVIOUS
  <2>1. PICK i \in 1..Len(s) : s[i].kind = "File" /\ s[i].path = path(j) /\ s[i].bytes = whole(j)
    BY <1>10
  <2> QED  BY <2>1
<1>13. X = Y
  BY <1>11, <1>12, Zenon
<1>14. Len(s) \in Nat
  BY <1>2, <1>3, Zenon
<1> QED  BY <1>8, <1>13, <1>14, Zenon

\* What the self-verification lets through holds the tree of one instant.
LEMMA VerifiedSnapshot ==
  ASSUME EncoderInv, enc.pc = "verify", StreamDecodeError(enc.binary, enc.opts.limits) = Passed
  PROVE  FilesOf(decode_artifact(enc.binary)) = FilesAt(atScan)
<1>1. PICK a : a = ScannedArtifact
  OBVIOUS
<1>2. PICK s : s = Sorted(a)
  OBVIOUS
<1>3. enc.binary = Envelope(a, enc.dict, CanonicalEntries(a), enc.compression, enc.opts.profile,
                            Encoded(enc.spooled, enc.compression, enc.dict, enc.ordinary))
  BY <1>1 DEF EncoderInv, StreamInv
<1>4. enc.spooled \in Seq(Nat)
  BY DEF EncoderInv, EncoderTypes
<1>5. /\ Len(s) \in Nat
      /\ {<<s[i].path, s[i].bytes>> : i \in {j \in 1..Len(s) : s[j].kind = "File"}} = FilesAt(atScan)
  BY <1>1, <1>2, ScannedFilesAtInstant DEF EncoderInv, Streaming
<1>6. FilesOf(decode_artifact(enc.binary)) =
        {<<s[i].path, s[i].bytes>> : i \in {j \in 1..Len(s) : s[j].kind = "File"}}
  <2>1. Len(s) \in Nat
    BY <1>5
  <2> QED  BY <1>2, <1>3, <1>4, <2>1, VerifiedEntries, SMT
<1> QED  BY <1>5, <1>6, Zenon


\* A command that is not about to commit, or works in memory, has no snapshot to show.
LEMMA NoSnapshot ==
  ASSUME enc'.pc \notin {"persist", "done"} \/ enc'.mode # "stream"
  PROVE  SnapshotConsistent'
BY DEF SnapshotConsistent

\* The remembered tree is the same for the same command line.
LEMMA FilesAtSame ==
  ASSUME enc'.opts = enc.opts, atScan' = atScan
  PROVE  FilesAt(atScan)' = FilesAt(atScan)
<1>1. PICK o, tree : o = enc.opts /\ tree = atScan
  OBVIOUS
<1>2. FilesAt(atScan) =
        {<<IF o.kind = "File" THEN <<>> ELSE FilePaths[i], Half(tree[i].ver) \o Half(tree[i].ver)>> :
           i \in {j \in 1..FilesRead(o) : tree[j] \notin {Absent, Link}}}
  BY <1>1, Zenon DEF FilesAt
<1>3. o = enc'.opts /\ tree = atScan'
  BY <1>1
<1>4. FilesAt(atScan)' =
        {<<IF o.kind = "File" THEN <<>> ELSE FilePaths[i], Half(tree[i].ver) \o Half(tree[i].ver)>> :
           i \in {j \in 1..FilesRead(o) : tree[j] \notin {Absent, Link}}}
  BY <1>3, Zenon DEF FilesAt
<1> QED  BY <1>2, <1>4, Zenon

\* The artifact, the command line and the remembered tree stay.
LEMMA SnapshotKept ==
  ASSUME SnapshotConsistent, enc.mode = "stream" => enc.pc \in {"persist", "done"},
         enc'.mode = enc.mode, enc'.binary = enc.binary, enc'.opts = enc.opts, atScan' = atScan
  PROVE  SnapshotConsistent'
<1>1. FilesAt(atScan)' = FilesAt(atScan)
  BY FilesAtSame
<1>2. decode_artifact(enc.binary)' = decode_artifact(enc.binary)
  BY DEF decode_artifact
<1>3. FilesOf(decode_artifact(enc.binary))' = FilesOf(decode_artifact(enc.binary))
  BY <1>2
<1> QED  BY <1>1, <1>3 DEF SnapshotConsistent

\* The snapshot is verified before the commit and stays what it is.
LEMMA SnapshotStep ==
  ASSUME EncoderInv, SnapshotConsistent, [Next]_vars
  PROVE  SnapshotConsistent'
<1>1. EncoderShape /\ EncoderTypes
  BY DEF EncoderInv
<1>2. ASSUME UNCHANGED <<enc, atScan>> PROVE SnapshotConsistent'
  <2>1. FilesAt(atScan)' = FilesAt(atScan)
    BY <1>2, FilesAtSame
  <2> QED  BY <1>2, <2>1 DEF SnapshotConsistent
<1>3. CASE \E e : EncodeFail(e)
  <2>1. enc'.pc = "failed"
    BY <1>1, <1>3 DEF EncodeFail, EncoderShape
  <2> QED  BY <2>1, NoSnapshot
<1>4. CASE Verify /\ ~\E e : EncodeFail(e)
  <2>1. /\ enc.pc = "verify" /\ StreamDecodeError(enc.binary, enc.opts.limits) = Passed
        /\ enc' = [enc EXCEPT !.pc = "persist"] /\ UNCHANGED atScan
    BY <1>4, Zenon DEF Verify
  <2>2. FilesOf(decode_artifact(enc.binary)) = FilesAt(atScan)
    BY <2>1, VerifiedSnapshot
  <2>3. enc'.binary = enc.binary /\ enc'.opts = enc.opts
    BY <1>1, <2>1 DEF EncoderShape
  <2>4. FilesAt(atScan)' = FilesAt(atScan)
    BY <2>1, <2>3, FilesAtSame
  <2> QED  BY <2>2, <2>3, <2>4 DEF SnapshotConsistent
<1>5. CASE Persist /\ ~\E e : EncodeFail(e)
  <2>1. enc.pc = "persist" /\ enc' = [enc EXCEPT !.pc = "done", !.res = Passed] /\ UNCHANGED atScan
    BY <1>5, Zenon DEF Persist
  <2>2. enc'.mode = enc.mode /\ enc'.binary = enc.binary /\ enc'.opts = enc.opts
    BY <1>1, <2>1 DEF EncoderShape
  <2> QED  BY <2>1, <2>2, SnapshotKept
<1>6. CASE /\ enc.pc \in {"encode", "create", "fill"}
           /\ enc'.mode = enc.mode
  BY <1>1, <1>6, NoSnapshot DEF EncoderTypes
<1>7. CASE enc'.pc \notin {"persist", "done"}
  BY <1>7, NoSnapshot
<1>8. CASE Encode
  <2>1. CASE Verify \/ Persist
    BY <1>3, <1>4, <1>5, <2>1
  <2>2. CASE \E o \in Options, hint \in Suggestions : EncodeStart(o, hint)
    <3>1. PICK o \in Options, hint \in Suggestions : EncodeStart(o, hint)
      BY <2>2
    <3>2. PICK mode : mode = IF o.format = "binary" /\ ~o.stdin THEN "stream" ELSE "memory"
      OBVIOUS
    <3>3. \/ \E e : EncodeFail(e)
          \/ enc' = [enc EXCEPT !.pc = "scan", !.opts = o, !.hint = hint, !.mode = mode]
      BY <3>1, <3>2, Zenon DEF EncodeStart
    <3>4. CASE enc' = [enc EXCEPT !.pc = "scan", !.opts = o, !.hint = hint, !.mode = mode]
      BY <1>1, <1>7, <3>4 DEF EncoderShape
    <3> QED  BY <1>3, <3>3, <3>4
  <2>3. CASE ScanOpen \/ ScanClose
    <3>1. enc.pc = "scan"
      BY <2>3 DEF ScanOpen, ScanClose
    <3>2. \/ \E e : EncodeFail(e)
          \/ \E i : enc' = [enc EXCEPT !.idx = i]
          \/ \E half, ex : enc' = [enc EXCEPT !.half = half, !.exec = ex]
          \/ \E i, scanned : enc' = [enc EXCEPT !.idx = i, !.half = 0, !.scanned = scanned]
      BY <2>3, Zenon DEF ScanOpen, ScanClose
    <3>3. ASSUME NEW i, enc' = [enc EXCEPT !.idx = i] PROVE enc'.pc = "scan"
      BY <1>1, <3>1, <3>3 DEF EncoderShape
    <3>4. ASSUME NEW half, NEW ex, enc' = [enc EXCEPT !.half = half, !.exec = ex] PROVE enc'.pc = "scan"
      BY <1>1, <3>1, <3>4 DEF EncoderShape
    <3>5. ASSUME NEW i, NEW scanned, enc' = [enc EXCEPT !.idx = i, !.half = 0, !.scanned = scanned]
          PROVE  enc'.pc = "scan"
      BY <1>1, <3>1, <3>5 DEF EncoderShape
    <3>6. (\E e : EncodeFail(e)) \/ enc'.pc = "scan"
      BY <3>2, <3>3, <3>4, <3>5, Zenon
    <3> QED  BY <1>3, <1>7, <3>6
  <2>4. CASE EndScan
    <3>1. PICK pass : pass = IF enc.opts.compression = "None" THEN "verbatim" ELSE "zstd"
      OBVIOUS
    <3>2. \/ \E e : EncodeFail(e)
          \/ enc' = [enc EXCEPT !.pc = "encode"]
          \/ enc' = [enc EXCEPT !.pc = "spool", !.idx = 1, !.pass = pass]
      BY <2>4, <3>1, Zenon DEF EndScan
    <3>3. CASE enc' = [enc EXCEPT !.pc = "encode"]
      BY <1>1, <1>7, <3>3 DEF EncoderShape
    <3>4. CASE enc' = [enc EXCEPT !.pc = "spool", !.idx = 1, !.pass = pass]
      BY <1>1, <1>7, <3>4 DEF EncoderShape
    <3> QED  BY <1>3, <3>2, <3>3, <3>4
  <2>5. CASE SpoolOpen \/ SpoolClose
    <3>1. enc.pc = "spool"
      BY <2>5 DEF SpoolOpen, SpoolClose
    <3>2. \/ \E e : EncodeFail(e)
          \/ \E half : enc' = [enc EXCEPT !.half = half]
          \/ \E i, spooled : enc' = [enc EXCEPT !.half = 0, !.idx = i, !.spooled = spooled]
      BY <2>5, Zenon DEF SpoolOpen, SpoolClose
    <3>3. ASSUME NEW half, enc' = [enc EXCEPT !.half = half] PROVE enc'.pc = "spool"
      BY <1>1, <3>1, <3>3 DEF EncoderShape
    <3>4. ASSUME NEW i, NEW spooled, enc' = [enc EXCEPT !.half = 0, !.idx = i, !.spooled = spooled]
          PROVE  enc'.pc = "spool"
      BY <1>1, <3>1, <3>4 DEF EncoderShape
    <3>5. (\E e : EncodeFail(e)) \/ enc'.pc = "spool"
      BY <3>2, <3>3, <3>4, Zenon
    <3> QED  BY <1>3, <1>7, <3>5
  <2>6. CASE (\E size \in ZstdSizes : EndPass(size)) \/ (\E dict \in {<<>>, Dictionary} : Train(dict))
    <3>1. ASSUME PassEnds(enc') PROVE SnapshotConsistent'
      BY <1>7, <3>1 DEF PassEnds
    <3>2. ASSUME NEW size, EndPass(size) PROVE SnapshotConsistent'
      <4>1. \/ \E e : EncodeFail(e)
            \/ enc' = [enc EXCEPT !.pc = "stage", !.compression = "None"]
            \/ enc' = [enc EXCEPT !.pc = "train", !.ordinary = size]
            \/ \E dict, s : enc' = Choose(enc, dict, s)
        BY <3>2, Zenon DEF EndPass
      <4>2. CASE enc' = [enc EXCEPT !.pc = "stage", !.compression = "None"]
        BY <1>1, <1>7, <4>2 DEF EncoderShape
      <4>3. CASE enc' = [enc EXCEPT !.pc = "train", !.ordinary = size]
        BY <1>1, <1>7, <4>3 DEF EncoderShape
      <4>4. CASE \E dict, s : enc' = Choose(enc, dict, s)
        BY <1>1, <3>1, <4>4, ChooseEnds
      <4> QED  BY <1>3, <4>1, <4>2, <4>3, <4>4
    <3>3. ASSUME NEW dict, Train(dict) PROVE SnapshotConsistent'
      <4>1. \/ \E e : EncodeFail(e)
            \/ enc' = Choose(enc, <<>>, enc.ordinary)
            \/ enc' = AgainAs([enc EXCEPT !.dict = dict], "dict")
        BY <3>3, Zenon DEF Train
      <4> QED  BY <1>1, <1>3, <3>1, <4>1, ChooseEnds, AgainEnds
    <3> QED  BY <2>6, <3>2, <3>3
  <2>7. CASE Stage
    <3>1. (\E e : EncodeFail(e)) \/ (\E b : enc' = [enc EXCEPT !.pc = "verify", !.binary = b])
      BY <2>7, Zenon DEF Stage
    <3>2. ASSUME NEW b, enc' = [enc EXCEPT !.pc = "verify", !.binary = b] PROVE SnapshotConsistent'
      BY <1>1, <1>7, <3>2 DEF EncoderShape
    <3> QED  BY <1>3, <3>1, <3>2
  <2>8. CASE \E dict \in {<<>>, Dictionary}, s, t \in ZstdSizes : EncodeInMemory(dict, s, t)
    <3>1. enc.pc = "encode"
      BY <2>8 DEF EncodeInMemory
    <3>2. PICK pc : pc = IF enc.opts.output THEN "create" ELSE "done"
      OBVIOUS
    <3>3. (\E e : EncodeFail(e)) \/ (\E b : enc' = [enc EXCEPT !.pc = pc, !.binary = b, !.res = Passed])
      BY <2>8, <3>2, Zenon DEF EncodeInMemory
    <3>4. ASSUME NEW b, enc' = [enc EXCEPT !.pc = pc, !.binary = b, !.res = Passed] PROVE enc'.mode = enc.mode
      BY <1>1, <3>4 DEF EncoderShape
    <3> QED  BY <1>3, <1>6, <3>1, <3>3, <3>4
  <2>9. CASE CreateOutput \/ FillOutput
    <3>1. enc.pc \in {"create", "fill"}
      BY <2>9 DEF CreateOutput, FillOutput
    <3>2. (\E e : EncodeFail(e)) \/ (\E pc : enc' = [enc EXCEPT !.pc = pc])
      BY <2>9, Zenon DEF CreateOutput, FillOutput
    <3>3. ASSUME NEW pc, enc' = [enc EXCEPT !.pc = pc] PROVE enc'.mode = enc.mode
      BY <1>1, <3>3 DEF EncoderShape
    <3> QED  BY <1>3, <1>6, <3>1, <3>2, <3>3
  <2> QED  BY <1>8, <2>1, <2>2, <2>3, <2>4, <2>5, <2>6, <2>7, <2>8, <2>9, Zenon DEF Encode
<1>9. CASE Decode
  BY <1>2, <1>9, DecodeLeavesEncoder
<1>10. CASE Others
  <2>1. CASE enc' = [enc EXCEPT !.pc = "crashed"]
    BY <1>1, <1>7, <2>1 DEF EncoderShape
  <2>2. CASE enc' = [enc EXCEPT !.pc = "failed", !.res = "Io"]
    BY <1>1, <1>7, <2>2 DEF EncoderShape
  <2>3. \/ enc' = [enc EXCEPT !.pc = "crashed"]
        \/ enc' = [enc EXCEPT !.pc = "failed", !.res = "Io"] \/ UNCHANGED <<enc, atScan>>
    BY <1>10 DEF Others, WriteSource, SwapArtifact, CreateForeign, CreateForeignOutput, FillFails, Crash
  <2> QED  BY <1>2, <2>1, <2>2, <2>3
<1>11. CASE UNCHANGED vars
  BY <1>2, <1>11 DEF vars
<1> QED  BY <1>8, <1>9, <1>10, <1>11 DEF Next

\* A streamed artifact holds the source files as they all were at the end of the
\* scan: every file is hashed before that instant and read again after it, so a
\* rewrite at any other time ends the command, and the self-verification compares
\* what was spooled with what was hashed (hash_source_file, finish_current,
\* decode_artifact_file).
THEOREM StreamedSnapshot == Spec => []SnapshotConsistent
<1>1. Init => SnapshotConsistent
  BY DEF Init, NoEncoder, SnapshotConsistent
<1>2. EncoderInv /\ SnapshotConsistent /\ [Next]_vars => SnapshotConsistent'
  BY SnapshotStep
<1> QED  BY <1>1, <1>2, ArtifactInvariants, PTL DEF Spec


-----------------------------------------------------------------------------
(* Lists of checks.                                                        *)

\* A check that fails has an error to report, and a list of such checks.
Fair(c) == c[1] => c[2] # Passed
FairList(l) == (\E T : l \in Seq(T)) /\ \A i \in 1..Len(l) : Fair(l[i])

\* A check with a fixed error.
LEMMA FairCheck ==
  ASSUME NEW a, NEW e, e # Passed
  PROVE  Fair(<<a, e>>)
BY DEF Fair

\* A list of such checks passes when none of them fails.
LEMMA NoneFailing ==
  ASSUME NEW l, FairList(l)
  PROVE  FirstError(l) = Passed <=> \A i \in 1..Len(l) : ~l[i][1]
<1>1. Len(l) \in Nat
  BY DEF FairList
<1>2. CASE Failing(l) = {}
  <2>1. \A i \in 1..Len(l) : ~l[i][1]
    BY <1>2 DEF Failing
  <2> QED  BY <1>2, <2>1 DEF FirstError
<1>3. CASE Failing(l) # {}
  <2>1. PICK i \in Failing(l) : FirstError(l) = l[i][2]
    BY <1>1, <1>3, SomeFails
  <2>2. i \in 1..Len(l) /\ l[i][1]
    BY <2>1 DEF Failing
  <2>3. l[i][2] # Passed
    BY <2>2 DEF FairList, Fair
  <2> QED  BY <2>1, <2>2, <2>3
<1> QED  BY <1>2, <1>3

\* Two lists of checks, one after the other, pass when both pass.
LEMMA BothPass ==
  ASSUME NEW l, NEW m, FairList(l), FairList(m)
  PROVE  /\ FairList(l \o m)
         /\ FirstError(l \o m) = Passed <=> FirstError(l) = Passed /\ FirstError(m) = Passed
<1>1. PICK S : l \in Seq(S)
  BY DEF FairList
<1>2. PICK U : m \in Seq(U)
  BY DEF FairList
<1>3. PICK T : T = S \cup U
  OBVIOUS
<1>4. l \in Seq(T) /\ m \in Seq(T)
  BY <1>1, <1>2, <1>3
<1>5. PICK p \in Nat, q \in Nat : p = Len(l) /\ q = Len(m)
  BY <1>4
<1>6. PICK n : n = l \o m
  OBVIOUS
<1>7. n \in Seq(T) /\ Len(n) = p + q
  BY <1>4, <1>5, <1>6
<1>8. \A i \in 1..p : n[i] = l[i]
  BY <1>4, <1>5, <1>6
<1>9. \A i \in 1..q : n[p + i] = m[i]
  BY <1>4, <1>5, <1>6
<1>10. \A i \in 1..(p + q) : i \in 1..p \/ (i - p \in 1..q /\ i = p + (i - p))
  BY <1>5
<1>11. FairList(n)
  <2>1. ASSUME NEW i \in 1..(p + q)  PROVE Fair(n[i])
    <3>1. CASE i \in 1..p
      BY <1>5, <1>8, <3>1 DEF FairList
    <3>2. CASE i - p \in 1..q /\ i = p + (i - p)
      <4>1. n[i] = m[i - p]
        BY <1>9, <3>2
      <4> QED  BY <1>5, <3>2, <4>1 DEF FairList
    <3> QED  BY <1>10, <3>1, <3>2
  <2> QED  BY <1>7, <2>1 DEF FairList
<1>12. (\A i \in 1..(p + q) : ~n[i][1]) <=> (\A i \in 1..p : ~l[i][1]) /\ (\A i \in 1..q : ~m[i][1])
  <2>1. ASSUME \A i \in 1..(p + q) : ~n[i][1]
        PROVE  (\A i \in 1..p : ~l[i][1]) /\ (\A i \in 1..q : ~m[i][1])
    <3>1. \A i \in 1..q : p + i \in 1..(p + q)
      BY <1>5
    <3>2. \A i \in 1..p : i \in 1..(p + q)
      BY <1>5
    <3> QED  BY <1>8, <1>9, <2>1, <3>1, <3>2
  <2>2. ASSUME \A i \in 1..p : ~l[i][1], \A i \in 1..q : ~m[i][1], NEW i \in 1..(p + q)
        PROVE  ~n[i][1]
    <3>1. CASE i \in 1..p
      BY <1>8, <2>2, <3>1
    <3>2. CASE i - p \in 1..q /\ i = p + (i - p)
      <4>1. n[i] = m[i - p]
        BY <1>9, <3>2
      <4> QED  BY <2>2, <3>2, <4>1
    <3> QED  BY <1>10, <3>1, <3>2
  <2> QED  BY <2>1, <2>2
<1>13. /\ FirstError(n) = Passed <=> \A i \in 1..(p + q) : ~n[i][1]
       /\ FirstError(l) = Passed <=> \A i \in 1..p : ~l[i][1]
       /\ FirstError(m) = Passed <=> \A i \in 1..q : ~m[i][1]
  BY <1>5, <1>7, <1>11, NoneFailing
<1> QED  BY <1>6, <1>11, <1>12, <1>13

\* Lists that are written out.
LEMMA OneFair ==
  ASSUME NEW c, Fair(c)
  PROVE  FairList(<<c>>)
<1>1. PICK l : l = <<c>>
  OBVIOUS
<1>2. l \in Seq({c}) /\ Len(l) = 1 /\ l[1] = c
  BY <1>1
<1>3. \A i \in 1..1 : i = 1
  OBVIOUS
<1> QED  BY <1>1, <1>2, <1>3 DEF FairList

\* The same for two checks.
LEMMA TwoFair ==
  ASSUME NEW c, NEW d, Fair(c), Fair(d)
  PROVE  FairList(<<c, d>>)
<1>1. PICK l : l = <<c, d>>
  OBVIOUS
<1>2. l \in Seq({c, d}) /\ Len(l) = 2 /\ l[1] = c /\ l[2] = d
  BY <1>1
<1>3. \A i \in 1..2 : i = 1 \/ i = 2
  OBVIOUS
<1> QED  BY <1>1, <1>2, <1>3 DEF FairList

\* The same for three checks.
LEMMA ThreeFair ==
  ASSUME NEW c, NEW d, NEW e,
         Fair(c), Fair(d), Fair(e)
  PROVE  FairList(<<c, d, e>>)
<1>1. PICK l : l = <<c, d, e>>
  OBVIOUS
<1>2. /\ l \in Seq({c, d, e}) /\ Len(l) = 3
      /\ l[1] = c /\ l[2] = d /\ l[3] = e
  BY <1>1
<1>3. \A n \in 1..3 : n = 1 \/ n = 2 \/ n = 3
  OBVIOUS
<1> QED  BY <1>1, <1>2, <1>3 DEF FairList

\* The same for four checks.
LEMMA FourFair ==
  ASSUME NEW c, NEW d, NEW e, NEW f,
         Fair(c), Fair(d), Fair(e), Fair(f)
  PROVE  FairList(<<c, d, e, f>>)
<1>1. PICK l : l = <<c, d, e, f>>
  OBVIOUS
<1>2. /\ l \in Seq({c, d, e, f}) /\ Len(l) = 4
      /\ l[1] = c /\ l[2] = d /\ l[3] = e /\ l[4] = f
  BY <1>1
<1>3. \A n \in 1..4 : n = 1 \/ n = 2 \/ n = 3 \/ n = 4
  OBVIOUS
<1> QED  BY <1>1, <1>2, <1>3 DEF FairList

\* The same for nine checks.
LEMMA NineFair ==
  ASSUME NEW c, NEW d, NEW e, NEW f, NEW g, NEW h, NEW i, NEW j, NEW k,
         Fair(c), Fair(d), Fair(e), Fair(f), Fair(g), Fair(h), Fair(i), Fair(j), Fair(k)
  PROVE  FairList(<<c, d, e, f, g, h, i, j, k>>)
<1>1. PICK l : l = <<c, d, e, f, g, h, i, j, k>>
  OBVIOUS
<1>2. /\ l \in Seq({c, d, e, f, g, h, i, j, k}) /\ Len(l) = 9
      /\ l[1] = c /\ l[2] = d /\ l[3] = e /\ l[4] = f /\ l[5] = g /\ l[6] = h /\ l[7] = i /\ l[8] = j /\ l[9] = k
  BY <1>1
<1>3. \A n \in 1..9 : n = 1 \/ n = 2 \/ n = 3 \/ n = 4 \/ n = 5 \/ n = 6 \/ n = 7 \/ n = 8 \/ n = 9
  OBVIOUS
<1> QED  BY <1>1, <1>2, <1>3 DEF FairList

\* The same for five checks.
LEMMA FiveFair ==
  ASSUME NEW c, NEW d, NEW e, NEW f, NEW g,
         Fair(c), Fair(d), Fair(e), Fair(f), Fair(g)
  PROVE  FairList(<<c, d, e, f, g>>)
<1>1. PICK l : l = <<c, d, e, f, g>>
  OBVIOUS
<1>2. /\ l \in Seq({c, d, e, f, g}) /\ Len(l) = 5
      /\ l[1] = c /\ l[2] = d /\ l[3] = e /\ l[4] = f /\ l[5] = g
  BY <1>1
<1>3. \A n \in 1..5 : n = 1 \/ n = 2 \/ n = 3 \/ n = 4 \/ n = 5
  OBVIOUS
<1> QED  BY <1>1, <1>2, <1>3 DEF FairList


-----------------------------------------------------------------------------
(* Lists joined.                                                           *)

\* The lists of seqs joined up to each of the first n.
JoinedUpTo(f, seqs, n) == f = [i \in 1..n |-> IF i = 1 THEN seqs[i] ELSE f[i - 1] \o seqs[i]]

\* The equation that defines them has a solution.
LEMMA JoinsExist ==
  ASSUME NEW seqs, NEW n \in Nat
  PROVE  \E f : JoinedUpTo(f, seqs, n)
<1> DEFINE S == {m \in Nat : ~\E f : JoinedUpTo(f, seqs, m)}
<1> SUFFICES ASSUME S # {}  PROVE FALSE
  OBVIOUS
<1>1. PICK m \in S : \A j \in S : m <= j
  <2>1. S \subseteq Nat
    OBVIOUS
  <2> HIDE DEF S
  <2> QED  BY <2>1, Smallest
<1>2. m \in Nat /\ ~\E f : JoinedUpTo(f, seqs, m)
  OBVIOUS
<1>3. m # 0
  <2> SUFFICES ASSUME m = 0  PROVE FALSE
    OBVIOUS
  <2> DEFINE f == [i \in 1..0 |-> seqs]
  <2>1. JoinedUpTo(f, seqs, 0)
    BY DEF JoinedUpTo
  <2> QED  BY <1>2, <2>1
<1>4. m - 1 \in Nat /\ m - 1 \notin S
  BY <1>1, <1>2, <1>3
<1>5. PICK f : JoinedUpTo(f, seqs, m - 1)
  BY <1>4
<1> DEFINE With(i, v) == v \o seqs[i]
           g == [i \in 1..m |-> IF i = m THEN (IF m = 1 THEN seqs[m] ELSE With(m, f[m - 1])) ELSE f[i]]
<1>6. \A i \in 1..(m - 1) : f[i] = IF i = 1 THEN seqs[i] ELSE With(i, f[i - 1])
  BY <1>5 DEF JoinedUpTo
<1> HIDE DEF With, S
<1>7. \A i \in 1..m : g[i] = IF i = 1 THEN seqs[i] ELSE With(i, g[i - 1])
  <2> SUFFICES ASSUME NEW i \in 1..m  PROVE g[i] = IF i = 1 THEN seqs[i] ELSE With(i, g[i - 1])
    OBVIOUS
  <2>1. CASE i = m
    <3>1. g[m] = (IF m = 1 THEN seqs[m] ELSE With(m, f[m - 1])) /\ (m # 1 => g[m - 1] = f[m - 1])
      BY <1>2, <1>3
    <3> HIDE DEF g
    <3> QED  BY <2>1, <3>1
  <2>2. CASE i # m
    <3>1. i \in 1..(m - 1) /\ g[i] = f[i]
      BY <1>2, <2>2
    <3>2. i # 1 => g[i - 1] = f[i - 1]
      BY <1>2, <3>1
    <3> HIDE DEF g
    <3> QED  BY <1>6, <3>1, <3>2
  <2> QED  BY <2>1, <2>2
<1>8. g = [i \in 1..m |-> IF i = 1 THEN seqs[i] ELSE With(i, g[i - 1])]
  BY <1>7
<1>9. JoinedUpTo(g, seqs, m)
  <2>1. PICK h : h = g
    OBVIOUS
  <2>2. h = [i \in 1..m |-> IF i = 1 THEN seqs[i] ELSE With(i, h[i - 1])]
    BY <1>8, <2>1, Zenon
  <2> HIDE DEF g
  <2>3. JoinedUpTo(h, seqs, m)
    BY <2>2, Zenon DEF JoinedUpTo, With
  <2> QED  BY <2>1, <2>3
<1> QED  BY <1>2, <1>9

\* What FlattenSeq returns is the last of them.
LEMMA FlattenIs ==
  ASSUME NEW seqs, NEW n \in Nat, Len(seqs) = n, n # 0
  PROVE  \E f : JoinedUpTo(f, seqs, n) /\ FlattenSeq(seqs) = f[n]
<1> DEFINE all == CHOOSE f : f = [i \in 1..Len(seqs) |-> IF i = 1 THEN seqs[i] ELSE f[i - 1] \o seqs[i]]
<1>1. FlattenSeq(seqs) = all[Len(seqs)]
  BY DEF FlattenSeq
<1>2. \E f : JoinedUpTo(f, seqs, Len(seqs))
  BY JoinsExist
<1>3. JoinedUpTo(all, seqs, Len(seqs))
  BY <1>2, Zenon DEF JoinedUpTo
<1> HIDE DEF all
<1> QED  BY <1>1, <1>3

\* Lists over one set joined are a list over it.
LEMMA FlattenType ==
  ASSUME NEW T, NEW seqs, NEW n \in Nat, seqs = [i \in 1..n |-> seqs[i]], Len(seqs) = n,
         \A i \in 1..n : seqs[i] \in Seq(T)
  PROVE  FlattenSeq(seqs) \in Seq(T)
<1>1. CASE n = 0
  <2>1. FlattenSeq(seqs) = seqs
    BY <1>1 DEF FlattenSeq
  <2>2. seqs = [i \in 1..0 |-> seqs[i]]
    BY <1>1
  <2>3. seqs = <<>>
    BY <2>2
  <2>4. <<>> \in Seq(T)
    OBVIOUS
  <2> QED  BY <2>1, <2>3, <2>4, Zenon
<1>2. CASE n # 0
  <2>1. PICK f : JoinedUpTo(f, seqs, n) /\ FlattenSeq(seqs) = f[n]
    BY <1>2, FlattenIs
  <2> DEFINE With(i, v) == v \o seqs[i]
  <2>2. \A i \in 1..n : f[i] = IF i = 1 THEN seqs[i] ELSE With(i, f[i - 1])
    BY <2>1 DEF JoinedUpTo
  <2>3. \A i \in 1..n, v \in Seq(T) : With(i, v) \in Seq(T)
    OBVIOUS
  <2> HIDE DEF With
  <2> DEFINE S == {i \in Nat : i \in 1..n /\ f[i] \notin Seq(T)}
  <2>4. S = {}
    <3> SUFFICES ASSUME S # {}  PROVE FALSE
      OBVIOUS
    <3>1. PICK m \in S : \A j \in S : m <= j
      <4>1. S \subseteq Nat
        OBVIOUS
      <4> HIDE DEF S
      <4> QED  BY <4>1, Smallest
    <3>2. m \in 1..n /\ f[m] \notin Seq(T)
      OBVIOUS
    <3>3. m # 1
      BY <2>2, <3>2
    <3>4. m - 1 \in 1..n /\ m - 1 \notin S
      BY <3>1, <3>2, <3>3
    <3>5. f[m - 1] \in Seq(T)
      BY <3>4
    <3> QED  BY <2>2, <2>3, <3>2, <3>3, <3>5
  <2>5. f[n] \in Seq(T)
    BY <1>2, <2>4
  <2> QED  BY <2>1, <2>5
<1> QED  BY <1>1, <1>2

\* Lists of checks joined are a list of checks.
LEMMA FlattenFair ==
  ASSUME NEW seqs, NEW n \in Nat, seqs = [i \in 1..n |-> seqs[i]], Len(seqs) = n,
         \A i \in 1..n : FairList(seqs[i])
  PROVE  FairList(FlattenSeq(seqs))
<1> DEFINE T == UNION {{seqs[i][j] : j \in 1..Len(seqs[i])} : i \in 1..n}
<1>1. \A i \in 1..n : seqs[i] \in Seq(T)
  <2> SUFFICES ASSUME NEW i \in 1..n  PROVE seqs[i] \in Seq(T)
    OBVIOUS
  <2>1. PICK U : seqs[i] \in Seq(U)
    BY DEF FairList
  <2>2. \A j \in 1..Len(seqs[i]) : seqs[i][j] \in T
    OBVIOUS
  <2> HIDE DEF T
  <2> QED  BY <2>1, <2>2
<1>2. \A c \in T : Fair(c)
  BY DEF FairList
<1> HIDE DEF T
<1>3. FlattenSeq(seqs) \in Seq(T)
  BY <1>1, FlattenType
<1>4. PICK l : l = FlattenSeq(seqs)
  OBVIOUS
<1>5. l \in Seq(T)
  BY <1>3, <1>4, Zenon
<1>6. \A i \in 1..Len(l) : l[i] \in T
  BY <1>5
<1>7. \A i \in 1..Len(l) : Fair(l[i])
  BY <1>2, <1>6, Zenon
<1> QED  BY <1>4, <1>5, <1>7, Zenon DEF FairList


-----------------------------------------------------------------------------
(* The two decoders.                                                       *)

\* The checks of the header, and the length they compare.
LEMMA HeaderFair ==
  ASSUME NEW b, NEW limits
  PROVE  /\ FairList(HeaderChecks(b, limits))
         /\ FirstError(HeaderChecks(b, limits)) = Passed =>
              BinarySize(b) = HeaderSize + b.header.manifest_size + b.header.stored_size
<1>1. PICK h : h = b.header
  OBVIOUS
<1> DEFINE c == enforce_binary_size(BinarySize(b), limits)
           d == <<h.defect # Passed, h.defect>>
           e == BinarySize(b) # HeaderSize + h.manifest_size + h.stored_size
           first == <<c, d>>
           second == enforce_header_limits(h, limits)
           third == << <<e, "EnvelopeLengthMismatch">> >>
<1>2. HeaderChecks(b, limits) = first \o second \o third
  BY <1>1, Zenon DEF HeaderChecks
<1>3. FairList(first)
  <2>1. Fair(c)
    BY DEF Fair, enforce_binary_size, Passed
  <2>2. Fair(d)
    BY DEF Fair
  <2> HIDE DEF c, d
  <2> QED  BY <2>1, <2>2, TwoFair
<1>4. FairList(second)
  <2> DEFINE p == enforce_entry_count(h.entry_count, limits)
             q == <<h.manifest_size > limits.max_manifest_bytes, "ManifestTooLarge">>
             r == <<h.stored_size > limits.max_compressed_payload_bytes, "BinaryTooLarge">>
             s == enforce_payload_size(h.original_size, limits)
  <2>1. second = <<p, q, r, s>>
    BY Zenon DEF enforce_header_limits
  <2>2. Fair(p) /\ Fair(q) /\ Fair(r) /\ Fair(s)
    BY DEF Fair, enforce_entry_count, enforce_payload_size, Passed
  <2> HIDE DEF p, q, r, s, second
  <2> QED  BY <2>1, <2>2, FourFair
<1>5. FairList(third) /\ (FirstError(third) = Passed => ~e)
  <2>1. Fair(<<e, "EnvelopeLengthMismatch">>)
    BY DEF Fair, Passed
  <2> HIDE DEF e
  <2>2. FairList(third)
    BY <2>1, OneFair
  <2>3. Len(third) = 1 /\ third[1][1] = e
    OBVIOUS
  <2> HIDE DEF third
  <2> QED  BY <2>2, <2>3, NoneFailing
<1> HIDE DEF first, second, third
<1>6. FairList(first \o second)
  BY <1>3, <1>4, BothPass
<1>7. /\ FairList((first \o second) \o third)
      /\ FirstError((first \o second) \o third) = Passed => FirstError(third) = Passed
  BY <1>5, <1>6, BothPass
<1> QED  BY <1>1, <1>2, <1>5, <1>7

\* The checks of one entry of the manifest.
LEMMA EntryFair ==
  ASSUME NEW m, NEW i, NEW kind, NEW limits
  PROVE  FairList(decode_manifest_entry(m, i, kind, limits))
<1>1. PICK e : e = m.entries[i]
  OBVIOUS
<1>2. PICK before : before = m.entries[i - 1]
  OBVIOUS
<1>3. PICK offset : offset = ExpectedOffset(m.entries, i)
  OBVIOUS
<1> DEFINE shape == EntryShapeChecks(e, kind, limits)
           content == IF e.kind = "File"
                      THEN << enforce_file_size(e.size, limits), <<e.offset # offset, "InvalidPayloadRange">> >>
                      ELSE << <<e.offset # 0 \/ e.size # 0 \/ e.digest # NoDigest, "InvalidDirectoryEntry">>,
                              <<e.executable, "ExecutableDirectory">> >>
           order == IF i = 1 THEN <<>>
                    ELSE << <<before.path = e.path /\ e.path # <<>>, "DuplicatePath">>,
                            <<PathLess(e.path, before.path), "NonCanonicalOrder">> >>
<1>4. decode_manifest_entry(m, i, kind, limits) = shape \o content \o order
  BY <1>1, <1>2, <1>3, Zenon DEF decode_manifest_entry
<1>5. FairList(shape)
  <2> DEFINE p == e.kind \notin {"File", "Directory"}
             q == e.path # <<>> /\ ~ValidPath(e.path, limits.max_path_bytes)
             r == kind = "File" /\ e.path # <<>>
             s == kind = "Directory" /\ e.path = <<>>
  <2>1. shape = << <<p, "InvalidDirectoryEntry">>, <<q, "Path">>, <<r, "InvalidFileShape">>,
                   <<s, "InvalidDirectoryShape">> >>
    BY Zenon DEF EntryShapeChecks
  <2> HIDE DEF p, q, r, s, shape
  <2>2. /\ Fair(<<p, "InvalidDirectoryEntry">>) /\ Fair(<<q, "Path">>) /\ Fair(<<r, "InvalidFileShape">>)
        /\ Fair(<<s, "InvalidDirectoryShape">>)
    BY FairCheck DEF Passed
  <2> QED  BY <2>1, <2>2, FourFair
<1>6. FairList(content)
  <2> DEFINE p == e.offset # offset
             q == e.offset # 0 \/ e.size # 0 \/ e.digest # NoDigest
             r == e.executable
             s == e.size > limits.max_single_file_bytes
  <2>1. content = IF e.kind = "File" THEN << <<s, "FileTooLarge">>, <<p, "InvalidPayloadRange">> >>
                  ELSE << <<q, "InvalidDirectoryEntry">>, <<r, "ExecutableDirectory">> >>
    BY Zenon DEF enforce_file_size
  <2> HIDE DEF p, q, r, s, content
  <2>2. /\ Fair(<<p, "InvalidPayloadRange">>) /\ Fair(<<q, "InvalidDirectoryEntry">>)
        /\ Fair(<<r, "ExecutableDirectory">>) /\ Fair(<<s, "FileTooLarge">>)
    BY FairCheck DEF Passed
  <2>3. /\ FairList(<< <<s, "FileTooLarge">>, <<p, "InvalidPayloadRange">> >>)
        /\ FairList(<< <<q, "InvalidDirectoryEntry">>, <<r, "ExecutableDirectory">> >>)
    BY <2>2, TwoFair
  <2> QED  BY <2>1, <2>3, Zenon
<1>7. FairList(order)
  <2> DEFINE p == before.path = e.path /\ e.path # <<>>
             q == PathLess(e.path, before.path)
  <2>1. order = IF i = 1 THEN <<>> ELSE << <<p, "DuplicatePath">>, <<q, "NonCanonicalOrder">> >>
    OBVIOUS
  <2> HIDE DEF p, q, order
  <2>2. Fair(<<p, "DuplicatePath">>) /\ Fair(<<q, "NonCanonicalOrder">>)
    BY FairCheck DEF Passed
  <2>3. FairList(<< <<p, "DuplicatePath">>, <<q, "NonCanonicalOrder">> >>)
    BY <2>2, TwoFair
  <2>4. FairList(<<>>)
    <3>1. <<>> \in Seq({}) /\ \A j \in 1..Len(<<>>) : Fair(<<>>[j])
      OBVIOUS
    <3> QED  BY <3>1, Zenon DEF FairList
  <2> QED  BY <2>1, <2>3, <2>4, Zenon
<1> HIDE DEF shape, content, order
<1>8. FairList(shape \o content)
  BY <1>5, <1>6, BothPass
<1>9. FairList((shape \o content) \o order)
  BY <1>7, <1>8, BothPass
<1> QED  BY <1>4, <1>9

\* The checks of the manifest, and the length they compare.
LEMMA ManifestFair ==
  ASSUME NEW m, NEW h, NEW limits, Len(m.entries) \in Nat
  PROVE  /\ FairList(ManifestChecks(m, h, limits))
         /\ FirstError(ManifestChecks(m, h, limits)) = Passed => h.manifest_size = ManifestSize(m)
<1>1. PICK n \in Nat : n = Len(m.entries)
  OBVIOUS
<1> DEFINE a == h.manifest_size # ManifestSize(m)
           first ==
             << <<h.manifest_size # ManifestSize(m), "UnexpectedEof">>,
                validate_suggested_name(m.name, limits),
                <<m.path # <<>> /\ ~ValidPath(m.path, limits.max_path_bytes), "Path">>,
                <<Len(m.dictionary) > MaxDictionarySize, "InvalidDictionary">>,
                <<m.dictionary # <<>> /\ h.compression # "Zstd", "InvalidDictionary">>,
                <<metadata_flags(m) # h.flags, "MetadataFlagMismatch">>,
                <<m.count # h.entry_count, "EntryCountMismatch">>,
                enforce_entry_count(m.count, limits),
                <<m.count > Len(m.entries), "UnexpectedEof">> >>
           each == [i \in 1..Len(m.entries) |-> decode_manifest_entry(m, i, h.kind, limits)]
           third ==
             << <<m.trailing # 0 \/ m.count < Len(m.entries), "EnvelopeLengthMismatch">>,
                <<ExpectedOffset(m.entries, Len(m.entries) + 1) # h.original_size, "InvalidPayloadRange">>,
                validate_tree(m.entries),
                <<h.kind = "File" /\ (Len(m.entries) # 1 \/ \E i \in 1..Len(m.entries) : m.entries[i].kind # "File"),
                  "InvalidFileShape">> >>
<1>2. ManifestChecks(m, h, limits) = first \o FlattenSeq(each) \o third
  BY Zenon DEF ManifestChecks
<1>3. FairList(first) /\ (FirstError(first) = Passed => ~a)
  <2> DEFINE q == m.name # <<>> /\ (Len(m.name) > 1 \/ ~ValidPath(m.name, limits.max_path_bytes))
             r == m.path # <<>> /\ ~ValidPath(m.path, limits.max_path_bytes)
             s == Len(m.dictionary) > MaxDictionarySize
             t == m.dictionary # <<>> /\ h.compression # "Zstd"
             u == metadata_flags(m) # h.flags
             v == m.count # h.entry_count
             w == m.count > limits.max_file_count
             x == m.count > Len(m.entries)
  <2>1. first = << <<a, "UnexpectedEof">>, <<q, "InvalidName">>, <<r, "Path">>, <<s, "InvalidDictionary">>,
                   <<t, "InvalidDictionary">>, <<u, "MetadataFlagMismatch">>, <<v, "EntryCountMismatch">>,
                   <<w, "TooManyEntries">>, <<x, "UnexpectedEof">> >>
    BY Zenon DEF validate_suggested_name, enforce_entry_count
  <2> HIDE DEF a, q, r, s, t, u, v, w, x, first
  <2>2. /\ Fair(<<a, "UnexpectedEof">>) /\ Fair(<<q, "InvalidName">>) /\ Fair(<<r, "Path">>)
        /\ Fair(<<s, "InvalidDictionary">>) /\ Fair(<<t, "InvalidDictionary">>)
        /\ Fair(<<u, "MetadataFlagMismatch">>) /\ Fair(<<v, "EntryCountMismatch">>)
        /\ Fair(<<w, "TooManyEntries">>) /\ Fair(<<x, "UnexpectedEof">>)
    BY FairCheck DEF Passed
  <2>3. FairList(first)
    BY <2>1, <2>2, NineFair
  <2>4. Len(first) = 9 /\ first[1] = <<a, "UnexpectedEof">>
    BY <2>1
  <2>5. first[1][1] = a
    BY <2>4
  <2>6. FirstError(first) = Passed => ~first[1][1]
    BY <2>3, <2>4, NoneFailing
  <2> QED  BY <2>3, <2>5, <2>6
<1>4. FairList(FlattenSeq(each))
  <2>1. each = [i \in 1..n |-> each[i]] /\ Len(each) = n
    BY <1>1
  <2>2. \A i \in 1..n : FairList(each[i])
    BY <1>1, EntryFair
  <2> HIDE DEF each
  <2> QED  BY <2>1, <2>2, FlattenFair
<1>5. FairList(third)
  <2> DEFINE q == m.trailing # 0 \/ m.count < Len(m.entries)
             r == ExpectedOffset(m.entries, Len(m.entries) + 1) # h.original_size
             s == \E i, j \in 1..Len(m.entries) :
                    i < j /\ m.entries[i].kind = "File" /\ IsStrictPrefix(m.entries[i].path, m.entries[j].path)
                          /\ m.entries[i].path # <<>>
             t == h.kind = "File" /\ (Len(m.entries) # 1 \/ \E i \in 1..Len(m.entries) : m.entries[i].kind # "File")
  <2>1. third = << <<q, "EnvelopeLengthMismatch">>, <<r, "InvalidPayloadRange">>, <<s, "PathTypeConflict">>,
                   <<t, "InvalidFileShape">> >>
    BY Zenon DEF validate_tree
  <2> HIDE DEF q, r, s, t, third
  <2>2. /\ Fair(<<q, "EnvelopeLengthMismatch">>) /\ Fair(<<r, "InvalidPayloadRange">>)
        /\ Fair(<<s, "PathTypeConflict">>) /\ Fair(<<t, "InvalidFileShape">>)
    BY FairCheck DEF Passed
  <2> QED  BY <2>1, <2>2, FourFair
<1> HIDE DEF a, first, each, third
<1>6. PICK second : second = FlattenSeq(each)
  OBVIOUS
<1>7. FairList(second) /\ ManifestChecks(m, h, limits) = (first \o second) \o third
  BY <1>2, <1>4, <1>6, Zenon
<1>8. /\ FairList(first \o second)
      /\ FirstError(first \o second) = Passed => FirstError(first) = Passed
  BY <1>3, <1>7, BothPass
<1>9. /\ FairList((first \o second) \o third)
      /\ FirstError((first \o second) \o third) = Passed => FirstError(first \o second) = Passed
  BY <1>5, <1>8, BothPass
<1>10. FirstError(ManifestChecks(m, h, limits)) = Passed => ~a
  BY <1>3, <1>7, <1>8, <1>9
<1> QED  BY <1>7, <1>9, <1>10 DEF a


\* All of the stored bytes and of what follows them is taken.
AllTaken(stored, extra, n, taken) ==
  /\ stored.size \in Nat /\ extra \in Nat /\ n = stored.size + extra /\ taken = Taken(stored, extra, n)
  /\ stored.form = "raw" => stored.data \in Seq(Int) /\ stored.size = Len(stored.data)

\* What the decoders read from a file that ends where its header says.
LEMMA TakenWhole ==
  ASSUME NEW stored, NEW extra, NEW n, NEW taken, AllTaken(stored, extra, n, taken)
  PROVE  taken.size = n /\ Len(BytesOf(taken)) = n
<1>0. /\ stored.size \in Nat /\ extra \in Nat /\ n = stored.size + extra /\ taken = Taken(stored, extra, n)
      /\ stored.form = "raw" => stored.data \in Seq(Int) /\ stored.size = Len(stored.data)
  BY Zenon DEF AllTaken
<1> USE <1>0
<1>1. n \in Nat
  OBVIOUS
<1>2. CASE stored.form = "raw"
  <2>1. PICK data \in Seq(Int) : data = stored.data /\ Len(data) = stored.size
    BY <1>2
  <2>2. PICK rest : rest = [i \in 1..extra |-> OpaqueByte]
    OBVIOUS
  <2>3. rest \in Seq(Int) /\ Len(rest) = extra
    BY <2>2 DEF OpaqueByte
  <2>4. PICK bytes : bytes = data \o rest
    OBVIOUS
  <2>5. bytes \in Seq(Int) /\ Len(bytes) = n
    BY <2>1, <2>3, <2>4
  <2>6. PICK cut : cut = SubSeq(bytes, 1, n)
    OBVIOUS
  <2>7. Len(cut) = n
    BY <1>1, <2>5, <2>6
  <2>8. taken = Raw(cut)
    BY <1>1, <1>2, <2>1, <2>2, <2>4, <2>5, <2>6 DEF Taken
  <2> QED  BY <2>7, <2>8 DEF Raw, BytesOf
<1>3. CASE stored.form # "raw"
  <2>1. taken.size = n /\ taken.form # "raw"
    <3>1. CASE stored.size = n
      BY <1>3, <3>1 DEF Taken
    <3>2. CASE stored.size # n
      <4>1. taken = Damaged(n)
        BY <1>1, <1>3, <3>2 DEF Taken
      <4> QED  BY <4>1 DEF Damaged
    <3> QED  BY <3>1, <3>2
  <2> QED  BY <1>1, <2>1 DEF BytesOf
<1> QED  BY <1>2, <1>3

\* The two decompressors accept the same bytes when all of them are there.
LEMMA InflateAgrees ==
  ASSUME NEW taken, NEW compressed, taken.size = compressed, Len(BytesOf(taken)) = compressed,
         NEW algorithm, NEW dict, NEW declared, NEW limits
  PROVE  DecompressError(taken, algorithm, dict, declared, limits) = Passed
           <=> DecompressStreamError(taken, compressed, algorithm, dict, declared, limits) = Passed
<1> DEFINE a == algorithm = "None" /\ dict = <<>> /\ compressed # declared
           b == algorithm = "None" /\ dict # <<>>
           c == algorithm = "Zstd" /\ ~FrameDecodes(taken, dict)
           d == Len(DecodedBytes(taken, algorithm)) # declared
           e == taken.size # compressed
           limit == LimitChecks(compressed, declared, limits)
           once == << <<b, "InvalidDictionary">>, <<c, "InvalidStream">>, <<d, "SizeMismatch">> >>
           stream == << <<a, "SizeMismatch">>, <<b, "InvalidDictionary">>, <<c, "InvalidStream">>,
                        <<d, "SizeMismatch">>, <<e, "InvalidStream">> >>
<1>1. /\ DecompressError(taken, algorithm, dict, declared, limits) = FirstError(limit \o once)
      /\ DecompressStreamError(taken, compressed, algorithm, dict, declared, limits) = FirstError(limit \o stream)
  BY Zenon DEF DecompressError, DecompressStreamError, DictionaryNeedsZstd
<1>2. ~e
  OBVIOUS
<1>3. ~d => ~a
  BY DEF DecodedBytes
<1>4. FairList(limit)
  <2> DEFINE p == compressed > limits.max_compressed_payload_bytes
             q == declared > limits.max_uncompressed_payload_bytes
             r == declared # 0 /\ (compressed = 0 \/ declared > compressed * limits.max_compression_ratio)
  <2>1. limit = << <<p, "CompressedInputTooLarge">>, <<q, "OutputTooLarge">>, <<r, "CompressionRatioExceeded">> >>
    BY Zenon DEF LimitChecks, enforce_compressed_limit, enforce_output_limit, enforce_ratio
  <2> HIDE DEF p, q, r, limit
  <2>2. /\ Fair(<<p, "CompressedInputTooLarge">>) /\ Fair(<<q, "OutputTooLarge">>)
        /\ Fair(<<r, "CompressionRatioExceeded">>)
    BY FairCheck DEF Passed
  <2> QED  BY <2>1, <2>2, ThreeFair
<1> HIDE DEF a, b, c, d, e, limit
<1>5. /\ Fair(<<a, "SizeMismatch">>) /\ Fair(<<b, "InvalidDictionary">>) /\ Fair(<<c, "InvalidStream">>)
      /\ Fair(<<d, "SizeMismatch">>) /\ Fair(<<e, "InvalidStream">>)
  BY FairCheck DEF Passed
<1>6. FairList(once) /\ FairList(stream)
  BY <1>5, ThreeFair, FiveFair
<1>7. FirstError(once) = Passed <=> ~b /\ ~c /\ ~d
  <2>1. Len(once) = 3 /\ once[1][1] = b /\ once[2][1] = c /\ once[3][1] = d
    OBVIOUS
  <2> HIDE DEF once
  <2>2. FirstError(once) = Passed <=> \A i \in 1..3 : ~once[i][1]
    BY <1>6, <2>1, NoneFailing
  <2>3. \A i \in 1..3 : i = 1 \/ i = 2 \/ i = 3
    OBVIOUS
  <2>4. (\A i \in 1..3 : ~once[i][1]) <=> ~once[1][1] /\ ~once[2][1] /\ ~once[3][1]
    BY <2>3
  <2> QED  BY <2>1, <2>2, <2>4
<1>8. FirstError(stream) = Passed <=> ~a /\ ~b /\ ~c /\ ~d /\ ~e
  <2>1. /\ Len(stream) = 5 /\ stream[1][1] = a /\ stream[2][1] = b /\ stream[3][1] = c /\ stream[4][1] = d
        /\ stream[5][1] = e
    OBVIOUS
  <2> HIDE DEF stream
  <2>2. FirstError(stream) = Passed <=> \A i \in 1..5 : ~stream[i][1]
    BY <1>6, <2>1, NoneFailing
  <2>3. \A i \in 1..5 : i = 1 \/ i = 2 \/ i = 3 \/ i = 4 \/ i = 5
    OBVIOUS
  <2>4. (\A i \in 1..5 : ~stream[i][1])
          <=> ~stream[1][1] /\ ~stream[2][1] /\ ~stream[3][1] /\ ~stream[4][1] /\ ~stream[5][1]
    BY <2>3
  <2> QED  BY <2>1, <2>2, <2>4
<1> HIDE DEF once, stream
<1>9. /\ FirstError(limit \o once) = Passed <=> FirstError(limit) = Passed /\ FirstError(once) = Passed
      /\ FirstError(limit \o stream) = Passed <=> FirstError(limit) = Passed /\ FirstError(stream) = Passed
  BY <1>4, <1>6, BothPass
<1> QED  BY <1>1, <1>2, <1>3, <1>7, <1>8, <1>9

\* A file whose parts are bytes, and as long as the header says only if what is
\* stored and what follows it fill the stored part.
WellFormed(b) ==
  /\ Len(b.manifest.entries) \in Nat /\ b.trailing \in Nat /\ b.stored.size \in Nat
  /\ b.stored.form = "raw" => b.stored.data \in Seq(Int) /\ b.stored.size = Len(b.stored.data)
  /\ /\ BinarySize(b) = HeaderSize + b.header.manifest_size + b.header.stored_size
     /\ b.header.manifest_size = ManifestSize(b.manifest)
     => b.header.stored_size = b.stored.size + b.trailing

\* The one-pass decoder and the streaming decoder accept the same files, whatever
\* the limits (decode_artifact, decode_artifact_file_inner).
LEMMA DecodersAgreeOn ==
  ASSUME NEW b, WellFormed(b), NEW limits
  PROVE  DecodeError(b, limits) = Passed <=> StreamDecodeError(b, limits) = Passed
<1>1. PICK h, m : h = b.header /\ m = b.manifest
  OBVIOUS
<1>2. PICK taken : taken = Taken(b.stored, b.trailing, h.stored_size)
  OBVIOUS
<1> DEFINE header == HeaderChecks(b, limits)
           manifest == ManifestChecks(m, h, limits)
           ec == EnvelopeCheck(h, m, taken)
           cc == ContentCheck(m, h)
           lc == <<b.stored.size + b.trailing # h.stored_size, "EnvelopeLengthMismatch">>
           payload == PayloadChecks(m, DecodedBytes(taken, h.compression))
           inflate == DecompressError(taken, h.compression, m.dictionary, h.original_size, limits)
           inflated == DecompressStreamError(taken, h.stored_size, h.compression, m.dictionary,
                                             h.original_size, limits)
<1>3. DecodeError(b, limits) =
        LET early == FirstError(((header \o <<ec>>) \o manifest) \o <<cc>>)
        IN IF early # Passed THEN early ELSE IF inflate # Passed THEN inflate ELSE FirstError(payload)
  BY <1>1, <1>2, Zenon DEF DecodeError
<1>4. StreamDecodeError(b, limits) =
        LET loaded == FirstError((header \o manifest) \o <<cc>>)
        IN IF loaded # Passed THEN loaded ELSE IF inflated # Passed THEN inflated
           ELSE FirstError(<<ec, lc>> \o payload)
  BY <1>1, <1>2, Zenon DEF StreamDecodeError, LoadError, BodyError
<1>5. Fair(ec) /\ Fair(cc) /\ Fair(lc)
  BY FairCheck DEF EnvelopeCheck, ContentCheck, Passed
<1>6. FairList(payload)
  <2> DEFINE bad == \E i \in 1..Len(m.entries) :
                      LET e == m.entries[i] IN
                      e.kind = "File" /\ e.digest # file_digest(Slice(DecodedBytes(taken, h.compression), e))
  <2>1. payload = << <<bad, "FileDigestMismatch">> >>
    BY Zenon DEF PayloadChecks
  <2> HIDE DEF bad
  <2>2. Fair(<<bad, "FileDigestMismatch">>)
    BY FairCheck DEF Passed
  <2> HIDE DEF payload
  <2> QED  BY <2>1, <2>2, OneFair
<1>7. FairList(header) /\ FairList(manifest)
  BY <1>1, HeaderFair, ManifestFair DEF WellFormed
<1>8. ASSUME FirstError(header) = Passed, FirstError(manifest) = Passed
      PROVE  ~lc[1] /\ (inflate = Passed <=> inflated = Passed)
  <2>1. BinarySize(b) = HeaderSize + h.manifest_size + h.stored_size
    BY <1>1, <1>8, HeaderFair
  <2>2. h.manifest_size = ManifestSize(m)
    BY <1>1, <1>8, ManifestFair DEF WellFormed
  <2>3. h.stored_size = b.stored.size + b.trailing
    BY <1>1, <2>1, <2>2, Zenon DEF WellFormed
  <2>4. taken.size = h.stored_size /\ Len(BytesOf(taken)) = h.stored_size
    <3>1. AllTaken(b.stored, b.trailing, h.stored_size, taken)
      BY <1>2, <2>3, Zenon DEF AllTaken, WellFormed
    <3> QED  BY <3>1, TakenWhole
  <2>5. inflate = Passed <=> inflated = Passed
    BY <2>4, InflateAgrees
  <2>6. ~lc[1]
    BY <2>3
  <2> QED  BY <2>5, <2>6
<1> HIDE DEF header, manifest, ec, cc, lc, payload, inflate, inflated
<1>9. FairList(<<ec>>) /\ FairList(<<cc>>) /\ FairList(<<ec, lc>>)
  BY <1>5, OneFair, TwoFair
<1>10. /\ FirstError(<<ec>>) = Passed <=> ~ec[1]
       /\ FirstError(<<ec, lc>>) = Passed <=> ~ec[1] /\ ~lc[1]
  <2>1. PICK one : one = <<ec>>
    OBVIOUS
  <2>2. PICK two : two = <<ec, lc>>
    OBVIOUS
  <2>3. Len(one) = 1 /\ one[1] = ec /\ Len(two) = 2 /\ two[1] = ec /\ two[2] = lc
    BY <2>1, <2>2
  <2>4. (\A i \in 1..1 : i = 1) /\ (\A i \in 1..2 : i = 1 \/ i = 2)
    OBVIOUS
  <2>5. FirstError(one) = Passed <=> ~one[1][1]
    BY <1>9, <2>1, <2>3, <2>4, NoneFailing
  <2>6. FirstError(two) = Passed <=> \A i \in 1..2 : ~two[i][1]
    BY <1>9, <2>2, <2>3, NoneFailing
  <2>7. (\A i \in 1..2 : ~two[i][1]) <=> ~two[1][1] /\ ~two[2][1]
    BY <2>4
  <2> QED  BY <2>1, <2>2, <2>3, <2>5, <2>6, <2>7
<1>11. /\ FairList(header \o <<ec>>)
       /\ FirstError(header \o <<ec>>) = Passed <=> FirstError(header) = Passed /\ ~ec[1]
  BY <1>7, <1>9, <1>10, BothPass
<1>12. /\ FairList((header \o <<ec>>) \o manifest)
       /\ FirstError((header \o <<ec>>) \o manifest) = Passed
            <=> FirstError(header) = Passed /\ ~ec[1] /\ FirstError(manifest) = Passed
  BY <1>7, <1>11, BothPass
<1>13. FirstError(((header \o <<ec>>) \o manifest) \o <<cc>>) = Passed
         <=> FirstError(header) = Passed /\ ~ec[1] /\ FirstError(manifest) = Passed /\ FirstError(<<cc>>) = Passed
  BY <1>9, <1>12, BothPass
<1>14. /\ FairList(header \o manifest)
       /\ FirstError(header \o manifest) = Passed <=> FirstError(header) = Passed /\ FirstError(manifest) = Passed
  BY <1>7, BothPass
<1>15. FirstError((header \o manifest) \o <<cc>>) = Passed
         <=> FirstError(header) = Passed /\ FirstError(manifest) = Passed /\ FirstError(<<cc>>) = Passed
  BY <1>9, <1>14, BothPass
<1>16. FirstError(<<ec, lc>> \o payload) = Passed <=> ~ec[1] /\ ~lc[1] /\ FirstError(payload) = Passed
  BY <1>6, <1>9, <1>10, BothPass
<1> QED  BY <1>3, <1>4, <1>8, <1>13, <1>15, <1>16, Zenon


-----------------------------------------------------------------------------
(* What an accepted envelope decodes to.                                   *)

\* An artifact as the scan makes it: a directory entry has no bytes.
TreeEntries == [kind : {"File", "Directory"}, path : Seq(Nat), bytes : Seq(Nat), executable : BOOLEAN]
PlainEntry(e) == e \in TreeEntries /\ (e.kind = "Directory" => e.bytes = <<>> /\ e.executable = FALSE)
PlainList(l) == l \in Seq(TreeEntries) /\ \A i \in 1..Len(l) : PlainEntry(l[i])
PlainTree(a) ==
  a = [kind |-> a.kind, name |-> a.name, path |-> a.path, entries |-> a.entries] /\ PlainList(a.entries)

\* Two such lists joined are one.
LEMMA PlainJoined ==
  ASSUME NEW l, NEW m, PlainList(l), PlainList(m)
  PROVE  PlainList(l \o m)
<1>1. PICK p \in Nat, q \in Nat : p = Len(l) /\ q = Len(m)
  BY DEF PlainList
<1>2. PICK n : n = l \o m
  OBVIOUS
<1>3. l \in Seq(TreeEntries) /\ m \in Seq(TreeEntries)
  BY DEF PlainList
<1>4. /\ n \in Seq(TreeEntries) /\ Len(n) = p + q
      /\ \A i \in 1..p : n[i] = l[i]
      /\ \A i \in 1..q : n[p + i] = m[i]
  BY <1>1, <1>2, <1>3
<1>5. ASSUME NEW i \in 1..(p + q)  PROVE PlainEntry(n[i])
  <2>1. i \in 1..p \/ (i - p \in 1..q /\ i = p + (i - p))
    BY <1>1
  <2>2. CASE i \in 1..p
    BY <1>1, <1>4, <2>2 DEF PlainList
  <2>3. CASE i - p \in 1..q /\ i = p + (i - p)
    <3>1. n[i] = m[i - p]
      BY <1>4, <2>3
    <3> QED  BY <1>1, <2>3, <3>1 DEF PlainList
  <2> QED  BY <2>1, <2>2, <2>3
<1> QED  BY <1>2, <1>4, <1>5 DEF PlainList

\* What was scanned is such an artifact.
LEMMA ScannedPlain ==
  ASSUME EncoderTypes
  PROVE  PlainTree(ScannedArtifact)
<1>1. /\ FilePaths \in Seq(Seq(Nat)) /\ DirPaths \in Seq(Seq(Nat)) /\ N \in Nat
      /\ enc.scanned \in Seq(ScannedFiles)
  BY ArtifactFilesAssumption DEF EncoderTypes
<1>2. PICK n \in Nat : n = Len(enc.scanned)
  BY <1>1
<1>3. PICK files : files = [i \in 1..n |-> [kind |-> enc.scanned[i].kind, path |-> enc.scanned[i].path,
                                            bytes |-> enc.scanned[i].bytes,
                                            executable |-> enc.scanned[i].executable]]
  OBVIOUS
<1>4. PICK dirs : dirs = IF enc.opts.kind = "File" THEN <<>>
                         ELSE [k \in 1..Len(DirPaths) |-> [kind |-> "Directory", path |-> DirPaths[k],
                                                           bytes |-> <<>>, executable |-> FALSE]]
  OBVIOUS
<1>5. PICK all : all = files \o dirs
  OBVIOUS
<1>6. ScannedArtifact = [kind |-> enc.opts.kind, name |-> enc.hint[1], path |-> enc.hint[2], entries |-> all]
  BY <1>2, <1>3, <1>4, <1>5 DEF ScannedArtifact
<1>7. \A i \in 1..n : /\ enc.scanned[i].kind = "File" /\ enc.scanned[i].path \in Seq(Nat)
                      /\ enc.scanned[i].bytes \in Seq(Nat) /\ enc.scanned[i].executable \in BOOLEAN
  <2>1. \A i \in 1..n : enc.scanned[i] \in ScannedFiles
    BY <1>1, <1>2
  <2>2. {<<>>} \cup {FilePaths[i] : i \in 1..N} \subseteq Seq(Nat)
    <3>1. \A i \in 1..N : FilePaths[i] \in Seq(Nat)
      BY <1>1 DEF N
    <3>2. <<>> \in Seq(Nat)
      OBVIOUS
    <3> QED  BY <3>1, <3>2
  <2>3. \A e \in ScannedFiles :
          /\ e.kind = "File" /\ e.path \in {<<>>} \cup {FilePaths[i] : i \in 1..N}
          /\ e.bytes \in Seq(Nat) /\ e.executable \in BOOLEAN
    BY DEF ScannedFiles
  <2> QED  BY <2>1, <2>2, <2>3
<1>8. PlainList(files)
  <2>1. \A i \in 1..n : files[i] \in TreeEntries /\ files[i].kind = "File"
    BY <1>3, <1>7 DEF TreeEntries
  <2>2. files \in Seq(TreeEntries) /\ Len(files) = n
    BY <1>3, <2>1
  <2> QED  BY <2>1, <2>2 DEF PlainList, PlainEntry
<1>9. PlainList(dirs)
  <2>1. CASE enc.opts.kind = "File"
    <3>1. dirs = <<>>
      BY <1>4, <2>1
    <3>2. dirs \in Seq(TreeEntries) /\ Len(dirs) = 0
      BY <3>1
    <3> QED  BY <3>2 DEF PlainList
  <2>2. CASE enc.opts.kind # "File"
    <3>1. PICK k \in Nat : k = Len(DirPaths)
      BY <1>1
    <3>2. dirs = [i \in 1..k |-> [kind |-> "Directory", path |-> DirPaths[i], bytes |-> <<>>, executable |-> FALSE]]
      BY <1>4, <2>2, <3>1
    <3>3. \A i \in 1..k : DirPaths[i] \in Seq(Nat)
      BY <1>1, <3>1
    <3>4. \A i \in 1..k : dirs[i] \in TreeEntries /\ dirs[i].bytes = <<>> /\ dirs[i].executable = FALSE
      <4>1. <<>> \in Seq(Nat)
        OBVIOUS
      <4> QED  BY <3>2, <3>3, <4>1 DEF TreeEntries
    <3>5. dirs \in Seq(TreeEntries) /\ Len(dirs) = k
      BY <3>2, <3>4
    <3> QED  BY <3>4, <3>5 DEF PlainList, PlainEntry
  <2> QED  BY <2>1, <2>2
<1>10. PlainList(all)
  BY <1>5, <1>8, <1>9, PlainJoined
<1>11. PICK a : a = ScannedArtifact
  OBVIOUS
<1>12. PICK kind, name, path : kind = enc.opts.kind /\ name = enc.hint[1] /\ path = enc.hint[2]
  OBVIOUS
<1>13. a = [kind |-> kind, name |-> name, path |-> path, entries |-> all]
  BY <1>6, <1>11, <1>12, Zenon
<1>14. a.kind = kind /\ a.name = name /\ a.path = path /\ a.entries = all
  BY <1>13
<1> QED  BY <1>10, <1>11, <1>13, <1>14, Zenon DEF PlainTree

\* Its entries in canonical order.
LEMMA SortedPlainTree ==
  ASSUME NEW a, PlainTree(a), NEW s, s = Sorted(a)
  PROVE  PlainList(s) /\ Len(s) = Len(a.entries) /\ Len(s) \in Nat
<1>1. PICK entries : entries = a.entries
  OBVIOUS
<1>2. PICK n \in Nat : n = Len(entries)
  BY <1>1 DEF PlainTree, PlainList
<1>3. PlainList(entries)
  BY <1>1 DEF PlainTree
<1>4. \A i \in 1..n : PlainEntry(entries[i]) /\ entries[i] \in TreeEntries /\ entries[i].path \in Seq(Nat)
  BY <1>2, <1>3 DEF PlainList, PlainEntry, TreeEntries
<1>5. /\ Len(s) = n
      /\ \A k \in 1..n : \E i \in 1..n : s[k] = entries[i]
  BY <1>1, <1>2, <1>4, SortedEntries
<1>6. \A k \in 1..n : PlainEntry(s[k]) /\ s[k] \in TreeEntries
  BY <1>4, <1>5
<1>7. s \in Seq(TreeEntries)
  <2>1. CASE a.kind = "File"
    BY <1>3, <1>1, <2>1 DEF Sorted, PlainList
  <2>2. CASE a.kind # "File"
    <3> DEFINE at(k) == CHOOSE i \in 1..n : Rank(entries, i) = k
    <3>1. s = [k \in 1..n |-> entries[at(k)]]
      BY <1>1, <1>2, <2>2 DEF Sorted
    <3> HIDE DEF at
    <3> QED  BY <1>6, <3>1
  <2> QED  BY <2>1, <2>2
<1> QED  BY <1>1, <1>2, <1>5, <1>6, <1>7 DEF PlainList


\* An envelope that the encoder makes of an artifact.
Built(b, a) ==
  \E data \in Seq(Nat), size \in Nat : \E dict, with, compression, profile :
    b = Envelope(a, dict, CanonicalEntries(a), compression, profile, Encoded(data, compression, with, size))

\* The parts of a stored payload.
LEMMA EncodedParts ==
  ASSUME NEW data \in Seq(Nat), NEW size \in Nat, NEW algorithm, NEW dict, NEW stored,
         stored = Encoded(data, algorithm, dict, size)
  PROVE  /\ stored.size \in Nat
         /\ stored.form = "raw" => stored.data \in Seq(Int) /\ stored.size = Len(stored.data)
<1>1. CASE algorithm = "None"
  <2>1. stored = [form |-> "raw", data |-> data, dict |-> <<>>, size |-> Len(data)]
    BY <1>1 DEF Encoded, Raw
  <2>2. data \in Seq(Int) /\ Len(data) \in Nat
    OBVIOUS
  <2> QED  BY <2>1, <2>2
<1>2. CASE algorithm # "None"
  <2>1. stored = [form |-> "frame", data |-> data, dict |-> dict, size |-> size]
    BY <1>2 DEF Encoded, Frame
  <2> QED  BY <2>1
<1> QED  BY <1>1, <1>2

\* What the encoder makes is well formed.
LEMMA BuiltWellFormed ==
  ASSUME NEW a, PlainTree(a), NEW b, Built(b, a)
  PROVE  WellFormed(b)
<1>0. PICK data \in Seq(Nat), size \in Nat : \E dict, with, compression, profile :
        b = Envelope(a, dict, CanonicalEntries(a), compression, profile, Encoded(data, compression, with, size))
  BY Zenon DEF Built
<1>1. PICK dict, with, compression, profile :
        b = Envelope(a, dict, CanonicalEntries(a), compression, profile, Encoded(data, compression, with, size))
  BY <1>0, Zenon
<1>2. PICK stored : stored = Encoded(data, compression, with, size)
  OBVIOUS
<1>3. PICK entries : entries = CanonicalEntries(a)
  OBVIOUS
<1>4. b = Envelope(a, dict, entries, compression, profile, stored)
  BY <1>1, <1>2, <1>3, Zenon
<1>5. /\ b.header.stored_size = stored.size
      /\ b.manifest.entries = entries /\ b.stored = stored /\ b.trailing = 0
  BY <1>4, EnvelopeFields
<1>6. PICK s : s = Sorted(a)
  OBVIOUS
<1>7. Len(s) \in Nat
  BY <1>6, SortedPlainTree
<1>8. Len(entries) = Len(s)
  BY <1>3, <1>6, <1>7, CanonicalFields
<1>9. /\ stored.size \in Nat
      /\ stored.form = "raw" => stored.data \in Seq(Int) /\ stored.size = Len(stored.data)
  BY <1>2, EncodedParts
<1>10. b.header.stored_size = b.stored.size + b.trailing
  BY <1>5, <1>9
<1> QED  BY <1>5, <1>7, <1>8, <1>9, <1>10 DEF WellFormed

\* An entry is made of its fields.
LEMMA EntryFields ==
  ASSUME NEW e, PlainEntry(e)
  PROVE  /\ e = [kind |-> e.kind, path |-> e.path, bytes |-> e.bytes, executable |-> e.executable]
         /\ e.kind # "File" => e.kind = "Directory" /\ e.bytes = <<>> /\ e.executable = FALSE
BY DEF PlainEntry, TreeEntries

\* What the encoder makes and the streaming decoder accepts decodes to the
\* artifact, its entries in canonical order.
LEMMA BuiltDecodes ==
  ASSUME NEW a, PlainTree(a), NEW b, Built(b, a), NEW limits, StreamDecodeError(b, limits) = Passed
  PROVE  decode_artifact(b) = [a EXCEPT !.entries = Sorted(a)]
<1>0. PICK data \in Seq(Nat), size \in Nat : \E dict, with, compression, profile :
        b = Envelope(a, dict, CanonicalEntries(a), compression, profile, Encoded(data, compression, with, size))
  BY Zenon DEF Built
<1>1. PICK dict, with, compression, profile :
        b = Envelope(a, dict, CanonicalEntries(a), compression, profile, Encoded(data, compression, with, size))
  BY <1>0, Zenon
<1>2. PICK stored : stored = Encoded(data, compression, with, size)
  OBVIOUS
<1>3. PICK entries : entries = CanonicalEntries(a)
  OBVIOUS
<1>4. b = Envelope(a, dict, entries, compression, profile, stored)
  BY <1>1, <1>2, <1>3, Zenon
<1>5. PICK h, m : h = b.header /\ m = b.manifest
  OBVIOUS
<1>6. /\ h.compression = compression /\ h.stored_size = stored.size /\ h.kind = a.kind
      /\ m.entries = entries /\ m.name = a.name /\ m.path = a.path /\ b.stored = stored /\ b.trailing = 0
  BY <1>4, <1>5, EnvelopeFields
<1>7. BodyError(h, m, b.stored, b.trailing, limits) = Passed
  BY <1>5, Zenon DEF StreamDecodeError
<1>8. PICK payload : payload = DecodedBytes(stored, compression)
  OBVIOUS
<1>9. Taken(b.stored, b.trailing, h.stored_size) = stored
  BY <1>2, <1>6, TakenAll
<1>10. \A i \in 1..Len(entries) :
        entries[i].kind = "File" => entries[i].digest = file_digest(Slice(payload, entries[i]))
  BY <1>6, <1>7, <1>8, <1>9, BodyPasses
<1>11. PICK s : s = Sorted(a)
  OBVIOUS
<1>12. PlainList(s) /\ Len(s) \in Nat
  BY <1>11, SortedPlainTree
<1>13. /\ Len(entries) = Len(s)
       /\ \A i \in 1..Len(s) : Describes(entries[i], s[i])
  BY <1>3, <1>11, <1>12, CanonicalFields
<1>14. \A i \in 1..Len(s) : s[i].kind = "File" => Slice(payload, entries[i]) = s[i].bytes
  BY <1>10, <1>13 DEF file_digest, Describes
<1>15. ASSUME NEW i \in 1..Len(s)
       PROVE  [kind |-> entries[i].kind, path |-> entries[i].path,
               bytes |-> IF entries[i].kind = "File" THEN Slice(payload, entries[i]) ELSE <<>>,
               executable |-> entries[i].executable] = s[i]
  <2>1. PlainEntry(s[i])
    BY <1>12 DEF PlainList
  <2>2. PICK e : e = s[i]
    OBVIOUS
  <2>3. /\ e = [kind |-> e.kind, path |-> e.path, bytes |-> e.bytes, executable |-> e.executable]
        /\ e.kind # "File" => e.kind = "Directory" /\ e.bytes = <<>> /\ e.executable = FALSE
    BY <2>1, <2>2, EntryFields
  <2>4. PICK bytes : bytes = IF entries[i].kind = "File" THEN Slice(payload, entries[i]) ELSE <<>>
    OBVIOUS
  <2>5. bytes = e.bytes /\ entries[i].path = e.path
    BY <1>13, <1>14, <2>2, <2>3, <2>4, Zenon DEF Describes
  <2>6. entries[i].kind = e.kind /\ entries[i].executable = e.executable
    BY <1>13, <2>2, <2>3, Zenon DEF Describes
  <2> QED  BY <2>2, <2>3, <2>4, <2>5, <2>6, Zenon
<1>16. PICK d : d = [i \in 1..Len(m.entries) |->
              [kind |-> m.entries[i].kind, path |-> m.entries[i].path,
               bytes |-> IF m.entries[i].kind = "File" THEN Slice(payload, m.entries[i]) ELSE <<>>,
               executable |-> m.entries[i].executable]]
  OBVIOUS
<1>17. d = s
  <2>1. d = [i \in 1..Len(s) |-> s[i]]
    BY <1>6, <1>13, <1>15, <1>16, Zenon
  <2>2. s = [i \in 1..Len(s) |-> s[i]]
    BY <1>12 DEF PlainList
  <2> QED  BY <2>1, <2>2, Zenon
<1>18. decode_artifact(b) = [kind |-> a.kind, name |-> a.name, path |-> a.path, entries |-> s]
  <2>1. decode_artifact(b) = reconstruct(h.kind, m, payload)
    BY <1>5, <1>6, <1>8, Zenon DEF decode_artifact
  <2>2. reconstruct(h.kind, m, payload) = [kind |-> h.kind, name |-> m.name, path |-> m.path, entries |-> d]
    BY <1>16, Zenon DEF reconstruct
  <2> QED  BY <1>6, <1>17, <2>1, <2>2, Zenon
<1>19. [a EXCEPT !.entries = s] = [kind |-> a.kind, name |-> a.name, path |-> a.path, entries |-> s]
  <2>1. a = [kind |-> a.kind, name |-> a.name, path |-> a.path, entries |-> a.entries]
    BY Zenon DEF PlainTree
  <2> QED  BY <2>1
<1> QED  BY <1>11, <1>18, <1>19, Zenon

\* The payload of an artifact is bytes.
LEMMA PayloadType ==
  ASSUME NEW a, PlainTree(a)
  PROVE  PayloadOf(Sorted(a)) \in Seq(Nat)
<1>1. PICK s : s = Sorted(a)
  OBVIOUS
<1>2. PlainList(s)
  BY <1>1, SortedPlainTree
<1>3. PICK n \in Nat : n = Len(s)
  BY <1>1, SortedPlainTree
<1>4. \A i \in 1..n : s[i].bytes \in Seq(Nat)
  BY <1>2, <1>3 DEF PlainList, PlainEntry, TreeEntries
<1>5. PICK parts : parts = [i \in 1..n |-> s[i].bytes]
  OBVIOUS
<1>6. parts = [i \in 1..n |-> parts[i]] /\ Len(parts) = n /\ \A i \in 1..n : parts[i] \in Seq(Nat)
  BY <1>4, <1>5
<1>7. FlattenSeq(parts) \in Seq(Nat)
  BY <1>6, FlattenType
<1> QED  BY <1>1, <1>3, <1>5, <1>7, Zenon DEF PayloadOf

\* What encode_artifact makes, and what its own verification says of it.
LEMMA MemoryBuilt ==
  ASSUME NEW a, PlainTree(a), NEW opts, NEW dict, NEW ordinary \in Nat, NEW dictSize \in Nat,
         NEW r, r = EncodeResult(a, opts, dict, ordinary, dictSize)
  PROVE  /\ Built(r.binary, a)
         /\ r.verify = Passed => DecodeError(r.binary, opts.limits) = Passed
<1>1. PICK payload \in Seq(Nat) : payload = PayloadOf(Sorted(a))
  BY PayloadType
<1>2. PICK chosen : chosen = select_payload(payload, opts.compression, dict, ordinary, dictSize, opts.limits)
  OBVIOUS
<1>3. PICK b : b = Envelope(a, chosen.stored.dict, CanonicalEntries(a), chosen.compression, opts.profile, chosen.stored)
  OBVIOUS
<1>4. \E size \in Nat : \E with : chosen.stored = Encoded(payload, chosen.compression, with, size)
  <2>1. PICK e, f : e = CompressError(payload, "None", <<>>, 0, opts.limits)
                    /\ f = CompressError(payload, "Zstd", <<>>, ordinary, opts.limits)
    OBVIOUS
  <2>2. PICK best : best = best_zstd_candidate(payload, ordinary, dict, dictSize, opts.limits)
    OBVIOUS
  <2>3. \/ chosen = [error |-> e, compression |-> "None", stored |-> Raw(payload)]
        \/ chosen = [error |-> f, compression |-> "Zstd", stored |-> best]
    BY <1>2, <2>1, <2>2, Zenon DEF select_payload
  <2>4. best = Frame(payload, dict, dictSize) \/ best = Frame(payload, <<>>, ordinary)
    BY <2>2, Zenon DEF best_zstd_candidate
  <2>5. CASE chosen = [error |-> e, compression |-> "None", stored |-> Raw(payload)]
    <3>1. chosen.stored = Raw(payload) /\ chosen.compression = "None"
      BY <2>5
    <3>2. Encoded(payload, "None", dict, ordinary) = Raw(payload)
      BY DEF Encoded
    <3> QED  BY <3>1, <3>2
  <2>6. CASE chosen = [error |-> f, compression |-> "Zstd", stored |-> best]
    <3>1. chosen.stored = best /\ chosen.compression = "Zstd"
      BY <2>6
    <3>2. /\ Encoded(payload, "Zstd", dict, dictSize) = Frame(payload, dict, dictSize)
          /\ Encoded(payload, "Zstd", <<>>, ordinary) = Frame(payload, <<>>, ordinary)
      BY DEF Encoded
    <3> QED  BY <2>4, <3>1, <3>2
  <2> QED  BY <2>3, <2>5, <2>6
<1>5. Built(b, a)
  <2>1. PICK size \in Nat : \E with : chosen.stored = Encoded(payload, chosen.compression, with, size)
    BY <1>4, Zenon
  <2> QED  BY <1>3, <2>1, Zenon DEF Built
<1>6. PICK verify : verify = DecodeError(b, opts.limits)
  OBVIOUS
<1>7. PICK again : again = IF verify # Passed THEN verify
                           ELSE IF decode_artifact(b) = reconstruct(a.kind, b.manifest, payload) THEN Passed
                           ELSE "ContentDigestMismatch"
  OBVIOUS
<1>8. \E error : r = [error |-> error, binary |-> b, verify |-> again]
  BY <1>1, <1>2, <1>3, <1>6, <1>7, Zenon DEF EncodeResult
<1>9. r.binary = b /\ r.verify = again
  BY <1>8
<1>10. again = Passed => verify = Passed
  BY <1>7, Zenon
<1> QED  BY <1>5, <1>6, <1>9, <1>10, Zenon


-----------------------------------------------------------------------------
(* Every artifact file.                                                    *)

\* The decoders accept b, and it decodes to the artifact a in canonical order.
Checked(b, limits, a) ==
  /\ DecodeError(b, limits) = Passed /\ StreamDecodeError(b, limits) = Passed
  /\ decode_artifact(b) = [a EXCEPT !.entries = Sorted(a)]

\* Only then may the command have left something at the output.
Written == {"fill", "done", "failed", "crashed"}

\* From the staging on there is an envelope of what was scanned.
EnvelopeInv ==
  /\ enc.ordinary \in Nat
  /\ enc.pc \in {"verify", "persist", "create", "fill", "done"} => Built(enc.binary, ScannedArtifact)
  /\ Readable => WellFormed(out.binary) /\ WellFormed(enc.binary) /\ enc.pc \in Written
  /\ LeftByWriteNew /\ CommittedDecodes

\* One decoder is enough to check what the encoder makes.
LEMMA BuiltChecked ==
  ASSUME NEW a, PlainTree(a), NEW b, Built(b, a), NEW limits,
         DecodeError(b, limits) = Passed \/ StreamDecodeError(b, limits) = Passed
  PROVE  Checked(b, limits, a)
<1>1. WellFormed(b)
  BY BuiltWellFormed
<1>2. DecodeError(b, limits) = Passed <=> StreamDecodeError(b, limits) = Passed
  BY <1>1, DecodersAgreeOn
<1>3. StreamDecodeError(b, limits) = Passed
  BY <1>2
<1>4. decode_artifact(b) = [a EXCEPT !.entries = Sorted(a)]
  BY <1>3, BuiltDecodes
<1> QED  BY <1>2, <1>3, <1>4, Zenon DEF Checked

\* The bytes another program puts in place of the artifact are well formed.
LEMMA BinaryWellFormed ==
  ASSUME NEW b, IsBinary(b)
  PROVE  WellFormed(b)
<1>1. PICK size : size = ManifestSize(b.manifest)
  OBVIOUS
<1>2. BinarySize(b) = HeaderSize + size + b.stored.size + b.trailing
  BY <1>1, Zenon DEF BinarySize
<1>3. /\ BinarySize(b) = HeaderSize + b.header.manifest_size + b.header.stored_size
      /\ b.header.manifest_size = size
      => b.header.stored_size = b.stored.size + b.trailing
  <2>1. /\ b.header.manifest_size \in Nat /\ b.header.stored_size \in Nat
        /\ b.stored.size \in Nat /\ b.trailing \in Nat /\ HeaderSize \in Nat
    BY CodecAssumption DEF IsBinary
  <2>2. PICK x \in Nat, y \in Nat, z \in Nat, t \in Nat, w \in Nat :
          /\ x = b.header.manifest_size /\ y = b.header.stored_size
          /\ z = b.stored.size /\ t = b.trailing /\ w = HeaderSize
    BY <2>1, Zenon
  <2>3. \A total : total = w + size + z + t /\ total = w + x + y /\ x = size => y = z + t
    OBVIOUS
  <2> QED  BY <1>2, <2>2, <2>3, Zenon
<1> QED  BY <1>1, <1>3, Zenon DEF WellFormed, IsBinary

\* What was scanned stays the same artifact.
LEMMA ScannedSame ==
  ASSUME enc'.scanned = enc.scanned, enc'.opts = enc.opts, enc'.hint = enc.hint
  PROVE  ScannedArtifact' = ScannedArtifact
BY DEF ScannedArtifact

\* Before the staging, and when the command gives up or is killed, there is
\* nothing new to show.
LEMMA EnvelopeQuiet ==
  ASSUME EnvelopeInv, enc'.pc \notin {"verify", "persist", "create", "fill", "done"},
         out' = out, enc'.binary = enc.binary, enc'.ordinary \in Nat,
         enc.pc \notin Written \/ (enc'.pc = "crashed" /\ enc'.mode = enc.mode)
  PROVE  EnvelopeInv'
<1>1. Readable' => WellFormed(out.binary)' /\ WellFormed(enc.binary)' /\ enc'.pc \in Written
  BY DEF EnvelopeInv, Readable, WellFormed, Written
<1>2. LeftByWriteNew'
  BY DEF EnvelopeInv, Readable, LeftByWriteNew, Written
<1> QED  BY <1>1, <1>2 DEF EnvelopeInv, CommittedDecodes

\* The output file keeps its bytes while the command that wrote them goes on.
LEMMA EnvelopeKept ==
  ASSUME EnvelopeInv, enc'.scanned = enc.scanned, enc'.opts = enc.opts, enc'.hint = enc.hint,
         enc'.binary = enc.binary, enc'.ordinary = enc.ordinary,
         enc.pc \in {"verify", "persist", "create", "fill", "done"},
         enc'.pc \in {"persist", "create", "fill", "done"} =>
           Checked(enc.binary, enc.opts.limits, ScannedArtifact),
         out'.form \notin {"absent", "foreign"} =>
           WellFormed(out'.binary) /\ WellFormed(enc.binary) /\ enc'.pc \in {"fill", "done"},
         out'.form = "torn" => enc'.mode = "memory" /\ enc'.pc = "fill"
  PROVE  EnvelopeInv'
<1>1. PICK a : a = ScannedArtifact
  OBVIOUS
<1>2. a = ScannedArtifact'
  BY <1>1, ScannedSame
<1>3. PICK b, limits : b = enc.binary /\ limits = enc.opts.limits
  OBVIOUS
<1>4. b = enc'.binary /\ limits = enc'.opts.limits
  BY <1>3
<1>5. Built(enc.binary, ScannedArtifact)'
  <2>1. Built(b, a)
    BY <1>1, <1>3 DEF EnvelopeInv
  <2> QED  BY <1>2, <1>4, <2>1
<1>6. CommittedDecodes'
  <2>1. enc'.pc \in {"persist", "create", "fill", "done"} => Checked(b, limits, a)
    BY <1>1, <1>3
  <2>2. enc'.pc \in {"persist", "create", "fill", "done"} =>
          /\ DecodeError(b, limits) = Passed /\ StreamDecodeError(b, limits) = Passed
          /\ decode_artifact(b) = [a EXCEPT !.entries = Sorted(a)]
    BY <2>1, Zenon DEF Checked
  <2> QED  BY <1>2, <1>4, <2>2 DEF CommittedDecodes
<1>7. Readable' => WellFormed(out.binary)' /\ WellFormed(enc.binary)' /\ enc'.pc \in Written
  <2>1. WellFormed(enc.binary) => WellFormed(enc.binary)'
    BY DEF WellFormed
  <2> QED  BY <2>1 DEF Readable, Written
<1>8. LeftByWriteNew' /\ enc'.ordinary \in Nat
  BY DEF LeftByWriteNew, EnvelopeInv, Readable
<1> QED  BY <1>5, <1>6, <1>7, <1>8 DEF EnvelopeInv

\* A new envelope of what was scanned.
LEMMA EnvelopeMade ==
  ASSUME EnvelopeInv, EncoderTypes, NEW b, Built(b, ScannedArtifact),
         enc'.scanned = enc.scanned, enc'.opts = enc.opts, enc'.hint = enc.hint,
         enc'.binary = b, enc'.ordinary = enc.ordinary, out' = out,
         enc.pc \notin Written,
         enc'.pc \in {"persist", "create", "fill", "done"} =>
           Checked(b, enc.opts.limits, ScannedArtifact)
  PROVE  EnvelopeInv'
<1>1. PICK a : a = ScannedArtifact
  OBVIOUS
<1>2. a = ScannedArtifact'
  BY <1>1, ScannedSame
<1>3. PICK limits : limits = enc.opts.limits
  OBVIOUS
<1>4. limits = enc'.opts.limits
  BY <1>3
<1>5. Built(enc.binary, ScannedArtifact)'
  BY <1>1, <1>2
<1>6. CommittedDecodes'
  <2>1. enc'.pc \in {"persist", "create", "fill", "done"} =>
          /\ DecodeError(b, limits) = Passed /\ StreamDecodeError(b, limits) = Passed
          /\ decode_artifact(b) = [a EXCEPT !.entries = Sorted(a)]
    BY <1>1, <1>3, Zenon DEF Checked
  <2> QED  BY <1>2, <1>4, <2>1 DEF CommittedDecodes
<1>7. WellFormed(b)
  BY BuiltWellFormed, ScannedPlain
<1>8. Readable' => WellFormed(out.binary)' /\ WellFormed(enc.binary)' /\ enc'.pc \in Written
  BY <1>7 DEF Readable, EnvelopeInv
<1>9. LeftByWriteNew' /\ enc'.ordinary \in Nat
  BY DEF LeftByWriteNew, EnvelopeInv, Readable
<1> QED  BY <1>5, <1>6, <1>8, <1>9 DEF EnvelopeInv


\* Choosing or repeating a pass keeps a size, the envelope so far, and commits nothing.
LEMMA ChooseQuiet ==
  ASSUME EncoderShape, NEW dict, NEW size \in Nat, enc.ordinary \in Nat
  PROVE  LET e == Choose(enc, dict, size) IN
         e.pc \in {"spool", "stage"} /\ e.binary = enc.binary /\ e.ordinary \in Nat
<1>1. PICK e : e = Choose(enc, dict, size)
  OBVIOUS
<1>2. \/ e = AgainAs([enc EXCEPT !.dict = <<>>], "verbatim")
      \/ e = [enc EXCEPT !.pc = "stage", !.compression = "Zstd", !.dict = dict, !.ordinary = size]
  BY <1>1, Zenon DEF Choose
<1>3. CASE e = AgainAs([enc EXCEPT !.dict = <<>>], "verbatim")
  BY <1>1, <1>3 DEF AgainAs, EncoderShape
<1>4. CASE e = [enc EXCEPT !.pc = "stage", !.compression = "Zstd", !.dict = dict, !.ordinary = size]
  BY <1>1, <1>4 DEF EncoderShape
<1> QED  BY <1>2, <1>3, <1>4

\* The end of a pass.
LEMMA PassQuiet ==
  ASSUME EncoderShape, EnvelopeInv,
         (\E size \in ZstdSizes : EndPass(size)) \/ (\E dict \in {<<>>, Dictionary} : Train(dict)),
         ~\E e : EncodeFail(e)
  PROVE  EnvelopeInv'
<1>1. enc.ordinary \in Nat /\ ZstdSizes \subseteq Nat
  BY ArtifactFilesAssumption DEF EnvelopeInv
<1>2. enc.pc \in {"spool", "train"} /\ out' = out
  BY Zenon DEF EndPass, Train
<1>3. ASSUME enc'.pc \in {"spool", "stage", "train"}, enc'.binary = enc.binary, enc'.ordinary \in Nat
      PROVE  EnvelopeInv'
  BY <1>2, <1>3, EnvelopeQuiet DEF Written
<1>4. ASSUME NEW dict, NEW size \in Nat, enc' = Choose(enc, dict, size) PROVE EnvelopeInv'
  <2>1. enc'.pc \in {"spool", "stage"} /\ enc'.binary = enc.binary /\ enc'.ordinary \in Nat
    BY <1>1, <1>4, ChooseQuiet
  <2> QED  BY <1>3, <2>1
<1>5. ASSUME NEW size \in ZstdSizes, EndPass(size) PROVE EnvelopeInv'
  <2>1. \/ enc' = [enc EXCEPT !.pc = "stage", !.compression = "None"]
        \/ enc' = [enc EXCEPT !.pc = "train", !.ordinary = size]
        \/ enc' = Choose(enc, <<>>, size)
        \/ enc' = Choose(enc, <<>>, enc.ordinary)
        \/ \E dict : enc' = Choose(enc, dict, size)
    BY <1>5, Zenon DEF EndPass
  <2>2. CASE enc' = [enc EXCEPT !.pc = "stage", !.compression = "None"]
    BY <1>1, <1>3, <2>2 DEF EncoderShape
  <2>3. CASE enc' = [enc EXCEPT !.pc = "train", !.ordinary = size]
    BY <1>1, <1>3, <2>3 DEF EncoderShape
  <2> QED  BY <1>1, <1>4, <2>1, <2>2, <2>3
<1>6. ASSUME NEW dict, Train(dict) PROVE EnvelopeInv'
  <2>1. \/ enc' = Choose(enc, <<>>, enc.ordinary)
        \/ enc' = AgainAs([enc EXCEPT !.dict = dict], "dict")
    BY <1>6, Zenon DEF Train
  <2>2. CASE enc' = AgainAs([enc EXCEPT !.dict = dict], "dict")
    BY <1>1, <1>3, <2>2 DEF EncoderShape, AgainAs
  <2> QED  BY <1>1, <1>4, <2>1, <2>2
<1> QED  BY <1>5, <1>6

\* An error ends the command with what was there.
LEMMA FailQuiet ==
  ASSUME EncoderShape, EnvelopeInv, Encode, NEW e, EncodeFail(e)
  PROVE  EnvelopeInv'
<1>1. enc' = [enc EXCEPT !.pc = "failed", !.res = e] /\ out' = out
  BY DEF EncodeFail
<1>2. enc'.pc = "failed" /\ enc'.binary = enc.binary /\ enc'.ordinary = enc.ordinary
  BY <1>1 DEF EncoderShape
<1>3. enc.pc \notin Written
  <2>1. ASSUME enc.pc = "fill" PROVE FALSE
    <3>1. FillOutput
      BY <2>1 DEF Encode, EncodeStart, ScanOpen, ScanClose, EndScan, SpoolOpen, SpoolClose, EndPass, Train,
                  Stage, Verify, Persist, EncodeInMemory, CreateOutput
    <3>2. enc'.pc = "done"
      BY <3>1 DEF FillOutput, EncoderShape
    <3> QED  BY <1>2, <3>2
  <2>2. enc.pc \notin {"done", "failed", "crashed"}
    BY DEF Encode, EncodeStart, ScanOpen, ScanClose, EndScan, SpoolOpen, SpoolClose, EndPass, Train,
           Stage, Verify, Persist, EncodeInMemory, CreateOutput, FillOutput
  <2> QED  BY <2>1, <2>2 DEF Written
<1>4. enc'.ordinary \in Nat
  BY <1>2 DEF EnvelopeInv
<1> QED  BY <1>1, <1>2, <1>3, <1>4, EnvelopeQuiet


\* The steps of the scan and of the passes over the files.
LEMMA ReadingQuiet ==
  ASSUME EncoderShape, EnvelopeInv, ~\E e : EncodeFail(e),
         \/ \E o \in Options, hint \in Suggestions : EncodeStart(o, hint)
         \/ ScanOpen \/ ScanClose \/ EndScan \/ SpoolOpen \/ SpoolClose
  PROVE  EnvelopeInv'
<1>1. enc.pc \in {"idle", "scan", "spool"} /\ out' = out
  BY Zenon DEF EncodeStart, ScanOpen, ScanClose, EndScan, SpoolOpen, SpoolClose
<1>2. enc.ordinary \in Nat
  BY DEF EnvelopeInv
<1>3. ASSUME enc'.pc \in {"scan", "encode", "spool"}, enc'.binary = enc.binary, enc'.ordinary = enc.ordinary
      PROVE  EnvelopeInv'
  BY <1>1, <1>2, <1>3, EnvelopeQuiet DEF Written
<1>4. CASE \E o \in Options, hint \in Suggestions : EncodeStart(o, hint)
  <2>0. PICK o \in Options, hint \in Suggestions : EncodeStart(o, hint)
    BY <1>4
  <2>1. PICK mode : mode = IF o.format = "binary" /\ ~o.stdin THEN "stream" ELSE "memory"
    OBVIOUS
  <2>2. enc' = [enc EXCEPT !.pc = "scan", !.opts = o, !.hint = hint, !.mode = mode]
    BY <2>0, <2>1, Zenon DEF EncodeStart
  <2>3. enc'.pc = "scan" /\ enc'.binary = enc.binary /\ enc'.ordinary = enc.ordinary
    BY <2>2 DEF EncoderShape
  <2> QED  BY <1>3, <2>3
<1>5. CASE ScanOpen \/ ScanClose
  <2>1. enc.pc = "scan"
    BY <1>5 DEF ScanOpen, ScanClose
  <2>2. \/ \E i : enc' = [enc EXCEPT !.idx = i]
        \/ \E half, ex : enc' = [enc EXCEPT !.half = half, !.exec = ex]
        \/ \E i, scanned : enc' = [enc EXCEPT !.idx = i, !.half = 0, !.scanned = scanned]
    BY <1>5, Zenon DEF ScanOpen, ScanClose
  <2>3. ASSUME NEW i, enc' = [enc EXCEPT !.idx = i]
        PROVE  enc'.pc = "scan" /\ enc'.binary = enc.binary /\ enc'.ordinary = enc.ordinary
    BY <2>1, <2>3 DEF EncoderShape
  <2>4. ASSUME NEW half, NEW ex, enc' = [enc EXCEPT !.half = half, !.exec = ex]
        PROVE  enc'.pc = "scan" /\ enc'.binary = enc.binary /\ enc'.ordinary = enc.ordinary
    BY <2>1, <2>4 DEF EncoderShape
  <2>5. ASSUME NEW i, NEW scanned, enc' = [enc EXCEPT !.idx = i, !.half = 0, !.scanned = scanned]
        PROVE  enc'.pc = "scan" /\ enc'.binary = enc.binary /\ enc'.ordinary = enc.ordinary
    BY <2>1, <2>5 DEF EncoderShape
  <2>6. enc'.pc = "scan" /\ enc'.binary = enc.binary /\ enc'.ordinary = enc.ordinary
    BY <2>2, <2>3, <2>4, <2>5, Zenon
  <2> QED  BY <1>3, <2>6
<1>6. CASE EndScan
  <2>1. \/ enc' = [enc EXCEPT !.pc = "encode"]
        \/ \E pass : enc' = [enc EXCEPT !.pc = "spool", !.idx = 1, !.pass = pass]
    BY <1>6, Zenon DEF EndScan
  <2>2. CASE enc' = [enc EXCEPT !.pc = "encode"]
    BY <1>3, <2>2 DEF EncoderShape
  <2>3. ASSUME NEW pass, enc' = [enc EXCEPT !.pc = "spool", !.idx = 1, !.pass = pass] PROVE EnvelopeInv'
    BY <1>3, <2>3 DEF EncoderShape
  <2> QED  BY <2>1, <2>2, <2>3
<1>7. CASE SpoolOpen \/ SpoolClose
  <2>1. enc.pc = "spool"
    BY <1>7 DEF SpoolOpen, SpoolClose
  <2>2. \/ \E half : enc' = [enc EXCEPT !.half = half]
        \/ \E i, spooled : enc' = [enc EXCEPT !.half = 0, !.idx = i, !.spooled = spooled]
    BY <1>7, Zenon DEF SpoolOpen, SpoolClose
  <2>3. ASSUME NEW half, enc' = [enc EXCEPT !.half = half]
        PROVE  enc'.pc = "spool" /\ enc'.binary = enc.binary /\ enc'.ordinary = enc.ordinary
    BY <2>1, <2>3 DEF EncoderShape
  <2>4. ASSUME NEW i, NEW spooled, enc' = [enc EXCEPT !.half = 0, !.idx = i, !.spooled = spooled]
        PROVE  enc'.pc = "spool" /\ enc'.binary = enc.binary /\ enc'.ordinary = enc.ordinary
    BY <2>1, <2>4 DEF EncoderShape
  <2>5. enc'.pc = "spool" /\ enc'.binary = enc.binary /\ enc'.ordinary = enc.ordinary
    BY <2>2, <2>3, <2>4, Zenon
  <2> QED  BY <1>3, <2>5
<1> QED  BY <1>4, <1>5, <1>6, <1>7

\* The envelope is staged, and verified before it is committed.
LEMMA StagingStep ==
  ASSUME EncoderShape, EncoderTypes, EnvelopeInv, ~\E e : EncodeFail(e), Stage \/ Verify \/ Persist
  PROVE  EnvelopeInv'
<1>1. PlainTree(ScannedArtifact)
  BY ScannedPlain
<1>2. CASE Stage
  <2>1. PICK a : a = ScannedArtifact
    OBVIOUS
  <2>2. PICK b : b = Envelope(a, enc.dict, CanonicalEntries(a), enc.compression, enc.opts.profile,
                              Encoded(enc.spooled, enc.compression, enc.dict, enc.ordinary))
    OBVIOUS
  <2>3. enc.pc = "stage" /\ enc' = [enc EXCEPT !.pc = "verify", !.binary = b] /\ out' = out
    BY <1>2, <2>1, <2>2, Zenon DEF Stage
  <2>4. enc.spooled \in Seq(Nat) /\ enc.ordinary \in Nat
    BY DEF EncoderTypes, EnvelopeInv
  <2>5. Built(b, ScannedArtifact)
    BY <2>1, <2>2, <2>4, Zenon DEF Built
  <2>6. /\ enc'.scanned = enc.scanned /\ enc'.opts = enc.opts /\ enc'.hint = enc.hint
        /\ enc'.binary = b /\ enc'.ordinary = enc.ordinary /\ enc'.pc = "verify"
    BY <2>3 DEF EncoderShape
  <2>7. enc.pc \notin Written /\ enc'.pc \notin {"persist", "create", "fill", "done"}
    BY <2>3, <2>6 DEF Written
  <2> QED  BY <2>3, <2>5, <2>6, <2>7, EnvelopeMade
<1>3. CASE Verify
  <2>1. /\ enc.pc = "verify" /\ StreamDecodeError(enc.binary, enc.opts.limits) = Passed
        /\ enc' = [enc EXCEPT !.pc = "persist"] /\ out' = out
    BY <1>3, Zenon DEF Verify
  <2>2. /\ enc'.scanned = enc.scanned /\ enc'.opts = enc.opts /\ enc'.hint = enc.hint
        /\ enc'.binary = enc.binary /\ enc'.ordinary = enc.ordinary /\ enc'.pc = "persist"
    BY <2>1 DEF EncoderShape
  <2>3. Built(enc.binary, ScannedArtifact)
    BY <2>1 DEF EnvelopeInv
  <2>4. Checked(enc.binary, enc.opts.limits, ScannedArtifact)
    BY <1>1, <2>1, <2>3, BuiltChecked
  <2>5. enc.pc \notin Written
    BY <2>1 DEF Written
  <2>6. PICK b : b = enc.binary
    OBVIOUS
  <2> QED  BY <2>1, <2>2, <2>3, <2>4, <2>5, <2>6, EnvelopeMade
<1>4. CASE Persist
  <2>1. /\ enc.pc = "persist" /\ out' = [form |-> "binary", binary |-> enc.binary]
        /\ enc' = [enc EXCEPT !.pc = "done", !.res = Passed]
    BY <1>4, Zenon DEF Persist
  <2>2. /\ enc'.scanned = enc.scanned /\ enc'.opts = enc.opts /\ enc'.hint = enc.hint
        /\ enc'.binary = enc.binary /\ enc'.ordinary = enc.ordinary /\ enc'.pc = "done"
    BY <2>1 DEF EncoderShape
  <2>3. out'.form = "binary" /\ out'.binary = enc.binary
    BY <2>1
  <2>4. WellFormed(enc.binary)
    BY <1>1, <2>1, BuiltWellFormed DEF EnvelopeInv
  <2>5. Checked(enc.binary, enc.opts.limits, ScannedArtifact)
    BY <2>1 DEF EnvelopeInv, CommittedDecodes, Checked
  <2>6. WellFormed(out'.binary) /\ out'.form # "torn"
    BY <2>3, <2>4
  <2> QED  BY <2>1, <2>2, <2>4, <2>5, <2>6, EnvelopeKept
<1> QED  BY <1>2, <1>3, <1>4

\* In memory: the envelope is made and verified, the output created and filled.
LEMMA WritingStep ==
  ASSUME EncoderShape, EncoderTypes, EnvelopeInv, ~\E e : EncodeFail(e),
         \/ \E dict \in {<<>>, Dictionary}, s, t \in ZstdSizes : EncodeInMemory(dict, s, t)
         \/ CreateOutput \/ FillOutput
  PROVE  EnvelopeInv'
<1>1. PlainTree(ScannedArtifact)
  BY ScannedPlain
<1>2. CASE \E dict \in {<<>>, Dictionary}, s, t \in ZstdSizes : EncodeInMemory(dict, s, t)
  <2>1. PICK dict \in {<<>>, Dictionary}, s \in ZstdSizes, t \in ZstdSizes : EncodeInMemory(dict, s, t)
    BY <1>2
  <2>2. s \in Nat /\ t \in Nat
    BY ArtifactFilesAssumption
  <2>3. PICK a, opts : a = ScannedArtifact /\ opts = enc.opts
    OBVIOUS
  <2>4. PICK r : r = EncodeResult(a, opts, dict, s, t)
    OBVIOUS
  <2>5. PICK pc : pc = IF enc.opts.output THEN "create" ELSE "done"
    OBVIOUS
  <2>6. /\ enc.pc = "encode" /\ r.verify = Passed /\ out' = out
        /\ enc' = [enc EXCEPT !.pc = pc, !.binary = r.binary, !.res = Passed]
    BY <2>1, <2>3, <2>4, <2>5, Zenon DEF EncodeInMemory
  <2>7. PICK b : b = r.binary
    OBVIOUS
  <2>8. Built(b, a) /\ DecodeError(b, opts.limits) = Passed
    BY <1>1, <2>2, <2>3, <2>4, <2>6, <2>7, MemoryBuilt
  <2>9. Checked(b, opts.limits, a)
    BY <1>1, <2>3, <2>8, BuiltChecked
  <2>10. /\ enc'.scanned = enc.scanned /\ enc'.opts = enc.opts /\ enc'.hint = enc.hint
         /\ enc'.binary = b /\ enc'.ordinary = enc.ordinary
    BY <2>6, <2>7 DEF EncoderShape
  <2>11. enc.pc \notin Written
    BY <2>6 DEF Written
  <2> QED  BY <2>3, <2>6, <2>8, <2>9, <2>10, <2>11, EnvelopeMade
<1>3. ASSUME enc.pc \in {"create", "fill"}
      PROVE  /\ WellFormed(enc.binary) /\ enc.mode = "memory"
             /\ Checked(enc.binary, enc.opts.limits, ScannedArtifact)
  <2>1. WellFormed(enc.binary)
    BY <1>1, <1>3, BuiltWellFormed DEF EnvelopeInv
  <2>2. Checked(enc.binary, enc.opts.limits, ScannedArtifact)
    BY <1>3 DEF EnvelopeInv, CommittedDecodes, Checked
  <2>3. enc.mode = "memory"
    BY <1>3 DEF EncoderTypes
  <2> QED  BY <2>1, <2>2, <2>3
<1>4. CASE CreateOutput
  <2>1. /\ enc.pc = "create" /\ out' = [form |-> "torn", binary |-> enc.binary]
        /\ enc' = [enc EXCEPT !.pc = "fill"]
    BY <1>4, Zenon DEF CreateOutput
  <2>2. /\ enc'.scanned = enc.scanned /\ enc'.opts = enc.opts /\ enc'.hint = enc.hint
        /\ enc'.binary = enc.binary /\ enc'.ordinary = enc.ordinary /\ enc'.pc = "fill" /\ enc'.mode = enc.mode
    BY <2>1 DEF EncoderShape
  <2>3. out'.form = "torn" /\ out'.binary = enc.binary
    BY <2>1
  <2>4. WellFormed(out'.binary)
    BY <1>3, <2>1, <2>3
  <2> QED  BY <1>3, <2>1, <2>2, <2>4, EnvelopeKept
<1>5. CASE FillOutput
  <2>1. /\ enc.pc = "fill" /\ out' = [out EXCEPT !.form = enc.opts.format]
        /\ enc' = [enc EXCEPT !.pc = "done"]
    BY <1>5, Zenon DEF FillOutput
  <2>2. /\ enc'.scanned = enc.scanned /\ enc'.opts = enc.opts /\ enc'.hint = enc.hint
        /\ enc'.binary = enc.binary /\ enc'.ordinary = enc.ordinary /\ enc'.pc = "done" /\ enc'.mode = enc.mode
    BY <2>1 DEF EncoderShape
  <2>3. enc.opts.format \in {"binary", "token"}
    BY <2>1, ArtifactFilesAssumption DEF EncoderTypes
  <2>4. out'.form = enc.opts.format /\ out'.binary = out.binary
    BY <2>1 DEF EncoderShape
  <2>5. out'.form # "torn"
    BY <2>3, <2>4
  <2>6. WellFormed(out.binary)
    BY <2>1 DEF EncoderTypes, EnvelopeInv, Readable
  <2>7. WellFormed(out'.binary)
    BY <2>4, <2>6
  <2> QED  BY <1>3, <2>1, <2>2, <2>5, <2>7, EnvelopeKept
<1> QED  BY <1>2, <1>4, <1>5

\* Other programs: a killed command, another output, another artifact.
LEMMA OthersEnvelopeStep ==
  ASSUME EncoderShape, EncoderTypes, EnvelopeInv, Others
  PROVE  EnvelopeInv'
<1>1. ASSUME enc' = enc, out' = out PROVE EnvelopeInv'
  BY <1>1 DEF EnvelopeInv, Readable, LeftByWriteNew, CommittedDecodes, ScannedArtifact
<1>2. CASE Crash
  <2>1. CASE enc' = [enc EXCEPT !.pc = "crashed"]
    <3>1. /\ enc'.pc = "crashed" /\ enc'.mode = enc.mode /\ enc'.binary = enc.binary
          /\ enc'.ordinary = enc.ordinary
      BY <2>1 DEF EncoderShape
    <3>2. out' = out
      BY <1>2 DEF Crash
    <3>3. enc'.ordinary \in Nat
      BY <3>1 DEF EnvelopeInv
    <3> QED  BY <3>1, <3>2, <3>3, EnvelopeQuiet
  <2>2. CASE enc' = enc
    BY <1>1, <1>2, <2>2 DEF Crash
  <2> QED  BY <1>2, <2>1, <2>2 DEF Crash
<1>3. ASSUME enc' = enc, out'.form # "torn",
             out'.form \notin {"absent", "foreign"} =>
               WellFormed(out'.binary) /\ WellFormed(enc.binary) /\ Readable
      PROVE  EnvelopeInv'
  <2>1. CommittedDecodes' /\ (enc'.pc \in {"verify", "persist", "create", "fill", "done"} =>
                                Built(enc.binary, ScannedArtifact)')
    BY <1>3 DEF EnvelopeInv, CommittedDecodes, ScannedArtifact
  <2> QED  BY <1>3, <2>1 DEF EnvelopeInv, Readable, LeftByWriteNew
<1>4. CASE SwapArtifact
  <2>1. PICK b \in Replacements(enc.binary) \cup {enc.binary} : out' = [out EXCEPT !.binary = b]
    BY <1>4 DEF SwapArtifact
  <2>2. Readable /\ out.form # "torn" /\ enc' = enc
    BY <1>4 DEF SwapArtifact
  <2>3. out'.form = out.form /\ out'.binary = b
    BY <2>1 DEF EncoderShape
  <2>4. WellFormed(enc.binary)
    BY <2>2 DEF EnvelopeInv
  <2>5. WellFormed(b)
    BY <2>4, BinaryWellFormed DEF Replacements
  <2>6. WellFormed(out'.binary)
    BY <2>3, <2>5
  <2> QED  BY <1>3, <2>2, <2>3, <2>4, <2>6
<1>5. CASE CreateForeignOutput
  <2>1. enc' = enc /\ out' = [out EXCEPT !.form = "foreign"]
    BY <1>5 DEF CreateForeignOutput
  <2>2. out'.form = "foreign"
    BY <2>1 DEF EncoderShape
  <2> QED  BY <1>3, <2>1, <2>2
<1>6. CASE \/ \E i \in 1..N, what \in {"rewrite", "mode", "remove", "relink"} : WriteSource(i, what)
           \/ \E t \in Places, what \in {EmptyDir, Foreign} : CreateForeign(t, what)
  BY <1>1, <1>6 DEF WriteSource, CreateForeign
<1>7. CASE \E form \in {"torn", "token", "binary"} : FillFails(form)
  <2>1. PICK form : FillFails(form)
    BY <1>7
  <2>2. /\ enc.pc = "fill" /\ out' = [out EXCEPT !.form = form]
        /\ enc' = [enc EXCEPT !.pc = "failed", !.res = "Io"]
    BY <2>1 DEF FillFails
  <2>3. /\ enc'.pc = "failed" /\ enc'.res = "Io" /\ enc'.mode = enc.mode
        /\ enc'.binary = enc.binary /\ enc'.ordinary = enc.ordinary
    BY <2>2 DEF EncoderShape
  <2>4. out'.binary = out.binary
    BY <2>2 DEF EncoderShape
  <2>5. enc.mode = "memory" /\ Readable
    BY <2>2 DEF EncoderTypes, Readable
  <2>6. WellFormed(out'.binary) /\ WellFormed(enc'.binary)
    BY <2>3, <2>4, <2>5 DEF EnvelopeInv
  <2>7. LeftByWriteNew' /\ CommittedDecodes'
    BY <2>3, <2>5 DEF LeftByWriteNew, CommittedDecodes
  <2>8. enc'.ordinary \in Nat /\ enc'.pc \in Written
    BY <2>3 DEF EnvelopeInv, Written
  <2> QED  BY <2>3, <2>6, <2>7, <2>8 DEF EnvelopeInv
<1> QED  BY <1>2, <1>4, <1>5, <1>6, <1>7, Zenon DEF Others

\* Every step keeps it.
LEMMA EnvelopeStep ==
  ASSUME EncoderInv, EnvelopeInv, [Next]_vars
  PROVE  EnvelopeInv'
<1>1. EncoderShape /\ EncoderTypes
  BY DEF EncoderInv
<1>2. CASE Encode
  <2>1. CASE \E e : EncodeFail(e)
    BY <1>1, <1>2, <2>1, FailQuiet
  <2>2. CASE ~\E e : EncodeFail(e)
    <3>1. CASE \/ \E o \in Options, hint \in Suggestions : EncodeStart(o, hint)
               \/ ScanOpen \/ ScanClose \/ EndScan \/ SpoolOpen \/ SpoolClose
      BY <1>1, <2>2, <3>1, ReadingQuiet
    <3>2. CASE (\E size \in ZstdSizes : EndPass(size)) \/ (\E dict \in {<<>>, Dictionary} : Train(dict))
      BY <1>1, <2>2, <3>2, PassQuiet
    <3>3. CASE Stage \/ Verify \/ Persist
      BY <1>1, <2>2, <3>3, StagingStep
    <3>4. CASE \/ \E dict \in {<<>>, Dictionary}, s, t \in ZstdSizes : EncodeInMemory(dict, s, t)
               \/ CreateOutput \/ FillOutput
      BY <1>1, <2>2, <3>4, WritingStep
    <3> QED  BY <1>2, <3>1, <3>2, <3>3, <3>4, Zenon DEF Encode
  <2> QED  BY <2>1, <2>2
<1>3. ASSUME enc' = enc, out' = out PROVE EnvelopeInv'
  BY <1>3 DEF EnvelopeInv, Readable, LeftByWriteNew, CommittedDecodes, ScannedArtifact
<1>4. CASE Decode
  BY <1>3, <1>4, DecodeLeavesEncoder
<1>5. CASE Others
  BY <1>1, <1>5, OthersEnvelopeStep
<1>6. CASE UNCHANGED vars
  BY <1>3, <1>6 DEF vars
<1> QED  BY <1>2, <1>4, <1>5, <1>6 DEF Next

\* It holds from the start.
LEMMA EnvelopeInvariant == Spec => []EnvelopeInv
<1>1. Init => EnvelopeInv
  BY DEF Init, NoEncoder, NoOutput, EnvelopeInv, Readable, LeftByWriteNew, CommittedDecodes
<1>2. EncoderInv /\ EnvelopeInv /\ [Next]_vars => EnvelopeInv'
  BY EnvelopeStep
<1> QED  BY <1>1, <1>2, ArtifactInvariants, PTL DEF Spec

\* Whatever file stands where the artifact was written, the one-pass decoder and
\* the streaming decoder both accept it or both refuse it, under the limits of the
\* command: the envelope digest, the manifest and the payload are checked in
\* different orders, and the last of them over different bytes, to the same end
\* (decode_artifact, decode_artifact_file_inner).
THEOREM DecodersAlwaysAgree == Spec => []DecodersAgree
<1>1. EnvelopeInv => DecodersAgree
  BY DecodersAgreeOn DEF EnvelopeInv, DecodersAgree
<1> QED  BY <1>1, EnvelopeInvariant, PTL

-----------------------------------------------------------------------------
(* Sums and slices.                                                        *)

\* The sums of sizes up to each of the first n.
SummedUpTo(f, sizes, n) == f = [i \in 0..n |-> IF i = 0 THEN 0 ELSE f[i - 1] + sizes[i]]

\* The equation that defines them has a solution.
LEMMA SumsExist ==
  ASSUME NEW sizes, NEW n \in Nat
  PROVE  \E f : SummedUpTo(f, sizes, n)
<1> DEFINE S == {m \in Nat : ~\E f : SummedUpTo(f, sizes, m)}
<1> SUFFICES ASSUME S # {}  PROVE FALSE
  OBVIOUS
<1>1. PICK m \in S : \A j \in S : m <= j
  <2>1. S \subseteq Nat
    OBVIOUS
  <2> HIDE DEF S
  <2> QED  BY <2>1, Smallest
<1>2. m \in Nat /\ ~\E f : SummedUpTo(f, sizes, m)
  OBVIOUS
<1>3. m # 0
  <2> SUFFICES ASSUME m = 0  PROVE FALSE
    OBVIOUS
  <2> DEFINE f == [i \in 0..0 |-> 0]
  <2>1. f = [i \in 0..0 |-> IF i = 0 THEN 0 ELSE f[i - 1] + sizes[i]]
    OBVIOUS
  <2>2. SummedUpTo(f, sizes, 0)
    BY <2>1, Zenon DEF SummedUpTo
  <2> QED  BY <1>2, <2>2
<1>4. m - 1 \in Nat /\ m - 1 \notin S
  BY <1>1, <1>2, <1>3
<1>5. PICK f : SummedUpTo(f, sizes, m - 1)
  BY <1>4
<1> DEFINE With(i, v) == v + sizes[i]
           g == [i \in 0..m |-> IF i = m THEN With(m, f[m - 1]) ELSE f[i]]
<1>6. \A i \in 0..(m - 1) : f[i] = IF i = 0 THEN 0 ELSE With(i, f[i - 1])
  BY <1>5 DEF SummedUpTo
<1> HIDE DEF With, S
<1>7. \A i \in 0..m : g[i] = IF i = 0 THEN 0 ELSE With(i, g[i - 1])
  <2> SUFFICES ASSUME NEW i \in 0..m  PROVE g[i] = IF i = 0 THEN 0 ELSE With(i, g[i - 1])
    OBVIOUS
  <2>1. CASE i = m
    <3>1. g[m] = With(m, f[m - 1]) /\ g[m - 1] = f[m - 1]
      BY <1>2, <1>3
    <3> HIDE DEF g
    <3> QED  BY <1>3, <2>1, <3>1
  <2>2. CASE i # m
    <3>1. i \in 0..(m - 1) /\ g[i] = f[i]
      BY <1>2, <2>2
    <3>2. i # 0 => g[i - 1] = f[i - 1]
      BY <1>2, <3>1
    <3> HIDE DEF g
    <3> QED  BY <1>6, <3>1, <3>2
  <2> QED  BY <2>1, <2>2
<1>8. g = [i \in 0..m |-> IF i = 0 THEN 0 ELSE With(i, g[i - 1])]
  BY <1>7
<1>9. SummedUpTo(g, sizes, m)
  <2>1. PICK h : h = g
    OBVIOUS
  <2>2. h = [i \in 0..m |-> IF i = 0 THEN 0 ELSE With(i, h[i - 1])]
    BY <1>8, <2>1, Zenon
  <2> HIDE DEF g
  <2>3. SummedUpTo(h, sizes, m)
    BY <2>2, Zenon DEF SummedUpTo, With
  <2> QED  BY <2>1, <2>3
<1> QED  BY <1>2, <1>9

\* Total is the last of them.
LEMMA TotalIs ==
  ASSUME NEW sizes, NEW n \in Nat, Len(sizes) = n
  PROVE  \E f : SummedUpTo(f, sizes, n) /\ Total(sizes) = f[n]
<1> DEFINE all == CHOOSE f : f = [i \in 0..Len(sizes) |-> IF i = 0 THEN 0 ELSE f[i - 1] + sizes[i]]
<1>1. Total(sizes) = all[Len(sizes)]
  BY DEF Total
<1>2. \E f : SummedUpTo(f, sizes, Len(sizes))
  BY SumsExist
<1>3. SummedUpTo(all, sizes, Len(sizes))
  BY <1>2, Zenon DEF SummedUpTo
<1> HIDE DEF all
<1> QED  BY <1>1, <1>3

\* Two such joinings of lists agree as far as the lists do.
LEMMA JoinsAgree ==
  ASSUME NEW f, NEW g, NEW s, NEW t, NEW n \in Nat, NEW m \in Nat, m <= n,
         JoinedUpTo(f, s, n), JoinedUpTo(g, t, m), \A i \in 1..m : s[i] = t[i]
  PROVE  \A i \in 1..m : f[i] = g[i]
<1> DEFINE With(i, v) == v \o s[i]
<1>1. \A i \in 1..n : f[i] = IF i = 1 THEN s[i] ELSE With(i, f[i - 1])
  BY DEF JoinedUpTo
<1>2. \A i \in 1..m : g[i] = IF i = 1 THEN s[i] ELSE With(i, g[i - 1])
  <2>1. \A i \in 1..m : g[i] = IF i = 1 THEN t[i] ELSE g[i - 1] \o t[i]
    BY DEF JoinedUpTo
  <2>2. \A i \in 1..m : s[i] = t[i]
    OBVIOUS
  <2> QED  BY <2>1, <2>2, Zenon
<1> HIDE DEF With
<1> DEFINE S == {i \in Nat : i \in 1..m /\ f[i] # g[i]}
<1>3. S = {}
  <2> SUFFICES ASSUME S # {}  PROVE FALSE
    OBVIOUS
  <2>1. PICK k \in S : \A j \in S : k <= j
    <3>1. S \subseteq Nat
      OBVIOUS
    <3> HIDE DEF S
    <3> QED  BY <3>1, Smallest
  <2>2. k \in 1..m /\ k \in 1..n /\ f[k] # g[k]
    OBVIOUS
  <2>3. k # 1
    BY <1>1, <1>2, <2>2
  <2>4. k - 1 \in 1..m /\ k - 1 \in Nat /\ ~(k <= k - 1)
    BY <2>2, <2>3
  <2>5. k - 1 \notin S
    <3> HIDE DEF S
    <3> QED  BY <2>1, <2>4, Zenon
  <2>6. f[k - 1] = g[k - 1]
    BY <2>4, <2>5
  <2> QED  BY <1>1, <1>2, <2>2, <2>3, <2>6
<1> QED  BY <1>3

\* The list long begins with short.
Begins(long, short) == Len(short) <= Len(long) /\ \A j \in 1..Len(short) : long[j] = short[j]

\* Joining: lists over T, each beginning with those before it.
LEMMA JoinsGrow ==
  ASSUME NEW T, NEW parts, NEW n \in Nat, NEW f, JoinedUpTo(f, parts, n), \A i \in 1..n : parts[i] \in Seq(T)
  PROVE  /\ \A i \in 1..n : f[i] \in Seq(T)
         /\ \A i \in 1..n : f[i] = IF i = 1 THEN parts[i] ELSE f[i - 1] \o parts[i]
         /\ \A i, k \in 1..n : i <= k => Begins(f[k], f[i])
<1> DEFINE With(i, v) == v \o parts[i]
<1>1. \A i \in 1..n : f[i] = IF i = 1 THEN parts[i] ELSE With(i, f[i - 1])
  BY DEF JoinedUpTo
<1>2. \A i \in 1..n, v \in Seq(T) : With(i, v) \in Seq(T)
  OBVIOUS
<1>3. \A i \in 1..n, v \in Seq(T) : Begins(With(i, v), v)
  <2> SUFFICES ASSUME NEW i \in 1..n, NEW v \in Seq(T)  PROVE Begins(With(i, v), v)
    OBVIOUS
  <2>1. PICK w \in Seq(T) : w = parts[i]
    OBVIOUS
  <2>2. Len(v \o w) = Len(v) + Len(w) /\ \A j \in 1..Len(v) : (v \o w)[j] = v[j]
    OBVIOUS
  <2>3. Len(v) \in Nat /\ Len(w) \in Nat
    OBVIOUS
  <2> QED  BY <2>1, <2>2, <2>3 DEF Begins
<1>4. \A i \in 1..n : f[i] = IF i = 1 THEN parts[i] ELSE f[i - 1] \o parts[i]
  BY <1>1
<1> HIDE DEF With
<1> DEFINE S == {i \in Nat : i \in 1..n /\ f[i] \notin Seq(T)}
<1>5. S = {}
  <2> SUFFICES ASSUME S # {}  PROVE FALSE
    OBVIOUS
  <2>1. PICK k \in S : \A j \in S : k <= j
    <3>1. S \subseteq Nat
      OBVIOUS
    <3> HIDE DEF S
    <3> QED  BY <3>1, Smallest
  <2>2. k \in 1..n /\ f[k] \notin Seq(T)
    OBVIOUS
  <2>3. k # 1
    BY <1>1, <2>2
  <2>4. k - 1 \in 1..n /\ k - 1 \in Nat /\ ~(k <= k - 1)
    BY <2>2, <2>3
  <2>5. k - 1 \notin S
    <3> HIDE DEF S
    <3> QED  BY <2>1, <2>4, Zenon
  <2>6. f[k - 1] \in Seq(T)
    BY <2>4, <2>5
  <2> QED  BY <1>1, <1>2, <2>2, <2>3, <2>6
<1>6. \A i \in 1..n : f[i] \in Seq(T)
  BY <1>5
<1> HIDE DEF S
<1>7. ASSUME NEW i \in 1..n  PROVE \A k \in 1..n : i <= k => Begins(f[k], f[i])
  <2> DEFINE U == {k \in Nat : k \in i..n /\ ~Begins(f[k], f[i])}
  <2>1. U = {}
    <3> SUFFICES ASSUME U # {}  PROVE FALSE
      OBVIOUS
    <3>1. PICK k \in U : \A j \in U : k <= j
      <4>1. U \subseteq Nat
        OBVIOUS
      <4> HIDE DEF U
      <4> QED  BY <4>1, Smallest
    <3>2. k \in i..n /\ ~Begins(f[k], f[i])
      OBVIOUS
    <3>3. k # i
      <4>1. Len(f[i]) \in Nat
        BY <1>6
      <4> QED  BY <3>2, <4>1 DEF Begins
    <3>4. k - 1 \in i..n /\ k - 1 \in Nat /\ ~(k <= k - 1) /\ k \in 1..n /\ k # 1 /\ k - 1 \in 1..n
      BY <3>2, <3>3
    <3>5. k - 1 \notin U
      <4> HIDE DEF U
      <4> QED  BY <3>1, <3>4, Zenon
    <3>6. Begins(f[k - 1], f[i])
      BY <3>4, <3>5
    <3>7. Begins(f[k], f[k - 1])
      BY <1>1, <1>3, <1>6, <3>4
    <3>8. Len(f[k]) \in Nat /\ Len(f[k - 1]) \in Nat /\ Len(f[i]) \in Nat
      BY <1>6, <3>4
    <3>9. Begins(f[k], f[i])
      <4>1. PICK a, b, c : a = f[k] /\ b = f[k - 1] /\ c = f[i]
        OBVIOUS
      <4>2. Begins(b, c) /\ Begins(a, b) /\ Len(a) \in Nat /\ Len(b) \in Nat /\ Len(c) \in Nat
        BY <3>6, <3>7, <3>8, <4>1
      <4>3. Begins(a, c)
        BY <4>2 DEF Begins
      <4> QED  BY <4>1, <4>3
    <3> QED  BY <3>2, <3>9
  <2> QED  BY <2>1
<1> QED  BY <1>4, <1>6, <1>7

\* The first i of the lists joined.
UpTo(parts, i) == FlattenSeq([k \in 1..i |-> parts[k]])

\* They are those of one joining.
LEMMA UpToIs ==
  ASSUME NEW parts, NEW n \in Nat, NEW f, JoinedUpTo(f, parts, n)
  PROVE  \A i \in 0..n : UpTo(parts, i) = IF i = 0 THEN <<>> ELSE f[i]
<1> SUFFICES ASSUME NEW i \in 0..n  PROVE UpTo(parts, i) = IF i = 0 THEN <<>> ELSE f[i]
  OBVIOUS
<1>1. PICK s : s = [k \in 1..i |-> parts[k]]
  OBVIOUS
<1>2. Len(s) = i /\ i \in Nat /\ i <= n /\ \A k \in 1..i : parts[k] = s[k]
  BY <1>1
<1>3. UpTo(parts, i) = FlattenSeq(s)
  BY <1>1 DEF UpTo
<1>4. CASE i = 0
  <2>1. s = <<>>
    BY <1>1, <1>4
  <2>2. FlattenSeq(s) = s
    BY <1>2, <1>4 DEF FlattenSeq
  <2> QED  BY <1>3, <1>4, <2>1, <2>2
<1>5. CASE i # 0
  <2>1. PICK g : JoinedUpTo(g, s, i) /\ FlattenSeq(s) = g[i]
    BY <1>2, <1>5, FlattenIs
  <2>2. \A k \in 1..i : f[k] = g[k]
    BY <1>2, <2>1, JoinsAgree
  <2>3. i \in 1..i
    BY <1>2, <1>5
  <2> QED  BY <1>3, <1>5, <2>1, <2>2, <2>3
<1> QED  BY <1>4, <1>5

\* The joined list holds each list at the place where the lists before it end.
LEMMA Slices ==
  ASSUME NEW T, NEW parts, NEW n \in Nat, parts = [i \in 1..n |-> parts[i]],
         \A i \in 1..n : parts[i] \in Seq(T)
  PROVE  /\ \A i \in 0..n : UpTo(parts, i) \in Seq(T)
         /\ UpTo(parts, 0) = <<>> /\ UpTo(parts, n) = FlattenSeq(parts)
         /\ \A i \in 1..n : /\ UpTo(parts, i) = UpTo(parts, i - 1) \o parts[i]
                            /\ Len(UpTo(parts, i)) = Len(UpTo(parts, i - 1)) + Len(parts[i])
                            /\ Begins(FlattenSeq(parts), UpTo(parts, i))
<1>1. PICK f : JoinedUpTo(f, parts, n)
  BY JoinsExist
<1>2. \A i \in 0..n : UpTo(parts, i) = IF i = 0 THEN <<>> ELSE f[i]
  BY <1>1, UpToIs
<1>3. /\ \A i \in 1..n : f[i] \in Seq(T)
      /\ \A i \in 1..n : f[i] = IF i = 1 THEN parts[i] ELSE f[i - 1] \o parts[i]
      /\ \A i, k \in 1..n : i <= k => Begins(f[k], f[i])
  BY <1>1, JoinsGrow
<1>4. UpTo(parts, n) = FlattenSeq(parts)
  BY Zenon DEF UpTo
<1>5. <<>> \in Seq(T)
  OBVIOUS
<1>6. \A i \in 0..n : UpTo(parts, i) \in Seq(T)
  <2> TAKE i \in 0..n
  <2>1. CASE i = 0
    BY <1>2, <1>5, <2>1
  <2>2. CASE i # 0
    <3>1. i \in 1..n /\ UpTo(parts, i) = f[i]
      BY <1>2, <2>2
    <3> QED  BY <1>3, <3>1
  <2> QED  BY <2>1, <2>2
<1>7. UpTo(parts, 0) = <<>>
  BY <1>2
<1>8. ASSUME NEW i \in 1..n
      PROVE  /\ UpTo(parts, i) = UpTo(parts, i - 1) \o parts[i]
             /\ Len(UpTo(parts, i)) = Len(UpTo(parts, i - 1)) + Len(parts[i])
             /\ Begins(FlattenSeq(parts), UpTo(parts, i))
  <2>1. PICK w \in Seq(T) : w = parts[i]
    OBVIOUS
  <2>2. i - 1 \in 0..n /\ i \in 0..n /\ n \in 1..n /\ n \in 0..n /\ i <= n
    OBVIOUS
  <2>3. PICK v \in Seq(T) : v = UpTo(parts, i - 1)
    BY <1>6, <2>2
  <2>4. UpTo(parts, i) = v \o w
    <3>1. CASE i = 1
      <4>1. v = <<>> /\ f[1] = w
        BY <1>3, <1>7, <2>1, <2>3, <3>1
      <4>2. <<>> \o w = w
        OBVIOUS
      <4> QED  BY <1>2, <2>2, <3>1, <4>1, <4>2
    <3>2. CASE i # 1
      <4>1. i - 1 # 0 /\ i - 1 \in 1..n
        BY <3>2
      <4>2. v = f[i - 1] /\ f[i] = v \o w
        BY <1>2, <1>3, <2>1, <2>2, <2>3, <3>2, <4>1
      <4>3. UpTo(parts, i) = f[i]
        BY <1>2, <2>2, <3>2
      <4> QED  BY <4>2, <4>3
    <3> QED  BY <3>1, <3>2
  <2>5. Len(v \o w) = Len(v) + Len(w)
    OBVIOUS
  <2>6. UpTo(parts, i) = f[i] /\ FlattenSeq(parts) = f[n]
    BY <1>2, <1>4, <2>2
  <2>7. Begins(f[n], f[i])
    BY <1>3, <2>2
  <2> QED  BY <2>1, <2>3, <2>4, <2>5, <2>6, <2>7
<1> QED  BY <1>4, <1>6, <1>7, <1>8

\* What comes after v in a list that begins with v and w.
LEMMA MiddleSlice ==
  ASSUME NEW T, NEW v \in Seq(T), NEW w \in Seq(T), NEW all \in Seq(T), Begins(all, v \o w)
  PROVE  /\ Len(v) + Len(w) <= Len(all)
         /\ SubSeq(all, Len(v) + 1, Len(v) + Len(w)) = w
<1>1. PICK a \in Nat, b \in Nat, c \in Nat : a = Len(v) /\ b = Len(w) /\ c = Len(all)
  OBVIOUS
<1>2. Len(v \o w) = Len(v) + Len(w) /\ \A j \in 1..Len(w) : (v \o w)[Len(v) + j] = w[j]
  OBVIOUS
<1>3. PICK u : u = v \o w
  OBVIOUS
<1>4. Len(u) = a + b /\ (\A j \in 1..b : u[a + j] = w[j]) /\ Begins(all, u)
  BY <1>1, <1>2, <1>3
<1>5. a + b <= c /\ \A j \in 1..(a + b) : all[j] = u[j]
  BY <1>1, <1>4 DEF Begins
<1>6. \A j \in 1..b : a + j \in 1..(a + b)
  OBVIOUS
<1>7. \A j \in 1..b : all[a + j] = w[j]
  BY <1>4, <1>5, <1>6
<1>8. \A j \in (a + 1)..(a + b) : all[j] \in T
  <2>1. \A j \in (a + 1)..(a + b) : j \in 1..c
    BY <1>5
  <2> QED  BY <1>1, <2>1
<1>9. PICK s : s = SubSeq(all, a + 1, a + b)
  OBVIOUS
<1>10. PICK x \in Int, y \in Int : x = a + 1 /\ y = a + b
  OBVIOUS
<1>11. /\ s \in Seq(T) /\ Len(s) = IF x <= y THEN y - x + 1 ELSE 0
       /\ \A j \in 1..(y - x + 1) : s[j] = all[x + j - 1]
  BY <1>8, <1>9, <1>10, SubSeqProperties
<1>12. y - x + 1 = b /\ (x <= y <=> b # 0) /\ \A j \in 1..b : x + j - 1 = a + j
  BY <1>10
<1>13. Len(s) = b /\ \A j \in 1..b : s[j] = all[a + j]
  BY <1>11, <1>12
<1>14. Len(s) = Len(w) /\ \A j \in 1..Len(s) : s[j] = w[j]
  BY <1>1, <1>7, <1>13
<1>15. s = w
  BY <1>11, <1>14, SeqEqual
<1> QED  BY <1>1, <1>5, <1>9, <1>15

\* The lengths of lists add up to the length of the lists joined.
LEMMA TotalLength ==
  ASSUME NEW T, NEW parts, NEW n \in Nat, parts = [i \in 1..n |-> parts[i]],
         \A i \in 1..n : parts[i] \in Seq(T), NEW m \in 0..n,
         NEW sizes, sizes = [k \in 1..m |-> sizes[k]], \A k \in 1..m : sizes[k] = Len(parts[k])
  PROVE  Total(sizes) = Len(UpTo(parts, m))
<1>1. Len(sizes) = m /\ m \in Nat
  OBVIOUS
<1>2. PICK f : SummedUpTo(f, sizes, m) /\ Total(sizes) = f[m]
  BY <1>1, TotalIs
<1>3. \A i \in 0..m : f[i] = IF i = 0 THEN 0 ELSE f[i - 1] + sizes[i]
  BY <1>2 DEF SummedUpTo
<1>4. /\ UpTo(parts, 0) = <<>>
      /\ \A i \in 1..n : Len(UpTo(parts, i)) = Len(UpTo(parts, i - 1)) + Len(parts[i])
  BY Slices
<1> DEFINE S == {i \in Nat : i \in 0..m /\ f[i] # Len(UpTo(parts, i))}
<1>5. S = {}
  <2> SUFFICES ASSUME S # {}  PROVE FALSE
    OBVIOUS
  <2>1. PICK k \in S : \A j \in S : k <= j
    <3>1. S \subseteq Nat
      OBVIOUS
    <3> HIDE DEF S
    <3> QED  BY <3>1, Smallest
  <2>2. k \in 0..m /\ f[k] # Len(UpTo(parts, k))
    OBVIOUS
  <2>3. k # 0
    <3>1. Len(UpTo(parts, 0)) = 0 /\ f[0] = 0
      <4>1. 0 \in 0..m
        BY <1>1
      <4>2. Len(<<>>) = 0
        OBVIOUS
      <4> QED  BY <1>3, <1>4, <4>1, <4>2
    <3> QED  BY <2>2, <3>1
  <2>4. k - 1 \in 0..m /\ k - 1 \in Nat /\ ~(k <= k - 1) /\ k \in 1..m /\ k \in 1..n
    BY <1>1, <2>2, <2>3
  <2>5. k - 1 \notin S
    <3> HIDE DEF S
    <3> QED  BY <2>1, <2>4, Zenon
  <2>6. f[k - 1] = Len(UpTo(parts, k - 1))
    BY <2>4, <2>5
  <2>7. sizes[k] = Len(parts[k])
    BY <2>4
  <2> QED  BY <1>3, <1>4, <2>2, <2>3, <2>4, <2>6, <2>7
<1>6. m \in 0..m
  BY <1>1
<1> QED  BY <1>1, <1>2, <1>5, <1>6

\* An entry before another has a smaller rank.
LEMMA RankOrdered ==
  ASSUME NEW entries, Len(entries) \in Nat,
         \A i \in 1..Len(entries) : entries[i].path \in Seq(Nat),
         NEW i \in 1..Len(entries), NEW k \in 1..Len(entries), PathLess(entries[i].path, entries[k].path)
  PROVE  Rank(entries, i) < Rank(entries, k)
<1>1. PICK n \in Nat : n = Len(entries)
  OBVIOUS
<1>2. IsFiniteSet(1..n)
  BY FS_Interval
<1>3. Below(entries, i) \in SUBSET (1..n) /\ Below(entries, k) \in SUBSET (1..n) /\ i \in Below(entries, k)
  BY <1>1 DEF Below
<1>4. IsFiniteSet(Below(entries, i)) /\ IsFiniteSet(Below(entries, k))
  BY <1>2, <1>3, FS_Subset
<1>5. Cardinality(Below(entries, i)) \in Nat /\ Cardinality(Below(entries, k)) \in Nat
  BY <1>4, FS_CardinalityType
<1>6. Below(entries, i) \in SUBSET Below(entries, k) /\ i \notin Below(entries, i)
  BY <1>3, BelowOrdered
<1>7. Cardinality(Below(entries, i)) <= Cardinality(Below(entries, k))
      /\ Cardinality(Below(entries, i)) # Cardinality(Below(entries, k))
  BY <1>3, <1>4, <1>6, FS_Subset
<1>8. Rank(entries, i) = 1 + Cardinality(Below(entries, i)) /\ Rank(entries, k) = 1 + Cardinality(Below(entries, k))
  BY DEF Rank, Below
<1> QED  BY <1>5, <1>7, <1>8

-----------------------------------------------------------------------------
(* Errors that no encoding of one's own ends with.                         *)

\* A check that fails has an error outside SelfVerificationErrors, and a list of
\* such checks.
Innocent(c) == c[1] => c[2] \notin SelfVerificationErrors
InnocentList(l) == (\E T : l \in Seq(T)) /\ \A i \in 1..Len(l) : Innocent(l[i])

\* A check that does not fail, or has another error.
LEMMA InnocentCheck ==
  ASSUME NEW a, NEW e, ~a \/ e \notin SelfVerificationErrors
  PROVE  Innocent(<<a, e>>)
BY DEF Innocent

\* The error of such a list is another.
LEMMA ErrorInnocent ==
  ASSUME NEW l, InnocentList(l)
  PROVE  FirstError(l) \notin SelfVerificationErrors
<1>1. Len(l) \in Nat
  BY DEF InnocentList
<1>2. Passed \notin SelfVerificationErrors
  BY DEF Passed, SelfVerificationErrors
<1>3. CASE Failing(l) = {}
  BY <1>2, <1>3 DEF FirstError
<1>4. CASE Failing(l) # {}
  <2>1. PICK i \in Failing(l) : FirstError(l) = l[i][2]
    BY <1>1, <1>4, SomeFails
  <2>2. i \in 1..Len(l) /\ l[i][1]
    BY <2>1 DEF Failing
  <2> QED  BY <2>1, <2>2 DEF InnocentList, Innocent
<1> QED  BY <1>3, <1>4

\* Two lists, one after the other.
LEMMA BothInnocent ==
  ASSUME NEW l, NEW m, InnocentList(l), InnocentList(m)
  PROVE  InnocentList(l \o m)
<1>1. PICK S : l \in Seq(S)
  BY DEF InnocentList
<1>2. PICK U : m \in Seq(U)
  BY DEF InnocentList
<1>3. PICK T : T = S \cup U
  OBVIOUS
<1>4. l \in Seq(T) /\ m \in Seq(T)
  BY <1>1, <1>2, <1>3
<1>5. PICK p \in Nat, q \in Nat : p = Len(l) /\ q = Len(m)
  BY <1>4
<1>6. PICK n : n = l \o m
  OBVIOUS
<1>7. n \in Seq(T) /\ Len(n) = p + q
  BY <1>4, <1>5, <1>6
<1>8. \A i \in 1..p : n[i] = l[i]
  BY <1>4, <1>5, <1>6
<1>9. \A i \in 1..q : n[p + i] = m[i]
  BY <1>4, <1>5, <1>6
<1>10. ASSUME NEW i \in 1..(p + q)  PROVE Innocent(n[i])
  <2>1. i \in 1..p \/ (i - p \in 1..q /\ i = p + (i - p))
    BY <1>5
  <2>2. CASE i \in 1..p
    BY <1>5, <1>8, <2>2 DEF InnocentList
  <2>3. CASE i - p \in 1..q /\ i = p + (i - p)
    <3>1. n[i] = m[i - p]
      BY <1>9, <2>3
    <3> QED  BY <1>5, <2>3, <3>1 DEF InnocentList
  <2> QED  BY <2>1, <2>2, <2>3
<1> QED  BY <1>6, <1>7, <1>10 DEF InnocentList

\* Lists that are written out.
LEMMA OneInnocent ==
  ASSUME NEW c,
         Innocent(c)
  PROVE  InnocentList(<<c>>)
<1>1. PICK l : l = <<c>>
  OBVIOUS
<1>2. /\ l \in Seq({c}) /\ Len(l) = 1
      /\ l[1] = c
  BY <1>1
<1>3. \A n \in 1..1 : n = 1
  OBVIOUS
<1> QED  BY <1>1, <1>2, <1>3 DEF InnocentList

\* The same for two checks.
LEMMA TwoInnocent ==
  ASSUME NEW c, NEW d,
         Innocent(c), Innocent(d)
  PROVE  InnocentList(<<c, d>>)
<1>1. PICK l : l = <<c, d>>
  OBVIOUS
<1>2. /\ l \in Seq({c, d}) /\ Len(l) = 2
      /\ l[1] = c /\ l[2] = d
  BY <1>1
<1>3. \A n \in 1..2 : n = 1 \/ n = 2
  OBVIOUS
<1> QED  BY <1>1, <1>2, <1>3 DEF InnocentList

\* The same for three checks.
LEMMA ThreeInnocent ==
  ASSUME NEW c, NEW d, NEW e,
         Innocent(c), Innocent(d), Innocent(e)
  PROVE  InnocentList(<<c, d, e>>)
<1>1. PICK l : l = <<c, d, e>>
  OBVIOUS
<1>2. /\ l \in Seq({c, d, e}) /\ Len(l) = 3
      /\ l[1] = c /\ l[2] = d /\ l[3] = e
  BY <1>1
<1>3. \A n \in 1..3 : n = 1 \/ n = 2 \/ n = 3
  OBVIOUS
<1> QED  BY <1>1, <1>2, <1>3 DEF InnocentList

\* The same for four checks.
LEMMA FourInnocent ==
  ASSUME NEW c, NEW d, NEW e, NEW f,
         Innocent(c), Innocent(d), Innocent(e), Innocent(f)
  PROVE  InnocentList(<<c, d, e, f>>)
<1>1. PICK l : l = <<c, d, e, f>>
  OBVIOUS
<1>2. /\ l \in Seq({c, d, e, f}) /\ Len(l) = 4
      /\ l[1] = c /\ l[2] = d /\ l[3] = e /\ l[4] = f
  BY <1>1
<1>3. \A n \in 1..4 : n = 1 \/ n = 2 \/ n = 3 \/ n = 4
  OBVIOUS
<1> QED  BY <1>1, <1>2, <1>3 DEF InnocentList

\* The same for five checks.
LEMMA FiveInnocent ==
  ASSUME NEW c, NEW d, NEW e, NEW f, NEW g,
         Innocent(c), Innocent(d), Innocent(e), Innocent(f), Innocent(g)
  PROVE  InnocentList(<<c, d, e, f, g>>)
<1>1. PICK l : l = <<c, d, e, f, g>>
  OBVIOUS
<1>2. /\ l \in Seq({c, d, e, f, g}) /\ Len(l) = 5
      /\ l[1] = c /\ l[2] = d /\ l[3] = e /\ l[4] = f /\ l[5] = g
  BY <1>1
<1>3. \A n \in 1..5 : n = 1 \/ n = 2 \/ n = 3 \/ n = 4 \/ n = 5
  OBVIOUS
<1> QED  BY <1>1, <1>2, <1>3 DEF InnocentList

\* The same for nine checks.
LEMMA NineInnocent ==
  ASSUME NEW c, NEW d, NEW e, NEW f, NEW g, NEW h, NEW i, NEW j, NEW k,
         Innocent(c), Innocent(d), Innocent(e), Innocent(f), Innocent(g), Innocent(h), Innocent(i), Innocent(j), Innocent(k)
  PROVE  InnocentList(<<c, d, e, f, g, h, i, j, k>>)
<1>1. PICK l : l = <<c, d, e, f, g, h, i, j, k>>
  OBVIOUS
<1>2. /\ l \in Seq({c, d, e, f, g, h, i, j, k}) /\ Len(l) = 9
      /\ l[1] = c /\ l[2] = d /\ l[3] = e /\ l[4] = f /\ l[5] = g /\ l[6] = h /\ l[7] = i /\ l[8] = j /\ l[9] = k
  BY <1>1
<1>3. \A n \in 1..9 : n = 1 \/ n = 2 \/ n = 3 \/ n = 4 \/ n = 5 \/ n = 6 \/ n = 7 \/ n = 8 \/ n = 9
  OBVIOUS
<1> QED  BY <1>1, <1>2, <1>3 DEF InnocentList

\* Lists of checks joined are a list of checks.
LEMMA FlattenInnocent ==
  ASSUME NEW seqs, NEW n \in Nat, seqs = [i \in 1..n |-> seqs[i]], Len(seqs) = n,
         \A i \in 1..n : InnocentList(seqs[i])
  PROVE  InnocentList(FlattenSeq(seqs))
<1> DEFINE T == UNION {{seqs[i][j] : j \in 1..Len(seqs[i])} : i \in 1..n}
<1>1. \A i \in 1..n : seqs[i] \in Seq(T)
  <2> SUFFICES ASSUME NEW i \in 1..n  PROVE seqs[i] \in Seq(T)
    OBVIOUS
  <2>1. PICK U : seqs[i] \in Seq(U)
    BY DEF InnocentList
  <2>2. \A j \in 1..Len(seqs[i]) : seqs[i][j] \in T
    OBVIOUS
  <2> HIDE DEF T
  <2> QED  BY <2>1, <2>2
<1>2. \A c \in T : Innocent(c)
  BY DEF InnocentList
<1> HIDE DEF T
<1>3. FlattenSeq(seqs) \in Seq(T)
  BY <1>1, FlattenType
<1>4. PICK l : l = FlattenSeq(seqs)
  OBVIOUS
<1>5. l \in Seq(T)
  BY <1>3, <1>4, Zenon
<1>6. \A i \in 1..Len(l) : l[i] \in T
  BY <1>5
<1>7. \A i \in 1..Len(l) : Innocent(l[i])
  BY <1>2, <1>6, Zenon
<1> QED  BY <1>4, <1>5, <1>7, Zenon DEF InnocentList

-----------------------------------------------------------------------------
(* What is spooled.                                                        *)

\* What was read of each file, and of the first i files one after the other.
FileParts == [k \in 1..Len(enc.scanned) |-> enc.scanned[k].bytes]

\* The files are read in the order of their paths; a pass spools one after the
\* other; a dictionary is only there for a Zstandard frame; and no encoding is
\* given up because its own verification rejects it.
InOrder ==
  /\ \A j, k \in 1..Len(enc.scanned) : j < k => enc.scanned[j].index < enc.scanned[k].index
  /\ enc.scanned # <<>> /\ enc.opts.kind = "File" => Len(enc.scanned) = 1
Spooled ==
  /\ enc.pc \in {"idle", "scan"} => enc.spooled = <<>> /\ enc.dict = <<>>
  /\ enc.pc = "spool" => /\ enc.spooled = UpTo(FileParts, enc.idx - 1)
                         /\ enc.pass # "dict" => enc.dict = <<>>
  /\ enc.pc \in {"train", "stage", "verify"} => enc.spooled = FlattenSeq(FileParts)
Dictionaries ==
  /\ enc.dict \in {<<>>, Dictionary}
  /\ enc.pc \in {"stage", "verify"} =>
       enc.compression \in Algorithms /\ (enc.compression = "None" => enc.dict = <<>>)
SpoolInv == InOrder /\ Spooled /\ Dictionaries /\ enc.res \notin SelfVerificationErrors

-----------------------------------------------------------------------------
(* The payload and its places.                                             *)

\* Lists without some that are empty, in the same order, are joined to the same.
Skips(s, n, f, m, g) ==
  /\ s = [i \in 1..n |-> s[i]] /\ \A i \in 1..n : s[i] \in Seq(Nat)
  /\ f = [k \in 1..m |-> f[k]] /\ \A k \in 1..m : f[k] \in Seq(Nat)
  /\ \A k \in 1..m : g[k] \in 1..n /\ s[g[k]] = f[k]
  /\ \A j, k \in 1..m : j < k => g[j] < g[k]
  /\ \A i \in 1..n : (\E k \in 1..m : g[k] = i) \/ s[i] = <<>>

\* What is left out of a list of lists and is empty adds nothing to the joined list.
LEMMA JoinsSkipping ==
  ASSUME NEW s, NEW n \in Nat, NEW f, NEW m \in Nat, NEW g, Skips(s, n, f, m, g)
  PROVE  FlattenSeq(s) = FlattenSeq(f)
<1>0. PICK T : T = Nat
  OBVIOUS
<1>a. /\ s = [i \in 1..n |-> s[i]] /\ \A i \in 1..n : s[i] \in Seq(T)
      /\ f = [k \in 1..m |-> f[k]] /\ \A k \in 1..m : f[k] \in Seq(T)
  BY <1>0, Zenon DEF Skips
<1>b. /\ \A k \in 1..m : g[k] \in 1..n /\ s[g[k]] = f[k]
      /\ \A j, k \in 1..m : j < k => g[j] < g[k]
      /\ \A i \in 1..n : (\E k \in 1..m : g[k] = i) \/ s[i] = <<>>
  BY Zenon DEF Skips
<1> USE <1>a, <1>b
<1>1. /\ \A i \in 0..n : UpTo(s, i) \in Seq(T)
      /\ UpTo(s, 0) = <<>> /\ UpTo(s, n) = FlattenSeq(s)
      /\ \A i \in 1..n : UpTo(s, i) = UpTo(s, i - 1) \o s[i]
  BY Slices
<1>2. /\ UpTo(f, 0) = <<>> /\ UpTo(f, m) = FlattenSeq(f)
      /\ \A k \in 1..m : UpTo(f, k) = UpTo(f, k - 1) \o f[k]
  BY Slices
<1> DEFINE Cut(i, k) == (k = 0 \/ g[k] <= i) /\ (k = m \/ g[k + 1] > i)
           Bad == {i \in Nat : i \in 0..n /\ \E k \in 0..m : Cut(i, k) /\ UpTo(s, i) # UpTo(f, k)}
<1>3. Bad = {}
  <2> SUFFICES ASSUME Bad # {}  PROVE FALSE
    OBVIOUS
  <2>1. PICK i \in Bad : \A j \in Bad : i <= j
    <3>1. Bad \subseteq Nat
      OBVIOUS
    <3> HIDE DEF Bad
    <3> QED  BY <3>1, Smallest
  <2>2. PICK k \in 0..m : Cut(i, k) /\ UpTo(s, i) # UpTo(f, k)
    OBVIOUS
  <2>3. i \in 0..n
    OBVIOUS
  <2>4. k \in Nat /\ i \in Nat /\ (k # 0 => k \in 1..m /\ g[k] \in 1..n /\ g[k] \in Nat /\ s[g[k]] = f[k])
    <3>1. k \in Nat /\ i \in Nat /\ (k # 0 => k \in 1..m)
      BY <2>2, <2>3
    <3> QED  BY <3>1
  <2>5. i # 0
    <3> SUFFICES ASSUME i = 0  PROVE FALSE
      OBVIOUS
    <3>1. k = 0
      BY <2>2, <2>4
    <3> QED  BY <1>1, <1>2, <2>2, <3>1
  <2>6. i - 1 \in Nat /\ i - 1 \in 0..n /\ i \in 1..n /\ ~(i <= i - 1)
    BY <2>3, <2>5
  <2>7. \A x \in 0..m : Cut(i - 1, x) => UpTo(s, i - 1) = UpTo(f, x)
    <3>1. i - 1 \notin Bad
      <4> HIDE DEF Bad
      <4> QED  BY <2>1, <2>6, Zenon
    <3> HIDE DEF Cut
    <3> QED  BY <2>6, <3>1
  <2>8. CASE k # 0 /\ g[k] = i
    <3>1. k - 1 \in 0..m /\ (k - 1) + 1 = k
      BY <2>4, <2>8
    <3>2. k - 1 = 0 \/ g[k - 1] <= i - 1
      <4> SUFFICES ASSUME k - 1 # 0  PROVE g[k - 1] <= i - 1
        OBVIOUS
      <4>1. k - 1 \in 1..m /\ k \in 1..m /\ k - 1 < k
        BY <2>4, <2>8
      <4>2. g[k - 1] < g[k] /\ g[k - 1] \in 1..n
        BY <4>1
      <4> QED  BY <2>6, <2>8, <4>2
    <3>3. g[(k - 1) + 1] > i - 1
      BY <2>6, <2>8, <3>1
    <3>4. UpTo(s, i - 1) = UpTo(f, k - 1)
      BY <2>7, <3>1, <3>2, <3>3
    <3>5. s[i] = f[k] /\ k \in 1..m
      BY <2>4, <2>8
    <3> QED  BY <1>1, <1>2, <2>2, <2>6, <3>4, <3>5
  <2>9. CASE k = 0 \/ g[k] # i
    <3>1. k = 0 \/ g[k] <= i - 1
      BY <2>2, <2>4, <2>6, <2>9
    <3>2. k = m \/ g[k + 1] > i - 1
      <4> SUFFICES ASSUME k # m  PROVE g[k + 1] > i - 1
        OBVIOUS
      <4>1. k + 1 \in 1..m /\ g[k + 1] > i
        BY <2>2, <2>4
      <4>2. g[k + 1] \in 1..n
        BY <4>1
      <4> QED  BY <2>6, <4>1, <4>2
    <3>3. UpTo(s, i - 1) = UpTo(f, k)
      BY <2>2, <2>7, <3>1, <3>2
    <3>4. ~\E x \in 1..m : g[x] = i
      <4> SUFFICES ASSUME NEW x \in 1..m, g[x] = i  PROVE FALSE
        OBVIOUS
      <4>1. CASE k = 0 \/ k < x
        <5>1. k # m /\ k + 1 \in 1..m /\ (k + 1 < x \/ k + 1 = x)
          BY <2>4, <4>1
        <5>2. g[k + 1] > i /\ g[k + 1] \in 1..n
          BY <2>2, <5>1
        <5>3. g[k + 1] <= g[x]
          <6>1. CASE k + 1 < x
            BY <4>1, <5>1, <5>2, <6>1
          <6>2. CASE k + 1 = x
            BY <5>2, <6>2
          <6> QED  BY <5>1, <6>1, <6>2
        <5> QED  BY <2>6, <5>2, <5>3
      <4>2. CASE k # 0 /\ x < k
        <5>1. g[x] < g[k] /\ g[k] <= i
          BY <2>2, <2>4, <4>2
        <5> QED  BY <2>4, <2>6, <4>2, <5>1
      <4>3. CASE k # 0 /\ x = k
        BY <2>9, <4>3
      <4> QED  BY <2>4, <4>1, <4>2, <4>3
    <3>5. s[i] = <<>>
      BY <2>6, <3>4
    <3>6. PICK v \in Seq(T) : v = UpTo(s, i - 1)
      BY <1>1, <2>6
    <3>7. v \o <<>> = v
      OBVIOUS
    <3> QED  BY <1>1, <2>2, <2>6, <3>3, <3>5, <3>6, <3>7
  <2> QED  BY <2>8, <2>9
<1>4. m = 0 \/ g[m] <= n
  <2>1. m # 0 => m \in 1..m
    OBVIOUS
  <2>2. m # 0 => g[m] \in 1..n
    BY <2>1
  <2> QED  BY <2>2
<1>5. n \in 0..n /\ m \in 0..m
  OBVIOUS
<1>6. UpTo(s, n) = UpTo(f, m)
  BY <1>3, <1>4, <1>5
<1> QED  BY <1>1, <1>2, <1>6

\* The contents of a list of entries.
ByteParts(s) == [i \in 1..Len(s) |-> s[i].bytes]

\* The places of the entries in the payload.
LEMMA CanonicalPlaces ==
  ASSUME NEW a, PlainTree(a), NEW s, s = Sorted(a), NEW n, n = Len(s), NEW e, e = CanonicalEntries(a),
         NEW parts, parts = ByteParts(s)
  PROVE  /\ n \in Nat /\ Len(e) = n /\ PayloadOf(s) = FlattenSeq(parts)
         /\ parts = [i \in 1..n |-> parts[i]]
         /\ \A i \in 1..n :
              /\ parts[i] \in Seq(Nat) /\ parts[i] = s[i].bytes /\ e[i].path = s[i].path
              /\ s[i].kind = "File" => /\ e[i].kind = "File" /\ e[i].digest = file_digest(parts[i])
                                       /\ e[i].offset = Len(UpTo(parts, i - 1)) /\ e[i].size = Len(parts[i])
              /\ s[i].kind # "File" => e[i].kind = "Directory" /\ parts[i] = <<>>
<1>0. parts = [i \in 1..n |-> s[i].bytes]
  BY DEF ByteParts
<1>1. PlainList(s) /\ n \in Nat
  BY SortedPlainTree
<1>2. Len(e) = n /\ \A i \in 1..n : e[i] = CanonicalEntry(s, i)
  <2>1. e = [i \in 1..n |-> CanonicalEntry(s, i)]
    BY Zenon DEF CanonicalEntries
  <2> QED  BY <1>1, <2>1
<1>3. \A i \in 1..n : /\ s[i].bytes \in Seq(Nat) /\ parts[i] = s[i].bytes
                      /\ s[i].kind # "File" => s[i].kind = "Directory" /\ s[i].bytes = <<>>
  <2>1. \A i \in 1..n : PlainEntry(s[i])
    BY <1>1 DEF PlainList
  <2>2. \A i \in 1..n : s[i].bytes \in Seq(Nat) /\ (s[i].kind # "File" => s[i].kind = "Directory" /\ s[i].bytes = <<>>)
    BY <2>1 DEF PlainEntry, TreeEntries
  <2> QED  BY <1>0, <2>2
<1>4. PayloadOf(s) = FlattenSeq(parts) /\ parts = [i \in 1..n |-> parts[i]]
  <2>1. PayloadOf(s) = FlattenSeq(parts)
    BY <1>0, Zenon DEF PayloadOf
  <2> QED  BY <1>0, <2>1
<1>5. ASSUME NEW i \in 1..n  PROVE SizeBefore(s, i) = Len(UpTo(parts, i - 1))
  <2>1. PICK k \in Nat : k = i - 1 /\ k <= n
    BY <1>1
  <2>2. PICK t : t = SubSeq(s, 1, k)
    OBVIOUS
  <2>3. Len(t) = k /\ \A j \in 1..k : t[j] = s[j]
    <3>1. s \in Seq(TreeEntries) /\ Len(s) = n
      BY <1>1 DEF PlainList
    <3> QED  BY <1>1, <2>1, <2>2, <3>1
  <2>4. [j \in 1..Len(t) |-> t[j].bytes] = [j \in 1..k |-> parts[j]]
    <3>1. \A j \in 1..k : j \in 1..n
      BY <1>1, <2>1
    <3>2. \A j \in 1..k : t[j].bytes = parts[j]
      BY <1>3, <2>3, <3>1
    <3> QED  BY <2>3, <3>2
  <2>5. PayloadOf(t) = UpTo(parts, k)
    BY <2>4, Zenon DEF PayloadOf, UpTo
  <2> QED  BY <2>1, <2>2, <2>5, Zenon DEF SizeBefore
<1>6. ASSUME NEW i \in 1..n, s[i].kind = "File"
      PROVE  /\ e[i].kind = "File" /\ e[i].digest = file_digest(parts[i]) /\ e[i].path = s[i].path
             /\ e[i].offset = Len(UpTo(parts, i - 1)) /\ e[i].size = Len(parts[i])
  <2>1. PICK before, size, digest :
          before = SizeBefore(s, i) /\ size = Len(s[i].bytes) /\ digest = file_digest(s[i].bytes)
    OBVIOUS
  <2>2. e[i] = [kind |-> "File", path |-> s[i].path, offset |-> before, size |-> size, digest |-> digest,
                executable |-> s[i].executable]
    BY <1>2, <1>6, <2>1, Zenon DEF CanonicalEntry
  <2>3. e[i].kind = "File" /\ e[i].digest = digest /\ e[i].path = s[i].path /\ e[i].offset = before /\ e[i].size = size
    BY <2>2
  <2> QED  BY <1>3, <1>5, <2>1, <2>3, Zenon
<1>7. ASSUME NEW i \in 1..n, s[i].kind # "File"
      PROVE  e[i].kind = "Directory" /\ e[i].path = s[i].path
  <2>0. PICK no : no = FALSE
    OBVIOUS
  <2>1. e[i] = [kind |-> "Directory", path |-> s[i].path, offset |-> 0, size |-> 0, digest |-> NoDigest,
                executable |-> no]
    BY <1>2, <1>7, <2>0, Zenon DEF CanonicalEntry
  <2> QED  BY <2>1
<1>8. \A i \in 1..n : e[i].path = s[i].path
  BY <1>6, <1>7, Zenon
<1>9. ASSUME NEW i \in 1..n
      PROVE  /\ parts[i] \in Seq(Nat) /\ parts[i] = s[i].bytes /\ e[i].path = s[i].path
             /\ s[i].kind = "File" => /\ e[i].kind = "File" /\ e[i].digest = file_digest(parts[i])
                                      /\ e[i].offset = Len(UpTo(parts, i - 1)) /\ e[i].size = Len(parts[i])
             /\ s[i].kind # "File" => e[i].kind = "Directory" /\ parts[i] = <<>>
  <2>1. parts[i] \in Seq(Nat) /\ parts[i] = s[i].bytes /\ e[i].path = s[i].path
    BY <1>3, <1>8
  <2>2. s[i].kind # "File" => e[i].kind = "Directory" /\ parts[i] = <<>>
    BY <1>3, <1>7
  <2> QED  BY <1>6, <2>1, <2>2, Zenon
<1> QED  BY <1>1, <1>2, <1>4, <1>9, Zenon

\* The offset expected after m entries.
LEMMA OffsetIs ==
  ASSUME NEW e, NEW m \in Nat
  PROVE  ExpectedOffset(e, m + 1) = Total([k \in 1..m |-> IF e[k].kind = "File" THEN e[k].size ELSE 0])
<1>1. ExpectedOffset(e, m + 1) = Total([k \in 1..((m + 1) - 1) |-> IF e[k].kind = "File" THEN e[k].size ELSE 0])
  BY DEF ExpectedOffset
<1>2. (m + 1) - 1 = m
  OBVIOUS
<1> QED  BY <1>1, <1>2

\* The offsets add up, and each entry has its bytes at its place.
LEMMA CanonicalSlices ==
  ASSUME NEW a, PlainTree(a), NEW s, s = Sorted(a), NEW n, n = Len(s), NEW e, e = CanonicalEntries(a),
         NEW payload, payload = PayloadOf(s)
  PROVE  /\ \A i \in 1..n : e[i].kind = "File" =>
              e[i].offset = ExpectedOffset(e, i) /\ e[i].digest = file_digest(Slice(payload, e[i]))
         /\ ExpectedOffset(e, n + 1) = Len(payload)
<1>1. PICK parts : parts = ByteParts(s)
  OBVIOUS
<1>2. /\ n \in Nat /\ Len(e) = n /\ payload = FlattenSeq(parts)
      /\ parts = [i \in 1..n |-> parts[i]]
      /\ \A i \in 1..n :
           /\ parts[i] \in Seq(Nat)
           /\ s[i].kind = "File" => /\ e[i].kind = "File" /\ e[i].digest = file_digest(parts[i])
                                    /\ e[i].offset = Len(UpTo(parts, i - 1)) /\ e[i].size = Len(parts[i])
           /\ s[i].kind # "File" => e[i].kind = "Directory" /\ parts[i] = <<>>
  BY <1>1, CanonicalPlaces
<1>3. \A i \in 1..n : parts[i] \in Seq(Nat)
  BY <1>2
<1>4. /\ \A i \in 0..n : UpTo(parts, i) \in Seq(Nat)
      /\ UpTo(parts, n) = FlattenSeq(parts)
      /\ \A i \in 1..n : /\ UpTo(parts, i) = UpTo(parts, i - 1) \o parts[i]
                         /\ Begins(FlattenSeq(parts), UpTo(parts, i))
  BY <1>2, <1>3, Slices
<1>5. ASSUME NEW i \in 1..n, e[i].kind = "File"
      PROVE  e[i].digest = file_digest(Slice(payload, e[i]))
  <2>1. s[i].kind = "File"
    BY <1>2, <1>5
  <2>2. PICK v \in Seq(Nat), w \in Seq(Nat) : v = UpTo(parts, i - 1) /\ w = parts[i]
    <3>1. i - 1 \in 0..n
      BY <1>2
    <3> QED  BY <1>3, <1>4, <3>1
  <2>3. payload \in Seq(Nat) /\ Begins(payload, v \o w)
    <3>1. n \in 0..n
      BY <1>2
    <3> QED  BY <1>2, <1>4, <2>2, <3>1
  <2>4. SubSeq(payload, Len(v) + 1, Len(v) + Len(w)) = w
    BY <2>3, MiddleSlice
  <2>5. e[i].offset = Len(v) /\ e[i].size = Len(w) /\ e[i].digest = file_digest(w)
    BY <1>2, <2>1, <2>2
  <2>6. Slice(payload, e[i]) = w
    BY <2>4, <2>5, Zenon DEF Slice
  <2> QED  BY <2>5, <2>6, Zenon
<1>6. ASSUME NEW m \in 0..n  PROVE ExpectedOffset(e, m + 1) = Len(UpTo(parts, m))
  <2>1. PICK sizes : sizes = [k \in 1..m |-> IF e[k].kind = "File" THEN e[k].size ELSE 0]
    OBVIOUS
  <2>2. sizes = [k \in 1..m |-> sizes[k]]
    BY <2>1
  <2>3. ASSUME NEW k \in 1..m  PROVE sizes[k] = Len(parts[k])
    <3>1. k \in 1..n
      BY <1>2
    <3>2. sizes[k] = IF e[k].kind = "File" THEN e[k].size ELSE 0
      BY <2>1
    <3>3. CASE s[k].kind = "File"
      BY <1>2, <3>1, <3>2, <3>3
    <3>4. CASE s[k].kind # "File"
      <4>1. e[k].kind # "File" /\ parts[k] = <<>>
        BY <1>2, <3>1, <3>4
      <4>2. Len(<<>>) = 0
        OBVIOUS
      <4> QED  BY <3>2, <4>1, <4>2
    <3> QED  BY <3>3, <3>4
  <2>4. Total(sizes) = Len(UpTo(parts, m))
    BY <1>2, <1>3, <2>2, <2>3, TotalLength
  <2>5. m \in Nat
    BY <1>2
  <2> QED  BY <2>1, <2>4, <2>5, OffsetIs
<1>7. ASSUME NEW i \in 1..n, e[i].kind = "File"
      PROVE  e[i].offset = ExpectedOffset(e, i)
  <2>1. PICK m \in 0..n : m = i - 1
    BY <1>2
  <2>2. m + 1 = i
    BY <1>2, <2>1
  <2>3. s[i].kind = "File"
    BY <1>2, <1>7
  <2> QED  BY <1>2, <1>6, <2>1, <2>2, <2>3
<1>8. ExpectedOffset(e, n + 1) = Len(payload)
  <2>1. n \in 0..n
    BY <1>2
  <2> QED  BY <1>2, <1>4, <1>6, <2>1
<1> QED  BY <1>5, <1>7, <1>8

\* The sorted entries are those of the artifact at their ranks.
LEMMA SortedByRank ==
  ASSUME NEW a, PlainTree(a), a.kind # "File", NEW entries, entries = a.entries, NEW s, s = Sorted(a),
         NEW n \in Nat, n = Len(entries)
  PROVE  /\ \A j \in 1..n : Rank(entries, j) \in 1..n /\ s[Rank(entries, j)] = entries[j]
         /\ \A k \in 1..n : \E j \in 1..n : Rank(entries, j) = k /\ s[k] = entries[j]
         /\ \A j \in 1..n : entries[j] \in TreeEntries /\ entries[j].path \in Seq(Nat)
<1>1. \A j \in 1..n : entries[j] \in TreeEntries /\ entries[j].path \in Seq(Nat)
  <2>1. \A j \in 1..n : entries[j] \in TreeEntries
    BY DEF PlainTree, PlainList
  <2> QED  BY <2>1 DEF TreeEntries
<1> DEFINE at(k) == CHOOSE j \in 1..n : Rank(entries, j) = k
<1>2. s = [k \in 1..n |-> entries[at(k)]]
  BY DEF Sorted
<1>3. /\ \A j \in 1..n : Rank(entries, j) \in 1..n
      /\ \A j, k \in 1..n : Rank(entries, j) = Rank(entries, k) => j = k
      /\ \A k \in 1..n : \E j \in 1..n : Rank(entries, j) = k
  BY <1>1, RankBijective
<1>4. \A k \in 1..n : at(k) \in 1..n /\ Rank(entries, at(k)) = k
  BY <1>3
<1> HIDE DEF at
<1>5. \A j \in 1..n : at(Rank(entries, j)) = j
  BY <1>3, <1>4
<1>6. \A k \in 1..n : s[k] = entries[at(k)]
  BY <1>2
<1>7. \A j \in 1..n : Rank(entries, j) \in 1..n /\ s[Rank(entries, j)] = entries[j]
  BY <1>3, <1>5, <1>6
<1>8. \A k \in 1..n : \E j \in 1..n : Rank(entries, j) = k /\ s[k] = entries[j]
  BY <1>4, <1>6
<1> QED  BY <1>1, <1>7, <1>8

\* The place of one entry.
LEMMA RankOfEntry ==
  ASSUME NEW a, PlainTree(a), a.kind # "File", NEW j \in 1..Len(a.entries)
  PROVE  Rank(a.entries, j) \in 1..Len(a.entries) /\ Sorted(a)[Rank(a.entries, j)] = a.entries[j]
<1>1. PICK entries, s, n : entries = a.entries /\ s = Sorted(a) /\ n = Len(entries)
  OBVIOUS
<1>2. n \in Nat /\ j \in 1..n
  BY <1>1 DEF PlainTree, PlainList
<1>3. \A k \in 1..n : entries[k].path \in Seq(Nat)
  BY <1>1, <1>2, SortedByRank
<1> DEFINE at(x) == CHOOSE k \in 1..n : Rank(entries, k) = x
<1>4. s = [x \in 1..n |-> entries[at(x)]]
  BY <1>1 DEF Sorted
<1>5. /\ Rank(entries, j) \in 1..n
      /\ \A k \in 1..n : Rank(entries, k) = Rank(entries, j) => k = j
  <2>1. /\ \A k \in 1..n : Rank(entries, k) \in 1..n
        /\ \A k, x \in 1..n : Rank(entries, k) = Rank(entries, x) => k = x
        /\ \A x \in 1..n : \E k \in 1..n : Rank(entries, k) = x
    <3> HIDE DEF at
    <3>1. n \in Nat /\ n = Len(entries)
      BY <1>1, <1>2
    <3> QED  BY <1>3, <3>1, RankBijective
  <2> QED  BY <1>2, <2>1
<1>6. at(Rank(entries, j)) = j
  BY <1>2, <1>5
<1> HIDE DEF at
<1>7. s[Rank(entries, j)] = entries[j]
  BY <1>4, <1>5, <1>6
<1> QED  BY <1>1, <1>5, <1>7, Zenon

\* The entry at one place.
LEMMA EntryOfRank ==
  ASSUME NEW a, PlainTree(a), a.kind # "File", NEW k \in 1..Len(a.entries)
  PROVE  \E j \in 1..Len(a.entries) : Rank(a.entries, j) = k /\ Sorted(a)[k] = a.entries[j]
<1>1. PICK entries, s, n : entries = a.entries /\ s = Sorted(a) /\ n = Len(entries)
  OBVIOUS
<1>2. n \in Nat /\ k \in 1..n
  BY <1>1 DEF PlainTree, PlainList
<1>3. \A j \in 1..n : entries[j].path \in Seq(Nat)
  BY <1>1, <1>2, SortedByRank
<1> DEFINE at(x) == CHOOSE j \in 1..n : Rank(entries, j) = x
<1>4. s = [x \in 1..n |-> entries[at(x)]]
  BY <1>1 DEF Sorted
<1>5. \E j \in 1..n : Rank(entries, j) = k
  <2>1. /\ \A j \in 1..n : Rank(entries, j) \in 1..n
        /\ \A j, x \in 1..n : Rank(entries, j) = Rank(entries, x) => j = x
        /\ \A x \in 1..n : \E j \in 1..n : Rank(entries, j) = x
    <3> HIDE DEF at
    <3>1. n \in Nat /\ n = Len(entries)
      BY <1>1, <1>2
    <3> QED  BY <1>3, <3>1, RankBijective
  <2> QED  BY <1>2, <2>1
<1>6. at(k) \in 1..n /\ Rank(entries, at(k)) = k
  BY <1>5
<1> HIDE DEF at
<1>7. s[k] = entries[at(k)]
  BY <1>2, <1>4
<1> QED  BY <1>1, <1>6, <1>7, Zenon

\* The artifact of a single file has no entry besides it.
Tidy(a) == a.kind = "File" => Len(a.entries) <= 1

\* The entries of the manifest are in path order.
LEMMA CanonicalOrder ==
  ASSUME NEW a, PlainTree(a), Tidy(a), NEW n, n = Len(Sorted(a)), NEW e, e = CanonicalEntries(a), NEW i \in 2..n
  PROVE  ~PathLess(e[i].path, e[i - 1].path)
<1>1. PICK entries : entries = a.entries
  OBVIOUS
<1>2. PICK s : s = Sorted(a)
  OBVIOUS
<1>3. n \in Nat /\ n = Len(entries) /\ PlainList(entries)
  BY <1>1, SortedPlainTree DEF PlainTree
<1>4. a.kind # "File"
  BY <1>1, <1>3 DEF Tidy
<1>5. \A k \in 1..n : e[k].path = s[k].path
  <2>1. PICK parts : parts = ByteParts(s)
    OBVIOUS
  <2>2. n = Len(s)
    BY <1>2
  <2> QED  BY <1>2, <2>1, <2>2, CanonicalPlaces
<1>6. /\ \A k \in 1..n : \E j \in 1..n : Rank(entries, j) = k /\ s[k] = entries[j]
      /\ \A j \in 1..n : entries[j].path \in Seq(Nat)
  <2>1. \A j \in 1..n : entries[j].path \in Seq(Nat)
    BY <1>1, <1>2, <1>3, <1>4, SortedByRank
  <2>2. ASSUME NEW k \in 1..n  PROVE \E j \in 1..n : Rank(entries, j) = k /\ s[k] = entries[j]
    <3>1. k \in 1..Len(a.entries)
      BY <1>1, <1>3
    <3>2. \E j \in 1..Len(a.entries) : Rank(a.entries, j) = k /\ Sorted(a)[k] = a.entries[j]
      BY <1>4, <3>1, EntryOfRank
    <3>3. entries = a.entries /\ s = Sorted(a) /\ n = Len(entries)
      BY <1>1, <1>2, <1>3
    <3> QED  BY <3>2, <3>3
  <2> QED  BY <2>1, <2>2
<1>9. i \in 1..n /\ i - 1 \in 1..n /\ ~(i < i - 1)
  BY <1>3
<1>10. PICK j \in 1..n : Rank(entries, j) = i /\ s[i] = entries[j]
  BY <1>6, <1>9
<1>11. PICK k \in 1..n : Rank(entries, k) = i - 1 /\ s[i - 1] = entries[k]
  BY <1>6, <1>9
<1>13. ~PathLess(entries[j].path, entries[k].path)
  <2> SUFFICES ASSUME PathLess(entries[j].path, entries[k].path)  PROVE FALSE
    OBVIOUS
  <2>1. Rank(entries, j) < Rank(entries, k)
    BY <1>3, <1>6, RankOrdered
  <2> QED  BY <1>9, <1>10, <1>11, <2>1
<1> QED  BY <1>5, <1>9, <1>10, <1>11, <1>13

-----------------------------------------------------------------------------
(* An encoder's own envelope passes what verification would find wrong.    *)

\* The rest of the fields of an envelope.
LEMMA EnvelopeRest ==
  ASSUME NEW a, NEW dict, NEW entries, NEW compression, NEW profile, NEW stored,
         NEW b, b = Envelope(a, dict, entries, compression, profile, stored)
  PROVE  /\ b.header.defect = Passed /\ b.header.flags = metadata_flags(b.manifest)
         /\ b.header.entry_count = Len(entries) /\ b.header.manifest_size = ManifestSize(b.manifest)
         /\ b.header.original_size = Len(DecodedBytes(stored, compression))
         /\ b.header.content_digest = content_digest(a.kind, entries)
         /\ b.header.envelope_digest = envelope_digest(b.header, b.manifest, Taken(stored, 0, stored.size))
         /\ b.manifest.dictionary = dict /\ b.manifest.count = Len(entries) /\ b.manifest.trailing = 0
<1>1. PICK m : m = Manifest(a, dict, entries)
  OBVIOUS
<1>2. PICK flags, size, original, content :
        flags = metadata_flags(m) /\ size = ManifestSize(m)
        /\ original = Len(DecodedBytes(stored, compression)) /\ content = content_digest(a.kind, entries)
  OBVIOUS
<1>3. PICK h : h = [defect |-> Passed, kind |-> a.kind, compression |-> compression, profile |-> profile,
                    flags |-> flags, entry_count |-> Len(entries), manifest_size |-> size,
                    original_size |-> original, stored_size |-> stored.size,
                    content_digest |-> content, envelope_digest |-> NoDigest]
  OBVIOUS
<1>4. PICK e : e = [header |-> h, manifest |-> m, stored |-> stored, trailing |-> 0]
  OBVIOUS
<1>5. b = Sealed(e)
  BY <1>1, <1>2, <1>3, <1>4, Zenon DEF Envelope
<1>6. PICK d : d = envelope_digest(e.header, e.manifest, Taken(e.stored, e.trailing, e.header.stored_size))
  OBVIOUS
<1>7. b = [e EXCEPT !.header.envelope_digest = d]
  BY <1>5, <1>6 DEF Sealed
<1>8. b.header = [h EXCEPT !.envelope_digest = d] /\ b.manifest = m
  BY <1>4, <1>7
<1>9. PICK g : g = b.header
  OBVIOUS
<1>10. /\ g.defect = Passed /\ g.flags = flags /\ g.entry_count = Len(entries) /\ g.manifest_size = size
       /\ g.original_size = original /\ g.content_digest = content /\ g.envelope_digest = d
       /\ g.kind = h.kind /\ g.compression = h.compression /\ g.profile = h.profile /\ g.flags = h.flags
       /\ g.entry_count = h.entry_count /\ g.manifest_size = h.manifest_size
       /\ g.original_size = h.original_size /\ g.stored_size = h.stored_size
       /\ g.content_digest = h.content_digest
  BY <1>3, <1>8, <1>9
<1>11. m.dictionary = dict /\ m.count = Len(entries) /\ m.trailing = 0
  BY <1>1 DEF Manifest
<1>12. e.header = h /\ e.manifest = m /\ e.stored = stored /\ e.trailing = 0 /\ h.stored_size = stored.size
  BY <1>3, <1>4
<1>13. PICK taken : taken = Taken(stored, 0, stored.size)
  OBVIOUS
<1>14. d = envelope_digest(h, m, taken)
  BY <1>6, <1>12, <1>13, Zenon
<1>15. envelope_digest(h, m, taken) = envelope_digest(g, m, taken)
  BY <1>10, Zenon DEF envelope_digest
<1> QED  BY <1>2, <1>8, <1>9, <1>10, <1>11, <1>13, <1>14, <1>15, Zenon

\* An envelope of a's own entries and payload, with no dictionary but a frame's.
Honest(b, a) ==
  \E size \in Nat, dict \in {<<>>, Dictionary}, compression \in Algorithms : \E profile :
    /\ compression = "None" => dict = <<>>
    /\ b = Envelope(a, dict, CanonicalEntries(a), compression, profile,
                    Encoded(PayloadOf(Sorted(a)), compression, dict, size))

\* What header, manifest and stored bytes of such an envelope say of each other.
SelfMade(b, a) ==
  /\ b.header.defect = Passed /\ b.header.kind = a.kind /\ b.header.flags = metadata_flags(b.manifest)
  /\ b.header.manifest_size = ManifestSize(b.manifest)
  /\ b.manifest.entries = CanonicalEntries(a) /\ b.manifest.trailing = 0
  /\ b.manifest.count = Len(b.manifest.entries) /\ b.header.entry_count = b.manifest.count
  /\ ~(Len(b.manifest.dictionary) > MaxDictionarySize)
  /\ b.header.compression = "None" \/ b.header.compression = "Zstd"
  /\ b.header.compression = "None" => b.manifest.dictionary = <<>>
  /\ b.header.compression = "Zstd" => FrameDecodes(b.stored, b.manifest.dictionary)
  /\ b.header.content_digest = content_digest(b.header.kind, b.manifest.entries)
  /\ b.header.stored_size = b.stored.size
  /\ Taken(b.stored, b.trailing, b.header.stored_size) = b.stored
  /\ b.header.envelope_digest = envelope_digest(b.header, b.manifest, b.stored)
  /\ DecodedBytes(b.stored, b.header.compression) = PayloadOf(Sorted(a))
  /\ b.header.original_size = Len(PayloadOf(Sorted(a)))

\* What such a payload decodes to.
LEMMA EncodedDecoded ==
  ASSUME NEW data, NEW compression \in Algorithms, NEW dict, NEW size, NEW stored,
         stored = Encoded(data, compression, dict, size)
  PROVE  /\ DecodedBytes(stored, compression) = data
         /\ compression = "Zstd" => FrameDecodes(stored, dict)
<1>1. CASE compression = "None"
  <2>1. stored = [form |-> "raw", data |-> data, dict |-> <<>>, size |-> Len(data)]
    BY <1>1 DEF Encoded, Raw
  <2>2. stored.form = "raw" /\ stored.data = data
    BY <2>1
  <2> QED  BY <1>1, <2>2 DEF DecodedBytes, BytesOf
<1>2. CASE compression # "None"
  <2>1. stored = [form |-> "frame", data |-> data, dict |-> dict, size |-> size]
    BY <1>2 DEF Encoded, Frame
  <2>2. stored.form = "frame" /\ stored.data = data /\ stored.dict = dict
    BY <2>1
  <2> QED  BY <1>2, <2>2 DEF DecodedBytes, FrameDecodes
<1> QED  BY <1>1, <1>2

\* No dictionary is longer than the limit.
LEMMA DictionaryFits ==
  ASSUME NEW dict \in {<<>>, Dictionary}
  PROVE  ~(Len(dict) > MaxDictionarySize)
<1>1. Len(<<>>) = 0
  OBVIOUS
<1>2. CASE dict = <<>>
  BY <1>1, <1>2, DictionaryAssumption
<1>3. CASE dict = Dictionary
  BY <1>3, DictionaryAssumption
<1> QED  BY <1>2, <1>3

\* Header, manifest and stored bytes of an honest envelope agree.
LEMMA HonestSelfMade ==
  ASSUME NEW a, PlainTree(a), NEW b, Honest(b, a)
  PROVE  SelfMade(b, a)
<1>0. PICK size \in Nat, dict \in {<<>>, Dictionary}, compression \in Algorithms : \E profile :
        /\ compression = "None" => dict = <<>>
        /\ b = Envelope(a, dict, CanonicalEntries(a), compression, profile,
                        Encoded(PayloadOf(Sorted(a)), compression, dict, size))
  BY Zenon DEF Honest
<1>1. PICK profile :
        /\ compression = "None" => dict = <<>>
        /\ b = Envelope(a, dict, CanonicalEntries(a), compression, profile,
                        Encoded(PayloadOf(Sorted(a)), compression, dict, size))
  BY <1>0, Zenon
<1>2. PICK payload \in Seq(Nat) : payload = PayloadOf(Sorted(a))
  BY PayloadType
<1>3. PICK stored : stored = Encoded(payload, compression, dict, size)
  OBVIOUS
<1>4. PICK entries : entries = CanonicalEntries(a)
  OBVIOUS
<1>5. b = Envelope(a, dict, entries, compression, profile, stored)
  BY <1>1, <1>2, <1>3, <1>4, Zenon
<1>6. PICK h, m : h = b.header /\ m = b.manifest
  OBVIOUS
<1>7. /\ h.kind = a.kind /\ h.compression = compression /\ h.stored_size = stored.size
      /\ m.entries = entries /\ b.stored = stored /\ b.trailing = 0
  BY <1>5, <1>6, EnvelopeFields
<1>8. /\ h.defect = Passed /\ h.flags = metadata_flags(m)
      /\ h.entry_count = Len(entries) /\ h.manifest_size = ManifestSize(m)
      /\ h.original_size = Len(DecodedBytes(stored, compression))
      /\ h.content_digest = content_digest(a.kind, entries)
      /\ h.envelope_digest = envelope_digest(h, m, Taken(stored, 0, stored.size))
      /\ m.dictionary = dict /\ m.count = Len(entries) /\ m.trailing = 0
  BY <1>5, <1>6, EnvelopeRest
<1>9. Taken(stored, 0, stored.size) = stored
  BY <1>3, TakenAll
<1>10. /\ DecodedBytes(stored, compression) = payload
       /\ compression = "Zstd" => FrameDecodes(stored, dict)
  BY <1>3, EncodedDecoded
<1>11. ~(Len(dict) > MaxDictionarySize)
  BY DictionaryFits
<1>12. compression = "None" \/ compression = "Zstd"
  BY DEF Algorithms
<1> QED  BY <1>1, <1>2, <1>4, <1>6, <1>7, <1>8, <1>9, <1>10, <1>11, <1>12, Zenon DEF SelfMade

\* The empty list.
LEMMA NoneInnocent == InnocentList(<<>>)
<1>1. <<>> \in Seq({}) /\ \A j \in 1..Len(<<>>) : Innocent(<<>>[j])
  OBVIOUS
<1> QED  BY <1>1, Zenon DEF InnocentList

\* The checks before the manifest.
LEMMA HeaderInnocent ==
  ASSUME NEW b, NEW limits, b.header.defect = Passed
  PROVE  InnocentList(HeaderChecks(b, limits))
<1>1. PICK h : h = b.header
  OBVIOUS
<1> DEFINE c == BinarySize(b) > limits.max_capsule_bytes
           d == h.defect # Passed
           e == BinarySize(b) # HeaderSize + h.manifest_size + h.stored_size
           p == h.entry_count > limits.max_file_count
           q == h.manifest_size > limits.max_manifest_bytes
           r == h.stored_size > limits.max_compressed_payload_bytes
           s == h.original_size > limits.max_uncompressed_payload_bytes
           first == << <<c, "BinaryTooLarge">>, <<d, h.defect>> >>
           second == << <<p, "TooManyEntries">>, <<q, "ManifestTooLarge">>, <<r, "BinaryTooLarge">>,
                        <<s, "PayloadTooLarge">> >>
           third == << <<e, "EnvelopeLengthMismatch">> >>
<1>2. HeaderChecks(b, limits) = first \o second \o third
  BY <1>1, Zenon DEF HeaderChecks, enforce_binary_size, enforce_header_limits, enforce_entry_count,
                     enforce_payload_size
<1>3. ~d
  BY <1>1
<1> HIDE DEF c, d, e, p, q, r, s
<1>4. /\ Innocent(<<c, "BinaryTooLarge">>) /\ Innocent(<<p, "TooManyEntries">>)
      /\ Innocent(<<q, "ManifestTooLarge">>) /\ Innocent(<<r, "BinaryTooLarge">>)
      /\ Innocent(<<s, "PayloadTooLarge">>) /\ Innocent(<<e, "EnvelopeLengthMismatch">>)
  BY InnocentCheck DEF SelfVerificationErrors
<1>5. Innocent(<<d, h.defect>>)
  BY <1>3, InnocentCheck
<1>6. InnocentList(first) /\ InnocentList(second) /\ InnocentList(third)
  BY <1>4, <1>5, OneInnocent, TwoInnocent, FourInnocent
<1> HIDE DEF first, second, third
<1>7. InnocentList(first \o second)
  BY <1>6, BothInnocent
<1>8. InnocentList((first \o second) \o third)
  BY <1>6, <1>7, BothInnocent
<1> QED  BY <1>2, <1>8

\* The checks of one entry of the manifest, at its offset and in its order.
LEMMA EntryInnocent ==
  ASSUME NEW m, NEW i, NEW kind, NEW limits,
         m.entries[i].kind = "File" => m.entries[i].offset = ExpectedOffset(m.entries, i),
         i # 1 => ~PathLess(m.entries[i].path, m.entries[i - 1].path)
  PROVE  InnocentList(decode_manifest_entry(m, i, kind, limits))
<1>1. PICK e, before, offset :
        e = m.entries[i] /\ before = m.entries[i - 1] /\ offset = ExpectedOffset(m.entries, i)
  OBVIOUS
<1> DEFINE p == e.kind \notin {"File", "Directory"}
           q == e.path # <<>> /\ ~ValidPath(e.path, limits.max_path_bytes)
           r == kind = "File" /\ e.path # <<>>
           s == kind = "Directory" /\ e.path = <<>>
           t == e.size > limits.max_single_file_bytes
           u == e.offset # offset
           v == e.offset # 0 \/ e.size # 0 \/ e.digest # NoDigest
           w == e.executable
           x == before.path = e.path /\ e.path # <<>>
           y == PathLess(e.path, before.path)
           shape == << <<p, "InvalidDirectoryEntry">>, <<q, "Path">>, <<r, "InvalidFileShape">>,
                       <<s, "InvalidDirectoryShape">> >>
           file == << <<t, "FileTooLarge">>, <<u, "InvalidPayloadRange">> >>
           dir == << <<v, "InvalidDirectoryEntry">>, <<w, "ExecutableDirectory">> >>
           later == << <<x, "DuplicatePath">>, <<y, "NonCanonicalOrder">> >>
           content == IF e.kind = "File" THEN file ELSE dir
           order == IF i = 1 THEN <<>> ELSE later
<1>2. decode_manifest_entry(m, i, kind, limits) = shape \o content \o order
  BY <1>1, Zenon DEF decode_manifest_entry, EntryShapeChecks, enforce_file_size
<1>3. (e.kind = "File" => ~u) /\ (i # 1 => ~y)
  BY <1>1, Zenon
<1> HIDE DEF p, q, r, s, t, u, v, w, x, y
<1>4. /\ Innocent(<<p, "InvalidDirectoryEntry">>) /\ Innocent(<<q, "Path">>) /\ Innocent(<<r, "InvalidFileShape">>)
      /\ Innocent(<<s, "InvalidDirectoryShape">>) /\ Innocent(<<t, "FileTooLarge">>)
      /\ Innocent(<<v, "InvalidDirectoryEntry">>) /\ Innocent(<<w, "ExecutableDirectory">>)
      /\ Innocent(<<x, "DuplicatePath">>)
  BY InnocentCheck DEF SelfVerificationErrors
<1>5. e.kind = "File" => Innocent(<<u, "InvalidPayloadRange">>)
  BY <1>3, InnocentCheck
<1>6. i # 1 => Innocent(<<y, "NonCanonicalOrder">>)
  BY <1>3, InnocentCheck
<1>7. InnocentList(shape)
  BY <1>4, FourInnocent
<1>8. InnocentList(content)
  <2>1. e.kind = "File" => InnocentList(file)
    BY <1>4, <1>5, TwoInnocent
  <2>2. InnocentList(dir)
    BY <1>4, TwoInnocent
  <2> HIDE DEF file, dir
  <2> QED  BY <2>1, <2>2
<1>9. InnocentList(order)
  <2>1. i # 1 => InnocentList(later)
    BY <1>4, <1>6, TwoInnocent
  <2> HIDE DEF later
  <2> QED  BY <2>1, NoneInnocent
<1> HIDE DEF shape, content, order
<1>10. InnocentList(shape \o content)
  BY <1>7, <1>8, BothInnocent
<1>11. InnocentList((shape \o content) \o order)
  BY <1>9, <1>10, BothInnocent
<1> QED  BY <1>2, <1>11

\* The checks of the manifest of an envelope of one's own.
LEMMA ManifestInnocent ==
  ASSUME NEW a, PlainTree(a), Tidy(a), NEW b, SelfMade(b, a), NEW limits
  PROVE  InnocentList(ManifestChecks(b.manifest, b.header, limits))
<1>0. PICK m, h : m = b.manifest /\ h = b.header
  OBVIOUS
<1>1. PICK s, payload, e : s = Sorted(a) /\ payload = PayloadOf(s) /\ e = CanonicalEntries(a)
  OBVIOUS
<1>2. PICK n \in Nat : n = Len(s)
  BY <1>1, SortedPlainTree
<1>3. Len(e) = n /\ m.entries = e /\ h.original_size = Len(payload)
  <2>1. PICK parts : parts = ByteParts(s)
    OBVIOUS
  <2>2. Len(e) = n
    BY <1>1, <1>2, <2>1, CanonicalPlaces
  <2> QED  BY <1>0, <1>1, <2>2, Zenon DEF SelfMade
<1>4. /\ \A i \in 1..n : e[i].kind = "File" => e[i].offset = ExpectedOffset(e, i)
      /\ ExpectedOffset(e, n + 1) = Len(payload)
  BY <1>1, <1>2, CanonicalSlices
<1>5. \A i \in 2..n : ~PathLess(e[i].path, e[i - 1].path)
  BY <1>1, <1>2, CanonicalOrder
<1> DEFINE f == h.manifest_size # ManifestSize(m)
           q == m.name # <<>> /\ (Len(m.name) > 1 \/ ~ValidPath(m.name, limits.max_path_bytes))
           r == m.path # <<>> /\ ~ValidPath(m.path, limits.max_path_bytes)
           k == Len(m.dictionary) > MaxDictionarySize
           t == m.dictionary # <<>> /\ h.compression # "Zstd"
           u == metadata_flags(m) # h.flags
           v == m.count # h.entry_count
           w == m.count > limits.max_file_count
           x == m.count > Len(m.entries)
           each == [i \in 1..Len(m.entries) |-> decode_manifest_entry(m, i, h.kind, limits)]
           y == m.trailing # 0 \/ m.count < Len(m.entries)
           z == ExpectedOffset(m.entries, Len(m.entries) + 1) # h.original_size
           c == \E i, j \in 1..Len(m.entries) :
                  i < j /\ m.entries[i].kind = "File" /\ IsStrictPrefix(m.entries[i].path, m.entries[j].path)
                        /\ m.entries[i].path # <<>>
           d == h.kind = "File" /\ (Len(m.entries) # 1 \/ \E i \in 1..Len(m.entries) : m.entries[i].kind # "File")
           first == << <<f, "UnexpectedEof">>, <<q, "InvalidName">>, <<r, "Path">>, <<k, "InvalidDictionary">>,
                       <<t, "InvalidDictionary">>, <<u, "MetadataFlagMismatch">>, <<v, "EntryCountMismatch">>,
                       <<w, "TooManyEntries">>, <<x, "UnexpectedEof">> >>
           third == << <<y, "EnvelopeLengthMismatch">>, <<z, "InvalidPayloadRange">>, <<c, "PathTypeConflict">>,
                       <<d, "InvalidFileShape">> >>
<1>6. ManifestChecks(m, h, limits) = first \o FlattenSeq(each) \o third
  BY Zenon DEF ManifestChecks, validate_suggested_name, enforce_entry_count, validate_tree
<1>7. ~f /\ ~k /\ ~t /\ ~u /\ ~v
  BY <1>0, Zenon DEF SelfMade
<1>8. ~x
  <2>1. m.count = n /\ Len(m.entries) = n
    BY <1>0, <1>3, Zenon DEF SelfMade
  <2> QED  BY <2>1
<1>9. ~z
  BY <1>3, <1>4, Zenon
<1>10. InnocentList(FlattenSeq(each))
  <2>1. each = [i \in 1..n |-> each[i]] /\ Len(each) = n
    BY <1>3
  <2>2. ASSUME NEW i \in 1..n  PROVE InnocentList(each[i])
    <3>1. m.entries[i].kind = "File" => m.entries[i].offset = ExpectedOffset(m.entries, i)
      BY <1>3, <1>4, Zenon
    <3>2. i # 1 => i \in 2..n
      OBVIOUS
    <3>3. i # 1 => ~PathLess(m.entries[i].path, m.entries[i - 1].path)
      BY <1>3, <1>5, <3>2, Zenon
    <3>4. each[i] = decode_manifest_entry(m, i, h.kind, limits)
      BY <1>3
    <3> QED  BY <3>1, <3>3, <3>4, EntryInnocent
  <2> HIDE DEF each
  <2> QED  BY <2>1, <2>2, FlattenInnocent
<1> HIDE DEF f, q, r, k, t, u, v, w, x, y, z, c, d, each
<1>11. /\ Innocent(<<q, "InvalidName">>) /\ Innocent(<<r, "Path">>) /\ Innocent(<<w, "TooManyEntries">>)
       /\ Innocent(<<y, "EnvelopeLengthMismatch">>) /\ Innocent(<<c, "PathTypeConflict">>)
       /\ Innocent(<<d, "InvalidFileShape">>)
  BY InnocentCheck DEF SelfVerificationErrors
<1>12. /\ Innocent(<<f, "UnexpectedEof">>) /\ Innocent(<<k, "InvalidDictionary">>)
       /\ Innocent(<<t, "InvalidDictionary">>) /\ Innocent(<<u, "MetadataFlagMismatch">>)
       /\ Innocent(<<v, "EntryCountMismatch">>) /\ Innocent(<<x, "UnexpectedEof">>)
       /\ Innocent(<<z, "InvalidPayloadRange">>)
  BY <1>7, <1>8, <1>9, InnocentCheck
<1>13. InnocentList(first) /\ InnocentList(third)
  BY <1>11, <1>12, NineInnocent, FourInnocent
<1> HIDE DEF first, third
<1>14. PICK second : second = FlattenSeq(each)
  OBVIOUS
<1>15. InnocentList(second) /\ ManifestChecks(m, h, limits) = (first \o second) \o third
  BY <1>6, <1>10, <1>14, Zenon
<1>16. InnocentList(first \o second)
  BY <1>13, <1>15, BothInnocent
<1>17. InnocentList((first \o second) \o third)
  BY <1>13, <1>16, BothInnocent
<1> QED  BY <1>0, <1>15, <1>17

\* Neither decompressor finds its bytes wrong.
LEMMA InflateInnocent ==
  ASSUME NEW stored, NEW compressed, stored.size = compressed,
         NEW algorithm, NEW dict, NEW declared, NEW limits,
         algorithm = "None" => dict = <<>>, algorithm = "Zstd" => FrameDecodes(stored, dict)
  PROVE  /\ DecompressError(stored, algorithm, dict, declared, limits) \notin SelfVerificationErrors
         /\ DecompressStreamError(stored, compressed, algorithm, dict, declared, limits) \notin SelfVerificationErrors
<1> DEFINE a == algorithm = "None" /\ dict = <<>> /\ compressed # declared
           b == algorithm = "None" /\ dict # <<>>
           c == algorithm = "Zstd" /\ ~FrameDecodes(stored, dict)
           d == Len(DecodedBytes(stored, algorithm)) # declared
           e == stored.size # compressed
           p == compressed > limits.max_compressed_payload_bytes
           q == declared > limits.max_uncompressed_payload_bytes
           r == declared # 0 /\ (compressed = 0 \/ declared > compressed * limits.max_compression_ratio)
           limit == << <<p, "CompressedInputTooLarge">>, <<q, "OutputTooLarge">>, <<r, "CompressionRatioExceeded">> >>
           once == << <<b, "InvalidDictionary">>, <<c, "InvalidStream">>, <<d, "SizeMismatch">> >>
           stream == << <<a, "SizeMismatch">>, <<b, "InvalidDictionary">>, <<c, "InvalidStream">>,
                        <<d, "SizeMismatch">>, <<e, "InvalidStream">> >>
<1>1. LimitChecks(compressed, declared, limits) = limit
  BY Zenon DEF LimitChecks, enforce_compressed_limit, enforce_output_limit, enforce_ratio
<1>2. /\ DecompressError(stored, algorithm, dict, declared, limits) = FirstError(limit \o once)
      /\ DecompressStreamError(stored, compressed, algorithm, dict, declared, limits) = FirstError(limit \o stream)
  <2> HIDE DEF limit
  <2> QED  BY <1>1, Zenon DEF DecompressError, DecompressStreamError, DictionaryNeedsZstd
<1>3. ~b /\ ~c /\ ~e
  OBVIOUS
<1> HIDE DEF a, b, c, d, e, p, q, r
<1>4. /\ Innocent(<<a, "SizeMismatch">>) /\ Innocent(<<d, "SizeMismatch">>)
      /\ Innocent(<<p, "CompressedInputTooLarge">>) /\ Innocent(<<q, "OutputTooLarge">>)
      /\ Innocent(<<r, "CompressionRatioExceeded">>)
  BY InnocentCheck DEF SelfVerificationErrors
<1>5. /\ Innocent(<<b, "InvalidDictionary">>) /\ Innocent(<<c, "InvalidStream">>) /\ Innocent(<<e, "InvalidStream">>)
  BY <1>3, InnocentCheck
<1>6. InnocentList(limit) /\ InnocentList(once) /\ InnocentList(stream)
  BY <1>4, <1>5, ThreeInnocent, FiveInnocent
<1> HIDE DEF limit, once, stream
<1>7. InnocentList(limit \o once) /\ InnocentList(limit \o stream)
  BY <1>6, BothInnocent
<1> QED  BY <1>2, <1>7, ErrorInnocent

\* Neither decoder finds an envelope of one's own wrong.
LEMMA HonestAccepted ==
  ASSUME NEW a, PlainTree(a), Tidy(a), NEW b, Honest(b, a), NEW limits
  PROVE  /\ DecodeError(b, limits) \notin SelfVerificationErrors
         /\ StreamDecodeError(b, limits) \notin SelfVerificationErrors
<1>0. SelfMade(b, a)
  BY HonestSelfMade
<1>1. PICK h, m, stored : h = b.header /\ m = b.manifest /\ stored = b.stored
  OBVIOUS
<1>2. /\ h.defect = Passed /\ Taken(b.stored, b.trailing, h.stored_size) = stored
      /\ h.stored_size = stored.size /\ h.envelope_digest = envelope_digest(h, m, stored)
      /\ h.content_digest = content_digest(h.kind, m.entries)
      /\ h.compression = "None" => m.dictionary = <<>>
      /\ h.compression = "Zstd" => FrameDecodes(stored, m.dictionary)
  BY <1>0, <1>1, Zenon DEF SelfMade
<1> DEFINE header == HeaderChecks(b, limits)
           manifest == ManifestChecks(m, h, limits)
           ec == EnvelopeCheck(h, m, stored)
           cc == ContentCheck(m, h)
           lc == <<b.stored.size + b.trailing # h.stored_size, "EnvelopeLengthMismatch">>
           payload == PayloadChecks(m, DecodedBytes(stored, h.compression))
           inflate == DecompressError(stored, h.compression, m.dictionary, h.original_size, limits)
           inflated == DecompressStreamError(stored, h.stored_size, h.compression, m.dictionary,
                                             h.original_size, limits)
<1>3. DecodeError(b, limits) =
        LET early == FirstError(((header \o <<ec>>) \o manifest) \o <<cc>>)
        IN IF early # Passed THEN early ELSE IF inflate # Passed THEN inflate ELSE FirstError(payload)
  BY <1>1, <1>2, Zenon DEF DecodeError
<1>4. StreamDecodeError(b, limits) =
        LET loaded == FirstError((header \o manifest) \o <<cc>>)
        IN IF loaded # Passed THEN loaded ELSE IF inflated # Passed THEN inflated
           ELSE FirstError(<<ec, lc>> \o payload)
  BY <1>1, <1>2, Zenon DEF StreamDecodeError, LoadError, BodyError
<1>5. Innocent(ec) /\ Innocent(cc) /\ Innocent(lc)
  <2>1. Innocent(lc)
    BY InnocentCheck DEF SelfVerificationErrors
  <2>2. Innocent(ec) /\ Innocent(cc)
    BY <1>2, InnocentCheck DEF EnvelopeCheck, ContentCheck
  <2> QED  BY <2>1, <2>2
<1>6. InnocentList(payload)
  <2>1. PICK s, data, e : s = Sorted(a) /\ data = PayloadOf(s) /\ e = CanonicalEntries(a)
    OBVIOUS
  <2>2. PICK n \in Nat : n = Len(s)
    BY <2>1, SortedPlainTree
  <2>3. Len(e) = n
    <3>1. PICK parts : parts = ByteParts(s)
      OBVIOUS
    <3> QED  BY <2>1, <2>2, <3>1, CanonicalPlaces
  <2>4. \A i \in 1..n : e[i].kind = "File" => e[i].digest = file_digest(Slice(data, e[i]))
    <3> HIDE DEF header, manifest, ec, cc, lc, payload, inflate, inflated
    <3>1. n = Len(s) /\ s = Sorted(a) /\ e = CanonicalEntries(a) /\ data = PayloadOf(s)
      BY <2>1, <2>2
    <3>2. /\ \A i \in 1..n : e[i].kind = "File" =>
               e[i].offset = ExpectedOffset(e, i) /\ e[i].digest = file_digest(Slice(data, e[i]))
          /\ ExpectedOffset(e, n + 1) = Len(data)
      BY <3>1, CanonicalSlices
    <3> QED  BY <3>2, Zenon
  <2>5. m.entries = e /\ DecodedBytes(stored, h.compression) = data
    BY <1>0, <1>1, <2>1, Zenon DEF SelfMade
  <2> DEFINE bad == \E i \in 1..Len(m.entries) :
                      LET x == m.entries[i] IN
                      x.kind = "File" /\ x.digest # file_digest(Slice(DecodedBytes(stored, h.compression), x))
  <2>6. payload = << <<bad, "FileDigestMismatch">> >>
    BY Zenon DEF PayloadChecks
  <2>7. ~bad
    BY <2>3, <2>4, <2>5, Zenon
  <2> HIDE DEF bad
  <2>8. Innocent(<<bad, "FileDigestMismatch">>)
    BY <2>7, InnocentCheck
  <2> HIDE DEF payload
  <2> QED  BY <2>6, <2>8, OneInnocent
<1>7. InnocentList(header) /\ InnocentList(manifest)
  BY <1>0, <1>1, <1>2, HeaderInnocent, ManifestInnocent
<1>8. inflate \notin SelfVerificationErrors /\ inflated \notin SelfVerificationErrors
  BY <1>2, InflateInnocent
<1> HIDE DEF header, manifest, ec, cc, lc, payload, inflate, inflated
<1>9. InnocentList(<<ec>>) /\ InnocentList(<<cc>>) /\ InnocentList(<<ec, lc>>)
  BY <1>5, OneInnocent, TwoInnocent
<1>10. InnocentList(header \o <<ec>>) /\ InnocentList(header \o manifest) /\ InnocentList(<<ec, lc>> \o payload)
  BY <1>6, <1>7, <1>9, BothInnocent
<1>11. InnocentList((header \o <<ec>>) \o manifest) /\ InnocentList((header \o manifest) \o <<cc>>)
  BY <1>7, <1>9, <1>10, BothInnocent
<1>12. InnocentList(((header \o <<ec>>) \o manifest) \o <<cc>>)
  BY <1>9, <1>11, BothInnocent
<1>13. /\ FirstError(((header \o <<ec>>) \o manifest) \o <<cc>>) \notin SelfVerificationErrors
       /\ FirstError((header \o manifest) \o <<cc>>) \notin SelfVerificationErrors
       /\ FirstError(<<ec, lc>> \o payload) \notin SelfVerificationErrors
       /\ FirstError(payload) \notin SelfVerificationErrors
  BY <1>6, <1>10, <1>11, <1>12, ErrorInnocent
<1> QED  BY <1>3, <1>4, <1>8, <1>13, Zenon

\* What the encoder refuses before it makes an envelope.
LEMMA CommandInnocent ==
  ASSUME NEW o
  PROVE  CommandError(o) \notin SelfVerificationErrors
<1> DEFINE p == o.format = "binary" /\ ~o.output
           q == o.large /\ o.format # "binary"
           r == o.large /\ o.stdin
           all == << <<p, "binary requires output">>, <<q, "large requires binary">>, <<r, "large requires a file">> >>
<1>1. CommandError(o) = FirstError(all)
  BY Zenon DEF CommandError
<1> HIDE DEF p, q, r
<1>2. /\ Innocent(<<p, "binary requires output">>) /\ Innocent(<<q, "large requires binary">>)
      /\ Innocent(<<r, "large requires a file">>)
  BY InnocentCheck DEF SelfVerificationErrors
<1>3. InnocentList(all)
  BY <1>2, ThreeInnocent
<1> HIDE DEF all
<1> QED  BY <1>1, <1>3, ErrorInnocent

\* canonicalize refuses a tree for its paths, its kinds or its sizes.
LEMMA CanonicalizeInnocent ==
  ASSUME NEW a, PlainTree(a), NEW limits
  PROVE  canonicalize(a, limits) \notin SelfVerificationErrors
<1>1. PICK s, e : s = Sorted(a) /\ e = CanonicalEntries(a)
  OBVIOUS
<1>2. PICK n \in Nat : n = Len(s)
  BY <1>1, SortedPlainTree
<1> DEFINE p == Len(a.entries) > limits.max_file_count
           q == a.name # <<>> /\ (Len(a.name) > 1 \/ ~ValidPath(a.name, limits.max_path_bytes))
           r == a.path # <<>> /\ ~ValidPath(a.path, limits.max_path_bytes)
           t == a.kind = "File" /\ ~(\E x \in {a.entries[i] : i \in 1..Len(a.entries)} :
                                       Len(a.entries) = 1 /\ x.kind = "File" /\ x.path = <<>>)
           u == a.kind = "Directory" /\ \E i \in 1..Len(s) : s[i].path = <<>>
           v == \E i \in 2..Len(s) : s[i].path = s[i-1].path
           w == \E i, j \in 1..Len(e) :
                  i < j /\ e[i].kind = "File" /\ IsStrictPrefix(e[i].path, e[j].path) /\ e[i].path # <<>>
           each == [i \in 1..Len(s) |-> SourceEntryChecks(s, i, limits)]
           first == << <<p, "TooManyEntries">> >>
           second == << <<q, "InvalidName">>, <<r, "Path">> >>
           third == << <<t, "InvalidFileShape">>, <<u, "InvalidDirectoryShape">>, <<v, "DuplicatePath">> >>
           last == << <<w, "PathTypeConflict">> >>
<1>3. canonicalize(a, limits) = FirstError((((first \o second) \o third) \o FlattenSeq(each)) \o last)
  BY <1>1, Zenon DEF canonicalize, enforce_entry_count, validate_metadata, validate_suggested_name, validate_tree
<1>4. InnocentList(FlattenSeq(each))
  <2>1. each = [i \in 1..n |-> each[i]] /\ Len(each) = n
    BY <1>2
  <2>2. ASSUME NEW i \in 1..n  PROVE InnocentList(each[i])
    <3> DEFINE b == Len(s[i].bytes) > limits.max_single_file_bytes
               c == SizeBefore(s, i) + Len(s[i].bytes) > limits.max_uncompressed_payload_bytes
               d == s[i].bytes # <<>>
               f == s[i].executable
               file == << <<b, "FileTooLarge">>, <<c, "PayloadTooLarge">> >>
               dir == << <<d, "InvalidDirectoryEntry">>, <<f, "ExecutableDirectory">> >>
    <3>1. each[i] = IF s[i].kind = "File" THEN file ELSE dir
      <4>1. each[i] = SourceEntryChecks(s, i, limits)
        BY <1>2
      <4> HIDE DEF each
      <4> QED  BY <4>1, Zenon DEF SourceEntryChecks, enforce_file_size, enforce_payload_size
    <3> HIDE DEF b, c, d, f, each
    <3>2. /\ Innocent(<<b, "FileTooLarge">>) /\ Innocent(<<c, "PayloadTooLarge">>)
          /\ Innocent(<<d, "InvalidDirectoryEntry">>) /\ Innocent(<<f, "ExecutableDirectory">>)
      BY InnocentCheck DEF SelfVerificationErrors
    <3>3. InnocentList(file) /\ InnocentList(dir)
      BY <3>2, TwoInnocent
    <3> HIDE DEF file, dir
    <3> QED  BY <3>1, <3>3
  <2> HIDE DEF each
  <2> QED  BY <2>1, <2>2, FlattenInnocent
<1> HIDE DEF p, q, r, t, u, v, w, each
<1>5. /\ Innocent(<<p, "TooManyEntries">>) /\ Innocent(<<q, "InvalidName">>) /\ Innocent(<<r, "Path">>)
      /\ Innocent(<<t, "InvalidFileShape">>) /\ Innocent(<<u, "InvalidDirectoryShape">>)
      /\ Innocent(<<v, "DuplicatePath">>) /\ Innocent(<<w, "PathTypeConflict">>)
  BY InnocentCheck DEF SelfVerificationErrors
<1>6. InnocentList(first) /\ InnocentList(second) /\ InnocentList(third) /\ InnocentList(last)
  BY <1>5, OneInnocent, TwoInnocent, ThreeInnocent
<1> HIDE DEF first, second, third, last
<1>7. PICK fourth : fourth = FlattenSeq(each)
  OBVIOUS
<1>8. InnocentList(fourth) /\ canonicalize(a, limits) = FirstError((((first \o second) \o third) \o fourth) \o last)
  BY <1>3, <1>4, <1>7, Zenon
<1>9. InnocentList(first \o second)
  BY <1>6, BothInnocent
<1>10. InnocentList((first \o second) \o third)
  BY <1>6, <1>9, BothInnocent
<1>11. InnocentList(((first \o second) \o third) \o fourth)
  BY <1>8, <1>10, BothInnocent
<1>12. InnocentList((((first \o second) \o third) \o fourth) \o last)
  BY <1>6, <1>11, BothInnocent
<1> QED  BY <1>8, <1>12, ErrorInnocent

\* Nor does a compressor, which is given a dictionary only for Zstandard.
LEMMA CompressInnocent ==
  ASSUME NEW input, NEW algorithm, NEW dict, NEW size, NEW limits, NEW declared, algorithm = "None" => dict = <<>>
  PROVE  /\ CompressError(input, algorithm, dict, size, limits) \notin SelfVerificationErrors
         /\ CompressStreamError(input, declared, algorithm, dict, size, limits) \notin SelfVerificationErrors
<1> DEFINE p == Len(input) > limits.max_uncompressed_payload_bytes
           q == declared > limits.max_uncompressed_payload_bytes
           r == algorithm = "None" /\ dict # <<>>
           s == Encoded(input, algorithm, dict, size).size > limits.max_compressed_payload_bytes
           t == Len(input) # declared
           once == << <<p, "OutputTooLarge">>, <<r, "InvalidDictionary">>, <<s, "CompressedInputTooLarge">> >>
           stream == << <<q, "OutputTooLarge">>, <<r, "InvalidDictionary">>, <<s, "CompressedInputTooLarge">>,
                        <<t, "SizeMismatch">> >>
<1>1. /\ CompressError(input, algorithm, dict, size, limits) = FirstError(once)
      /\ CompressStreamError(input, declared, algorithm, dict, size, limits) = FirstError(stream)
  BY Zenon DEF CompressError, CompressStreamError, enforce_output_limit, DictionaryNeedsZstd, enforce_compressed_limit
<1>2. ~r
  OBVIOUS
<1> HIDE DEF p, q, r, s, t
<1>3. /\ Innocent(<<p, "OutputTooLarge">>) /\ Innocent(<<q, "OutputTooLarge">>)
      /\ Innocent(<<s, "CompressedInputTooLarge">>) /\ Innocent(<<t, "SizeMismatch">>)
  BY InnocentCheck DEF SelfVerificationErrors
<1>4. Innocent(<<r, "InvalidDictionary">>)
  BY <1>2, InnocentCheck
<1>5. InnocentList(once) /\ InnocentList(stream)
  BY <1>3, <1>4, ThreeInnocent, FourInnocent
<1> HIDE DEF once, stream
<1> QED  BY <1>1, <1>5, ErrorInnocent

\* Nor the limits of the envelope itself.
LEMMA LimitsInnocent ==
  ASSUME NEW b, NEW limits
  PROVE  FirstError(<< <<ManifestSize(b.manifest) > limits.max_manifest_bytes, "ManifestTooLarge">>,
                       enforce_binary_size(BinarySize(b), limits) >>) \notin SelfVerificationErrors
<1> DEFINE p == ManifestSize(b.manifest) > limits.max_manifest_bytes
           q == BinarySize(b) > limits.max_capsule_bytes
           all == << <<p, "ManifestTooLarge">>, <<q, "BinaryTooLarge">> >>
<1>1. << <<ManifestSize(b.manifest) > limits.max_manifest_bytes, "ManifestTooLarge">>,
         enforce_binary_size(BinarySize(b), limits) >> = all
  BY Zenon DEF enforce_binary_size
<1> HIDE DEF p, q
<1>2. Innocent(<<p, "ManifestTooLarge">>) /\ Innocent(<<q, "BinaryTooLarge">>)
  BY InnocentCheck DEF SelfVerificationErrors
<1>3. InnocentList(all)
  BY <1>2, TwoInnocent
<1> HIDE DEF all
<1>4. FirstError(all) \notin SelfVerificationErrors
  BY <1>3, ErrorInnocent
<1> QED  BY <1>1, <1>4, Zenon

\* What encode_artifact makes is such an envelope, and it does not refuse it.
LEMMA MemoryInnocent ==
  ASSUME NEW a, PlainTree(a), Tidy(a), NEW opts, NEW dict \in {<<>>, Dictionary},
         NEW ordinary \in Nat, NEW dictSize \in Nat,
         NEW r, r = EncodeResult(a, opts, dict, ordinary, dictSize)
  PROVE  r.error \notin SelfVerificationErrors /\ r.verify \notin SelfVerificationErrors
<1>1. PICK payload : payload = PayloadOf(Sorted(a))
  OBVIOUS
<1>2. PICK limits : limits = opts.limits
  OBVIOUS
<1>3. PICK chosen : chosen = select_payload(payload, opts.compression, dict, ordinary, dictSize, limits)
  OBVIOUS
<1>4. PICK b : b = Envelope(a, chosen.stored.dict, CanonicalEntries(a), chosen.compression, opts.profile, chosen.stored)
  OBVIOUS
<1>5. /\ chosen.error \notin SelfVerificationErrors
      /\ chosen.compression \in Algorithms
      /\ chosen.stored.dict \in {<<>>, Dictionary}
      /\ chosen.compression = "None" => chosen.stored.dict = <<>>
      /\ \E size \in Nat : chosen.stored = Encoded(payload, chosen.compression, chosen.stored.dict, size)
  <2>1. PICK e, f : e = CompressError(payload, "None", <<>>, 0, limits)
                    /\ f = CompressError(payload, "Zstd", <<>>, ordinary, limits)
    OBVIOUS
  <2>2. PICK best : best = best_zstd_candidate(payload, ordinary, dict, dictSize, limits)
    OBVIOUS
  <2>3. \/ chosen = [error |-> e, compression |-> "None", stored |-> Raw(payload)]
        \/ chosen = [error |-> f, compression |-> "Zstd", stored |-> best]
    BY <1>3, <2>1, <2>2, Zenon DEF select_payload
  <2>4. best = Frame(payload, dict, dictSize) \/ best = Frame(payload, <<>>, ordinary)
    BY <2>2, Zenon DEF best_zstd_candidate
  <2>5. e \notin SelfVerificationErrors /\ f \notin SelfVerificationErrors
    BY <2>1, CompressInnocent
  <2>6. "None" \in Algorithms /\ "Zstd" \in Algorithms
    BY DEF Algorithms
  <2>7. CASE chosen = [error |-> e, compression |-> "None", stored |-> Raw(payload)]
    <3>1. chosen.stored = Raw(payload) /\ chosen.compression = "None" /\ chosen.error = e
      BY <2>7
    <3>2. Encoded(payload, "None", <<>>, ordinary) = Raw(payload) /\ Raw(payload).dict = <<>>
      BY DEF Encoded, Raw
    <3> QED  BY <2>5, <2>6, <3>1, <3>2
  <2>8. ASSUME NEW d \in {<<>>, Dictionary}, NEW n \in Nat, best = Frame(payload, d, n),
               chosen = [error |-> f, compression |-> "Zstd", stored |-> best]
        PROVE  <1>5!1 /\ <1>5!2 /\ <1>5!3 /\ <1>5!4 /\ <1>5!5
    <3>1. chosen.stored = best /\ chosen.compression = "Zstd" /\ chosen.error = f
      BY <2>8
    <3>2. Encoded(payload, "Zstd", d, n) = Frame(payload, d, n) /\ Frame(payload, d, n).dict = d
      BY DEF Encoded, Frame
    <3> QED  BY <2>5, <2>6, <2>8, <3>1, <3>2
  <2> QED  BY <2>3, <2>4, <2>7, <2>8
<1>6. Honest(b, a)
  <2>1. PICK size \in Nat : chosen.stored = Encoded(payload, chosen.compression, chosen.stored.dict, size)
    BY <1>5
  <2>2. PICK d \in {<<>>, Dictionary}, c \in Algorithms : d = chosen.stored.dict /\ c = chosen.compression
    BY <1>5
  <2>3. b = Envelope(a, d, CanonicalEntries(a), c, opts.profile, Encoded(PayloadOf(Sorted(a)), c, d, size))
    BY <1>1, <1>4, <2>1, <2>2, Zenon
  <2>4. c = "None" => d = <<>>
    BY <1>5, <2>2
  <2> QED  BY <2>3, <2>4, Zenon DEF Honest
<1>7. DecodeError(b, limits) \notin SelfVerificationErrors
  BY <1>6, HonestAccepted
<1>8. decode_artifact(b) = reconstruct(a.kind, b.manifest, payload)
  <2>1. SelfMade(b, a)
    BY <1>6, HonestSelfMade
  <2>2. b.header.kind = a.kind /\ DecodedBytes(b.stored, b.header.compression) = payload
    BY <1>1, <2>1, Zenon DEF SelfMade
  <2> QED  BY <2>2, Zenon DEF decode_artifact
<1>9. PICK shape, x, y, verify :
        /\ shape = canonicalize(a, limits)
        /\ x = (ManifestSize(b.manifest) > limits.max_manifest_bytes) /\ y = (BinarySize(b) > limits.max_capsule_bytes)
        /\ verify = DecodeError(b, limits)
  OBVIOUS
<1>10. PICK c, error : c = chosen.error /\ error = FirstError(<< <<c # Passed, c>>, <<x, "ManifestTooLarge">>, <<y, "BinaryTooLarge">> >>)
  OBVIOUS
<1>11. r = [error |-> IF shape # Passed THEN shape ELSE error, binary |-> b, verify |-> verify]
  <2>1. (IF verify # Passed THEN verify
         ELSE IF decode_artifact(b) = reconstruct(a.kind, b.manifest, payload) THEN Passed
         ELSE "ContentDigestMismatch") = verify
    BY <1>8, Zenon
  <2> QED  BY <1>1, <1>2, <1>3, <1>4, <1>9, <1>10, <2>1, Zenon DEF EncodeResult, enforce_binary_size
<1>12. r.error = (IF shape # Passed THEN shape ELSE error) /\ r.verify = verify
  BY <1>11
<1>13. error \notin SelfVerificationErrors
  <2>1. Innocent(<<c # Passed, c>>)
    BY <1>5, <1>10, InnocentCheck
  <2>2. Innocent(<<x, "ManifestTooLarge">>) /\ Innocent(<<y, "BinaryTooLarge">>)
    BY InnocentCheck DEF SelfVerificationErrors
  <2>3. InnocentList(<< <<c # Passed, c>>, <<x, "ManifestTooLarge">>, <<y, "BinaryTooLarge">> >>)
    BY <2>1, <2>2, ThreeInnocent
  <2> QED  BY <1>10, <2>3, ErrorInnocent
<1>14. shape \notin SelfVerificationErrors
  BY <1>9, CanonicalizeInnocent
<1> QED  BY <1>7, <1>9, <1>12, <1>13, <1>14

-----------------------------------------------------------------------------
(* What is spooled is the payload.                                         *)

\* Two lists, one after the other.
LEMMA TwoLists ==
  ASSUME NEW n \in Nat, NEW f, f = [i \in 1..n |-> f[i]], NEW d \in Nat, NEW g, g = [k \in 1..d |-> g[k]]
  PROVE  /\ Len(f \o g) = n + d
         /\ \A i \in 1..n : (f \o g)[i] = f[i]
         /\ \A i \in 1..d : (f \o g)[n + i] = g[i]
<1> DEFINE T == {f[i] : i \in 1..n} \cup {g[i] : i \in 1..d}
<1>1. (\A i \in 1..n : f[i] \in T) /\ (\A i \in 1..d : g[i] \in T)
  OBVIOUS
<1> HIDE DEF T
<1>2. f \in Seq(T) /\ Len(f) = n /\ g \in Seq(T) /\ Len(g) = d
  BY <1>1
<1> QED  BY <1>2

\* The entries of the scanned artifact: the files as they were read, then the
\* directories.
LEMMA ScannedParts ==
  ASSUME EncoderTypes, NEW a, a = ScannedArtifact, NEW n, n = Len(enc.scanned), NEW w, w = Len(a.entries)
  PROVE  /\ n \in Nat /\ w \in Nat /\ n <= w /\ a.kind = enc.opts.kind
         /\ a.kind = "File" => w = n
         /\ \A i \in 1..n : a.entries[i].path = enc.scanned[i].path /\ a.entries[i].bytes = enc.scanned[i].bytes
         /\ \A i \in 1..w : i \notin 1..n => a.entries[i].bytes = <<>>
<1>1. DirPaths \in Seq(Seq(Nat)) /\ enc.scanned \in Seq(ScannedFiles)
  BY ArtifactFilesAssumption DEF EncoderTypes
<1>2. n \in Nat
  BY <1>1
<1>3. PICK files : files = [i \in 1..n |-> [kind |-> enc.scanned[i].kind, path |-> enc.scanned[i].path,
                                            bytes |-> enc.scanned[i].bytes,
                                            executable |-> enc.scanned[i].executable]]
  OBVIOUS
<1>4. PICK dirs : dirs = IF enc.opts.kind = "File" THEN <<>>
                         ELSE [k \in 1..Len(DirPaths) |-> [kind |-> "Directory", path |-> DirPaths[k],
                                                           bytes |-> <<>>, executable |-> FALSE]]
  OBVIOUS
<1>5. PICK all : all = files \o dirs
  OBVIOUS
<1>6. a = [kind |-> enc.opts.kind, name |-> enc.hint[1], path |-> enc.hint[2], entries |-> all]
  BY <1>2, <1>3, <1>4, <1>5 DEF ScannedArtifact
<1>7. a.kind = enc.opts.kind /\ a.entries = all
  BY <1>6
<1>8. PICK d \in Nat : /\ d = Len(dirs) /\ (enc.opts.kind = "File" => d = 0)
                       /\ dirs = [k \in 1..d |-> dirs[k]]
                       /\ \A k \in 1..d : dirs[k].bytes = <<>>
  <2>1. CASE enc.opts.kind = "File"
    <3>1. dirs = <<>>
      BY <1>4, <2>1
    <3>2. Len(dirs) = 0 /\ dirs = [k \in 1..0 |-> dirs[k]] /\ \A k \in 1..0 : dirs[k].bytes = <<>>
      BY <3>1
    <3> QED  BY <2>1, <3>2
  <2>2. CASE enc.opts.kind # "File"
    <3>1. PICK k \in Nat : k = Len(DirPaths)
      BY <1>1
    <3>2. PICK made : made = [i \in 1..k |-> [kind |-> "Directory", path |-> DirPaths[i],
                                              bytes |-> <<>>, executable |-> FALSE]]
      OBVIOUS
    <3>3. dirs = made
      BY <1>4, <2>2, <3>1, <3>2
    <3>4. \A i \in 1..k : made[i].bytes = <<>>
      BY <3>2
    <3>5. Len(made) = k /\ made = [i \in 1..k |-> made[i]]
      BY <3>2
    <3> QED  BY <2>2, <3>3, <3>4, <3>5
  <2> QED  BY <2>1, <2>2
<1>9. /\ Len(files) = n /\ files = [i \in 1..n |-> files[i]]
      /\ \A i \in 1..n : files[i].path = enc.scanned[i].path /\ files[i].bytes = enc.scanned[i].bytes
  BY <1>2, <1>3
<1>11. /\ Len(all) = n + d
       /\ \A i \in 1..n : all[i] = files[i]
       /\ \A i \in 1..d : all[n + i] = dirs[i]
  <2>1. files = [i \in 1..n |-> files[i]]
    BY <1>9
  <2>2. dirs = [k \in 1..d |-> dirs[k]]
    BY <1>8
  <2> QED  BY <1>2, <1>5, <2>1, <2>2, TwoLists
<1>12. \A i \in 1..(n + d) : i \notin 1..n => all[i].bytes = <<>>
  <2> SUFFICES ASSUME NEW i \in 1..(n + d), i \notin 1..n  PROVE all[i].bytes = <<>>
    OBVIOUS
  <2>1. PICK k \in 1..d : i = n + k
    <3>1. i - n \in 1..d /\ i = n + (i - n)
      OBVIOUS
    <3> QED  BY <3>1
  <2> QED  BY <1>8, <1>11, <2>1
<1>13. \A i \in 1..n : all[i].path = enc.scanned[i].path /\ all[i].bytes = enc.scanned[i].bytes
  BY <1>9, <1>11
<1>14. w = n + d /\ w \in Nat /\ n <= w
  <2>1. w = Len(all) /\ d \in Nat
    BY <1>7, <1>8, Zenon
  <2>2. Len(all) = n + d
    BY <1>11
  <2> QED  BY <1>2, <2>1, <2>2
<1>15. enc.opts.kind = "File" => w = n
  BY <1>2, <1>8, <1>14
<1> QED  BY <1>2, <1>7, <1>12, <1>13, <1>14, <1>15, Zenon

\* The parts that are spooled are bytes.
LEMMA FilePartsType ==
  ASSUME EncoderTypes
  PROVE  \E n \in Nat : /\ n = Len(enc.scanned) /\ FileParts = [k \in 1..n |-> FileParts[k]]
                        /\ Len(FileParts) = n
                        /\ \A k \in 1..n : FileParts[k] = enc.scanned[k].bytes /\ FileParts[k] \in Seq(Nat)
<1>1. PICK n \in Nat : n = Len(enc.scanned)
  BY DEF EncoderTypes
<1>2. \A k \in 1..n : enc.scanned[k] \in ScannedFiles
  BY <1>1 DEF EncoderTypes
<1>3. \A e \in ScannedFiles : e.bytes \in Seq(Nat)
  BY DEF ScannedFiles
<1>4. PICK parts : parts = [k \in 1..n |-> enc.scanned[k].bytes]
  OBVIOUS
<1>5. FileParts = parts
  BY <1>1, <1>4 DEF FileParts
<1>6. parts = [k \in 1..n |-> parts[k]] /\ Len(parts) = n /\ \A k \in 1..n : parts[k] = enc.scanned[k].bytes
  BY <1>4
<1> QED  BY <1>1, <1>2, <1>3, <1>5, <1>6

\* Files read in the order of their paths.
LEMMA ScannedTidy ==
  ASSUME EncoderTypes, InOrder
  PROVE  Tidy(ScannedArtifact)
<1>1. PICK a : a = ScannedArtifact
  OBVIOUS
<1>2. PICK n, w : n = Len(enc.scanned) /\ w = Len(a.entries)
  OBVIOUS
<1>2a. n \in Nat /\ w \in Nat /\ a.kind = enc.opts.kind /\ (a.kind = "File" => w = n)
  BY <1>1, <1>2, ScannedParts
<1>3. a.kind = "File" => n <= 1
  <2>1. enc.scanned = <<>> => n = 0
    BY <1>2
  <2>2. enc.scanned # <<>> /\ enc.opts.kind = "File" => n = 1
    BY <1>2, Zenon DEF InOrder
  <2> QED  BY <1>2a, <2>1, <2>2
<1>4. a.kind = "File" => Len(a.entries) <= 1
  BY <1>2, <1>2a, <1>3
<1> QED  BY <1>1, <1>4 DEF Tidy

\* The files one after the other are the payload of the artifact in canonical order.
LEMMA PayloadSpooled ==
  ASSUME EncoderTypes, InOrder, NEW tree, NEW read, Covers(tree, read)
  PROVE  FlattenSeq(FileParts) = PayloadOf(Sorted(ScannedArtifact))
<1>1. PICK a : a = ScannedArtifact
  OBVIOUS
<1>2. PICK s, entries, parts, f : s = Sorted(a) /\ entries = a.entries /\ parts = ByteParts(s) /\ f = FileParts
  OBVIOUS
<1>3. PlainTree(a)
  BY <1>1, ScannedPlain
<1>4a. PICK n, w : n = Len(enc.scanned) /\ w = Len(a.entries)
  OBVIOUS
<1>4. /\ n \in Nat /\ w \in Nat /\ n <= w /\ a.kind = enc.opts.kind /\ w = Len(entries) /\ n = Len(enc.scanned)
      /\ a.kind = "File" => w = n
      /\ \A i \in 1..n : entries[i].path = enc.scanned[i].path /\ entries[i].bytes = enc.scanned[i].bytes
      /\ \A i \in 1..w : i \notin 1..n => entries[i].bytes = <<>>
  BY <1>1, <1>2, <1>4a, ScannedParts
<1>5. /\ f = [k \in 1..n |-> f[k]] /\ Len(f) = n
      /\ \A k \in 1..n : f[k] = enc.scanned[k].bytes /\ f[k] \in Seq(Nat)
  BY <1>2, <1>4a, FilePartsType
<1>6. PayloadOf(s) = FlattenSeq(parts)
  BY <1>2, Zenon DEF PayloadOf, ByteParts
<1>7. CASE a.kind = "File"
  <2>1. s = entries /\ Len(s) = n
    BY <1>2, <1>4, <1>7 DEF Sorted
  <2>2. parts = [i \in 1..n |-> entries[i].bytes]
    BY <1>2, <2>1 DEF ByteParts
  <2>3. \A i \in 1..n : entries[i].bytes = f[i]
    BY <1>4, <1>5
  <2>4. parts = [i \in 1..n |-> f[i]]
    BY <2>2, <2>3
  <2>5. parts = f
    BY <1>5, <2>4
  <2> QED  BY <1>1, <1>2, <1>6, <2>5
<1>8. CASE a.kind # "File"
  <2>1. w \in Nat /\ w = Len(entries) /\ \A i \in 1..n : i \in 1..w
    BY <1>4
  <2>2. Len(s) = w
    BY <1>2, <1>3, <2>1, SortedPlainTree
  <2>3. /\ \A j \in 1..w : Rank(entries, j) \in 1..w /\ s[Rank(entries, j)] = entries[j]
        /\ \A j \in 1..w : entries[j] \in TreeEntries /\ entries[j].path \in Seq(Nat)
    <3>1. ASSUME NEW j \in 1..w  PROVE Rank(entries, j) \in 1..w /\ s[Rank(entries, j)] = entries[j]
      <4>1. j \in 1..Len(a.entries)
        BY <1>2, <2>1
      <4>2. Rank(a.entries, j) \in 1..Len(a.entries) /\ Sorted(a)[Rank(a.entries, j)] = a.entries[j]
        BY <1>3, <1>8, <4>1, RankOfEntry
      <4> QED  BY <1>2, <2>1, <4>2
    <3>2. ASSUME NEW j \in 1..w  PROVE entries[j] \in TreeEntries /\ entries[j].path \in Seq(Nat)
      <4>1. entries[j] \in TreeEntries
        BY <1>2, <1>3, <2>1 DEF PlainTree, PlainList
      <4> QED  BY <4>1 DEF TreeEntries
    <3> QED  BY <3>1, <3>2
  <2>4. PICK g : g = [k \in 1..n |-> Rank(entries, k)]
    OBVIOUS
  <2>5. \A k \in 1..n : g[k] = Rank(entries, k)
    BY <2>4
  <2>6. \A i \in 1..w : parts[i] = s[i].bytes
    BY <1>2, <2>2 DEF ByteParts
  <2>7. parts = [i \in 1..w |-> parts[i]] /\ \A i \in 1..w : parts[i] \in Seq(Nat)
    BY <1>2, <1>3, <2>2, CanonicalPlaces
  <2>8. ASSUME NEW k \in 1..n  PROVE g[k] \in 1..w /\ parts[g[k]] = f[k]
    <3>1. k \in 1..w /\ g[k] = Rank(entries, k)
      BY <2>1, <2>5
    <3>2. g[k] \in 1..w /\ s[g[k]] = entries[k]
      BY <2>3, <3>1
    <3>3. parts[g[k]] = entries[k].bytes
      BY <2>6, <3>2
    <3>4. f[k] = entries[k].bytes
      BY <1>4, <1>5
    <3> QED  BY <3>2, <3>3, <3>4
  <2>9. ASSUME NEW j \in 1..n, NEW k \in 1..n, j < k  PROVE g[j] < g[k]
    <3>1. enc.scanned[j].index < enc.scanned[k].index
      BY <1>4, <2>9 DEF InOrder
    <3>2. /\ enc.scanned[j].path = FilePaths[enc.scanned[j].index]
          /\ enc.scanned[k].path = FilePaths[enc.scanned[k].index]
      <4>1. enc.opts.kind # "File"
        BY <1>4, <1>8
      <4> QED  BY <1>4, <4>1 DEF Covers
    <3>3. enc.scanned[j].index \in 1..N /\ enc.scanned[k].index \in 1..N
      <4>1. enc.scanned[j] \in ScannedFiles /\ enc.scanned[k] \in ScannedFiles
        BY <1>4 DEF EncoderTypes
      <4> QED  BY <4>1 DEF ScannedFiles
    <3>4. PathLess(enc.scanned[j].path, enc.scanned[k].path)
      BY <3>1, <3>2, <3>3, ArtifactFilesAssumption
    <3>5. PathLess(entries[j].path, entries[k].path)
      BY <1>4, <3>4
    <3>6. j \in 1..Len(entries) /\ k \in 1..Len(entries) /\ Len(entries) \in Nat
      BY <2>1
    <3>7. \A i \in 1..Len(entries) : entries[i].path \in Seq(Nat)
      BY <2>1, <2>3
    <3>8. Rank(entries, j) < Rank(entries, k)
      BY <3>5, <3>6, <3>7, RankOrdered
    <3> QED  BY <2>5, <3>8
  <2>10. ASSUME NEW i \in 1..w  PROVE (\E k \in 1..n : g[k] = i) \/ parts[i] = <<>>
    <3>1. PICK j \in 1..w : Rank(entries, j) = i /\ s[i] = entries[j]
      <4>1. i \in 1..Len(a.entries)
        BY <1>2, <2>1
      <4>2. \E j \in 1..Len(a.entries) : Rank(a.entries, j) = i /\ Sorted(a)[i] = a.entries[j]
        BY <1>3, <1>8, <4>1, EntryOfRank
      <4> QED  BY <1>2, <2>1, <4>2
    <3>2. CASE j \in 1..n
      BY <2>5, <3>1, <3>2
    <3>3. CASE j \notin 1..n
      BY <1>4, <2>1, <2>6, <3>1, <3>3
    <3> QED  BY <3>2, <3>3
  <2>11. FlattenSeq(parts) = FlattenSeq(f)
    <3>1. \A k \in 1..n : f[k] \in Seq(Nat)
      BY <1>5
    <3>2. \A i \in 1..w : parts[i] \in Seq(Nat)
      BY <2>7
    <3>3. \A j, k \in 1..n : j < k => g[j] < g[k]
      BY <2>9
    <3>4. \A i \in 1..w : (\E k \in 1..n : g[k] = i) \/ parts[i] = <<>>
      BY <2>10
    <3>5. \A k \in 1..n : g[k] \in 1..w /\ parts[g[k]] = f[k]
      BY <2>8
    <3>6. Skips(parts, w, f, n, g)
      BY <1>5, <2>7, <3>1, <3>2, <3>3, <3>4, <3>5, Zenon DEF Skips
    <3> QED  BY <1>4, <3>6, JoinsSkipping
  <2> QED  BY <1>1, <1>2, <1>6, <2>11
<1> QED  BY <1>7, <1>8

-----------------------------------------------------------------------------
(* No encoding is given up because its own verification rejects it.        *)

\* What was read of the files one after the other.
LEMMA PartsJoined ==
  ASSUME EncoderTypes
  PROVE  \E n \in Nat :
           /\ n = Len(enc.scanned)
           /\ UpTo(FileParts, 0) = <<>> /\ UpTo(FileParts, n) = FlattenSeq(FileParts)
           /\ \A k \in 1..n : /\ FileParts[k] = enc.scanned[k].bytes
                              /\ UpTo(FileParts, k) = UpTo(FileParts, k - 1) \o FileParts[k]
<1>1. PICK f : f = FileParts
  OBVIOUS
<1>2. PICK n \in Nat : /\ n = Len(enc.scanned) /\ f = [k \in 1..n |-> f[k]]
                       /\ \A k \in 1..n : f[k] = enc.scanned[k].bytes /\ f[k] \in Seq(Nat)
  BY <1>1, FilePartsType
<1>3. f = [k \in 1..n |-> f[k]]
  BY <1>2
<1>4. \A k \in 1..n : f[k] \in Seq(Nat)
  BY <1>2
<1>5. /\ UpTo(f, 0) = <<>> /\ UpTo(f, n) = FlattenSeq(f)
      /\ \A k \in 1..n : UpTo(f, k) = UpTo(f, k - 1) \o f[k]
  BY <1>3, <1>4, Slices
<1> QED  BY <1>1, <1>2, <1>5

\* A step after which nothing is spooled any more.
LEMMA SpoolOver ==
  ASSUME SpoolInv, enc'.scanned = enc.scanned, enc'.opts = enc.opts, enc'.dict = enc.dict,
         enc'.pc \notin {"idle", "scan", "spool", "train", "stage", "verify"},
         enc'.res \notin SelfVerificationErrors
  PROVE  SpoolInv'
<1>1. InOrder'
  BY Zenon DEF SpoolInv, InOrder
<1>2. Spooled'
  BY DEF Spooled
<1>3. enc'.dict \in {<<>>, Dictionary}
  BY Zenon DEF SpoolInv, Dictionaries
<1>4. Dictionaries'
  BY <1>3 DEF Dictionaries
<1> QED  BY <1>1, <1>2, <1>4 DEF SpoolInv

\* The command fails, with an error that says nothing against its own envelope.
LEMMA FailInnocent ==
  ASSUME EncoderShape, SpoolInv, NEW e, EncodeFail(e), e \notin SelfVerificationErrors
  PROVE  SpoolInv'
<1>1. enc' = [enc EXCEPT !.pc = "failed", !.res = e]
  BY DEF EncodeFail
<1>2. /\ enc'.scanned = enc.scanned /\ enc'.opts = enc.opts /\ enc'.dict = enc.dict
      /\ enc'.pc = "failed" /\ enc'.res = e
  BY <1>1 DEF EncoderShape
<1>3. enc'.pc \notin {"idle", "scan", "spool", "train", "stage", "verify"}
  BY <1>2
<1> QED  BY <1>2, <1>3, SpoolOver

\* The same scan.
LEMMA SameScan ==
  ASSUME enc'.scanned = enc.scanned, enc'.opts = enc.opts
  PROVE  (InOrder => InOrder') /\ FileParts' = FileParts
BY Zenon DEF InOrder, FileParts

\* A command line is refused, or the scan starts with nothing spooled.
LEMMA EncodeStartInnocent ==
  ASSUME EncoderShape, EncoderTypes, SpoolInv, NEW o, NEW hint, EncodeStart(o, hint)
  PROVE  SpoolInv'
<1>1. CASE EncodeFail(CommandError(o))
  <2>1. CommandError(o) \notin SelfVerificationErrors
    BY CommandInnocent
  <2> QED  BY <1>1, <2>1, FailInnocent
<1>2. CASE EncodeFail("OutputExists")
  <2>1. "OutputExists" \notin SelfVerificationErrors
    BY DEF SelfVerificationErrors
  <2> QED  BY <1>2, <2>1, FailInnocent
<1>3. ASSUME NEW mode, enc' = [enc EXCEPT !.pc = "scan", !.opts = o, !.hint = hint, !.mode = mode]
      PROVE  SpoolInv'
  <2>1. /\ enc'.pc = "scan" /\ enc'.scanned = enc.scanned /\ enc'.spooled = enc.spooled
        /\ enc'.dict = enc.dict /\ enc'.res = enc.res
    BY <1>3 DEF EncoderShape
  <2>2. enc.pc = "idle"
    BY DEF EncodeStart
  <2>3. enc.scanned = <<>> /\ enc.spooled = <<>> /\ enc.dict = <<>> /\ enc.res \notin SelfVerificationErrors
    <3>1. enc.scanned = <<>>
      BY <2>2, Zenon DEF EncoderTypes
    <3>2. enc.spooled = <<>> /\ enc.dict = <<>> /\ enc.res \notin SelfVerificationErrors
      BY <2>2 DEF SpoolInv, Spooled
    <3> QED  BY <3>1, <3>2
  <2>4. InOrder'
    <3>1. enc'.scanned = <<>> /\ Len(enc'.scanned) = 0
      BY <2>1, <2>3
    <3> QED  BY <3>1 DEF InOrder
  <2>5. Spooled' /\ Dictionaries'
    BY <2>1, <2>3 DEF Spooled, Dictionaries
  <2> QED  BY <2>1, <2>3, <2>4, <2>5 DEF SpoolInv
<1>4. \/ EncodeFail(CommandError(o)) \/ EncodeFail("OutputExists")
      \/ \E mode : enc' = [enc EXCEPT !.pc = "scan", !.opts = o, !.hint = hint, !.mode = mode]
  BY Zenon DEF EncodeStart
<1> QED  BY <1>1, <1>2, <1>3, <1>4

\* The scan goes on with the same entries.
LEMMA SameState ==
  ASSUME SpoolInv, enc'.scanned = enc.scanned, enc'.opts = enc.opts, enc'.dict = enc.dict,
         enc'.spooled = enc.spooled, enc'.pc = enc.pc, enc'.res = enc.res,
         enc'.pass = enc.pass, enc'.compression = enc.compression,
         enc.pc = "spool" => enc'.idx = enc.idx
  PROVE  SpoolInv'
<1>1. InOrder' /\ FileParts' = FileParts
  BY SameScan DEF SpoolInv
<1>2. Spooled'
  BY <1>1, Zenon DEF SpoolInv, Spooled
<1>3. Dictionaries'
  BY Zenon DEF SpoolInv, Dictionaries
<1> QED  BY <1>1, <1>2, <1>3 DEF SpoolInv

\* Opening a source file fails for what the file is.
LEMMA ScanOpenInnocent ==
  ASSUME EncoderShape, SpoolInv, ScanOpen
  PROVE  SpoolInv'
<1>1. "Io" \notin SelfVerificationErrors /\ "SymbolicLink" \notin SelfVerificationErrors
  BY DEF SelfVerificationErrors
<1>2. CASE EncodeFail("Io")
  BY <1>1, <1>2, FailInnocent
<1>3. CASE EncodeFail("SymbolicLink")
  BY <1>1, <1>3, FailInnocent
<1>4. enc.pc = "scan"
  BY DEF ScanOpen
<1>5. ASSUME NEW i, enc' = [enc EXCEPT !.idx = i]  PROVE SpoolInv'
  <2>1. /\ enc'.pc = enc.pc /\ enc'.scanned = enc.scanned /\ enc'.spooled = enc.spooled /\ enc'.opts = enc.opts
        /\ enc'.dict = enc.dict /\ enc'.res = enc.res /\ enc'.pass = enc.pass /\ enc'.compression = enc.compression
    BY <1>5 DEF EncoderShape
  <2> QED  BY <1>4, <2>1, SameState
<1>6. ASSUME NEW half, NEW ex, enc' = [enc EXCEPT !.half = half, !.exec = ex]  PROVE SpoolInv'
  <2>1. /\ enc'.pc = enc.pc /\ enc'.scanned = enc.scanned /\ enc'.spooled = enc.spooled /\ enc'.opts = enc.opts
        /\ enc'.dict = enc.dict /\ enc'.res = enc.res /\ enc'.pass = enc.pass /\ enc'.compression = enc.compression
    BY <1>6 DEF EncoderShape
  <2> QED  BY <1>4, <2>1, SameState
<1>7. \/ EncodeFail("Io") \/ EncodeFail("SymbolicLink")
      \/ \E i : enc' = [enc EXCEPT !.idx = i]
      \/ \E half, ex : enc' = [enc EXCEPT !.half = half, !.exec = ex]
  BY Zenon DEF ScanOpen
<1> QED  BY <1>2, <1>3, <1>5, <1>6, <1>7

\* A file read after the others is after them in the tree.
LEMMA ScanCloseInnocent ==
  ASSUME EncoderInv, SpoolInv, ScanClose
  PROVE  SpoolInv'
<1>0. EncoderShape /\ EncoderTypes
  BY DEF EncoderInv
<1>1. CASE EncodeFail("FileTooLarge")
  <2>1. "FileTooLarge" \notin SelfVerificationErrors
    BY DEF SelfVerificationErrors
  <2> QED  BY <1>0, <1>1, <2>1, FailInnocent
<1>2. PICK e : e = ScannedFile(enc.opts, enc.idx, BytesRead(enc.idx), enc.exec)
  OBVIOUS
<1>3. CASE enc' = [enc EXCEPT !.idx = enc.idx + 1, !.half = 0, !.scanned = Append(enc.scanned, e)]
  <2>1. /\ enc'.pc = enc.pc /\ enc'.scanned = Append(enc.scanned, e) /\ enc'.spooled = enc.spooled
        /\ enc'.opts = enc.opts /\ enc'.dict = enc.dict /\ enc'.res = enc.res
    BY <1>0, <1>3 DEF EncoderShape
  <2>2. enc.pc = "scan" /\ enc.half # 0
    BY DEF ScanClose
  <2>3. e.index = enc.idx
    BY <1>2 DEF ScannedFile
  <2>4a. PICK s : s = enc.scanned
    OBVIOUS
  <2>4b. s \in Seq(ScannedFiles)
    BY <1>0, <2>4a DEF EncoderTypes
  <2>4c. PICK n \in Nat : n = Len(s)
    BY <2>4b
  <2>4. s = enc.scanned /\ n = Len(s) /\ s \in Seq(ScannedFiles)
    BY <2>4a, <2>4b, <2>4c
  <2>5. PICK t : t = Append(s, e)
    OBVIOUS
  <2>6. Len(t) = n + 1 /\ t[n + 1] = e /\ \A k \in 1..n : t[k] = s[k]
    BY <2>4, <2>5
  <2>7. enc.idx \in Nat \ {0} /\ enc.idx <= FilesRead(enc.opts)
        /\ \A k \in 1..n : s[k].index \in 1..(enc.idx - 1)
    <3>1. enc.idx <= FilesRead(enc.opts) /\ Covers(src, enc.idx - 1)
      BY <2>2, Zenon DEF EncoderInv, ScanInv
    <3>2. \A k \in 1..n : s[k].index \in 1..(enc.idx - 1)
      BY <2>4, <3>1 DEF Covers
    <3> QED  BY <1>0, <3>1, <3>2 DEF EncoderTypes
  <2>8. \A j, k \in 1..n : j < k => s[j].index < s[k].index
    BY <2>4 DEF SpoolInv, InOrder
  <2>9. \A k \in 1..n : s[k].index < enc.idx
    BY <2>7
  <2>10. ASSUME NEW j \in 1..(n + 1), NEW k \in 1..(n + 1), j < k  PROVE t[j].index < t[k].index
    <3>1. j \in 1..n /\ (k \in 1..n \/ k = n + 1)
      BY <2>4, <2>10
    <3>2. CASE k \in 1..n
      BY <2>6, <2>8, <2>10, <3>1, <3>2
    <3>3. CASE k = n + 1
      BY <2>3, <2>6, <2>9, <3>1, <3>3
    <3> QED  BY <3>1, <3>2, <3>3
  <2>11. enc.opts.kind = "File" => n + 1 = 1
    <3> SUFFICES ASSUME enc.opts.kind = "File", n # 0  PROVE FALSE
      BY <2>4
    <3>1. FilesRead(enc.opts) = 1
      BY DEF FilesRead
    <3>2. enc.idx = 1 /\ 1 \in 1..n
      BY <2>4, <2>7, <3>1
    <3> QED  BY <2>7, <3>2
  <2>12. InOrder'
    <3>1. enc'.scanned = t /\ Len(t) = n + 1
      BY <2>1, <2>4, <2>5, <2>6
    <3>2. \A j, k \in 1..Len(enc'.scanned) : j < k => enc'.scanned[j].index < enc'.scanned[k].index
      BY <2>10, <3>1
    <3>3. enc'.opts.kind = "File" => Len(enc'.scanned) = 1
      BY <2>1, <2>11, <3>1
    <3> QED  BY <3>2, <3>3 DEF InOrder
  <2>13. Spooled' /\ Dictionaries'
    BY <2>1, <2>2 DEF SpoolInv, Spooled, Dictionaries
  <2> QED  BY <2>1, <2>12, <2>13 DEF SpoolInv
<1>4. \/ EncodeFail("FileTooLarge")
      \/ enc' = [enc EXCEPT !.idx = enc.idx + 1, !.half = 0, !.scanned = Append(enc.scanned, e)]
  BY <1>2, Zenon DEF ScanClose
<1> QED  BY <1>1, <1>3, <1>4

\* The first pass starts with nothing.
LEMMA EndScanInnocent ==
  ASSUME EncoderShape, EncoderTypes, SpoolInv, EndScan
  PROVE  SpoolInv'
<1>1. PICK error : error = canonicalize(ScannedArtifact, enc.opts.limits)
  OBVIOUS
<1>2. error \notin SelfVerificationErrors
  BY <1>1, ScannedPlain, CanonicalizeInnocent
<1>3. CASE EncodeFail(error)
  BY <1>2, <1>3, FailInnocent
<1>4. CASE enc' = [enc EXCEPT !.pc = "encode"]
  <2>1. /\ enc'.scanned = enc.scanned /\ enc'.opts = enc.opts /\ enc'.dict = enc.dict
        /\ enc'.pc = "encode" /\ enc'.res = enc.res
    BY <1>4 DEF EncoderShape
  <2>2. enc'.pc \notin {"idle", "scan", "spool", "train", "stage", "verify"} /\ enc'.res \notin SelfVerificationErrors
    BY <2>1 DEF SpoolInv
  <2> QED  BY <2>1, <2>2, SpoolOver
<1>5. ASSUME NEW pass, pass # "dict", enc' = [enc EXCEPT !.pc = "spool", !.idx = 1, !.pass = pass]
      PROVE  SpoolInv'
  <2>1. /\ enc'.scanned = enc.scanned /\ enc'.opts = enc.opts /\ enc'.dict = enc.dict /\ enc'.spooled = enc.spooled
        /\ enc'.pc = "spool" /\ enc'.res = enc.res /\ enc'.idx = 1 /\ enc'.pass = pass
    BY <1>5 DEF EncoderShape
  <2>2. enc.pc = "scan"
    BY DEF EndScan
  <2>3. enc.spooled = <<>> /\ enc.dict = <<>> /\ enc.res \notin SelfVerificationErrors
    BY <2>2 DEF SpoolInv, Spooled
  <2>4. InOrder' /\ FileParts' = FileParts
    BY <2>1, SameScan DEF SpoolInv
  <2>5. UpTo(FileParts, 0) = <<>>
    BY PartsJoined
  <2>6. enc'.idx - 1 = 0
    BY <2>1
  <2>7. enc'.spooled = UpTo(FileParts', enc'.idx - 1)
    BY <2>1, <2>3, <2>4, <2>5, <2>6
  <2>8. Spooled' /\ Dictionaries'
    BY <2>1, <2>3, <2>7 DEF Spooled, Dictionaries
  <2> QED  BY <2>1, <2>3, <2>4, <2>8 DEF SpoolInv
<1>6. \/ EncodeFail(error)
      \/ enc' = [enc EXCEPT !.pc = "encode"]
      \/ enc' = [enc EXCEPT !.pc = "spool", !.idx = 1,
                            !.pass = IF enc.opts.compression = "None" THEN "verbatim" ELSE "zstd"]
  BY <1>1, Zenon DEF EndScan
<1>7. (IF enc.opts.compression = "None" THEN "verbatim" ELSE "zstd") # "dict"
  OBVIOUS
<1> QED  BY <1>3, <1>4, <1>5, <1>6, <1>7

\* Opening a source file again fails for what has become of it.
LEMMA SpoolOpenInnocent ==
  ASSUME EncoderShape, SpoolInv, SpoolOpen
  PROVE  SpoolInv'
<1>1. "Io" \notin SelfVerificationErrors /\ "SourceChanged" \notin SelfVerificationErrors
  BY DEF SelfVerificationErrors
<1>2. CASE EncodeFail("Io")
  BY <1>1, <1>2, FailInnocent
<1>3. CASE EncodeFail("SourceChanged")
  BY <1>1, <1>3, FailInnocent
<1>4. ASSUME NEW half, enc' = [enc EXCEPT !.half = half]  PROVE SpoolInv'
  <2>1. /\ enc'.pc = enc.pc /\ enc'.scanned = enc.scanned /\ enc'.spooled = enc.spooled /\ enc'.opts = enc.opts
        /\ enc'.dict = enc.dict /\ enc'.res = enc.res /\ enc'.pass = enc.pass /\ enc'.compression = enc.compression
        /\ enc'.idx = enc.idx
    BY <1>4 DEF EncoderShape
  <2> QED  BY <2>1, SameState
<1>5. EncodeFail("Io") \/ EncodeFail("SourceChanged") \/ \E half : enc' = [enc EXCEPT !.half = half]
  BY Zenon DEF SpoolOpen
<1> QED  BY <1>2, <1>3, <1>4, <1>5

\* What a pass reads of a file is what the scan read of it.
LEMMA SpoolCloseInnocent ==
  ASSUME EncoderInv, SpoolInv, SpoolClose
  PROVE  SpoolInv'
<1>0. EncoderShape /\ EncoderTypes
  BY DEF EncoderInv
<1>1. PICK entry, bytes : entry = enc.scanned[enc.idx] /\ bytes = BytesRead(entry.index)
  OBVIOUS
<1>2. CASE EncodeFail("SourceChanged")
  <2>1. "SourceChanged" \notin SelfVerificationErrors
    BY DEF SelfVerificationErrors
  <2> QED  BY <1>0, <1>2, <2>1, FailInnocent
<1>3. CASE /\ file_digest(bytes) = file_digest(entry.bytes)
           /\ enc' = [enc EXCEPT !.half = 0, !.idx = enc.idx + 1, !.spooled = enc.spooled \o bytes]
  <2>1. bytes = entry.bytes
    BY <1>3 DEF file_digest
  <2>2. /\ enc'.scanned = enc.scanned /\ enc'.opts = enc.opts /\ enc'.dict = enc.dict
        /\ enc'.spooled = enc.spooled \o bytes /\ enc'.pass = enc.pass
        /\ enc'.pc = enc.pc /\ enc'.res = enc.res /\ enc'.idx = enc.idx + 1
    BY <1>0, <1>3 DEF EncoderShape
  <2>3. enc.pc = "spool" /\ enc.half # 0
    BY DEF SpoolClose
  <2>4. enc.idx <= Len(enc.scanned) /\ enc.idx \in Nat \ {0}
    <3>1. enc.idx <= Len(enc.scanned)
      BY <2>3, Zenon DEF EncoderInv, StreamInv
    <3> QED  BY <1>0, <3>1 DEF EncoderTypes
  <2>5a. PICK f : f = FileParts
    OBVIOUS
  <2>5b. PICK n \in Nat : /\ n = Len(enc.scanned)
                          /\ \A k \in 1..n : /\ FileParts[k] = enc.scanned[k].bytes
                                             /\ UpTo(FileParts, k) = UpTo(FileParts, k - 1) \o FileParts[k]
    BY <1>0, PartsJoined
  <2>5. /\ f = FileParts /\ n = Len(enc.scanned)
        /\ \A k \in 1..n : f[k] = enc.scanned[k].bytes
        /\ \A k \in 1..n : UpTo(f, k) = UpTo(f, k - 1) \o f[k]
    BY <2>5a, <2>5b
  <2>6. enc.idx \in 1..n
    BY <2>4, <2>5
  <2>7. UpTo(f, enc.idx) = UpTo(f, enc.idx - 1) \o f[enc.idx]
    BY <2>5, <2>6
  <2>8. enc.spooled = UpTo(f, enc.idx - 1) /\ (enc.pass # "dict" => enc.dict = <<>>)
    BY <2>3, <2>5, Zenon DEF SpoolInv, Spooled
  <2>9. bytes = f[enc.idx]
    BY <1>1, <2>1, <2>5, <2>6
  <2>10. InOrder' /\ FileParts' = f
    BY <2>2, <2>5, SameScan DEF SpoolInv
  <2>11. enc'.idx - 1 = enc.idx
    BY <2>2, <2>4
  <2>12. enc'.spooled = UpTo(FileParts', enc'.idx - 1)
    BY <2>2, <2>7, <2>8, <2>9, <2>10, <2>11
  <2>13. Spooled'
    BY <2>2, <2>3, <2>8, <2>12 DEF Spooled
  <2>14. Dictionaries'
    BY <2>2, <2>3 DEF SpoolInv, Dictionaries
  <2> QED  BY <2>2, <2>10, <2>13, <2>14 DEF SpoolInv
<1>4. \/ EncodeFail("SourceChanged")
      \/ /\ file_digest(bytes) = file_digest(entry.bytes)
         /\ enc' = [enc EXCEPT !.half = 0, !.idx = enc.idx + 1, !.spooled = enc.spooled \o bytes]
  BY <1>1, Zenon DEF SpoolClose
<1> QED  BY <1>2, <1>3, <1>4

\* A pass starts over with nothing spooled.
LEMMA AgainInnocent ==
  ASSUME EncoderTypes, SpoolInv, enc'.scanned = enc.scanned, enc'.opts = enc.opts, enc'.res = enc.res,
         enc'.pc = "spool", enc'.idx = 1, enc'.spooled = <<>>, enc'.dict \in {<<>>, Dictionary},
         enc'.pass # "dict" => enc'.dict = <<>>
  PROVE  SpoolInv'
<1>1. InOrder' /\ FileParts' = FileParts
  BY SameScan DEF SpoolInv
<1>2. UpTo(FileParts, 0) = <<>>
  BY PartsJoined
<1>3. enc'.idx - 1 = 0
  OBVIOUS
<1>4. enc'.spooled = UpTo(FileParts', enc'.idx - 1)
  BY <1>1, <1>2, <1>3
<1>5. Spooled' /\ Dictionaries'
  BY <1>4 DEF Spooled, Dictionaries
<1> QED  BY <1>1, <1>5 DEF SpoolInv

\* A pass is complete.
LEMMA PassInnocent ==
  ASSUME SpoolInv, enc'.scanned = enc.scanned, enc'.opts = enc.opts, enc'.res = enc.res,
         enc'.spooled = enc.spooled, enc.spooled = FlattenSeq(FileParts),
         enc'.pc \in {"train", "stage"}, enc'.dict \in {<<>>, Dictionary},
         enc'.pc = "stage" => enc'.compression \in Algorithms /\ (enc'.compression = "None" => enc'.dict = <<>>)
  PROVE  SpoolInv'
<1>1. InOrder' /\ FileParts' = FileParts
  BY SameScan DEF SpoolInv
<1>2. enc'.spooled = FlattenSeq(FileParts')
  BY <1>1
<1>3. Spooled'
  BY <1>2 DEF Spooled
<1>4. Dictionaries'
  BY DEF Dictionaries
<1> QED  BY <1>1, <1>3, <1>4 DEF SpoolInv

\* Zstandard's result is kept, or the source is stored verbatim.
LEMMA ChooseInnocent ==
  ASSUME EncoderShape, EncoderTypes, SpoolInv, enc.spooled = FlattenSeq(FileParts),
         NEW dict \in {<<>>, Dictionary}, NEW size, enc' = Choose(enc, dict, size)
  PROVE  SpoolInv'
<1>1. \/ enc' = AgainAs([enc EXCEPT !.dict = <<>>], "verbatim")
      \/ enc' = [enc EXCEPT !.pc = "stage", !.compression = "Zstd", !.dict = dict, !.ordinary = size]
  BY Zenon DEF Choose
<1>2. CASE enc' = AgainAs([enc EXCEPT !.dict = <<>>], "verbatim")
  <2>1. /\ enc'.scanned = enc.scanned /\ enc'.opts = enc.opts /\ enc'.res = enc.res
        /\ enc'.pc = "spool" /\ enc'.idx = 1 /\ enc'.spooled = <<>> /\ enc'.dict = <<>>
    BY <1>2 DEF AgainAs, EncoderShape
  <2> QED  BY <2>1, AgainInnocent
<1>3. CASE enc' = [enc EXCEPT !.pc = "stage", !.compression = "Zstd", !.dict = dict, !.ordinary = size]
  <2>1. /\ enc'.scanned = enc.scanned /\ enc'.opts = enc.opts /\ enc'.res = enc.res
        /\ enc'.pc = "stage" /\ enc'.spooled = enc.spooled /\ enc'.dict = dict /\ enc'.compression = "Zstd"
    BY <1>3 DEF EncoderShape
  <2>2. enc'.pc \in {"train", "stage"} /\ enc'.dict \in {<<>>, Dictionary} /\ enc'.compression \in Algorithms
        /\ enc'.compression # "None"
    BY <2>1 DEF Algorithms
  <2> QED  BY <2>1, <2>2, PassInnocent
<1> QED  BY <1>1, <1>2, <1>3

\* At the end of a pass every file is spooled.
LEMMA PassComplete ==
  ASSUME EncoderInv, SpoolInv, enc.pc = "spool", enc.idx > Len(enc.scanned)
  PROVE  enc.spooled = FlattenSeq(FileParts)
<1>0. EncoderTypes
  BY DEF EncoderInv
<1>1. PICK n \in Nat : n = Len(enc.scanned) /\ UpTo(FileParts, n) = FlattenSeq(FileParts)
  BY <1>0, PartsJoined
<1>2. enc.idx \in Nat \ {0} /\ enc.idx <= Len(enc.scanned) + 1
  BY DEF EncoderInv, EncoderTypes, StreamInv
<1>3. enc.idx - 1 = n
  BY <1>1, <1>2
<1>4. enc.spooled = UpTo(FileParts, enc.idx - 1)
  BY DEF SpoolInv, Spooled
<1> QED  BY <1>1, <1>3, <1>4

\* The end of a pass only fails for a limit or a size.
LEMMA EndPassInnocent ==
  ASSUME EncoderInv, SpoolInv, NEW size, EndPass(size)
  PROVE  SpoolInv'
<1>0. EncoderShape /\ EncoderTypes
  BY DEF EncoderInv
<1>1. enc.pc = "spool" /\ enc.idx > Len(enc.scanned)
  BY DEF EndPass
<1>2. enc.spooled = FlattenSeq(FileParts)
  BY <1>1, PassComplete
<1>3. PICK dict : dict = IF enc.pass = "dict" THEN enc.dict ELSE <<>>
  OBVIOUS
<1>4. PICK algorithm : algorithm = IF enc.pass = "verbatim" THEN "None" ELSE "Zstd"
  OBVIOUS
<1>5. dict \in {<<>>, Dictionary} /\ enc.dict \in {<<>>, Dictionary} /\ (algorithm = "None" => dict = <<>>)
  BY <1>3, <1>4 DEF SpoolInv, Dictionaries
<1>6. PICK error : error = CompressStreamError(enc.spooled, Len(Original), algorithm, dict, size, enc.opts.limits)
  OBVIOUS
<1>7. error \notin SelfVerificationErrors
  BY <1>5, <1>6, CompressInnocent
<1>8. CASE EncodeFail(error)
  BY <1>0, <1>7, <1>8, FailInnocent
<1>9. CASE enc.pass = "verbatim" /\ enc' = [enc EXCEPT !.pc = "stage", !.compression = "None"]
  <2>1. enc.dict = <<>>
    BY <1>1, <1>9 DEF SpoolInv, Spooled
  <2>2. /\ enc'.scanned = enc.scanned /\ enc'.opts = enc.opts /\ enc'.res = enc.res
        /\ enc'.pc = "stage" /\ enc'.spooled = enc.spooled /\ enc'.dict = enc.dict /\ enc'.compression = "None"
    BY <1>0, <1>9 DEF EncoderShape
  <2>3. enc'.pc \in {"train", "stage"} /\ enc'.dict \in {<<>>, Dictionary} /\ enc'.compression \in Algorithms
    BY <2>1, <2>2 DEF Algorithms
  <2> QED  BY <1>2, <2>1, <2>2, <2>3, PassInnocent
<1>10. CASE enc' = [enc EXCEPT !.pc = "train", !.ordinary = size]
  <2>1. /\ enc'.scanned = enc.scanned /\ enc'.opts = enc.opts /\ enc'.res = enc.res
        /\ enc'.pc = "train" /\ enc'.spooled = enc.spooled /\ enc'.dict = enc.dict
    BY <1>0, <1>10 DEF EncoderShape
  <2>2. enc'.pc \in {"train", "stage"} /\ enc'.dict \in {<<>>, Dictionary} /\ enc'.pc # "stage"
    BY <1>5, <2>1
  <2> QED  BY <1>2, <2>1, <2>2, PassInnocent
<1>11. CASE \E s : enc' = Choose(enc, <<>>, s) \/ enc' = Choose(enc, dict, s)
  <2>1. <<>> \in {<<>>, Dictionary}
    OBVIOUS
  <2> QED  BY <1>0, <1>2, <1>5, <1>11, <2>1, ChooseInnocent
<1>12. \/ EncodeFail(error)
       \/ enc.pass = "verbatim" /\ enc' = [enc EXCEPT !.pc = "stage", !.compression = "None"]
       \/ enc' = [enc EXCEPT !.pc = "train", !.ordinary = size]
       \/ \E s : enc' = Choose(enc, <<>>, s) \/ enc' = Choose(enc, dict, s)
  BY <1>3, <1>4, <1>6, Zenon DEF EndPass
<1> QED  BY <1>8, <1>9, <1>10, <1>11, <1>12

\* Training fails for what is wrong with a source.
LEMMA TrainInnocent ==
  ASSUME EncoderShape, EncoderTypes, SpoolInv, NEW dict \in {<<>>, Dictionary}, Train(dict)
  PROVE  SpoolInv'
<1>1. "Io" \notin SelfVerificationErrors /\ "SymbolicLink" \notin SelfVerificationErrors
  BY DEF SelfVerificationErrors
<1>2. CASE EncodeFail("Io")
  BY <1>1, <1>2, FailInnocent
<1>3. CASE EncodeFail("SymbolicLink")
  BY <1>1, <1>3, FailInnocent
<1>4. enc.pc = "train"
  BY DEF Train
<1>5. enc.spooled = FlattenSeq(FileParts)
  BY <1>4 DEF SpoolInv, Spooled
<1>6. CASE enc' = Choose(enc, <<>>, enc.ordinary)
  <2>1. <<>> \in {<<>>, Dictionary}
    OBVIOUS
  <2> QED  BY <1>5, <1>6, <2>1, ChooseInnocent
<1>7. CASE enc' = AgainAs([enc EXCEPT !.dict = dict], "dict")
  <2>1. /\ enc'.scanned = enc.scanned /\ enc'.opts = enc.opts /\ enc'.res = enc.res
        /\ enc'.pc = "spool" /\ enc'.idx = 1 /\ enc'.spooled = <<>> /\ enc'.dict = dict /\ enc'.pass = "dict"
    BY <1>7 DEF AgainAs, EncoderShape
  <2> QED  BY <2>1, AgainInnocent
<1>8. \/ EncodeFail("Io") \/ EncodeFail("SymbolicLink")
      \/ enc' = Choose(enc, <<>>, enc.ordinary)
      \/ enc' = AgainAs([enc EXCEPT !.dict = dict], "dict")
  BY Zenon DEF Train
<1> QED  BY <1>2, <1>3, <1>6, <1>7, <1>8

\* The staged envelope is only refused for a limit.
LEMMA StageInnocent ==
  ASSUME EncoderShape, SpoolInv, Stage
  PROVE  SpoolInv'
<1>1. PICK a : a = ScannedArtifact
  OBVIOUS
<1>2. PICK b : b = Envelope(a, enc.dict, CanonicalEntries(a), enc.compression, enc.opts.profile,
                            Encoded(enc.spooled, enc.compression, enc.dict, enc.ordinary))
  OBVIOUS
<1>3. PICK limits : limits = enc.opts.limits
  OBVIOUS
<1>4. PICK error : error = FirstError(<< <<ManifestSize(b.manifest) > limits.max_manifest_bytes, "ManifestTooLarge">>,
                                         enforce_binary_size(BinarySize(b), limits) >>)
  OBVIOUS
<1>5. error \notin SelfVerificationErrors
  BY <1>4, LimitsInnocent
<1>6. CASE EncodeFail(error)
  BY <1>5, <1>6, FailInnocent
<1>7. enc.pc = "stage"
  BY DEF Stage
<1>8. CASE enc' = [enc EXCEPT !.pc = "verify", !.binary = b]
  <2>1. /\ enc'.scanned = enc.scanned /\ enc'.opts = enc.opts /\ enc'.res = enc.res
        /\ enc'.pc = "verify" /\ enc'.spooled = enc.spooled /\ enc'.dict = enc.dict
        /\ enc'.compression = enc.compression
    BY <1>8 DEF EncoderShape
  <2>2. InOrder' /\ FileParts' = FileParts
    BY <2>1, SameScan DEF SpoolInv
  <2>3. enc'.spooled = FlattenSeq(FileParts')
    BY <1>7, <2>1, <2>2 DEF SpoolInv, Spooled
  <2>4. Spooled'
    BY <2>1, <2>3 DEF Spooled
  <2>5. Dictionaries'
    BY <1>7, <2>1 DEF SpoolInv, Dictionaries
  <2> QED  BY <2>1, <2>2, <2>4, <2>5 DEF SpoolInv
<1>9. EncodeFail(error) \/ enc' = [enc EXCEPT !.pc = "verify", !.binary = b]
  BY <1>1, <1>2, <1>3, <1>4, Zenon DEF Stage
<1> QED  BY <1>6, <1>8, <1>9

\* What is staged is an honest envelope of what was scanned.
LEMMA StagedHonest ==
  ASSUME EncoderInv, EnvelopeInv, SpoolInv, enc.pc = "verify"
  PROVE  Honest(enc.binary, ScannedArtifact)
<1>0. EncoderTypes /\ InOrder
  BY DEF EncoderInv, SpoolInv
<1>1. Covers(atScan, FilesRead(enc.opts))
  BY DEF EncoderInv, StreamInv, Streaming
<1>2. PICK a : a = ScannedArtifact
  OBVIOUS
<1>3. FlattenSeq(FileParts) = PayloadOf(Sorted(a))
  BY <1>0, <1>1, <1>2, PayloadSpooled
<1>4. enc.spooled = PayloadOf(Sorted(a))
  BY <1>3 DEF SpoolInv, Spooled
<1>5. PICK size, dict, compression, profile :
        size = enc.ordinary /\ dict = enc.dict /\ compression = enc.compression /\ profile = enc.opts.profile
  OBVIOUS
<1>6. size \in Nat /\ dict \in {<<>>, Dictionary} /\ compression \in Algorithms /\ (compression = "None" => dict = <<>>)
  BY <1>5 DEF EnvelopeInv, SpoolInv, Dictionaries
<1>7. enc.binary = Envelope(a, dict, CanonicalEntries(a), compression, profile,
                            Encoded(PayloadOf(Sorted(a)), compression, dict, size))
  <2>1. enc.binary = Envelope(a, dict, CanonicalEntries(a), compression, profile,
                              Encoded(enc.spooled, compression, dict, size))
    BY <1>2, <1>5, Zenon DEF EncoderInv, StreamInv
  <2> QED  BY <1>4, <2>1
<1>8. Honest(enc.binary, a)
  BY <1>6, <1>7, Zenon DEF Honest
<1> QED  BY <1>2, <1>8

\* A step to a state in which nothing is spooled, and the result is unchanged or a success.
LEMMA OverInnocent ==
  ASSUME SpoolInv, enc'.scanned = enc.scanned, enc'.opts = enc.opts, enc'.dict = enc.dict,
         enc'.pc \in {"persist", "create", "fill", "done", "crashed"}, enc'.res = enc.res \/ enc'.res = Passed
  PROVE  SpoolInv'
<1>1. enc'.pc \notin {"idle", "scan", "spool", "train", "stage", "verify"}
  OBVIOUS
<1>2. Passed \notin SelfVerificationErrors
  BY DEF SelfVerificationErrors, Passed
<1>3. enc'.res \notin SelfVerificationErrors
  BY <1>2 DEF SpoolInv
<1> QED  BY <1>1, <1>3, SpoolOver

\* The streaming decoder only refuses what is staged for a limit.
LEMMA VerifyInnocent ==
  ASSUME EncoderInv, EnvelopeInv, SpoolInv, Verify
  PROVE  SpoolInv'
<1>0. EncoderShape /\ EncoderTypes /\ InOrder
  BY DEF EncoderInv, SpoolInv
<1>1. PICK a, b, limits : a = ScannedArtifact /\ b = enc.binary /\ limits = enc.opts.limits
  OBVIOUS
<1>2. enc.pc = "verify"
  BY DEF Verify
<1>3. Honest(b, a)
  BY <1>1, <1>2, StagedHonest
<1>4. PlainTree(a) /\ Tidy(a)
  BY <1>0, <1>1, ScannedPlain, ScannedTidy
<1>5. PICK error : error = StreamDecodeError(b, limits)
  OBVIOUS
<1>6. error \notin SelfVerificationErrors
  BY <1>3, <1>4, <1>5, HonestAccepted
<1>7. CASE EncodeFail(error)
  BY <1>0, <1>6, <1>7, FailInnocent
<1>8. CASE enc' = [enc EXCEPT !.pc = "persist"]
  <2>1. /\ enc'.scanned = enc.scanned /\ enc'.opts = enc.opts /\ enc'.dict = enc.dict
        /\ enc'.pc = "persist" /\ enc'.res = enc.res
    BY <1>0, <1>8 DEF EncoderShape
  <2> QED  BY <2>1, OverInnocent
<1>9. EncodeFail(error) \/ enc' = [enc EXCEPT !.pc = "persist"]
  BY <1>1, <1>5, Zenon DEF Verify
<1> QED  BY <1>7, <1>8, <1>9

\* encode_artifact only refuses what it made itself for a limit.
LEMMA InMemoryInnocent ==
  ASSUME EncoderInv, SpoolInv, NEW dict \in {<<>>, Dictionary}, NEW s \in ZstdSizes, NEW t \in ZstdSizes,
         EncodeInMemory(dict, s, t)
  PROVE  SpoolInv'
<1>0. EncoderShape /\ EncoderTypes /\ InOrder
  BY DEF EncoderInv, SpoolInv
<1>1. PICK a, opts : a = ScannedArtifact /\ opts = enc.opts
  OBVIOUS
<1>2. PlainTree(a) /\ Tidy(a)
  BY <1>0, <1>1, ScannedPlain, ScannedTidy
<1>3. s \in Nat /\ t \in Nat
  BY ArtifactFilesAssumption
<1>4. PICK r : r = EncodeResult(a, opts, dict, s, t)
  OBVIOUS
<1>5. r.error \notin SelfVerificationErrors /\ r.verify \notin SelfVerificationErrors
  BY <1>2, <1>3, <1>4, MemoryInnocent
<1>6. PICK pc : pc = IF enc.opts.output THEN "create" ELSE "done"
  OBVIOUS
<1>7. CASE EncodeFail(r.error)
  BY <1>0, <1>5, <1>7, FailInnocent
<1>8. CASE EncodeFail(r.verify)
  BY <1>0, <1>5, <1>8, FailInnocent
<1>9. CASE enc' = [enc EXCEPT !.pc = pc, !.binary = r.binary, !.res = Passed]
  <2>1. /\ enc'.scanned = enc.scanned /\ enc'.opts = enc.opts /\ enc'.dict = enc.dict
        /\ enc'.pc = pc /\ enc'.res = Passed
    BY <1>0, <1>9 DEF EncoderShape
  <2>2. enc'.pc \in {"persist", "create", "fill", "done", "crashed"}
    BY <1>6, <2>1
  <2> QED  BY <2>1, <2>2, OverInnocent
<1>10. CASE EncodeFail("TokenTooLarge")
  <2>1. "TokenTooLarge" \notin SelfVerificationErrors
    BY DEF SelfVerificationErrors
  <2> QED  BY <1>0, <1>10, <2>1, FailInnocent
<1>11. \/ EncodeFail(r.error) \/ EncodeFail(r.verify) \/ EncodeFail("TokenTooLarge")
       \/ enc' = [enc EXCEPT !.pc = pc, !.binary = r.binary, !.res = Passed]
  BY <1>1, <1>4, <1>6, Zenon DEF EncodeInMemory
<1> QED  BY <1>7, <1>8, <1>9, <1>10, <1>11

\* Committing fails for what stands at the output.
LEMMA CommitInnocent ==
  ASSUME EncoderShape, SpoolInv, Persist \/ CreateOutput \/ FillOutput
  PROVE  SpoolInv'
<1>1. CASE EncodeFail("Io")
  <2>1. "Io" \notin SelfVerificationErrors
    BY DEF SelfVerificationErrors
  <2> QED  BY <1>1, <2>1, FailInnocent
<1>2. CASE enc' = [enc EXCEPT !.pc = "done", !.res = Passed]
  <2>1. /\ enc'.scanned = enc.scanned /\ enc'.opts = enc.opts /\ enc'.dict = enc.dict
        /\ enc'.pc = "done" /\ enc'.res = Passed
    BY <1>2 DEF EncoderShape
  <2> QED  BY <2>1, OverInnocent
<1>3. ASSUME NEW pc \in {"fill", "done"}, enc' = [enc EXCEPT !.pc = pc]  PROVE SpoolInv'
  <2>1. /\ enc'.scanned = enc.scanned /\ enc'.opts = enc.opts /\ enc'.dict = enc.dict
        /\ enc'.pc \in {"fill", "done"} /\ enc'.res = enc.res
    BY <1>3 DEF EncoderShape
  <2> QED  BY <2>1, OverInnocent
<1>4. \/ EncodeFail("Io") \/ enc' = [enc EXCEPT !.pc = "done", !.res = Passed]
      \/ enc' = [enc EXCEPT !.pc = "fill"] \/ enc' = [enc EXCEPT !.pc = "done"]
  BY Zenon DEF Persist, CreateOutput, FillOutput
<1>5. "fill" \in {"fill", "done"} /\ "done" \in {"fill", "done"}
  OBVIOUS
<1> QED  BY <1>1, <1>2, <1>3, <1>4, <1>5

\* So does a write that the filesystem refuses.
LEMMA FillFailsInnocent ==
  ASSUME EncoderShape, SpoolInv, NEW form, FillFails(form)
  PROVE  SpoolInv'
<1>1. enc' = [enc EXCEPT !.pc = "failed", !.res = "Io"]
  BY DEF FillFails
<1>2. /\ enc'.scanned = enc.scanned /\ enc'.opts = enc.opts /\ enc'.dict = enc.dict
      /\ enc'.pc = "failed" /\ enc'.res = "Io"
  BY <1>1 DEF EncoderShape
<1>3. enc'.res \notin SelfVerificationErrors
  BY <1>2 DEF SelfVerificationErrors
<1>4. enc'.pc \notin {"idle", "scan", "spool", "train", "stage", "verify"}
  BY <1>2
<1> QED  BY <1>2, <1>3, <1>4, SpoolOver

\* Every step keeps it.
LEMMA SpoolStep ==
  ASSUME EncoderInv, EnvelopeInv, SpoolInv, [Next]_vars
  PROVE  SpoolInv'
<1>1. EncoderShape /\ EncoderTypes
  BY DEF EncoderInv
<1>2. CASE Encode
  <2>1. CASE \E o \in Options, hint \in Suggestions : EncodeStart(o, hint)
    BY <1>1, <2>1, EncodeStartInnocent
  <2>2. CASE ScanOpen \/ ScanClose \/ EndScan \/ SpoolOpen \/ SpoolClose
    BY <1>1, <2>2, ScanOpenInnocent, ScanCloseInnocent, EndScanInnocent, SpoolOpenInnocent, SpoolCloseInnocent
  <2>3. CASE \E size \in ZstdSizes : EndPass(size)
    BY <2>3, EndPassInnocent
  <2>4. CASE \E dict \in {<<>>, Dictionary} : Train(dict)
    BY <1>1, <2>4, TrainInnocent
  <2>5. CASE Stage \/ Verify
    BY <1>1, <2>5, StageInnocent, VerifyInnocent
  <2>6. CASE \E dict \in {<<>>, Dictionary}, s, t \in ZstdSizes : EncodeInMemory(dict, s, t)
    BY <2>6, InMemoryInnocent
  <2>7. CASE Persist \/ CreateOutput \/ FillOutput
    BY <1>1, <2>7, CommitInnocent
  <2> QED  BY <1>2, <2>1, <2>2, <2>3, <2>4, <2>5, <2>6, <2>7, Zenon DEF Encode
<1>3. ASSUME enc' = enc PROVE SpoolInv'
  BY <1>3, SameState
<1>4. CASE Decode
  BY <1>3, <1>4, DecodeLeavesEncoder
<1>5. CASE Others
  <2>1. CASE enc' = [enc EXCEPT !.pc = "crashed"]
    <3>1. /\ enc'.scanned = enc.scanned /\ enc'.opts = enc.opts /\ enc'.dict = enc.dict
          /\ enc'.pc = "crashed" /\ enc'.res = enc.res
      BY <1>1, <2>1 DEF EncoderShape
    <3> QED  BY <3>1, OverInnocent
  <2>2. CASE \E form \in {"torn", "token", "binary"} : FillFails(form)
    BY <1>1, <2>2, FillFailsInnocent
  <2>3. \/ enc' = [enc EXCEPT !.pc = "crashed"] \/ enc' = enc
        \/ \E form \in {"torn", "token", "binary"} : FillFails(form)
    BY <1>5, Zenon DEF Others, WriteSource, SwapArtifact, CreateForeign, CreateForeignOutput, Crash
  <2> QED  BY <1>3, <2>1, <2>2, <2>3
<1>6. CASE UNCHANGED vars
  BY <1>3, <1>6 DEF vars
<1> QED  BY <1>2, <1>4, <1>5, <1>6 DEF Next

\* It holds from the start.
LEMMA SpoolInvariant == Spec => []SpoolInv
<1>1. Init => SpoolInv
  <2> SUFFICES ASSUME Init PROVE SpoolInv
    OBVIOUS
  <2>1. /\ enc.pc = "idle" /\ enc.scanned = <<>> /\ enc.spooled = <<>> /\ enc.dict = <<>> /\ enc.res = "none"
    BY DEF Init, NoEncoder
  <2>2. InOrder
    BY <2>1 DEF InOrder
  <2>3. Spooled /\ Dictionaries /\ enc.res \notin SelfVerificationErrors
    BY <2>1 DEF Spooled, Dictionaries, SelfVerificationErrors
  <2> QED  BY <2>2, <2>3 DEF SpoolInv
<1>2. EncoderInv /\ EnvelopeInv /\ SpoolInv /\ [Next]_vars => SpoolInv'
  BY SpoolStep
<1> QED  BY <1>1, <1>2, ArtifactInvariants, EnvelopeInvariant, PTL DEF Spec

\* What encode is about to commit is accepted by both decoders and decodes to the
\* scanned artifact in canonical order, though the streaming encoder asks one of
\* them and encode_artifact the other; a file that is not complete is only left by
\* write_new, killed or refused by the filesystem, and a streamed command that fails
\* leaves none; and no encoding is given up because its own
\* verification finds a digest, a payload range, an order or a frame wrong: the
\* decoders reject what the encoders make for a limit or for a path and for
\* nothing else, whatever happens to the sources meanwhile (encode_artifact,
\* encode_artifact_file, write_new).
THEOREM EncodingRoundTrips == Spec => []EncodedDecodes
<1>1. EnvelopeInv /\ SpoolInv => EncodedDecodes
  BY DEF EnvelopeInv, SpoolInv, EncodedDecodes
<1> QED  BY <1>1, EnvelopeInvariant, SpoolInvariant, PTL

=============================================================================
