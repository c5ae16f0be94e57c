---------------------------- MODULE ArtifactCodec ----------------------------
(***************************************************************************)
(* The unsigned artifact envelope                                          *)
(* (crates/rebyte-artifact-token/src/codec.rs and the decoding half of     *)
(* codec/stream.rs): canonical entries, manifest, header, digests, the     *)
(* choice of the stored form, and the two decoders.                        *)
(*                                                                         *)
(* An artifact is [kind, name, path, entries], an entry [kind, path,       *)
(* bytes, executable]; a name or path that is not there is the empty       *)
(* sequence.  Digests are collision free: the digest of x is x under its   *)
(* domain.  Lengths of the binary parts are counted in fields.             *)
(***************************************************************************)
EXTENDS Compression, PortablePath, FiniteSets, TLC

CONSTANTS
  HeaderSize, MaxDictionarySize, MinDictionarySamples, MinSampleSize,
  DictionaryPrefix     \* bytes of the dictionary's length field

ASSUME CodecAssumption == HeaderSize \in Nat

NoDigest == <<"zero">>
file_digest(bytes) == <<"file", bytes>>

-----------------------------------------------------------------------------
(* Canonical entries.                                                      *)

enforce_entry_count(n, limits) == <<n > limits.max_file_count, "TooManyEntries">>
enforce_file_size(n, limits) == <<n > limits.max_single_file_bytes, "FileTooLarge">>
enforce_payload_size(n, limits) == <<n > limits.max_uncompressed_payload_bytes, "PayloadTooLarge">>
enforce_binary_size(n, limits) == <<n > limits.max_capsule_bytes, "BinaryTooLarge">>
enforce_token_size(n, limits) == <<n > limits.max_token_bytes, "TokenTooLarge">>

\* A suggested name is one portable component.
validate_suggested_name(name, limits) ==
  <<name # <<>> /\ (Len(name) > 1 \/ ~ValidPath(name, limits.max_path_bytes)), "InvalidName">>
validate_metadata(a, limits) ==
  << validate_suggested_name(a.name, limits),
     <<a.path # <<>> /\ ~ValidPath(a.path, limits.max_path_bytes), "Path">> >>

\* No entry lies below a file that comes before it.
validate_tree(entries) ==
  <<\E i, j \in 1..Len(entries) :
      i < j /\ entries[i].kind = "File" /\ IsStrictPrefix(entries[i].path, entries[j].path)
            /\ entries[i].path # <<>>,
    "PathTypeConflict">>

\* The place of the i-th entry in path order; entries of one path keep their order.
Rank(entries, i) ==
  1 + Cardinality({j \in 1..Len(entries) :
                     \/ PathLess(entries[j].path, entries[i].path)
                     \/ entries[j].path = entries[i].path /\ j < i})

Sorted(a) ==
  IF a.kind = "File" THEN a.entries
  ELSE [k \in 1..Len(a.entries) |->
          a.entries[CHOOSE i \in 1..Len(a.entries) : Rank(a.entries, i) = k]]

PayloadOf(entries) == FlattenSeq([i \in 1..Len(entries) |-> entries[i].bytes])

SizeBefore(entries, i) == Len(PayloadOf(SubSeq(entries, 1, i - 1)))

\* The manifest entry of the i-th source entry.
CanonicalEntry(entries, i) ==
  LET e == entries[i] IN
  IF e.kind = "File"
  THEN [kind |-> "File", path |-> e.path, offset |-> SizeBefore(entries, i),
        size |-> Len(e.bytes), digest |-> file_digest(e.bytes), executable |-> e.executable]
  ELSE [kind |-> "Directory", path |-> e.path, offset |-> 0, size |-> 0,
        digest |-> NoDigest, executable |-> FALSE]

CanonicalEntries(a) ==
  LET s == Sorted(a) IN [i \in 1..Len(s) |-> CanonicalEntry(s, i)]

\* The checks canonicalize makes of the i-th sorted entry.
SourceEntryChecks(s, i, limits) ==
  IF s[i].kind = "File"
  THEN << enforce_file_size(Len(s[i].bytes), limits),
          enforce_payload_size(SizeBefore(s, i) + Len(s[i].bytes), limits) >>
  ELSE << <<s[i].bytes # <<>>, "InvalidDirectoryEntry">>,
          <<s[i].executable, "ExecutableDirectory">> >>

canonicalize(a, limits) ==
  LET s == Sorted(a) IN
  FirstError(
    <<enforce_entry_count(Len(a.entries), limits)>>
    \o validate_metadata(a, limits)
    \o << <<a.kind = "File" /\ ~(\E e \in {a.entries[i] : i \in 1..Len(a.entries)} :
                                   Len(a.entries) = 1 /\ e.kind = "File" /\ e.path = <<>>),
            "InvalidFileShape">>,
          <<a.kind = "Directory" /\ \E i \in 1..Len(s) : s[i].path = <<>>, "InvalidDirectoryShape">>,
          <<\E i \in 2..Len(s) : s[i].path = s[i-1].path, "DuplicatePath">> >>
    \o FlattenSeq([i \in 1..Len(s) |-> SourceEntryChecks(s, i, limits)])
    \o <<validate_tree(CanonicalEntries(a))>>)

-----------------------------------------------------------------------------
(* Manifest, header and digests.                                           *)

\* A manifest as written; entries of a foreign encoder may have a kind, an
\* executable byte or reserved bytes that mean nothing, and bytes after the end.
Manifest(a, dict, entries) ==
  [name |-> a.name, path |-> a.path, dictionary |-> dict,
   count |-> Len(entries), entries |-> entries, trailing |-> 0]

\* Each optional string is a length field and its text; an entry is one field
\* and its path.
ManifestSize(m) ==
  2 + Len(m.name) + Len(m.path)
  + (IF m.dictionary = <<>> THEN 0 ELSE DictionaryPrefix + Len(m.dictionary))
  + 1 + Len(m.entries) + Len(FlattenSeq([i \in 1..Len(m.entries) |-> m.entries[i].path]))
  + m.trailing

metadata_flags(m) ==
  {f \in {"name", "path", "dictionary"} :
     CASE f = "name" -> m.name # <<>> [] f = "path" -> m.path # <<>> [] OTHER -> m.dictionary # <<>>}

\* The content identity leaves out the suggestions and the offsets.
content_digest(kind, entries) ==
  <<"content", kind,
    [i \in 1..Len(entries) |->
       <<entries[i].kind, entries[i].executable, entries[i].path, entries[i].size, entries[i].digest>>]>>

envelope_digest(h, manifest, stored) ==
  <<"envelope", h.kind, h.compression, h.profile, h.flags, h.entry_count, h.manifest_size,
    h.original_size, h.stored_size, h.content_digest, manifest, stored>>

\* A binary envelope: header, manifest, stored payload and bytes after them.
\* header.defect is the first malformed byte of the fixed part of the header.
Sealed(b) ==
  [b EXCEPT !.header.envelope_digest =
     envelope_digest(b.header, b.manifest, Taken(b.stored, b.trailing, b.header.stored_size))]

Envelope(a, dict, entries, compression, profile, stored) ==
  LET m == Manifest(a, dict, entries) IN
  Sealed([header |->
            [defect |-> Passed, kind |-> a.kind, compression |-> compression, profile |-> profile,
             flags |-> metadata_flags(m), entry_count |-> Len(entries),
             manifest_size |-> ManifestSize(m),
             original_size |-> Len(DecodedBytes(stored, compression)),
             stored_size |-> stored.size,
             content_digest |-> content_digest(a.kind, entries), envelope_digest |-> NoDigest],
          manifest |-> m, stored |-> stored, trailing |-> 0])

BinarySize(b) == HeaderSize + ManifestSize(b.manifest) + b.stored.size + b.trailing

\* A token is a prefix and base64 without padding, four characters for three bytes.
TokenSize(b) == 4 + (4 * BinarySize(b) + 2) \div 3
TokenError(b, limits) == FirstError(<<enforce_token_size(TokenSize(b), limits)>>)

-----------------------------------------------------------------------------
(* Decoding.                                                               *)

enforce_header_limits(h, limits) ==
  << enforce_entry_count(h.entry_count, limits),
     <<h.manifest_size > limits.max_manifest_bytes, "ManifestTooLarge">>,
     <<h.stored_size > limits.max_compressed_payload_bytes, "BinaryTooLarge">>,
     enforce_payload_size(h.original_size, limits) >>

\* The checks before the manifest is looked at, common to the decoders.
HeaderChecks(b, limits) ==
  << enforce_binary_size(BinarySize(b), limits), <<b.header.defect # Passed, b.header.defect>> >>
  \o enforce_header_limits(b.header, limits)
  \o << <<BinarySize(b) # HeaderSize + b.header.manifest_size + b.header.stored_size,
          "EnvelopeLengthMismatch">> >>

EntryShapeChecks(e, kind, limits) ==
  << <<e.kind \notin {"File", "Directory"}, "InvalidDirectoryEntry">>,
     <<e.path # <<>> /\ ~ValidPath(e.path, limits.max_path_bytes), "Path">>,
     <<kind = "File" /\ e.path # <<>>, "InvalidFileShape">>,
     <<kind = "Directory" /\ e.path = <<>>, "InvalidDirectoryShape">> >>

\* The sum of the sizes of the file entries before the i-th.
ExpectedOffset(entries, i) ==
  Total([k \in 1..(i - 1) |-> IF entries[k].kind = "File" THEN entries[k].size ELSE 0])

decode_manifest_entry(m, i, kind, limits) ==
  LET e == m.entries[i] IN
  EntryShapeChecks(e, kind, limits)
  \o (IF e.kind = "File"
      THEN << enforce_file_size(e.size, limits),
              <<e.offset # ExpectedOffset(m.entries, i), "InvalidPayloadRange">> >>
      ELSE << <<e.offset # 0 \/ e.size # 0 \/ e.digest # NoDigest, "InvalidDirectoryEntry">>,
              <<e.executable, "ExecutableDirectory">> >>)
  \o (IF i = 1 THEN <<>>
      ELSE << <<m.entries[i-1].path = e.path /\ e.path # <<>>, "DuplicatePath">>,
              <<PathLess(e.path, m.entries[i-1].path), "NonCanonicalOrder">> >>)

\* decode_manifest; a header with another manifest size cuts the text elsewhere.
ManifestChecks(m, h, limits) ==
  << <<h.manifest_size # ManifestSize(m), "UnexpectedEof">>,
     validate_suggested_name(m.name, limits),
     <<m.path # <<>> /\ ~ValidPath(m.path, limits.max_path_bytes), "Path">>,
     <<Len(m.dictionary) > MaxDictionarySize, "InvalidDictionary">>,
     <<m.dictionary # <<>> /\ h.compression # "Zstd", "InvalidDictionary">>,
     <<metadata_flags(m) # h.flags, "MetadataFlagMismatch">>,
     <<m.count # h.entry_count, "EntryCountMismatch">>,
     enforce_entry_count(m.count, limits),
     <<m.count > Len(m.entries), "UnexpectedEof">> >>
  \o FlattenSeq([i \in 1..Len(m.entries) |-> decode_manifest_entry(m, i, h.kind, limits)])
  \o << <<m.trailing # 0 \/ m.count < Len(m.entries), "EnvelopeLengthMismatch">>,
        <<ExpectedOffset(m.entries, Len(m.entries) + 1) # h.original_size, "InvalidPayloadRange">>,
        validate_tree(m.entries),
        <<h.kind = "File" /\ (Len(m.entries) # 1 \/ \E i \in 1..Len(m.entries) : m.entries[i].kind # "File"),
          "InvalidFileShape">> >>

ContentCheck(m, h) == <<h.content_digest # content_digest(h.kind, m.entries), "ContentDigestMismatch">>
EnvelopeCheck(h, m, stored) ==
  <<h.envelope_digest # envelope_digest(h, m, stored), "EnvelopeDigestMismatch">>

\* The bytes of one entry in the payload, and the digest check of all of them.
Slice(payload, e) == SubSeq(payload, e.offset + 1, e.offset + e.size)
PayloadChecks(m, payload) ==
  << <<\E i \in 1..Len(m.entries) :
         LET e == m.entries[i] IN
         e.kind = "File" /\ e.digest # file_digest(Slice(payload, e)), "FileDigestMismatch">> >>

\* reconstruct: the artifact the entries and the payload describe.
reconstruct(kind, m, payload) ==
  [kind |-> kind, name |-> m.name, path |-> m.path,
   entries |-> [i \in 1..Len(m.entries) |->
                  LET e == m.entries[i] IN
                  [kind |-> e.kind, path |-> e.path,
                   bytes |-> IF e.kind = "File" THEN Slice(payload, e) ELSE <<>>,
                   executable |-> e.executable]]]

\* decode_artifact: the envelope digest comes before the manifest.
DecodeError(b, limits) ==
  LET h == b.header
      m == b.manifest
      stored == Taken(b.stored, b.trailing, h.stored_size)
      early == FirstError(HeaderChecks(b, limits) \o <<EnvelopeCheck(h, m, stored)>>
                          \o ManifestChecks(m, h, limits) \o <<ContentCheck(m, h)>>)
      inflate == DecompressError(stored, h.compression, m.dictionary, h.original_size, limits)
  IN IF early # Passed THEN early
     ELSE IF inflate # Passed THEN inflate
     ELSE FirstError(PayloadChecks(m, DecodedBytes(stored, h.compression)))

decode_artifact(b) == reconstruct(b.header.kind, b.manifest, DecodedBytes(b.stored, b.header.compression))

\* Mutant: the streaming decoder trusts the content digest of the header.
LoadErrorUnchecked(b, limits) ==
  FirstError(HeaderChecks(b, limits) \o ManifestChecks(b.manifest, b.header, limits))

\* load_envelope and the content check of decode_artifact_file_inner: what the
\* streaming decoder establishes from header and manifest alone.
LoadError(b, limits) ==
  FirstError(HeaderChecks(b, limits) \o ManifestChecks(b.manifest, b.header, limits)
             \o <<ContentCheck(b.manifest, b.header)>>)

\* The rest of it, over the stored bytes found in the file later on: inflate,
\* envelope digest of the bytes taken, nothing after them, verify_raw_payload.
BodyError(h, m, stored, trailing, limits) ==
  LET taken == Taken(stored, trailing, h.stored_size)
      inflate == DecompressStreamError(taken, h.stored_size, h.compression, m.dictionary,
                                       h.original_size, limits)
      payload == DecodedBytes(taken, h.compression)
  IN IF inflate # Passed THEN inflate
     ELSE FirstError(<< EnvelopeCheck(h, m, taken),
                        <<stored.size + trailing # h.stored_size, "EnvelopeLengthMismatch">> >>
                     \o PayloadChecks(m, payload))

StreamDecodeError(b, limits) ==
  LET loaded == LoadError(b, limits) IN
  IF loaded # Passed THEN loaded ELSE BodyError(b.header, b.manifest, b.stored, b.trailing, limits)

-----------------------------------------------------------------------------
(* Encoding in memory.                                                     *)

\* Samples enough to train a dictionary from (train_artifact_dictionary).
Trainable(entries) ==
  Cardinality({i \in 1..Len(entries) : entries[i].kind = "File" /\ entries[i].size >= MinSampleSize})
    >= MinDictionarySamples

DictionaryCost(dict) == IF dict = <<>> THEN 0 ELSE Len(dict) + DictionaryPrefix

\* best_zstd_candidate: the trained dictionary dict (or none) is kept when it
\* pays for itself; a candidate that cannot be compressed is dropped.
best_zstd_candidate(payload, ordinary, dict, dictSize, limits) ==
  IF /\ dict # <<>>
     /\ CompressError(payload, "Zstd", dict, dictSize, limits) = Passed
     /\ dictSize + DictionaryCost(dict) < ordinary
  THEN Frame(payload, dict, dictSize) ELSE Frame(payload, <<>>, ordinary)

\* select_payload: [error, compression, stored] under policy, when Zstandard
\* reaches ordinary bytes and dictSize bytes with the trained dictionary.
select_payload(payload, policy, dict, ordinary, dictSize, limits) ==
  LET zstd == CompressError(payload, "Zstd", <<>>, ordinary, limits)
      best == best_zstd_candidate(payload, ordinary, dict, dictSize, limits)
      verbatim == [error |-> CompressError(payload, "None", <<>>, 0, limits),
                   compression |-> "None", stored |-> Raw(payload)]
      framed == [error |-> zstd, compression |-> "Zstd", stored |-> best]
      smaller == best.size + DictionaryCost(best.dict) < Len(payload)
  IN IF policy = "Zstd" \/ (policy = "Auto" /\ (zstd # Passed \/ smaller)) THEN framed ELSE verbatim

\* encode_artifact: canonicalize, select, seal, check the limits, and decode
\* the result again.
EncodeResult(a, opts, dict, ordinary, dictSize) ==
  LET limits == opts.limits
      entries == CanonicalEntries(a)
      payload == PayloadOf(Sorted(a))
      chosen == select_payload(payload, opts.compression, dict, ordinary, dictSize, limits)
      b == Envelope(a, chosen.stored.dict, entries, chosen.compression, opts.profile, chosen.stored)
      shape == canonicalize(a, limits)
      error ==
        IF shape # Passed THEN shape
        ELSE FirstError(<< <<chosen.error # Passed, chosen.error>>,
                           <<ManifestSize(b.manifest) > limits.max_manifest_bytes, "ManifestTooLarge">>,
                           enforce_binary_size(BinarySize(b), limits) >>)
      verify == DecodeError(b, limits)
  IN [error |-> error, binary |-> b,
      verify |-> IF verify # Passed THEN verify
                 ELSE IF decode_artifact(b) = reconstruct(a.kind, b.manifest, payload) THEN Passed
                 ELSE "ContentDigestMismatch"]

=============================================================================
