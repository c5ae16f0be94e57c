---------------------------- MODULE CapsuleCodec ----------------------------
(***************************************************************************)
(* The signed capsule: packing (crates/rebyte-pack), the canonical binary  *)
(* form and the token (crates/rebyte-codec), its limits                    *)
(* (crates/rebyte-format), and the verification pipeline                   *)
(* (crates/rebyte-verify).                                                 *)
(*                                                                         *)
(* A capsule is [header, manifest, stored, digest, signature, trailing].   *)
(* The defect of a header, a manifest or an entry is its first malformed   *)
(* fixed field; a string that may be absent is <<>> or <<text>>.          *)
(* Lengths are counted in fields; digests are collision free.              *)
(***************************************************************************)
EXTENDS Compression, PortablePath, PublisherKeys, Functions

CONSTANTS
  V1,            \* SecurityLimits::V1
  HeaderSize, TrailerSize,
  MaxTextBytes,  \* bound of the names and the description in a manifest
  NonUtf8        \* bytes that no UTF-8 text holds

\* The token of a capsule within its limit is within the limit of tokens
\* (SecurityLimits::V1).
ASSUME CapsuleCodecAssumption ==
  /\ HeaderSize \in Nat /\ TrailerSize \in Nat /\ V1.max_capsule_bytes \in Nat /\ V1.max_token_bytes \in Nat
  /\ 4 + (4 * V1.max_capsule_bytes + 2) \div 3 <= V1.max_token_bytes

file_digest(bytes) == <<"file", bytes>>
capsule_digest(header, manifest, stored) == <<"capsule", header, manifest, stored>>

\* core::str::from_utf8 succeeds.
IsText(bytes) == \A i \in 1..Len(bytes) : bytes[i] \notin NonUtf8

BoundedString(text) ==
  << <<text = <<>>, "EmptyString">>, <<Len(text) > MaxTextBytes, "StringTooLong">> >>
OptionalString(option) == IF option = <<>> THEN <<>> ELSE BoundedString(option[1])

-----------------------------------------------------------------------------
(* Binary form.                                                            *)

\* CapsuleHeaderV1::validate.
HeaderValid(h) ==
  << <<h.manifest_size > V1.max_manifest_bytes, "SizeTooLarge">>,
     <<h.compressed_payload_size > V1.max_compressed_payload_bytes, "SizeTooLarge">>,
     <<h.uncompressed_payload_size > V1.max_uncompressed_payload_bytes, "SizeTooLarge">>,
     <<h.file_count > V1.max_file_count, "FileCountTooLarge">> >>

\* encode_entry writes one field and the path.
EntrySize(e) == 1 + Len(e.path)
OptionSize(option) == 1 + (IF option = <<>> THEN 0 ELSE Len(option[1]))
ManifestSize(m) ==
  1 + OptionSize(m.name) + OptionSize(m.description) + Len(m.producer) + OptionSize(m.version)
  + Total([i \in 1..Len(m.files) |-> EntrySize(m.files[i])]) + m.trailing

SizeBefore(files, i) == Total([k \in 1..(i - 1) |-> files[k].size])

\* validate_entries, before a manifest is written.
validate_entries(files) ==
  FlattenSeq([i \in 1..Len(files) |->
    << <<i > 1 /\ ~PathLess(files[IF i > 1 THEN i - 1 ELSE 1].path, files[i].path), "NonCanonicalPathOrder">>,
       <<files[i].offset # SizeBefore(files, i) \/ files[i].size > V1.max_single_file_bytes,
         "NonContiguousPayload">> >>])

\* ensure_declared_lengths.
DeclaredLengths(c) ==
  << <<\/ c.header.manifest_size # ManifestSize(c.manifest)
       \/ c.header.compressed_payload_size # c.stored.size
       \/ c.header.file_count # Len(c.manifest.files), "FileCountMismatch">>,
     <<SizeBefore(c.manifest.files, Len(c.manifest.files) + 1) # c.header.uncompressed_payload_size,
       "PayloadSizeMismatch">> >>

\* encode_capsule.
encode_capsule(c) ==
  FirstError(HeaderValid(c.header) \o validate_entries(c.manifest.files) \o DeclaredLengths(c))

BinarySize(c) == HeaderSize + ManifestSize(c.manifest) + c.stored.size + TrailerSize + c.trailing

decode_header(h) == << <<h.defect # Passed, h.defect>> >> \o HeaderValid(h)

\* decode_entry: the path is read within its limit before it is validated.
decode_entry(e) ==
  << <<Len(e.path) > V1.max_path_bytes, "InputTooLarge">>,
     <<~ValidPath(e.path, V1.max_path_bytes), "Path">>,
     <<e.defect # Passed, e.defect>>,
     <<e.size > V1.max_single_file_bytes, "InputTooLarge">> >>

\* The cursor over a manifest of the declared size ends early or late.
CursorError(m, h) ==
  <<h.manifest_size < ManifestSize(m) \/ h.file_count > Len(m.files), "UnexpectedEof">>

decode_manifest(m, h) ==
  << CursorError(m, h), <<m.defect # Passed, m.defect>> >>
  \o OptionalString(m.name) \o OptionalString(m.description)
  \o BoundedString(m.producer) \o OptionalString(m.version)
  \o FlattenSeq([i \in 1..Len(m.files) |->
       decode_entry(m.files[i])
       \o << <<i > 1 /\ ~PathLess(m.files[IF i > 1 THEN i - 1 ELSE 1].path, m.files[i].path),
               "NonCanonicalPathOrder">>,
             <<m.files[i].offset # SizeBefore(m.files, i), "NonContiguousPayload">> >>])
  \o << <<m.trailing # 0 \/ h.manifest_size > ManifestSize(m) \/ h.file_count < Len(m.files), "TrailingBytes">>,
        <<SizeBefore(m.files, Len(m.files) + 1) # h.uncompressed_payload_size, "PayloadSizeMismatch">> >>

\* decode_capsule.
DecodeError(c) ==
  LET declared == HeaderSize + c.header.manifest_size + c.header.compressed_payload_size + TrailerSize IN
  FirstError(<< <<BinarySize(c) > V1.max_capsule_bytes, "InputTooLarge">> >>
             \o decode_header(c.header)
             \o << <<BinarySize(c) < declared, "UnexpectedEof">>, <<BinarySize(c) > declared, "TrailingBytes">> >>
             \o decode_manifest(c.manifest, c.header))

\* A token: base64 of the capsule after a prefix, four characters for three.
encode_token(c) == [form |-> "token", capsule |-> c, defect |-> Passed]
TokenSize(c) == 4 + (4 * BinarySize(c) + 2) \div 3
decode_token(t) == << <<TokenSize(t.capsule) > V1.max_token_bytes, "InputTooLarge">>, <<t.defect # Passed, t.defect>> >>

-----------------------------------------------------------------------------
(* Packing and signing.                                                    *)

\* sort_by on the paths, which are totally ordered, so that some order sorts.
Sorts(order, files) ==
  \A i, j \in 1..Len(files) : i < j => ~PathLess(files[order[j]].path, files[order[i]].path)
Ordered(files) ==
  LET orders == Bijection(1..Len(files), 1..Len(files))
      order == CHOOSE p \in orders : Sorts(p, files) \/ \A q \in orders : ~Sorts(q, files)
  IN [i \in 1..Len(files) |-> files[order[i]]]

\* Mutant: offsets are those of the order in which the files were given.
PackedEntriesUnsorted(files) ==
  LET s == Ordered(files) IN
  [i \in 1..Len(s) |->
     [path |-> s[i].path, defect |-> Passed, executable |-> s[i].executable,
      kind |-> IF IsText(s[i].bytes) THEN "TextUtf8" ELSE "Binary",
      offset |-> Len(FlattenSeq([k \in 1..(i - 1) |-> files[k].bytes])), size |-> Len(s[i].bytes),
      digest |-> file_digest(s[i].bytes)]]

\* The entries of files, each [path, bytes, executable], in path order.
PackedEntries(files) ==
  LET s == Ordered(files) IN
  [i \in 1..Len(s) |->
     [path |-> s[i].path, defect |-> Passed, executable |-> s[i].executable,
      kind |-> IF IsText(s[i].bytes) THEN "TextUtf8" ELSE "Binary",
      offset |-> Len(FlattenSeq([k \in 1..(i - 1) |-> s[k].bytes])), size |-> Len(s[i].bytes),
      digest |-> file_digest(s[i].bytes)]]

Payload(files) == FlattenSeq([i \in 1..Len(files) |-> Ordered(files)[i].bytes])

\* total_size, which checks each file and the running sum.
total_size(files) ==
  LET s == Ordered(files) IN
  FlattenSeq([i \in 1..Len(s) |->
    << <<Len(s[i].bytes) > V1.max_single_file_bytes, "FileTooLarge">>,
       <<Len(FlattenSeq([k \in 1..i |-> s[k].bytes])) > V1.max_uncompressed_payload_bytes, "OutputTooLarge">> >>])

reject_duplicates(files) ==
  <<\E i, j \in 1..Len(files) : i < j /\ files[i].path = files[j].path, "DuplicatePath">>

\* pack: the unsigned capsule and the error it ends with; PackOptions has
\* checked the texts.  zsize is what Zstandard reaches.
Packed(files, o, zsize) ==
  [manifest |-> [defect |-> Passed, name |-> o.name, description |-> o.description, producer |-> o.producer,
                 version |-> o.version, files |-> PackedEntries(files), trailing |-> 0],
   stored |-> Encoded(Payload(files), o.compression, <<>>, zsize),
   size |-> Len(Payload(files)), compression |-> o.compression]
PackOptionsError(o) ==
  FirstError(BoundedString(o.producer) \o OptionalString(o.version)
             \o OptionalString(o.name) \o OptionalString(o.description))
PackError(files, o, zsize) ==
  LET u == Packed(files, o, zsize) IN
  FirstError(<< <<Len(files) > V1.max_file_count, "TooManyFiles">>, reject_duplicates(files) >>
             \o total_size(files) \o validate_entries(u.manifest.files)
             \o << <<ManifestSize(u.manifest) > V1.max_manifest_bytes, "ManifestTooLarge">>,
                   <<CompressError(Payload(files), o.compression, <<>>, zsize, V1) # Passed, "Compression">> >>)

\* sign_capsule.
Seal(c, key) ==
  LET digest == capsule_digest(c.header, c.manifest, c.stored) IN
  [c EXCEPT !.digest = digest, !.signature = Sign(key, signature_message(digest))]
sign_capsule(u, key) ==
  Seal([header |-> [defect |-> Passed, compression |-> u.compression,
                    manifest_size |-> ManifestSize(u.manifest), compressed_payload_size |-> u.stored.size,
                    uncompressed_payload_size |-> u.size, file_count |-> Len(u.manifest.files),
                    publisher_key_id |-> key_id(key)],
        manifest |-> u.manifest, stored |-> u.stored, digest |-> <<>>, signature |-> <<>>, trailing |-> 0], key)

-----------------------------------------------------------------------------
(* Verification: each stage consumes what the one before it released.      *)

\* UnverifiedCapsule::from_input over a file of bytes or a token; a file that
\* is not the binary form, or not all of it, is cut where decode notices.
from_input(input) ==
  IF input.form = "token" THEN FirstError(decode_token(input))
  ELSE FirstError(<< <<BinarySize(input.capsule) > V1.max_capsule_bytes, "InputTooLarge">> >>)

\* UnverifiedCapsule::decode, which encodes header and manifest again.
DecodeStage(input) ==
  IF input.form = "torn" THEN "UnexpectedEof"
  ELSE IF DecodeError(input.capsule) # Passed THEN DecodeError(input.capsule)
  ELSE FirstError(HeaderValid(input.capsule.header) \o validate_entries(input.capsule.manifest.files))

\* StructurallyValidCapsule::verify_signature.
SignatureStage(c, channels, keyring) ==
  LET actual == capsule_digest(c.header, c.manifest, c.stored)
      trust == verify_signature(c.header.publisher_key_id, actual, c.signature, channels, keyring)
  IN IF c.digest # actual THEN "CapsuleDigestMismatch" ELSE trust

Slice(payload, e) ==
  IF e.offset + e.size > Len(payload) THEN <<>> ELSE SubSeq(payload, e.offset + 1, e.offset + e.size)

\* SignatureVerifiedCapsule::verify_payload, and what it checks of an entry.
EntryError(payload, e) ==
  FirstError(<< <<e.offset + e.size > Len(payload), "PayloadRangeMismatch">>,
                <<e.kind = "TextUtf8" /\ ~IsText(Slice(payload, e)), "InvalidTextContent">>,
                <<e.digest # file_digest(Slice(payload, e)), "FileDigestMismatch">> >>)
PayloadStage(c) ==
  LET inflate == DecompressError(c.stored, c.header.compression, <<>>, c.header.uncompressed_payload_size, V1)
      payload == DecodedBytes(c.stored, c.header.compression)
  IN IF inflate # Passed THEN "Compression"
     ELSE FirstOf([i \in 1..Len(c.manifest.files) |-> EntryError(payload, c.manifest.files[i])])

\* The files a fully verified capsule releases.
VerifiedFiles(c) ==
  LET payload == DecodedBytes(c.stored, c.header.compression) IN
  [i \in 1..Len(c.manifest.files) |->
     LET e == c.manifest.files[i] IN
     [path |-> e.path, bytes |-> Slice(payload, e), executable |-> e.executable, kind |-> e.kind]]

\* verify_capsule_with_limits.
VerifyError(input, channels, keyring) ==
  IF from_input(input) # Passed THEN from_input(input)
  ELSE IF DecodeStage(input) # Passed THEN DecodeStage(input)
  ELSE LET signed == SignatureStage(input.capsule, channels, keyring) IN
       IF signed # Passed THEN signed ELSE PayloadStage(input.capsule)

=============================================================================
