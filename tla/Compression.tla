----------------------------- MODULE Compression -----------------------------
(***************************************************************************)
(* Bounded compression (crates/rebyte-compression/src/lib.rs).             *)
(*                                                                         *)
(* Bytes are small numbers.  A stored payload is the bytes themselves or a *)
(* Zstandard frame, of which the model keeps what it decodes to, the       *)
(* dictionary it needs and its size; the size the encoder reaches is an    *)
(* input.  A damaged frame decodes to nothing.                             *)
(***************************************************************************)
EXTENDS Integers, Sequences, Checks

Algorithms == {"None", "Zstd"}
OpaqueByte == -1

Raw(data) == [form |-> "raw", data |-> data, dict |-> <<>>, size |-> Len(data)]
Frame(data, dict, size) == [form |-> "frame", data |-> data, dict |-> dict, size |-> size]
Damaged(size) == [form |-> "damaged", data |-> <<>>, dict |-> <<>>, size |-> size]

\* The stored bytes as bytes: those of a frame mean nothing outside Zstandard.
BytesOf(stored) ==
  IF stored.form = "raw" THEN stored.data ELSE [i \in 1..stored.size |-> OpaqueByte]

enforce_output_limit(actual, limits) ==
  <<actual > limits.max_uncompressed_payload_bytes, "OutputTooLarge">>
enforce_compressed_limit(actual, limits) ==
  <<actual > limits.max_compressed_payload_bytes, "CompressedInputTooLarge">>

\* compressed.saturating_mul(ratio): an unbounded ratio saturates.
enforce_ratio(compressed, uncompressed, limits) ==
  <<uncompressed # 0 /\ (compressed = 0 \/ uncompressed > compressed * limits.max_compression_ratio),
    "CompressionRatioExceeded">>

DictionaryNeedsZstd(algorithm, dict) == <<algorithm = "None" /\ dict # <<>>, "InvalidDictionary">>

Encoded(input, algorithm, dict, zsize) ==
  IF algorithm = "None" THEN Raw(input) ELSE Frame(input, dict, zsize)

\* compress_with_dictionary: the ratio is not checked while encoding.
CompressError(input, algorithm, dict, zsize, limits) ==
  FirstError(<< enforce_output_limit(Len(input), limits),
                DictionaryNeedsZstd(algorithm, dict),
                enforce_compressed_limit(Encoded(input, algorithm, dict, zsize).size, limits) >>)

\* compress_stream_with_dictionary over a reader that yields input: the
\* bounded writer refuses before an input of another length is reported.
CompressStreamError(input, declared, algorithm, dict, zsize, limits) ==
  FirstError(<< enforce_output_limit(declared, limits),
                DictionaryNeedsZstd(algorithm, dict),
                enforce_compressed_limit(Encoded(input, algorithm, dict, zsize).size, limits),
                <<Len(input) # declared, "SizeMismatch">> >>)

\* What a Zstandard decoder makes of stored: it fails on anything but a frame
\* and on a frame made with another dictionary.
FrameDecodes(stored, dict) == stored.form = "frame" /\ stored.dict = dict

DecodedBytes(stored, algorithm) == IF algorithm = "None" THEN BytesOf(stored) ELSE stored.data

LimitChecks(compressed, declared, limits) ==
  << enforce_compressed_limit(compressed, limits),
     enforce_output_limit(declared, limits),
     enforce_ratio(compressed, declared, limits) >>

\* decompress_with_dictionary, over the stored bytes in memory.
DecompressError(stored, algorithm, dict, declared, limits) ==
  FirstError(
    LimitChecks(stored.size, declared, limits)
    \o << DictionaryNeedsZstd(algorithm, dict),
          <<algorithm = "Zstd" /\ ~FrameDecodes(stored, dict), "InvalidStream">>,
          <<Len(DecodedBytes(stored, algorithm)) # declared, "SizeMismatch">> >>)

\* LimitedReader: the first n bytes of a stored payload and the extra bytes
\* that follow it.
Taken(stored, extra, n) ==
  IF stored.form = "raw"
  THEN LET bytes == stored.data \o [i \in 1..extra |-> OpaqueByte] IN
       Raw(SubSeq(bytes, 1, IF n < Len(bytes) THEN n ELSE Len(bytes)))
  ELSE IF stored.size = n THEN stored
  ELSE Damaged(IF stored.size + extra < n THEN stored.size + extra ELSE n)

\* decompress_stream_with_dictionary over the bytes taken of a source that is
\* declared to hold compressed bytes: all of them must be there.
DecompressStreamError(taken, compressed, algorithm, dict, declared, limits) ==
  FirstError(
    LimitChecks(compressed, declared, limits)
    \o << <<algorithm = "None" /\ dict = <<>> /\ compressed # declared, "SizeMismatch">>,
          DictionaryNeedsZstd(algorithm, dict),
          <<algorithm = "Zstd" /\ ~FrameDecodes(taken, dict), "InvalidStream">>,
          <<Len(DecodedBytes(taken, algorithm)) # declared, "SizeMismatch">>,
          <<taken.size # compressed, "InvalidStream">> >>)

=============================================================================
