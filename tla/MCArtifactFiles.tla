-------------------------- MODULE MCArtifactFiles --------------------------
(* An instance of ArtifactFiles for TLC.                                   *)
EXTENDS ArtifactFiles

\* 1, 2, 3 are portable components, 9 is "..".
MCClass == (1 :> "plain") @@ (2 :> "plain") @@ (3 :> "plain") @@ (9 :> "ParentDirectory")

\* A file at the root, a directory and a file in it.
MCFilePaths == <<(<<1>>), <<2, 1>>>>
MCDirPaths == <<(<<2>>)>>
MCSuggestions == {<<(<<1>>), (<<>>)>>, <<(<<1>>), <<2, 3>>>>}
MCOverrides == {<<>>, <<3>>}
MCZstdSizes == {2, 9}
MCDictionary == <<7>>

Standard ==
  [max_capsule_bytes |-> 40, max_manifest_bytes |-> 20, max_compressed_payload_bytes |-> 9,
   max_uncompressed_payload_bytes |-> 9, max_single_file_bytes |-> 4, max_file_count |-> 3,
   max_path_bytes |-> 2, max_compression_ratio |-> 1000, max_token_bytes |-> 60]
Tight == [Standard EXCEPT !.max_compressed_payload_bytes = 8, !.max_manifest_bytes = 14]

Command(format, kind, compression, dictionary) ==
  [format |-> format, kind |-> kind, compression |-> compression, dictionary |-> dictionary,
   profile |-> "Balanced", output |-> TRUE, large |-> FALSE, stdin |-> FALSE, limits |-> Standard]

MCOptions ==
  {Command("binary", "Directory", "Auto", "Auto"), Command("binary", "File", "Zstd", "Auto"),
   [Command("binary", "Directory", "None", "None") EXCEPT !.large = TRUE],
   [Command("binary", "Directory", "Auto", "Auto") EXCEPT !.limits = Tight],
   Command("token", "Directory", "Auto", "Auto"),
   [Command("token", "File", "Zstd", "None") EXCEPT !.stdin = TRUE],
   [Command("binary", "File", "Zstd", "None") EXCEPT !.stdin = TRUE],
   [Command("binary", "File", "None", "None") EXCEPT !.output = FALSE],
   [Command("token", "File", "None", "None") EXCEPT !.large = TRUE],
   [Command("token", "File", "None", "None") EXCEPT !.limits.max_token_bytes = 12]}

\* One field of the envelope is changed, and its digests are computed again; or they are not.
Changed(b) ==
  {[b EXCEPT !.header.defect = "InvalidMagic"], [b EXCEPT !.header.flags = {}],
   [b EXCEPT !.header.entry_count = @ + 1], [b EXCEPT !.header.manifest_size = @ + 1],
   [b EXCEPT !.header.original_size = @ - 1], [b EXCEPT !.header.stored_size = @ + 1],
   [b EXCEPT !.header.stored_size = @ - 1, !.trailing = 1],
   [b EXCEPT !.header.compression = IF @ = "None" THEN "Zstd" ELSE "None"],
   [b EXCEPT !.header.kind = IF @ = "File" THEN "Directory" ELSE "File"],
   [b EXCEPT !.manifest.path = <<2, 3>>], [b EXCEPT !.manifest.path = <<2, 3>>, !.header.flags = @ \cup {"path"}],
   [b EXCEPT !.manifest.path = <<9, 1>>, !.header.flags = @ \cup {"path"}],
   [b EXCEPT !.manifest.dictionary = <<7>>, !.header.flags = @ \cup {"dictionary"},
             !.header.manifest_size = @ + 5],
   [b EXCEPT !.manifest.trailing = 1], [b EXCEPT !.manifest.trailing = 1, !.header.manifest_size = @ + 1],
   [b EXCEPT !.manifest.entries = Reverse(@)],
   [b EXCEPT !.manifest.entries[1].digest = NoDigest],
   [b EXCEPT !.manifest.entries[1].executable = ~@],
   [b EXCEPT !.manifest.entries[1].offset = 1],
   [b EXCEPT !.manifest.entries[1].size = @ - 1],
   [b EXCEPT !.manifest.entries[1].path = <<2>>],
   [b EXCEPT !.stored = Damaged(@.size)],
   [b EXCEPT !.stored = Encoded(Append(b.stored.data, 1), b.header.compression, @.dict, @.size)],
   [b EXCEPT !.stored = Encoded(b.stored.data, b.header.compression, <<7>>, @.size)],
   [b EXCEPT !.stored = Raw(@.data), !.header.compression = "None", !.header.stored_size = Len(b.stored.data)],
   [b EXCEPT !.trailing = 1]}
Resealed(b) ==
  {Sealed(b), Sealed([b EXCEPT !.header.content_digest = content_digest(b.header.kind, b.manifest.entries)])}
MCVariants(b) ==
  UNION {Resealed(c) : c \in Changed(b)}
  \cup {[b EXCEPT !.stored = Damaged(@.size)], [b EXCEPT !.header.profile = "Fast"], [b EXCEPT !.trailing = 1]}

=============================================================================
