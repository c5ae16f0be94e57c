------------------------- MODULE MCCapsuleCommands -------------------------
(* An instance of CapsuleCommands for TLC.                                 *)
EXTENDS CapsuleCommands

\* 1 is the file a.txt, 2 the directory a: the walk visits the names in the
\* order a, a.txt, while the path a.txt comes before a/b.
MCClass == (1 :> "plain") @@ (2 :> "plain") @@ (9 :> "ParentDirectory")
MCSourcePaths == <<(<<2, 1>>), <<1>>>>

Text == [bytes |-> <<1>>, executable |-> FALSE]
Blob == [bytes |-> <<1, 8>>, executable |-> TRUE]
Other == [bytes |-> <<2>>, executable |-> FALSE]
Large == [bytes |-> <<1, 1, 1, 1>>, executable |-> FALSE]
MCSourceFiles == {Absent, Link, Text, Blob, Large}
MCRootFiles == {Absent, Link, Text, Other}
MCTrees == {<<Text, Blob>>, <<Absent, Absent>>}
MCRoots == {<<Text, Other>>}

MCV1 ==
  [max_capsule_bytes |-> 18, max_token_bytes |-> 28, max_manifest_bytes |-> 11,
   max_compressed_payload_bytes |-> 4, max_uncompressed_payload_bytes |-> 4,
   max_single_file_bytes |-> 3, max_file_count |-> 2, max_path_bytes |-> 2,
   max_compression_ratio |-> 3]

MCPackCommands ==
  {[format |-> "binary", compression |-> "None", name |-> <<(<<1>>)>>, description |-> <<>>,
    producer |-> <<1>>, version |-> <<>>],
   [format |-> "token", compression |-> "Zstd", name |-> <<>>, description |-> <<>>,
    producer |-> <<1>>, version |-> <<>>],
   [format |-> "token", compression |-> "None", name |-> <<(<<1, 1, 1>>)>>, description |-> <<>>,
    producer |-> <<1>>, version |-> <<>>]}
MCZstdSizes == {1, 5}
MCTrustLists == {<<>>, <<"public">>, <<"public", "status">>, <<"status", "public">>}
MCChannelArguments == {{}, {"Development"}}

\* The capsule under another key, as another key's, and with one field changed,
\* sealed again by another signer or not.
Changed(c) ==
  {[c EXCEPT !.header.publisher_key_id = key_id(k)] : k \in {OtherKey, DevelopmentKey}}
  \cup {[c EXCEPT !.manifest.files[1].executable = ~@], [c EXCEPT !.manifest.files[1].size = @ + 1],
        [c EXCEPT !.stored = Damaged(@.size)], [c EXCEPT !.trailing = 1]}
MCForgeries(c) ==
  Changed(c) \cup {Seal(d, k) : d \in Changed(c), k \in {OtherKey, DevelopmentKey}}

=============================================================================
