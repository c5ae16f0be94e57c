-------------------------- MODULE MCChainCommands --------------------------
(* An instance of ChainCommands for TLC.                                   *)
EXTENDS ChainCommands

MCSecret == <<[seed |-> 1, ikm |-> 3], [seed |-> 2, ikm |-> 2], [seed |-> 3, ikm |-> 1]>>
MCIdentity == <<PublicIdentity(1, 1, 3, "n"), PublicIdentity(2, 2, 2, "n"), PublicIdentity(3, 3, 1, "n")>>
MCMembers == <<1, 2>>

\* Two directories for two of three; the third option fits beside what the
\* failure of the first may leave; all of three; the last two are refused.
MCBackupOptions ==
  {<<3, 2, <<(<<1>>), <<2>>>>, "A">>, <<3, 2, <<(<<3>>), <<2>>>>, "B">>, <<2, 2, <<(<<2>>), <<1>>>>, "A">>,
   <<3, 3, <<(<<1, 2>>), <<2, 3>>>>, "A">>,
   <<3, 1, <<(<<>>), <<>>>>, "A">>, <<4, 2, <<(<<1>>), <<1>>>>, "B">>}

File(path, name) == [type |-> "artifact", shape |-> "file", path |-> path, name |-> name, entries |-> {}]
Directory ==
  [type |-> "artifact", shape |-> "directory", path |-> "none", name |-> "dir", entries |-> {"x", "y"}]

Json(value, layout) == [syntax |-> "json", value |-> value, layout |-> layout]
One == Object(("a" :> Scalar("1")) @@ ("l" :> Array(<<Scalar("1")>>)))
MCTargets ==
  {Json(One, "hand"), Json(One, "printed"), Json(Scalar("1"), "hand"),
   [syntax |-> "toml", value |-> Object("a" :> Scalar("1")), layout |-> "hand"]}
Op(op, path, value) == [op |-> op, path |-> path, value |-> value]
Patch(format, digest, operations) ==
  [version |-> 1, format |-> format, digest |-> digest, operations |-> operations]
NoDigest == [form |-> "none"]
TestAndSet == <<Op("test", <<"a">>, Scalar("1")), Op("set", <<"l", "-">>, Scalar("2"))>>
MCPatches ==
  {Patch("json", NoDigest, TestAndSet),
   Patch("json", [form |-> "of", target |-> Json(One, "hand")], <<Op("remove", <<"l", "0">>, Scalar("1"))>>),
   Patch("json", NoDigest, <<Op("set", <<"b">>, Scalar("1")), Op("test", <<"l", "3">>, Scalar("1"))>>),
   Patch("json", NoDigest, <<Op("set", <<>>, Scalar("1"))>>),
   Patch("toml", NoDigest, <<Op("set", <<"a">>, Scalar("2"))>>),
   Patch("toml", NoDigest, <<Op("set", <<"a">>, Scalar("null"))>>),
   Patch("toml", NoDigest, <<Op("set", <<"a", "0">>, Scalar("2"))>>)}
Protected(canonical) ==
  [type |-> "patch", canonical |-> canonical,
   patch |-> Patch("json", NoDigest, <<Op("set", <<"l", "0">>, Scalar("2"))>>)]

MCSolutionFiles ==
  {<<"a">>, <<"a", "lf">>, <<"a", "cr", "lf">>, <<"b", "lf">>, <<"a", "a", "a">>,
   <<"a", "cr">>, <<"a", "lf", "lf">>}
MCAttempts ==
  {<<(<<1, <<"a">>>>), <<2, <<"b", "lf">>>>>>, <<(<<3, <<"c">>>>), <<1, <<"a">>>>>>, <<(<<1, <<"a">>>>)>>,
   <<(<<1, <<"a">>>>), <<1, <<"a">>>>>>, <<(<<1, <<"a">>>>), <<2, <<"c">>>>>>,
   <<(<<1, <<"a">>>>), <<4, <<"b">>>>>>}
MCKeyLists == {<<1, 2>>, <<2, 1>>, <<1, 3>>, <<1>>}

Base ==
  [content |-> File("p", "n"), patch |-> FALSE, recipients |-> <<>>, witnesses |-> <<>>, sequences |-> <<>>,
   solutions |-> <<>>, challengeThreshold |-> 0, shardHints |-> <<>>, hint |-> "h", threshold |-> 0,
   notBefore |-> 0, maximum |-> 0, memory |-> 8, iterations |-> 1, nonce |-> 0, cek |-> 2, polynomial |-> <<3>>]
Crlf == <<"a", "cr", "lf">>
MCCreations ==
  << [Base EXCEPT !.nonce = 1, !.recipients = <<2, 1>>],
     [Base EXCEPT !.nonce = 2, !.recipients = <<1>>, !.patch = TRUE, !.content = Protected(TRUE)],
     [Base EXCEPT !.nonce = 3, !.recipients = <<1>>, !.patch = TRUE, !.content = Protected(FALSE)],
     [Base EXCEPT !.nonce = 4, !.recipients = <<1>>, !.solutions = <<Crlf>>, !.content = Directory],
     [Base EXCEPT !.nonce = 5, !.recipients = <<2>>, !.solutions = <<Crlf, <<"b">>, <<"c", "lf">>>>,
                  !.challengeThreshold = 2, !.cek = 0],
     [Base EXCEPT !.nonce = 6, !.sequences = <<(<<1, 2>>), <<2, 1>>>>, !.content = File("none", "none")],
     [Base EXCEPT !.nonce = 7, !.sequences = <<(<<1, 2>>), <<3, 2>>>>],
     [Base EXCEPT !.nonce = 8, !.recipients = <<2>>, !.witnesses = <<2, 1>>],
     [Base EXCEPT !.nonce = 9, !.recipients = <<2>>, !.solutions = <<(<<"a">>)>>],
     [Base EXCEPT !.nonce = 10, !.recipients = <<1, 1>>],
     [Base EXCEPT !.nonce = 11, !.recipients = <<1>>, !.solutions = <<(<<"a">>)>>, !.memory = 1],
     [Base EXCEPT !.nonce = 12, !.recipients = <<1>>, !.solutions = <<(<<"a">>)>>, !.challengeThreshold = 1],
     [Base EXCEPT !.nonce = 13, !.recipients = <<3>>, !.content = File("none", "none")],
     [Base EXCEPT !.nonce = 14, !.recipients = <<1>>, !.content = Protected(TRUE)],
     [Base EXCEPT !.nonce = 15, !.sequences = <<(<<1, 1>>)>>],
     [Base EXCEPT !.nonce = 16, !.recipients = <<1>>, !.solutions = <<(<<"a", "cr">>)>>] >>

\* Every creation once; some beside a command on identities; two challenges together; the patches, each with
\* the commands its case needs.
Budget(identity, create, access, patches, creations) ==
  [identity |-> identity, create |-> create, access |-> access, patch |-> patches, creations |-> creations]
MCBudgets ==
  {Budget(3, 0, 0, 0, {}), Budget(0, 1, 1, 0, 1..16), Budget(1, 1, 1, 0, {1, 6, 7, 13}), Budget(0, 2, 2, 0, {5, 9}),
   Budget(0, 1, 0, 1, {2, 3}), Budget(0, 0, 0, 2, {})}

MCIndex == ("0" :> 0) @@ ("1" :> 1) @@ ("3" :> 3)
=============================================================================
