----------------------- MODULE CapsuleCommandsProofs -----------------------
(***************************************************************************)
(* The commands around signed capsules, for every key, passphrase, tree,   *)
(* capsule and failure: the key that a publisher's documents belong to,    *)
(* what a consumer's command releases, what its preview says, and that     *)
(* what `pack` writes verifies.                                            *)
(***************************************************************************)
EXTENDS CapsuleCommands, FiniteSetTheorems, SequenceTheorems, WellFoundedInduction, TLAPS

-----------------------------------------------------------------------------
(* Checks.                                                                 *)

\* A validator whose checks all hold passes.
LEMMA NoneFails ==
  ASSUME NEW checks, Failing(checks) = {}
  PROVE  FirstError(checks) = Passed
BY DEF FirstError

\* A set of natural numbers that is not empty has a smallest element.
LEMMA Smallest ==
  ASSUME NEW S, S \subseteq Nat, S # {}
  PROVE  \E i \in S : \A j \in S : i <= j
<1>1. PICK i \in S : \A j \in S : ~(<<j, i>> \in OpToRel(<, Nat))
  BY NatLessThanWellFounded, WFMin
<1>2. \A j \in S : <<j, i>> \in OpToRel(<, Nat) <=> j < i
  BY DEF OpToRel
<1>3. \A j \in S : ~(j < i)
  BY <1>1, <1>2, Zenon
<1> QED  BY <1>3

\* The error of a validator is that of one of its failing checks.
LEMMA SomeFails ==
  ASSUME NEW checks, Failing(checks) # {}, Len(checks) \in Nat
  PROVE  \E i \in Failing(checks) : FirstError(checks) = checks[i][2]
<1>1. Failing(checks) \subseteq Nat
  BY DEF Failing
<1>2. \E i \in Failing(checks) : \A j \in Failing(checks) : i <= j
  BY <1>1, Smallest
<1>3. (CHOOSE i \in Failing(checks) : \A j \in Failing(checks) : i <= j) \in Failing(checks)
  BY <1>2
<1> QED  BY <1>3 DEF FirstError

\* Lists of two, three and four checks.
LEMMA TwoChecks ==
  ASSUME NEW a \in BOOLEAN, NEW b \in BOOLEAN, NEW e, NEW f
  PROVE  LET c == << <<a, e>>, <<b, f>> >> IN
         /\ ~a /\ ~b => FirstError(c) = Passed
         /\ e # Passed /\ f # Passed /\ FirstError(c) = Passed => ~a /\ ~b
<1> DEFINE c == << <<a, e>>, <<b, f>> >>
<1>1. Len(c) = 2 /\ c[1][1] = a /\ c[2][1] = b /\ c[1][2] = e /\ c[2][2] = f
  OBVIOUS
<1> HIDE DEF c
<1>2. Failing(c) = {i \in {1, 2} : c[i][1]}
  BY <1>1 DEF Failing
<1>3. ~a /\ ~b => Failing(c) = {}
  BY <1>1, <1>2
<1>4. Failing(c) = {} => ~a /\ ~b
  BY <1>1, <1>2
<1>5. e # Passed /\ f # Passed /\ FirstError(c) = Passed => Failing(c) = {}
  BY <1>1, <1>2, SomeFails
<1>6. ~a /\ ~b => FirstError(c) = Passed
  BY <1>3, NoneFails
<1> QED  BY <1>4, <1>5, <1>6 DEF c

\* A list of three checks that hold passes.
LEMMA ThreeChecks ==
  ASSUME NEW a \in BOOLEAN, NEW b \in BOOLEAN, NEW c \in BOOLEAN, NEW e, NEW f, NEW g, ~a, ~b, ~c
  PROVE  FirstError(<< <<a, e>>, <<b, f>>, <<c, g>> >>) = Passed
<1> DEFINE l == << <<a, e>>, <<b, f>>, <<c, g>> >>
<1>1. Len(l) = 3 /\ l[1][1] = a /\ l[2][1] = b /\ l[3][1] = c
  OBVIOUS
<1> HIDE DEF l
<1>2. Failing(l) = {i \in {1, 2, 3} : l[i][1]}
  BY <1>1 DEF Failing
<1>3. Failing(l) = {}
  BY <1>1, <1>2
<1> QED  BY <1>3, NoneFails DEF l

\* A list of four checks that hold passes.
LEMMA FourChecks ==
  ASSUME NEW a \in BOOLEAN, NEW b \in BOOLEAN, NEW c \in BOOLEAN, NEW d \in BOOLEAN,
         NEW e, NEW f, NEW g, NEW h, ~a, ~b, ~c, ~d
  PROVE  FirstError(<< <<a, e>>, <<b, f>>, <<c, g>>, <<d, h>> >>) = Passed
<1> DEFINE l == << <<a, e>>, <<b, f>>, <<c, g>>, <<d, h>> >>
<1>1. Len(l) = 4 /\ l[1][1] = a /\ l[2][1] = b /\ l[3][1] = c /\ l[4][1] = d
  OBVIOUS
<1> HIDE DEF l
<1>2. Failing(l) = {i \in {1, 2, 3, 4} : l[i][1]}
  BY <1>1 DEF Failing
<1>3. Failing(l) = {}
  BY <1>1, <1>2
<1> QED  BY <1>3, NoneFails DEF l

\* A passphrase with which a key was generated is long enough.
LEMMA GeneratePasses ==
  ASSUME NEW name, NEW key, NEW pass, GenerateError(name, key, pass) = Passed
  PROVE  pass \notin ShortPassphrases
<1> DEFINE a == pass \in ShortPassphrases
           b == TrustedKeyError(name, key) # Passed
<1>1. a \in BOOLEAN /\ b \in BOOLEAN
  OBVIOUS
<1>2. FirstError(<< <<a, "InvalidPassphrase">>, <<b, "InvalidPublicKey">> >>) = Passed
  BY Zenon DEF GenerateError, validate_passphrase
<1>3. "InvalidPassphrase" # Passed /\ "InvalidPublicKey" # Passed
  BY DEF Passed
<1> HIDE DEF a, b
<1>4. ~a
  BY <1>1, <1>2, <1>3, TwoChecks
<1> QED  BY <1>4 DEF a

\* A private document opens with the passphrase it was made with.
LEMMA DocumentOpens ==
  ASSUME NEW key, NEW pass, pass \notin ShortPassphrases
  PROVE  /\ SignerError(PrivateDocument(key, pass, 1, "v2"), pass) = Passed
         /\ PrivateDocument(key, pass, 1, "v2").box.seed = key
<1> DEFINE doc == PrivateDocument(key, pass, 1, "v2")
<1>1. /\ doc.kind = "private" /\ doc.defect = Passed /\ doc.scheme = "v2"
      /\ doc.public_key = key /\ doc.key_id = key_id(key) /\ doc.salt = 1
      /\ doc.box.key = derive_encryption_key(pass, 1, KdfCost("v2"))
      /\ doc.box.aad = associated_data(key, key_id(key), 1) /\ doc.box.seed = key
  BY DEF PrivateDocument
<1> HIDE DEF doc
<1>2. PrivateDocumentError(doc) = Passed
  <2>1. doc.kind = "private" /\ doc.defect = Passed /\ doc.scheme \in Schemes
        /\ key_id(doc.public_key) = doc.key_id
    BY <1>1 DEF Schemes
  <2>2. PICK a \in BOOLEAN, b \in BOOLEAN, c \in BOOLEAN, d \in BOOLEAN :
          /\ a = (doc.kind # "private") /\ b = (doc.defect # Passed)
          /\ c = (doc.scheme \notin Schemes) /\ d = (key_id(doc.public_key) # doc.key_id)
    OBVIOUS
  <2>3. ~a /\ ~b /\ ~c /\ ~d
    BY <2>1, <2>2
  <2>4. FirstError(<< <<a, "UnsupportedDocument">>, <<b, doc.defect>>,
                      <<c, "UnsupportedDocument">>, <<d, "IdentityMismatch">> >>) = Passed
    BY <2>3, FourChecks
  <2> QED  BY <2>2, <2>4, Zenon DEF PrivateDocumentError
<1>3. unlock(doc, pass) = Passed
  <2> DEFINE a == pass \in ShortPassphrases
             b == \/ doc.box.key # derive_encryption_key(pass, doc.salt, KdfCost(doc.scheme))
                  \/ doc.box.aad # associated_data(doc.public_key, doc.key_id, doc.salt)
             c == doc.box.seed # doc.public_key
  <2>1. a \in BOOLEAN /\ b \in BOOLEAN /\ c \in BOOLEAN
    OBVIOUS
  <2>2. ~a /\ ~b /\ ~c
    BY <1>1
  <2> HIDE DEF a, b, c
  <2>3. FirstError(<< <<a, "InvalidPassphrase">>, <<b, "AuthenticationFailed">>,
                      <<c, "IdentityMismatch">> >>) = Passed
    BY <2>1, <2>2, ThreeChecks
  <2> QED  BY <2>3, Zenon DEF unlock, validate_passphrase, a, b, c
<1> QED  BY <1>1, <1>2, <1>3 DEF SignerError, doc

-----------------------------------------------------------------------------
(* Key documents.                                                          *)

\* A passphrase that opens what was generated with it.
Long == Passphrases \ ShortPassphrases

\* What generate writes, and the private file once it is there.
WritePrivate(key, pass) ==
  [name |-> "private", content |-> PrivateDocument(key, pass, 1, "v2"), undo |-> {}]
WritePublic(key, channel) ==
  [name |-> "public", content |-> PublicDocument(<<1>>, key, channel, "Active"), undo |-> {"private"}]
PrivateFile(key, pass) == [state |-> "whole", content |-> PrivateDocument(key, pass, 1, "v2")]
Unpublished == files["public"] \in {Absent, Foreign}

\* generate before and after its private file, and every other command.
GeneratingPrivate ==
  \E key \in Keys, pass \in Long, channel \in Channels :
    /\ pub.todo = <<WritePrivate(key, pass), WritePublic(key, channel)>>
    /\ Unpublished
    /\ pub.pc = "fill" =>
         files["private"] = [state |-> "torn", content |-> PrivateDocument(key, pass, 1, "v2")]
GeneratingPublic ==
  \E key \in Keys, pass \in Long, channel \in Channels :
    /\ pub.todo = <<WritePublic(key, channel)>>
    /\ files["private"] = PrivateFile(key, pass)
    /\ pub.pc = "create" => Unpublished
    /\ pub.pc = "fill" =>
         files["public"] = [state |-> "torn", content |-> PublicDocument(<<1>>, key, channel, "Active")]
WritingOther ==
  \E n \in Names \ {"private", "public"} : \E c : pub.todo = <<[name |-> n, content |-> c, undo |-> {}]>>

\* A whole public document has its whole private one beside it.
Published ==
  ~Unpublished /\ files["public"].state = "whole" =>
    \E key \in Keys, pass \in Long :
      files["private"] = PrivateFile(key, pass) /\ files["public"].content.public_key = key

\* The publisher's command is a record with these fields.
PubRecord ==
  pub = [pc |-> pub.pc, kind |-> pub.kind, todo |-> pub.todo, idx |-> pub.idx, o |-> pub.o,
         pass |-> pub.pass, listed |-> pub.listed, read |-> pub.read, capsule |-> pub.capsule, res |-> pub.res]

Writing == {"create", "fill"}

KeyInv ==
  /\ files = [n \in Names |-> files[n]]
  /\ PubRecord
  /\ pub.pc \in Writing => GeneratingPrivate \/ GeneratingPublic \/ WritingOther
  /\ Published

\* Steps that touch neither key document and write nothing.
LEMMA KeysKept ==
  ASSUME KeyInv, files'["private"] = files["private"], files'["public"] = files["public"],
         files' = [n \in Names |-> files'[n]], PubRecord', pub'.pc \notin Writing
  PROVE  KeyInv'
BY DEF KeyInv, Published, Unpublished

\* A new command is a record.
LEMMA NewCommand ==
  ASSUME NEW c, NEW k, NEW t,
         pub' = [NoCommand EXCEPT !.pc = c, !.kind = k, !.todo = t]
  PROVE  PubRecord' /\ pub'.pc = c /\ pub'.todo = t
BY DEF NoCommand, PubRecord

\* A command that ends in an error.
LEMMA Ended ==
  ASSUME KeyInv, NEW error, NEW k, PubFail(error) \/ Refused(k, error)
  PROVE  PubRecord' /\ pub'.pc \notin Writing
<1>1. \E l : pub' = [NoCommand EXCEPT !.pc = "failed", !.kind = l, !.res = error]
  BY Zenon DEF PubFail, Refused
<1> QED  BY <1>1 DEF NoCommand, PubRecord, Writing

\* Create.
LEMMA CreateKeys ==
  ASSUME KeyInv, Create
  PROVE  KeyInv'
<1>0. PubRecord /\ pub.pc = "create" /\ files = [n \in Names |-> files[n]] /\ Published
  BY DEF KeyInv, Create
<1>1. ASSUME NEW w, pub.todo # <<>>, w = Head(pub.todo), files[w.name] # Absent
      PROVE  PubRecord' /\ pub'.pc \notin Writing /\ files' = [n \in Names |-> IF n \in w.undo THEN Absent ELSE files[n]]
  BY <1>1, Ended DEF Create, Undone
<1>2. ASSUME NEW w, w = Head(pub.todo), files[w.name] = Absent
      PROVE  /\ PubRecord' /\ pub'.pc = "fill" /\ pub'.todo = pub.todo
             /\ files' = [files EXCEPT ![w.name] = [state |-> "torn", content |-> w.content]]
  BY <1>0, <1>2 DEF Create, PubRecord
<1>3. CASE GeneratingPrivate
  <2>1. PICK key \in Keys, pass \in Long, channel \in Channels :
          pub.todo = <<WritePrivate(key, pass), WritePublic(key, channel)>> /\ Unpublished
    BY <1>3 DEF GeneratingPrivate
  <2> DEFINE w == WritePrivate(key, pass)
  <2>2. w = Head(pub.todo) /\ pub.todo # <<>>
    BY <2>1
  <2>3. w.name = "private" /\ w.undo = {} /\ w.content = PrivateDocument(key, pass, 1, "v2")
    BY DEF WritePrivate
  <2> HIDE DEF w
  <2>4. CASE files["private"] # Absent
    BY <1>0, <1>1, <2>2, <2>3, <2>4, KeysKept DEF Names
  <2>5. CASE files["private"] = Absent
    <3>1. /\ PubRecord' /\ pub'.pc = "fill" /\ pub'.todo = pub.todo
          /\ files' = [files EXCEPT !["private"] = [state |-> "torn", content |-> w.content]]
      BY <1>2, <2>2, <2>3, <2>5
    <3>2. /\ files'["private"] = [state |-> "torn", content |-> w.content]
          /\ files'["public"] = files["public"] /\ files' = [n \in Names |-> files'[n]]
      BY <1>0, <3>1 DEF Names
    <3>3. GeneratingPrivate'
      BY <2>1, <2>3, <3>1, <3>2 DEF GeneratingPrivate, Unpublished
    <3>4. Published'
      BY <2>1, <3>2 DEF Published, Unpublished
    <3> QED  BY <3>1, <3>2, <3>3, <3>4 DEF KeyInv
  <2> QED  BY <2>4, <2>5
<1>4. CASE GeneratingPublic
  <2>1. PICK key \in Keys, pass \in Long, channel \in Channels :
          /\ pub.todo = <<WritePublic(key, channel)>> /\ Unpublished
          /\ files["private"] = PrivateFile(key, pass)
    BY <1>0, <1>4 DEF GeneratingPublic
  <2> DEFINE w == WritePublic(key, channel)
  <2>2. w = Head(pub.todo) /\ pub.todo # <<>>
    BY <2>1
  <2>3. /\ w.name = "public" /\ w.undo = {"private"}
        /\ w.content = PublicDocument(<<1>>, key, channel, "Active")
    BY DEF WritePublic
  <2> HIDE DEF w
  <2>4. CASE files["public"] # Absent
    <3>1. /\ PubRecord' /\ pub'.pc \notin Writing
          /\ files' = [n \in Names |-> IF n \in w.undo THEN Absent ELSE files[n]]
      BY <1>1, <2>2, <2>3, <2>4
    <3>2. files'["public"] = files["public"] /\ files' = [n \in Names |-> files'[n]]
      BY <2>3, <3>1 DEF Names
    <3> QED  BY <2>1, <3>1, <3>2 DEF KeyInv, Published, Unpublished
  <2>5. CASE files["public"] = Absent
    <3>1. /\ PubRecord' /\ pub'.pc = "fill" /\ pub'.todo = pub.todo
          /\ files' = [files EXCEPT !["public"] = [state |-> "torn", content |-> w.content]]
      BY <1>2, <2>2, <2>3, <2>5
    <3>2. /\ files'["public"] = [state |-> "torn", content |-> w.content]
          /\ files'["private"] = files["private"] /\ files' = [n \in Names |-> files'[n]]
      BY <1>0, <3>1 DEF Names
    <3>3. GeneratingPublic'
      BY <2>1, <2>3, <3>1, <3>2 DEF GeneratingPublic
    <3>4. Published'
      BY <3>2 DEF Published
    <3> QED  BY <3>1, <3>2, <3>3, <3>4 DEF KeyInv
  <2> QED  BY <2>4, <2>5
<1>5. CASE WritingOther
  <2>0. PICK n \in Names \ {"private", "public"} :
          \E c : pub.todo = <<[name |-> n, content |-> c, undo |-> {}]>>
    BY <1>5 DEF WritingOther
  <2>1. PICK c : pub.todo = <<[name |-> n, content |-> c, undo |-> {}]>>
    BY <2>0
  <2> DEFINE w == [name |-> n, content |-> c, undo |-> {}]
  <2>2. w = Head(pub.todo) /\ pub.todo # <<>> /\ w.name = n /\ w.undo = {}
    BY <2>1
  <2> HIDE DEF w
  <2>4. CASE files[n] # Absent
    BY <1>0, <1>1, <2>2, <2>4, KeysKept DEF Names
  <2>5. CASE files[n] = Absent
    <3>1. /\ PubRecord' /\ pub'.pc = "fill" /\ pub'.todo = pub.todo
          /\ files' = [files EXCEPT ![n] = [state |-> "torn", content |-> w.content]]
      BY <1>2, <2>2, <2>5
    <3>2. /\ files'["public"] = files["public"] /\ files'["private"] = files["private"]
          /\ files' = [m \in Names |-> files'[m]]
      BY <1>0, <3>1 DEF Names
    <3>3. WritingOther'
      BY <2>1, <3>1 DEF WritingOther
    <3> QED  BY <1>0, <3>1, <3>2, <3>3 DEF KeyInv, Published, Unpublished
  <2> QED  BY <2>4, <2>5
<1> QED  BY <1>0, <1>3, <1>4, <1>5 DEF KeyInv, Writing

\* Fill: the last file ends the command.
LEMMA FillKeys ==
  ASSUME KeyInv, Fill
  PROVE  KeyInv'
<1>0. PubRecord /\ pub.pc = "fill" /\ files = [n \in Names |-> files[n]] /\ Published
  BY DEF KeyInv, Fill
<1>1. files' = [files EXCEPT ![Head(pub.todo).name].state = "whole"]
  BY DEF Fill
<1>2. /\ Len(pub.todo) = 1 => PubRecord' /\ pub'.pc = "done"
      /\ Len(pub.todo) # 1 => PubRecord' /\ pub'.pc = "create" /\ pub'.todo = Tail(pub.todo)
  BY <1>0 DEF Fill, PubRecord
<1>3. CASE GeneratingPrivate
  <2>1. PICK key \in Keys, pass \in Long, channel \in Channels :
          /\ pub.todo = <<WritePrivate(key, pass), WritePublic(key, channel)>> /\ Unpublished
          /\ files["private"] = [state |-> "torn", content |-> PrivateDocument(key, pass, 1, "v2")]
    BY <1>0, <1>3 DEF GeneratingPrivate
  <2>2. WritePrivate(key, pass).name = "private"
    BY DEF WritePrivate
  <2>3. Head(pub.todo).name = "private" /\ Len(pub.todo) # 1 /\ Tail(pub.todo) = <<WritePublic(key, channel)>>
    BY <2>1, <2>2
  <2>4. /\ files'["private"] = PrivateFile(key, pass) /\ files'["public"] = files["public"]
        /\ files' = [n \in Names |-> files'[n]]
    <3>1. files' = [files EXCEPT !["private"] = [files["private"] EXCEPT !.state = "whole"]]
      BY <1>1, <2>3, Zenon
    <3>2. [files["private"] EXCEPT !.state = "whole"] = PrivateFile(key, pass)
      BY <2>1 DEF PrivateFile
    <3> QED  BY <1>0, <3>1, <3>2 DEF Names
  <2>5. GeneratingPublic'
    BY <1>2, <2>1, <2>3, <2>4 DEF GeneratingPublic, Unpublished
  <2>6. Published'
    BY <2>1, <2>4 DEF Published, Unpublished
  <2> QED  BY <1>2, <2>3, <2>4, <2>5, <2>6 DEF KeyInv
<1>4. CASE GeneratingPublic
  <2>1. PICK key \in Keys, pass \in Long, channel \in Channels :
          /\ pub.todo = <<WritePublic(key, channel)>>
          /\ files["private"] = PrivateFile(key, pass)
          /\ files["public"] = [state |-> "torn", content |-> PublicDocument(<<1>>, key, channel, "Active")]
    BY <1>0, <1>4 DEF GeneratingPublic
  <2>2. WritePublic(key, channel).name = "public"
    BY DEF WritePublic
  <2>3. Head(pub.todo).name = "public" /\ Len(pub.todo) = 1
    BY <2>1, <2>2
  <2>4. /\ files'["private"] = PrivateFile(key, pass)
        /\ files'["public"].content = PublicDocument(<<1>>, key, channel, "Active")
        /\ files' = [n \in Names |-> files'[n]]
    <3>1. files' = [files EXCEPT !["public"] = [files["public"] EXCEPT !.state = "whole"]]
      BY <1>1, <2>3, Zenon
    <3>2. [files["public"] EXCEPT !.state = "whole"].content = PublicDocument(<<1>>, key, channel, "Active")
      BY <2>1
    <3> QED  BY <1>0, <2>1, <3>1, <3>2 DEF Names
  <2>5. files'["public"].content.public_key = key
    BY <2>4 DEF PublicDocument
  <2>6. Published'
    BY <2>4, <2>5 DEF Published
  <2> QED  BY <1>2, <2>3, <2>4, <2>6 DEF KeyInv, Writing
<1>5. CASE WritingOther
  <2>0. PICK n \in Names \ {"private", "public"} :
          \E c : pub.todo = <<[name |-> n, content |-> c, undo |-> {}]>>
    BY <1>5 DEF WritingOther
  <2>1. PICK c : pub.todo = <<[name |-> n, content |-> c, undo |-> {}]>>
    BY <2>0
  <2>2. Head(pub.todo).name = n /\ Len(pub.todo) = 1
    BY <2>1
  <2>3. /\ files'["public"] = files["public"] /\ files'["private"] = files["private"]
        /\ files' = [m \in Names |-> files'[m]]
    BY <1>0, <1>1, <2>2 DEF Names
  <2> QED  BY <1>2, <2>2, <2>3, KeysKept DEF Writing
<1> QED  BY <1>0, <1>3, <1>4, <1>5 DEF KeyInv, Writing

\* FillFails: what remains of a public document is not whole.
LEMMA FillFailsKeys ==
  ASSUME KeyInv, FillFails
  PROVE  KeyInv'
<1>0. PubRecord /\ pub.pc = "fill" /\ files = [n \in Names |-> files[n]] /\ Published
  BY DEF KeyInv, FillFails
<1>1. PubRecord' /\ pub'.pc \notin Writing
  BY Ended DEF FillFails
<1>2. PICK state \in {"torn", "unsynced"} :
        files' = Undone([files EXCEPT ![Head(pub.todo).name].state = state], Head(pub.todo).undo)
  BY DEF FillFails
<1>3. files' = [n \in Names |-> files'[n]]
  BY <1>2 DEF Undone
<1>4. CASE GeneratingPrivate
  <2>1. PICK key \in Keys, pass \in Long, channel \in Channels :
          pub.todo = <<WritePrivate(key, pass), WritePublic(key, channel)>> /\ Unpublished
    BY <1>4 DEF GeneratingPrivate
  <2>2. WritePrivate(key, pass).name = "private" /\ WritePrivate(key, pass).undo = {}
    BY DEF WritePrivate
  <2>3. Head(pub.todo).name = "private" /\ Head(pub.todo).undo = {}
    BY <2>1, <2>2
  <2>4. files'["public"] = files["public"]
    BY <1>0, <1>2, <2>3 DEF Undone, Names
  <2> QED  BY <1>1, <1>3, <2>1, <2>4 DEF KeyInv, Published, Unpublished
<1>5. CASE GeneratingPublic
  <2>1. PICK key \in Keys, channel \in Channels :
          /\ pub.todo = <<WritePublic(key, channel)>>
          /\ files["public"] = [state |-> "torn", content |-> PublicDocument(<<1>>, key, channel, "Active")]
    BY <1>0, <1>5 DEF GeneratingPublic
  <2>2. WritePublic(key, channel).name = "public" /\ WritePublic(key, channel).undo = {"private"}
    BY DEF WritePublic
  <2>3. Head(pub.todo).name = "public" /\ Head(pub.todo).undo = {"private"}
    BY <2>1, <2>2
  <2>4. files'["public"].state = state
    BY <1>0, <1>2, <2>1, <2>3 DEF Undone, Names
  <2> QED  BY <1>1, <1>3, <2>4 DEF KeyInv, Published
<1>6. CASE WritingOther
  <2>0. PICK n \in Names \ {"private", "public"} :
          \E c : pub.todo = <<[name |-> n, content |-> c, undo |-> {}]>>
    BY <1>6 DEF WritingOther
  <2>1. PICK c : pub.todo = <<[name |-> n, content |-> c, undo |-> {}]>>
    BY <2>0
  <2>2. Head(pub.todo).name = n /\ Head(pub.todo).undo = {}
    BY <2>1
  <2>3. files'["public"] = files["public"] /\ files'["private"] = files["private"]
    BY <1>0, <1>2, <2>2 DEF Undone, Names
  <2> QED  BY <1>1, <1>3, <2>3, KeysKept
<1> QED  BY <1>0, <1>4, <1>5, <1>6 DEF KeyInv, Writing

\* Generate starts where neither document is.
LEMMA GenerateKeys ==
  ASSUME KeyInv, NEW key \in Keys, NEW channel \in Channels, NEW pass \in Passphrases,
         Generate(key, channel, pass)
  PROVE  KeyInv'
<1>1. UNCHANGED files /\ files = [n \in Names |-> files[n]]
  BY DEF Generate, KeyInv
<1>2. CASE \E e : Refused("generate", e)
  BY <1>1, <1>2, Ended, KeysKept
<1>3. CASE ~\E e : Refused("generate", e)
  <2>1. /\ files["public"] = Absent /\ GenerateError(<<1>>, key, pass) = Passed
        /\ Begin("generate", <<WritePrivate(key, pass), WritePublic(key, channel)>>)
    BY <1>3, Zenon DEF Generate, WritePrivate, WritePublic
  <2>2. /\ PubRecord' /\ pub'.pc = "create"
        /\ pub'.todo = <<WritePrivate(key, pass), WritePublic(key, channel)>>
    BY <2>1, NewCommand DEF Begin
  <2>3. pass \in Long
    BY <2>1, GeneratePasses DEF Long
  <2>4. GeneratingPrivate' /\ Published'
    BY <1>1, <2>1, <2>2, <2>3 DEF GeneratingPrivate, Unpublished, Published
  <2> QED  BY <1>1, <2>2, <2>4 DEF KeyInv
<1> QED  BY <1>2, <1>3

\* A command that writes one other file.
LEMMA BeginOther ==
  ASSUME KeyInv, UNCHANGED files, PubRecord', pub'.pc \in Writing,
         NEW n \in Names \ {"private", "public"}, NEW c,
         pub'.todo = <<[name |-> n, content |-> c, undo |-> {}]>>
  PROVE  KeyInv'
<1>1. WritingOther'
  BY DEF WritingOther
<1> QED  BY <1>1 DEF KeyInv, Published, Unpublished

\* Status and Rekey write another document.
LEMMA DocumentKeys ==
  ASSUME KeyInv,
         \/ \E to \in {"status", "status2"} : \E from, status : Status(from, to, status)
         \/ \E pass, newPass : Rekey(pass, newPass)
  PROVE  KeyInv'
<1>1. UNCHANGED files /\ files = [n \in Names |-> files[n]]
  BY DEF Status, Rekey, KeyInv
<1>2. \/ \E k, e : Refused(k, e)
      \/ \E n \in {"status", "status2", "rekeyed"} : \E k, c :
           Begin(k, <<[name |-> n, content |-> c, undo |-> {}]>>)
  <2>1. ASSUME NEW from, NEW to \in {"status", "status2"}, NEW status, Status(from, to, status)
        PROVE  \/ \E k, e : Refused(k, e)
               \/ \E k, c : Begin(k, <<[name |-> to, content |-> c, undo |-> {}]>>)
    BY <2>1, Zenon DEF Status
  <2>2. ASSUME NEW pass, NEW newPass, Rekey(pass, newPass)
        PROVE  \/ \E k, e : Refused(k, e)
               \/ \E k, c : Begin(k, <<[name |-> "rekeyed", content |-> c, undo |-> {}]>>)
    BY <2>2, Zenon DEF Rekey
  <2>3. "rekeyed" \in {"status", "status2", "rekeyed"} /\ {"status", "status2"} \subseteq {"status", "status2", "rekeyed"}
    OBVIOUS
  <2> QED  BY <2>1, <2>2, <2>3, Zenon
<1>3. CASE \E k, e : Refused(k, e)
  BY <1>1, <1>3, Ended, KeysKept
<1>4. CASE \E n \in {"status", "status2", "rekeyed"} : \E k, c :
             Begin(k, <<[name |-> n, content |-> c, undo |-> {}]>>)
  <2>0. PICK n \in {"status", "status2", "rekeyed"} :
          \E k, c : Begin(k, <<[name |-> n, content |-> c, undo |-> {}]>>)
    BY <1>4
  <2>1. PICK k, c : Begin(k, <<[name |-> n, content |-> c, undo |-> {}]>>)
    BY <2>0
  <2> DEFINE t == <<[name |-> n, content |-> c, undo |-> {}]>>
  <2>2. pub' = [NoCommand EXCEPT !.pc = "create", !.kind = k, !.todo = t]
    BY <2>1, Zenon DEF Begin
  <2> HIDE DEF t
  <2>3. PubRecord' /\ pub'.pc = "create" /\ pub'.todo = t
    BY <2>2, NewCommand
  <2>4. n \in Names \ {"private", "public"}
    BY DEF Names
  <2>5. pub'.pc \in Writing /\ UNCHANGED files
    BY <1>1, <2>3 DEF Writing
  <2> QED  BY <2>3, <2>4, <2>5, BeginOther, Zenon DEF t
<1> QED  BY <1>2, <1>3, <1>4

\* pack: the walk, and the capsule that is written.
LEMMA PackKeys ==
  ASSUME KeyInv, (\E o, pass : Pack(o, pass)) \/ Walk \/ \E zsize : SignPacked(zsize)
  PROVE  KeyInv'
<1>0. UNCHANGED files /\ files = [n \in Names |-> files[n]] /\ PubRecord
  BY Zenon DEF Pack, Walk, SignPacked, KeyInv
<1>1. CASE \E e : PubFail(e)
  BY <1>0, <1>1, Ended, KeysKept
<1>2. CASE \E o, pass : Pack(o, pass)
  <2>1. PubRecord' /\ pub'.pc = "walk"
    BY <1>2 DEF Pack, NoCommand, PubRecord
  <2> QED  BY <1>0, <2>1, KeysKept DEF Writing
<1>3. CASE Walk
  <2>1. \/ \E e : PubFail(e)
        \/ \E i : pub' = [pub EXCEPT !.idx = i]
        \/ \E l : pub' = [pub EXCEPT !.listed = l]
        \/ \E i, r : pub' = [pub EXCEPT !.idx = i, !.read = r]
    BY <1>3, Zenon DEF Walk
  <2>2. pub.pc = "walk"
    BY <1>3 DEF Walk
  <2>3. CASE ~\E e : PubFail(e)
    <3>1. PubRecord' /\ pub'.pc = "walk"
      BY <1>0, <2>1, <2>2, <2>3 DEF PubRecord
    <3> QED  BY <1>0, <3>1, KeysKept DEF Writing
  <2> QED  BY <1>1, <2>3
<1>4. CASE \E zsize : SignPacked(zsize)
  <2>1. \/ \E e : PubFail(e)
        \/ \E c, d : pub' = [pub EXCEPT !.pc = "create", !.capsule = c,
                                 !.todo = <<[name |-> "capsule", undo |-> {}, content |-> d]>>]
    BY <1>4, Zenon DEF SignPacked
  <2>3. CASE ~\E e : PubFail(e)
    <3>1. PICK c, d : pub' = [pub EXCEPT !.pc = "create", !.capsule = c,
                                 !.todo = <<[name |-> "capsule", undo |-> {}, content |-> d]>>]
      BY <2>1, <2>3
    <3>2. [name |-> "capsule", undo |-> {}, content |-> d] = [name |-> "capsule", content |-> d, undo |-> {}]
      OBVIOUS
    <3>3. PubRecord' /\ pub'.pc = "create"
          /\ pub'.todo = <<[name |-> "capsule", content |-> d, undo |-> {}]>>
      BY <1>0, <3>1, <3>2 DEF PubRecord
    <3> QED  BY <1>0, <3>3, BeginOther DEF Names, Writing
  <2> QED  BY <1>1, <2>3
<1> QED  BY <1>2, <1>3, <1>4

\* The consumer and the others leave the key documents alone.
LEMMA OtherKeys ==
  ASSUME KeyInv, Receive \/ Others
  PROVE  KeyInv'
<1>0. files = [n \in Names |-> files[n]] /\ PubRecord /\ Published
  BY DEF KeyInv
<1>1. CASE UNCHANGED publisher
  BY <1>1 DEF publisher, KeyInv, PubRecord, GeneratingPrivate, GeneratingPublic, WritingOther,
              Published, Unpublished
<1>2. ASSUME NEW kind, NEW option, NEW trust, NEW channels, Consume(kind, option, trust, channels)
      PROVE  UNCHANGED publisher
  BY <1>2, Zenon DEF Consume, publisher
<1>3. CASE Receive
  BY <1>1, <1>2, <1>3, Zenon DEF Receive, Diff, Decline, Apply, ApplyFiles
<1>4. ASSUME NEW i, NEW f, WriteSource(i, f) \/ WriteRoot(i, f)
      PROVE  UNCHANGED publisher
  BY <1>4 DEF WriteSource, WriteRoot, publisher
<1>5. ASSUME NEW n \in {"public", "capsule"}, CreateForeign(n)
      PROVE  KeyInv'
  <2>1. UNCHANGED pub /\ pub.pc \in {"create", "walk"} /\ files[n] = Absent
        /\ files' = [files EXCEPT ![n] = Foreign]
    BY <1>5 DEF CreateForeign
  <2>2. /\ files' = [m \in Names |-> files'[m]] /\ files'["private"] = files["private"]
        /\ files'["public"] = files["public"] \/ (files'["public"] = Foreign /\ files["public"] = Absent)
    BY <1>0, <2>1 DEF Names
  <2>3. Published' /\ (Unpublished => Unpublished')
    BY <2>2, <1>0 DEF Published, Unpublished
  <2>4. pub'.pc # "fill"
    BY <2>1
  <2>5. GeneratingPrivate => GeneratingPrivate'
    BY <2>1, <2>3, <2>4 DEF GeneratingPrivate
  <2>6. GeneratingPublic => GeneratingPublic'
    BY <2>1, <2>2, <2>3, <2>4 DEF GeneratingPublic
  <2>7. PubRecord' /\ (WritingOther => WritingOther')
    BY <1>0, <2>1 DEF PubRecord, WritingOther
  <2> QED  BY <2>1, <2>2, <2>3, <2>5, <2>6, <2>7 DEF KeyInv
<1>6. ASSUME Idle, NEW c, Forge(c)
      PROVE  KeyInv'
  <2>1. UNCHANGED pub /\ pub.pc \notin Writing
    BY <1>6 DEF Forge, Idle, Writing
  <2>2. \E f : files' = [files EXCEPT !["capsule"] = f]
    BY <1>6, Zenon DEF Forge
  <2>3. /\ files' = [m \in Names |-> files'[m]] /\ files'["private"] = files["private"]
        /\ files'["public"] = files["public"]
    BY <1>0, <2>2 DEF Names
  <2>4. PubRecord'
    BY <1>0, <2>1 DEF PubRecord
  <2> QED  BY <2>1, <2>3, <2>4, KeysKept
<1>7. CASE Kill
  <2>1. UNCHANGED files /\ PubRecord' /\ pub'.pc \notin Writing
    BY <1>7 DEF Kill, NoCommand, PubRecord, Writing
  <2> QED  BY <1>0, <2>1, KeysKept
<1>8. CASE Others
  BY <1>1, <1>4, <1>5, <1>6, <1>7, <1>8, Zenon DEF Others
<1> QED  BY <1>3, <1>8

\* Every step keeps the invariant.
LEMMA KeyInvStep == KeyInv /\ [Next]_vars => KeyInv'
<1> SUFFICES ASSUME KeyInv, [Next]_vars  PROVE KeyInv'
  OBVIOUS
<1>1. CASE Publish
  BY <1>1, CreateKeys, FillKeys, FillFailsKeys, GenerateKeys, DocumentKeys, PackKeys, Zenon DEF Publish
<1>2. CASE UNCHANGED vars
  BY <1>2 DEF vars, KeyInv, PubRecord, GeneratingPrivate, GeneratingPublic, WritingOther,
              Published, Unpublished
<1> QED  BY <1>1, <1>2, OtherKeys DEF Next

\* A public document that was written without an error belongs to a private
\* one that a passphrase of the publisher opens, for every key, every failure
\* and every kill (keys::generate, keys::rekey).
THEOREM PublishedKeyOpens == Spec => []PublishedKeyUsable
<1>1. Init => KeyInv
  <2> SUFFICES ASSUME Init  PROVE KeyInv
    OBVIOUS
  <2>1. PubRecord /\ pub.pc \notin Writing
    BY DEF Init, NoCommand, PubRecord, Writing
  <2>2. files = [n \in Names |-> files[n]] /\ Published
    BY DEF Init, Published, Unpublished, Names
  <2> QED  BY <2>1, <2>2 DEF KeyInv
<1>2. KeyInv => PublishedKeyUsable
  <2> SUFFICES ASSUME KeyInv, files["public"] \notin {Absent, Foreign}, files["public"].state = "whole"
               PROVE  \E pass \in Passphrases :
                        /\ Complete("private")
                        /\ SignerError(files["private"].content, pass) = Passed
                        /\ files["private"].content.box.seed = files["public"].content.public_key
    BY DEF PublishedKeyUsable
  <2>1. PICK key \in Keys, pass \in Long :
          files["private"] = PrivateFile(key, pass) /\ files["public"].content.public_key = key
    BY DEF KeyInv, Published, Unpublished
  <2>2. /\ files["private"].state = "whole"
        /\ files["private"].content = PrivateDocument(key, pass, 1, "v2")
    BY <2>1 DEF PrivateFile
  <2>3. files["private"] \notin {Absent, Foreign}
    <3>1. PrivateDocument(key, pass, 1, "v2") \in KeyDocuments
      BY DEF KeyDocuments, Long
    <3> QED  BY <2>1, <3>1, CapsuleCommandsAssumption DEF PrivateFile
  <2> QED  BY <2>1, <2>2, <2>3, DocumentOpens DEF Complete, Long
<1> QED  BY <1>1, <1>2, KeyInvStep, PTL DEF Spec

-----------------------------------------------------------------------------
(* Lists of checks.                                                        *)

\* A validator passes only if each of its checks holds.
LEMMA AllHold ==
  ASSUME NEW l, Len(l) \in Nat, FirstError(l) = Passed,
         \A i \in 1..Len(l) : l[i][1] => l[i][2] # Passed
  PROVE  \A i \in 1..Len(l) : ~l[i][1]
<1>1. Failing(l) = {}
  <2> SUFFICES ASSUME Failing(l) # {}  PROVE FALSE
    OBVIOUS
  <2>1. PICK i \in Failing(l) : FirstError(l) = l[i][2]
    BY SomeFails
  <2>2. i \in 1..Len(l) /\ l[i][1]
    BY DEF Failing
  <2> QED  BY <2>1, <2>2
<1> QED  BY <1>1 DEF Failing

\* A function on 1..n is a sequence.
LEMMA AsSequence ==
  ASSUME NEW n \in Nat, NEW f, f = [i \in 1..n |-> f[i]]
  PROVE  f \in Seq({f[i] : i \in 1..n}) /\ Len(f) = n
OBVIOUS

\* The results of a sequence are all passes if the first error is none.
LEMMA AllPassed ==
  ASSUME NEW n \in Nat, NEW e, e = [i \in 1..n |-> e[i]], FirstOf(e) = Passed
  PROVE  \A i \in 1..n : e[i] = Passed
<1> DEFINE l == [i \in 1..n |-> <<e[i] # Passed, e[i]>>]
<1>0. Len(e) = n
  OBVIOUS
<1>1. FirstError(l) = Passed
  BY <1>0, Zenon DEF FirstOf
<1>4. \A i \in 1..n : l[i][1] = (e[i] # Passed) /\ l[i][2] = e[i]
  <2>1. \A i \in 1..n : \A b \in BOOLEAN : <<b, e[i]>>[1] = b /\ <<b, e[i]>>[2] = e[i]
    OBVIOUS
  <2>2. \A i \in 1..n : l[i] = <<e[i] # Passed, e[i]>> /\ (e[i] # Passed) \in BOOLEAN
    BY Zenon
  <2> QED  BY <2>1, <2>2, Zenon
<1>5. l = [i \in 1..n |-> l[i]]
  BY Zenon
<1> HIDE DEF l
<1>2. Len(l) = n
  BY <1>5, AsSequence
<1>3. Failing(l) = {}
  <2> SUFFICES ASSUME Failing(l) # {}  PROVE FALSE
    OBVIOUS
  <2>1. PICK i \in Failing(l) : FirstError(l) = l[i][2]
    BY <1>2, SomeFails
  <2>2. i \in 1..n /\ l[i][1]
    BY <1>2 DEF Failing
  <2> QED  BY <1>1, <1>4, <2>1, <2>2
<1> QED  BY <1>2, <1>3, <1>4 DEF Failing

\* A sequence with one more element after it, or before it.
LEMMA OneAfter ==
  ASSUME NEW S, NEW s \in Seq(S), NEW x
  PROVE  /\ Len(s \o <<x>>) = Len(s) + 1 /\ (s \o <<x>>)[Len(s) + 1] = x
         /\ \A i \in 1..Len(s) : (s \o <<x>>)[i] = s[i]
<1> DEFINE T == S \cup {x}
<1>1. s \in Seq(T) /\ <<x>> \in Seq(T) /\ Len(<<x>>) = 1 /\ <<x>>[1] = x
  OBVIOUS
<1> HIDE DEF T
<1> QED  BY <1>1

LEMMA OneBefore ==
  ASSUME NEW S, NEW s \in Seq(S), NEW x
  PROVE  /\ Len(<<x>> \o s) = Len(s) + 1 /\ (<<x>> \o s)[1] = x
         /\ \A i \in 1..Len(s) : (<<x>> \o s)[i + 1] = s[i]
         /\ <<x>> \o s \in Seq(S \cup {x})
<1> DEFINE T == S \cup {x}
<1>1. s \in Seq(T) /\ <<x>> \in Seq(T) /\ Len(<<x>>) = 1 /\ <<x>>[1] = x
  OBVIOUS
<1> HIDE DEF T
<1>2. /\ Len(<<x>> \o s) = Len(s) + 1 /\ (<<x>> \o s)[1] = x
      /\ \A i \in 1..Len(s) : (<<x>> \o s)[i + 1] = s[i]
      /\ <<x>> \o s \in Seq(T)
  BY <1>1
<1> QED  BY <1>2 DEF T


-----------------------------------------------------------------------------
(* Verification.                                                           *)

\* Three and four checks that pass hold.
LEMMA ThreeHold ==
  ASSUME NEW a \in BOOLEAN, NEW b \in BOOLEAN, NEW c \in BOOLEAN, NEW e, NEW f, NEW g,
         e # Passed, f # Passed, g # Passed,
         FirstError(<< <<a, e>>, <<b, f>>, <<c, g>> >>) = Passed
  PROVE  ~a /\ ~b /\ ~c
<1> DEFINE l == << <<a, e>>, <<b, f>>, <<c, g>> >>
<1>1. /\ Len(l) = 3 /\ l[1][1] = a /\ l[2][1] = b /\ l[3][1] = c
      /\ l[1][2] = e /\ l[2][2] = f /\ l[3][2] = g
  OBVIOUS
<1>2. FirstError(l) = Passed
  OBVIOUS
<1> HIDE DEF l
<1>3. \A i \in 1..Len(l) : l[i][2] # Passed
  BY <1>1
<1>4. \A i \in 1..3 : ~l[i][1]
  BY <1>1, <1>2, <1>3, AllHold
<1> QED  BY <1>1, <1>4

LEMMA FourHold ==
  ASSUME NEW a \in BOOLEAN, NEW b \in BOOLEAN, NEW c \in BOOLEAN, NEW d \in BOOLEAN,
         NEW e, NEW f, NEW g, NEW h,
         a => e # Passed, b => f # Passed, c => g # Passed, d => h # Passed,
         FirstError(<< <<a, e>>, <<b, f>>, <<c, g>>, <<d, h>> >>) = Passed
  PROVE  ~a /\ ~b /\ ~c /\ ~d
<1> DEFINE l == << <<a, e>>, <<b, f>>, <<c, g>>, <<d, h>> >>
<1>1. /\ Len(l) = 4 /\ l[1][1] = a /\ l[2][1] = b /\ l[3][1] = c /\ l[4][1] = d
      /\ l[1][2] = e /\ l[2][2] = f /\ l[3][2] = g /\ l[4][2] = h
  OBVIOUS
<1>2. FirstError(l) = Passed
  OBVIOUS
<1> HIDE DEF l
<1>3. Len(l) \in Nat /\ \A i \in 1..Len(l) : l[i][1] => l[i][2] # Passed
  BY <1>1
<1>4. \A i \in 1..Len(l) : ~l[i][1]
  BY <1>2, <1>3, AllHold, Zenon
<1> QED  BY <1>1, <1>4

\* An entry that verifies has the digest of its slice (verify_payload).
LEMMA EntryVerified ==
  ASSUME NEW payload, NEW e, EntryError(payload, e) = Passed
  PROVE  e.digest = file_digest(Slice(payload, e))
<1> DEFINE a == e.offset + e.size > Len(payload)
           b == e.kind = "TextUtf8" /\ ~IsText(Slice(payload, e))
           c == e.digest # file_digest(Slice(payload, e))
<1>1. a \in BOOLEAN /\ b \in BOOLEAN /\ c \in BOOLEAN
  OBVIOUS
<1>2. FirstError(<< <<a, "PayloadRangeMismatch">>, <<b, "InvalidTextContent">>,
                    <<c, "FileDigestMismatch">> >>) = Passed
  BY Zenon DEF EntryError
<1>3. /\ "PayloadRangeMismatch" # Passed /\ "InvalidTextContent" # Passed
      /\ "FileDigestMismatch" # Passed
  BY DEF Passed
<1> HIDE DEF a, b, c
<1>4. ~c
  BY <1>1, <1>2, <1>3, ThreeHold, Zenon
<1> QED  BY <1>4 DEF c

\* A document that is accepted has the identifier of its key (to_trusted_key).
LEMMA TrustedKeyId ==
  ASSUME NEW doc, to_trusted_key(doc) = Passed
  PROVE  doc.key_id = key_id(doc.public_key)
<1> DEFINE a == doc.kind # "public"
           b == doc.defect # Passed
           c == TrustedKeyError(doc.name, doc.public_key) # Passed
           d == key_id(doc.public_key) # doc.key_id
<1>1. a \in BOOLEAN /\ b \in BOOLEAN /\ c \in BOOLEAN /\ d \in BOOLEAN
  OBVIOUS
<1>2. FirstError(<< <<a, "UnsupportedDocument">>, <<b, doc.defect>>,
                    <<c, "InvalidPublicKey">>, <<d, "IdentityMismatch">> >>) = Passed
  BY Zenon DEF to_trusted_key
<1>3. /\ "UnsupportedDocument" # Passed /\ "InvalidPublicKey" # Passed
      /\ "IdentityMismatch" # Passed
  BY DEF Passed
<1>5. /\ a => "UnsupportedDocument" # Passed
      /\ b => doc.defect # Passed
      /\ c => "InvalidPublicKey" # Passed
      /\ d => "IdentityMismatch" # Passed
  BY <1>3
<1> HIDE DEF a, b, c, d
<1>4. ~d
  <2>1. ~a /\ ~b /\ ~c /\ ~d
    BY <1>1, <1>2, <1>5, FourHold
  <2> QED  BY <2>1
<1> QED  BY <1>4 DEF d

\* The keyring of a command line holds each key once (TrustedKeyring::new).
LEMMA KeyringHolds ==
  ASSUME NEW S, NEW docs \in Seq(S), KeyringError(docs) = Passed
  PROVE  /\ \A i \in 1..Len(docs) : docs[i].key_id = key_id(docs[i].public_key)
         /\ \A i, j \in 1..Len(docs) : docs[i].key_id = docs[j].key_id => i = j
<1> DEFINE n == Len(docs)
           f == [i \in 1..n |-> <<to_trusted_key(docs[i]) # Passed, "Policy">>]
           d == \E i, j \in 1..n : i < j /\ docs[i].key_id = docs[j].key_id
           x == <<d, "DuplicateKey">>
           l == f \o <<x>>
<1>1. FirstError(l) = Passed
  BY Zenon DEF KeyringError
<1>2. n \in Nat /\ f = [i \in 1..n |-> f[i]]
  <2>1. n \in Nat
    OBVIOUS
  <2> QED  BY <2>1, Zenon
<1>3. \A i \in 1..n : f[i][1] = (to_trusted_key(docs[i]) # Passed) /\ f[i][2] = "Policy"
  <2>1. \A b \in BOOLEAN : <<b, "Policy">>[1] = b /\ <<b, "Policy">>[2] = "Policy"
    OBVIOUS
  <2>2. \A i \in 1..n : /\ f[i] = <<to_trusted_key(docs[i]) # Passed, "Policy">>
                        /\ (to_trusted_key(docs[i]) # Passed) \in BOOLEAN
    BY Zenon
  <2> HIDE DEF f
  <2> QED  BY <2>1, <2>2, Zenon
<1>4. x[1] = d /\ x[2] = "DuplicateKey"
  <2>1. d \in BOOLEAN
    OBVIOUS
  <2> HIDE DEF d
  <2> QED  BY <2>1
<1> HIDE DEF f, x
<1>5. f \in Seq({f[i] : i \in 1..n}) /\ Len(f) = n
  <2> HIDE DEF n
  <2> QED  BY <1>2, AsSequence
<1>6. Len(l) = n + 1 /\ l[n + 1] = x /\ \A i \in 1..n : l[i] = f[i]
  <2> HIDE DEF n
  <2> QED  BY <1>5, OneAfter
<1> HIDE DEF l, n
<1>7. "Policy" # Passed /\ "DuplicateKey" # Passed
  BY DEF Passed
<1>8. \A i \in 1..Len(l) : l[i][2] # Passed
  BY <1>2, <1>3, <1>4, <1>6, <1>7
<1>9. \A i \in 1..Len(l) : ~l[i][1]
  BY <1>1, <1>2, <1>6, <1>8, AllHold
<1>13. 1..n \subseteq 1..Len(l) /\ n + 1 \in 1..Len(l)
  BY <1>2, <1>6
<1>10. \A i \in 1..n : to_trusted_key(docs[i]) = Passed
  BY <1>3, <1>6, <1>9, <1>13, Zenon
<1>11. ~d
  BY <1>4, <1>6, <1>9, <1>13, Zenon
<1>12. \A i, j \in 1..n : docs[i].key_id = docs[j].key_id => i = j
  BY <1>2, <1>11 DEF d
<1> QED  BY <1>10, <1>12, TrustedKeyId DEF n

\* A signature that verifies is that of a key of the keyring which the policy
\* admits (verify_signature, enforce_policy).
LEMMA SignatureHolds ==
  ASSUME NEW S, NEW keyring \in Seq(S), NEW id, NEW digest, NEW signature, NEW channels,
         verify_signature(id, digest, signature, channels, keyring) = Passed
  PROVE  \E i \in 1..Len(keyring) :
           /\ keyring[i].key_id = id
           /\ keyring[i].status \notin {"Retired", "Revoked"}
           /\ keyring[i].channel = "Production" \/ keyring[i].channel \in channels
           /\ signature = Sign(keyring[i].public_key, signature_message(digest))
<1> DEFINE H == Holds(keyring, id)
           i == CHOOSE k \in H : \A j \in H : k <= j
           doc == keyring[i]
           a == doc.status = "Retired"
           b == doc.status = "Revoked"
           c == doc.channel # "Production" /\ doc.channel \notin channels
           d == signature # Sign(doc.public_key, signature_message(digest))
<1>0. "UnknownKey" # Passed
  BY DEF Passed
<1>1. H # {} /\ FirstError(enforce_policy(doc, channels) \o << <<d, "InvalidSignature">> >>) = Passed
  <2>1. verify_signature(id, digest, signature, channels, keyring) =
          IF H = {} THEN "UnknownKey"
          ELSE FirstError(enforce_policy(doc, channels) \o << <<d, "InvalidSignature">> >>)
    BY DEF verify_signature
  <2> HIDE DEF H, doc, d
  <2> QED  BY <1>0, <2>1
<1>2. H \subseteq 1..Len(keyring) /\ \A k \in H : keyring[k].key_id = id
  BY DEF Holds
<1>3. i \in H
  <2>1. H \subseteq Nat
    BY <1>2
  <2> HIDE DEF H
  <2>2. \E k \in H : \A j \in H : k <= j
    BY <1>1, <2>1, Smallest
  <2> QED  BY <2>2
<1>4. enforce_policy(doc, channels)
        = << <<a, "RetiredKey">>, <<b, "RevokedKey">>, <<c, "DisallowedChannel">> >>
  BY Zenon DEF enforce_policy
<1> HIDE DEF doc
<1>5. a \in BOOLEAN /\ b \in BOOLEAN /\ c \in BOOLEAN /\ d \in BOOLEAN
  OBVIOUS
<1> HIDE DEF a, b, c, d
<1> DEFINE p == <<a, "RetiredKey">>
           q == <<b, "RevokedKey">>
           r == <<c, "DisallowedChannel">>
           s == <<d, "InvalidSignature">>
           l == <<p, q, r>> \o <<s>>
<1>7. FirstError(l) = Passed
  BY <1>1, <1>4, Zenon
<1>6. Len(l) = 4 /\ l[1] = p /\ l[2] = q /\ l[3] = r /\ l[4] = s
  <2> HIDE DEF p, q, r, s
  <2>1. <<p, q, r>> \in Seq({p, q, r}) /\ Len(<<p, q, r>>) = 3
    OBVIOUS
  <2> QED  BY <2>1, OneAfter
<1>8. /\ p[1] = a /\ q[1] = b /\ r[1] = c /\ s[1] = d
      /\ p[2] # Passed /\ q[2] # Passed /\ r[2] # Passed /\ s[2] # Passed
  BY <1>5 DEF Passed
<1> HIDE DEF l, p, q, r, s
<1>11. Len(l) \in Nat /\ \A k \in 1..Len(l) : l[k][2] # Passed
  BY <1>6, <1>8
<1>12. \A k \in 1..Len(l) : ~l[k][1]
  BY <1>7, <1>11, AllHold, Zenon
<1>9. ~a /\ ~b /\ ~c /\ ~d
  BY <1>6, <1>8, <1>12
<1>10. i \in 1..Len(keyring) /\ keyring[i].key_id = id
  BY <1>2, <1>3
<1> HIDE DEF i
<1> QED  BY <1>9, <1>10 DEF a, b, c, d, doc


\* A capsule that verifies has passed its signature and its payload
\* (verify_capsule_with_limits).
LEMMA VerifiedStages ==
  ASSUME NEW input, NEW channels, NEW keyring, VerifyError(input, channels, keyring) = Passed
  PROVE  /\ input.form # "torn"
         /\ PayloadStage(input.capsule) = Passed
         /\ verify_signature(input.capsule.header.publisher_key_id,
                             capsule_digest(input.capsule.header, input.capsule.manifest, input.capsule.stored),
                             input.capsule.signature, channels, keyring) = Passed
<1>1. /\ DecodeStage(input) = Passed
      /\ SignatureStage(input.capsule, channels, keyring) = Passed
      /\ PayloadStage(input.capsule) = Passed
  BY Zenon DEF VerifyError
<1>2. "UnexpectedEof" # Passed /\ "CapsuleDigestMismatch" # Passed
  BY DEF Passed
<1>3. input.form # "torn"
  BY <1>1, <1>2, Zenon DEF DecodeStage
<1> QED  BY <1>1, <1>2, <1>3, Zenon DEF SignatureStage

\* Each file of a verified payload has the digest of its entry.
LEMMA PayloadHolds ==
  ASSUME NEW c, Len(c.manifest.files) \in Nat, PayloadStage(c) = Passed
  PROVE  \A i \in 1..Len(c.manifest.files) :
           /\ VerifiedFiles(c)[i].path = c.manifest.files[i].path
           /\ VerifiedFiles(c)[i].executable = c.manifest.files[i].executable
           /\ c.manifest.files[i].digest = file_digest(VerifiedFiles(c)[i].bytes)
<1> DEFINE n == Len(c.manifest.files)
           payload == DecodedBytes(c.stored, c.header.compression)
           e == [i \in 1..n |-> EntryError(payload, c.manifest.files[i])]
<1>1. "Compression" # Passed
  BY DEF Passed
<1>2. FirstOf(e) = Passed
  BY <1>1, Zenon DEF PayloadStage
<1>3. n \in Nat /\ e = [i \in 1..n |-> e[i]] /\ \A i \in 1..n : e[i] = EntryError(payload, c.manifest.files[i])
  BY Zenon
<1> HIDE DEF e
<1>4. \A i \in 1..n : EntryError(payload, c.manifest.files[i]) = Passed
  <2> HIDE DEF n, payload
  <2> QED  BY <1>2, <1>3, AllPassed
<1>5. \A i \in 1..n : c.manifest.files[i].digest = file_digest(Slice(payload, c.manifest.files[i]))
  BY <1>4, EntryVerified, Zenon
<1>6. \A i \in 1..n :
        VerifiedFiles(c)[i] = [path |-> c.manifest.files[i].path, bytes |-> Slice(payload, c.manifest.files[i]),
                               executable |-> c.manifest.files[i].executable, kind |-> c.manifest.files[i].kind]
  BY Zenon DEF VerifiedFiles
<1> HIDE DEF payload
<1>7. \A i \in 1..n : /\ VerifiedFiles(c)[i].path = c.manifest.files[i].path
                      /\ VerifiedFiles(c)[i].executable = c.manifest.files[i].executable
                      /\ VerifiedFiles(c)[i].bytes = Slice(payload, c.manifest.files[i])
  <2> TAKE i \in 1..n
  <2> DEFINE v == VerifiedFiles(c)[i]
             x == c.manifest.files[i]
             b == Slice(payload, x)
  <2>1. v = [path |-> x.path, bytes |-> b, executable |-> x.executable, kind |-> x.kind]
    BY <1>6, Zenon
  <2> HIDE DEF v, x, b
  <2>2. v.path = x.path /\ v.executable = x.executable /\ v.bytes = b
    BY <2>1
  <2> QED  BY <2>2 DEF v, x, b
<1> QED  BY <1>5, <1>7, Zenon

-----------------------------------------------------------------------------
(* What is packed.                                                         *)

\* Sorting keeps the files.
LEMMA OrderedFiles ==
  ASSUME NEW S, NEW fs \in Seq(S)
  PROVE  /\ Len(Ordered(fs)) = Len(fs)
         /\ \A i \in 1..Len(fs) : \E j \in 1..Len(fs) : Ordered(fs)[i] = fs[j]
         /\ \A j \in 1..Len(fs) : \E i \in 1..Len(fs) : Ordered(fs)[i] = fs[j]
<1> DEFINE n == Len(fs)
           orders == Bijection(1..n, 1..n)
           order == CHOOSE p \in orders : Sorts(p, fs) \/ \A q \in orders : ~Sorts(q, fs)
<1>1. [i \in 1..n |-> i] \in orders
  BY DEF Bijection, Injection, Surjection, IsInjective
<1>2. \E p \in orders : Sorts(p, fs) \/ \A q \in orders : ~Sorts(q, fs)
  <2> HIDE DEF orders
  <2> QED  BY <1>1, Zenon
<1>3. order \in orders
  <2> HIDE DEF orders
  <2> QED  BY <1>2, Zenon
<1>4. order \in [1..n -> 1..n] /\ \A j \in 1..n : \E i \in 1..n : order[i] = j
  BY <1>3 DEF Bijection, Injection, Surjection, IsInjective
<1>5. Ordered(fs) = [i \in 1..n |-> fs[order[i]]]
  BY Zenon DEF Ordered
<1>6. n \in Nat
  OBVIOUS
<1> HIDE DEF order
<1>7. Len([i \in 1..n |-> fs[order[i]]]) = n
  BY <1>6
<1> HIDE DEF n
<1>8. \A i \in 1..n : order[i] \in 1..n /\ Ordered(fs)[i] = fs[order[i]]
  BY <1>4, <1>5
<1>9. \A j \in 1..n : \E i \in 1..n : Ordered(fs)[i] = fs[j]
  <2> TAKE j \in 1..n
  <2>1. PICK i \in 1..n : order[i] = j
    BY <1>4
  <2> QED  BY <1>8, <2>1
<1> QED  BY <1>5, <1>7, <1>8, <1>9, Zenon DEF n

\* The entries of what is packed.
LEMMA PackedFiles ==
  ASSUME NEW S, NEW fs \in Seq(S)
  PROVE  /\ Len(PackedEntries(fs)) = Len(fs)
         /\ \A i \in 1..Len(fs) :
              /\ PackedEntries(fs)[i].path = Ordered(fs)[i].path
              /\ PackedEntries(fs)[i].executable = Ordered(fs)[i].executable
              /\ PackedEntries(fs)[i].digest = file_digest(Ordered(fs)[i].bytes)
<1>1. Len(Ordered(fs)) = Len(fs) /\ Len(fs) \in Nat
  BY OrderedFiles
<1> DEFINE s == Ordered(fs)
           k(i) == IF IsText(s[i].bytes) THEN "TextUtf8" ELSE "Binary"
           o(i) == Len(FlattenSeq([m \in 1..(i - 1) |-> s[m].bytes]))
           f == [i \in 1..Len(s) |->
                  [path |-> s[i].path, defect |-> Passed, executable |-> s[i].executable, kind |-> k(i),
                   offset |-> o(i), size |-> Len(s[i].bytes), digest |-> file_digest(s[i].bytes)]]
<1>2. PackedEntries(fs) = f
  BY Zenon DEF PackedEntries
<1> HIDE DEF s, k, o
<1>3. \A i \in 1..Len(s) : f[i].path = s[i].path /\ f[i].executable = s[i].executable
                           /\ f[i].digest = file_digest(s[i].bytes)
  OBVIOUS
<1>4. Len(s) \in Nat => Len(f) = Len(s)
  OBVIOUS
<1> QED  BY <1>1, <1>2, <1>3, <1>4 DEF s


-----------------------------------------------------------------------------
(* What a signature stands for.                                            *)

\* In S, the signer of sig has signed the files of every capsule that sig is
\* over and whose payload verifies.
Vouches(S, sig) ==
  \A c :
    /\ sig.message = signature_message(capsule_digest(c.header, c.manifest, c.stored))
    /\ PayloadStage(c) = Passed
    => \E m \in S : m.key = sig.by /\ Triples(m.files) = Triples(VerifiedFiles(c))

\* Digests and signature messages are those of one capsule only.
LEMMA OneCapsule ==
  ASSUME NEW h, NEW m, NEW s, NEW g, NEW n, NEW t,
         signature_message(capsule_digest(h, m, s)) = signature_message(capsule_digest(g, n, t))
  PROVE  h = g /\ m = n /\ s = t
<1>1. <<"signature", <<"capsule", h, m, s>>>> = <<"signature", <<"capsule", g, n, t>>>>
  BY Zenon DEF signature_message, capsule_digest
<1>2. <<"capsule", h, m, s>> = <<"capsule", g, n, t>>
  BY <1>1
<1> QED  BY <1>2

\* A capsule with the files of another has its stages.
LEMMA SameStages ==
  ASSUME NEW c, NEW d, c.header = d.header, c.manifest = d.manifest, c.stored = d.stored
  PROVE  PayloadStage(c) = PayloadStage(d) /\ VerifiedFiles(c) = VerifiedFiles(d)
BY DEF PayloadStage, VerifiedFiles

\* What pack signs are the files that were read.
LEMMA PackedVouched ==
  ASSUME NEW S, NEW fs \in Seq(S), NEW o, NEW zsize, NEW key, NEW T,
         [key |-> key, files |-> fs] \in T,
         NEW c, c = sign_capsule(Packed(fs, o, zsize), key)
  PROVE  Vouches(T, c.signature) /\ Len(c.manifest.files) \in Nat
<1> DEFINE u == Packed(fs, o, zsize)
           h == [defect |-> Passed, compression |-> u.compression,
                 manifest_size |-> ManifestSize(u.manifest), compressed_payload_size |-> u.stored.size,
                 uncompressed_payload_size |-> u.size, file_count |-> Len(u.manifest.files),
                 publisher_key_id |-> key_id(key)]
           r == [header |-> h, manifest |-> u.manifest, stored |-> u.stored, digest |-> <<>>,
                 signature |-> <<>>, trailing |-> 0]
<1>1. c = Seal(r, key)
  BY Zenon DEF sign_capsule
<1>2. u.manifest.files = PackedEntries(fs)
  <2> DEFINE x == PackedEntries(fs)
             y == Encoded(Payload(fs), o.compression, <<>>, zsize)
             z == Len(Payload(fs))
  <2>1. u = [manifest |-> [defect |-> Passed, name |-> o.name, description |-> o.description,
                           producer |-> o.producer, version |-> o.version, files |-> x, trailing |-> 0],
             stored |-> y, size |-> z, compression |-> o.compression]
    BY Zenon DEF Packed
  <2> HIDE DEF u, x, y, z
  <2>2. u.manifest.files = x
    BY <2>1
  <2> QED  BY <2>2 DEF x
<1> HIDE DEF u, h
<1>3. /\ c.manifest = u.manifest
      /\ c.signature = [by |-> key, message |-> signature_message(capsule_digest(h, u.manifest, u.stored))]
  <2> DEFINE d == capsule_digest(r.header, r.manifest, r.stored)
             g == Sign(key, signature_message(d))
  <2>1. c = [r EXCEPT !.digest = d, !.signature = g]
    BY <1>1, Zenon DEF Seal
  <2>2. d = capsule_digest(h, u.manifest, u.stored)
    OBVIOUS
  <2> HIDE DEF d, g
  <2>3. c.manifest = u.manifest /\ c.signature = g
    BY <2>1
  <2> QED  BY <2>2, <2>3 DEF g, Sign
<1>4. Len(c.manifest.files) = Len(fs) /\ Len(fs) \in Nat
  BY <1>2, <1>3, PackedFiles
<1>5. ASSUME NEW d,
             c.signature.message = signature_message(capsule_digest(d.header, d.manifest, d.stored)),
             PayloadStage(d) = Passed
      PROVE  Triples(VerifiedFiles(d)) = Triples(fs)
  <2>0. c.signature.message = signature_message(capsule_digest(h, u.manifest, u.stored))
    BY <1>3
  <2>11. signature_message(capsule_digest(d.header, d.manifest, d.stored))
           = signature_message(capsule_digest(h, u.manifest, u.stored))
    BY <1>5, <2>0, Zenon
  <2>1. d.manifest = u.manifest
    <3> DEFINE x == d.header
               y == d.manifest
               z == d.stored
               m == u.manifest
               s == u.stored
    <3>1. signature_message(capsule_digest(x, y, z)) = signature_message(capsule_digest(h, m, s))
      BY <2>11
    <3> HIDE DEF x, y, z, m, s
    <3>2. y = m
      BY <3>1, OneCapsule
    <3> QED  BY <3>2 DEF y, m
  <2>2. d.manifest.files = PackedEntries(fs) /\ Len(d.manifest.files) = Len(fs)
    BY <1>2, <2>1, PackedFiles
  <2> DEFINE n == Len(fs)
             v == VerifiedFiles(d)
             s == Ordered(fs)
             e == PackedEntries(fs)
  <2>3. \A i \in 1..n : /\ v[i].path = e[i].path /\ v[i].executable = e[i].executable
                        /\ e[i].digest = file_digest(v[i].bytes)
    BY <1>4, <1>5, <2>2, PayloadHolds
  <2>4. \A i \in 1..n : /\ e[i].path = s[i].path /\ e[i].executable = s[i].executable
                        /\ e[i].digest = file_digest(s[i].bytes)
    BY PackedFiles
  <2>5. \A x, y : file_digest(x) = file_digest(y) => x = y
    BY DEF file_digest
  <2>6. Len(v) = n
    BY <1>4, <2>2 DEF VerifiedFiles
  <2>10. /\ \A i \in 1..n : \E j \in 1..n : s[i] = fs[j]
         /\ \A j \in 1..n : \E i \in 1..n : s[i] = fs[j]
    BY OrderedFiles
  <2> HIDE DEF n, v, s, e
  <2>7. \A i \in 1..n : v[i].path = s[i].path /\ v[i].bytes = s[i].bytes /\ v[i].executable = s[i].executable
    <3> TAKE i \in 1..n
    <3>1. file_digest(v[i].bytes) = file_digest(s[i].bytes)
      BY <2>3, <2>4, Zenon
    <3>2. v[i].bytes = s[i].bytes
      BY <2>5, <3>1, Zenon
    <3> QED  BY <2>3, <2>4, <3>2
  <2>8. Triples(v) = {<<s[i].path, s[i].bytes, s[i].executable>> : i \in 1..n}
    BY <2>6, <2>7 DEF Triples
  <2>9. {<<s[i].path, s[i].bytes, s[i].executable>> : i \in 1..n} = Triples(fs)
    BY <2>10 DEF Triples, n
  <2> QED  BY <2>8, <2>9 DEF v
<1>6. [key |-> key, files |-> fs].key = c.signature.by /\ [key |-> key, files |-> fs].files = fs
  BY <1>3
<1>7. Vouches(T, c.signature)
  BY <1>5, <1>6, Zenon DEF Vouches
<1> QED  BY <1>4, <1>7

\* What another signer signs is the capsule itself.
LEMMA OtherVouched ==
  ASSUME NEW c, SignedByOther(c), NEW T,
         PayloadStage(c) = Passed => [key |-> c.signature.by, files |-> VerifiedFiles(c)] \in T
  PROVE  Vouches(T, c.signature)
<1>1. c.signature.message = signature_message(capsule_digest(c.header, c.manifest, c.stored))
  BY DEF SignedByOther, Sign
<1>2. ASSUME NEW d,
             c.signature.message = signature_message(capsule_digest(d.header, d.manifest, d.stored)),
             PayloadStage(d) = Passed
      PROVE  \E m \in T : m.key = c.signature.by /\ Triples(m.files) = Triples(VerifiedFiles(d))
  <2>1. c.header = d.header /\ c.manifest = d.manifest /\ c.stored = d.stored
    <3>1. signature_message(capsule_digest(c.header, c.manifest, c.stored))
            = signature_message(capsule_digest(d.header, d.manifest, d.stored))
      BY <1>1, <1>2, Zenon
    <3> DEFINE x == c.header
               y == c.manifest
               z == c.stored
               h == d.header
               m == d.manifest
               s == d.stored
    <3>2. signature_message(capsule_digest(x, y, z)) = signature_message(capsule_digest(h, m, s))
      BY <3>1
    <3> HIDE DEF x, y, z, h, m, s
    <3>3. x = h /\ y = m /\ z = s
      BY <3>2, OneCapsule
    <3> QED  BY <3>3 DEF x, y, z, h, m, s
  <2>2. PayloadStage(c) = Passed /\ VerifiedFiles(c) = VerifiedFiles(d)
    BY <1>2, <2>1, SameStages
  <2> DEFINE k == c.signature.by
             f == VerifiedFiles(c)
             m == [key |-> k, files |-> f]
  <2>3. m \in T
    BY <2>2
  <2>5. f = VerifiedFiles(d)
    BY <2>2
  <2> HIDE DEF f, k
  <2>4. m.key = k /\ m.files = f
    OBVIOUS
  <2> HIDE DEF m
  <2>6. m.key = k /\ Triples(m.files) = Triples(VerifiedFiles(d))
    BY <2>4, <2>5, Zenon
  <2> QED  BY <2>3, <2>6, Zenon DEF k
<1> QED  BY <1>2, Zenon DEF Vouches


-----------------------------------------------------------------------------
(* What the publisher's files hold.                                        *)

\* The files a consumer may name as trusted.
DocNames == {"public", "status", "status2"}

\* What may lie under a name, when S has been signed.
Sound(S, n, x) ==
  /\ n \in DocNames => x \in PublicDocuments
  /\ n = "capsule" =>
       /\ x = [form |-> x.form, capsule |-> x.capsule, defect |-> x.defect]
       /\ Len(x.capsule.manifest.files) \in Nat
       /\ Vouches(S, x.capsule.signature)

Present(n) == files[n] \notin {Absent, Foreign}
FilesSound ==
  \A n \in Names : Present(n) =>
    /\ files[n] = [state |-> files[n].state, content |-> files[n].content]
    /\ Sound(made, n, files[n].content)

\* What is about to be written, and what is being written.
TodoSound == pub.pc \in Writing => \A k \in 1..Len(pub.todo) : Sound(made, pub.todo[k].name, pub.todo[k].content)
FillSound ==
  pub.pc = "fill" => files[Head(pub.todo).name] = [state |-> "torn", content |-> Head(pub.todo).content]

\* What the walk has read.
ReadFiles ==
  {[path |-> SourcePaths[i], bytes |-> f.bytes, executable |-> f.executable] : i \in 1..N, f \in SourceFiles}
ReadSound ==
  /\ tree \in [1..N -> SourceFiles]
  /\ pub.pc = "walk" => pub.idx \in Nat \ {0} /\ pub.read \in Seq(ReadFiles)

PublishInv == KeyInv /\ FilesSound /\ TodoSound /\ FillSound /\ ReadSound

\* A document that is there stays as it is.
DocsKept == \A n \in DocNames : Present(n) => Present(n)' /\ files'[n].content = files[n].content

\* More signatures vouch for no less.
LEMMA SoundMore ==
  ASSUME NEW S, NEW T, S \subseteq T, NEW n, NEW x, Sound(S, n, x)
  PROVE  Sound(T, n, x)
<1>1. ASSUME NEW sig, Vouches(S, sig)
      PROVE  Vouches(T, sig)
  BY <1>1, Zenon DEF Vouches
<1> QED  BY <1>1, Zenon DEF Sound

\* The file n stays, or goes, or is written with something sound.
Rewritten(n) ==
  \/ files'[n] = files[n]
  \/ files'[n] \in {Absent, Foreign}
  \/ \E s, x : files'[n] = [state |-> s, content |-> x] /\ Sound(made', n, x)

LEMMA RewrittenSound ==
  ASSUME FilesSound, made \subseteq made', \A n \in Names : Rewritten(n)
  PROVE  FilesSound'
<1> SUFFICES ASSUME NEW n \in Names, Present(n)'
             PROVE  /\ files'[n] = [state |-> files'[n].state, content |-> files'[n].content]
                    /\ Sound(made', n, files'[n].content)
  BY DEF FilesSound
<1>1. CASE files'[n] = files[n]
  <2>1. /\ files[n] = [state |-> files[n].state, content |-> files[n].content]
        /\ Sound(made, n, files[n].content)
    BY <1>1 DEF Present, FilesSound
  <2>2. Sound(made', n, files[n].content)
    BY <2>1, SoundMore
  <2> QED  BY <1>1, <2>1, <2>2
<1>2. CASE \E s, x : files'[n] = [state |-> s, content |-> x] /\ Sound(made', n, x)
  <2>1. PICK s, x : files'[n] = [state |-> s, content |-> x] /\ Sound(made', n, x)
    BY <1>2
  <2>2. files'[n].state = s /\ files'[n].content = x
    BY <2>1
  <2> QED  BY <2>1, <2>2
<1> QED  BY <1>1, <1>2 DEF Rewritten, Present

\* Steps that leave the files and write nothing.
LEMMA PublishKept ==
  ASSUME PublishInv, KeyInv', UNCHANGED files, made \subseteq made', pub'.pc \notin Writing, ReadSound'
  PROVE  PublishInv' /\ DocsKept
<1>1. FilesSound'
  BY RewrittenSound DEF Rewritten, PublishInv
<1>2. TodoSound' /\ FillSound'
  BY DEF TodoSound, FillSound, Writing
<1>3. DocsKept
  BY DEF DocsKept, Present
<1> QED  BY <1>1, <1>2, <1>3 DEF PublishInv

\* Steps that begin to write.
LEMMA PublishBegin ==
  ASSUME PublishInv, KeyInv', UNCHANGED <<files, tree>>, made \subseteq made', pub'.pc = "create",
         \A k \in 1..Len(pub'.todo) : Sound(made', pub'.todo[k].name, pub'.todo[k].content)
  PROVE  PublishInv' /\ DocsKept
<1>1. FilesSound'
  BY RewrittenSound DEF Rewritten, PublishInv
<1>2. TodoSound' /\ FillSound' /\ ReadSound'
  BY DEF TodoSound, FillSound, ReadSound, PublishInv
<1>3. DocsKept
  BY DEF DocsKept, Present
<1> QED  BY <1>1, <1>2, <1>3 DEF PublishInv

\* The file that is written next.
LEMMA NextWrite ==
  ASSUME KeyInv, pub.pc \in Writing
  PROVE  \E w : /\ w.name \in Names /\ w.undo \subseteq {"private"}
                /\ pub.todo = <<w>> \/ \E v : pub.todo = <<w, v>>
<1>1. CASE GeneratingPrivate
  <2>1. PICK key \in Keys, pass \in Long, channel \in Channels :
          pub.todo = <<WritePrivate(key, pass), WritePublic(key, channel)>>
    BY <1>1 DEF GeneratingPrivate
  <2>2. WritePrivate(key, pass).name = "private" /\ WritePrivate(key, pass).undo = {}
    BY DEF WritePrivate
  <2>3. WritePrivate(key, pass).name \in Names /\ WritePrivate(key, pass).undo \subseteq {"private"}
    BY <2>2 DEF Names
  <2> QED  BY <2>1, <2>3, Zenon
<1>2. CASE GeneratingPublic
  <2>1. PICK key \in Keys, channel \in Channels : pub.todo = <<WritePublic(key, channel)>>
    BY <1>2 DEF GeneratingPublic
  <2>2. WritePublic(key, channel).name = "public" /\ WritePublic(key, channel).undo = {"private"}
    BY DEF WritePublic
  <2>3. WritePublic(key, channel).name \in Names /\ WritePublic(key, channel).undo \subseteq {"private"}
    BY <2>2 DEF Names
  <2> QED  BY <2>1, <2>3, Zenon
<1>3. CASE WritingOther
  <2>0. PICK n \in Names \ {"private", "public"} : \E c : pub.todo = <<[name |-> n, content |-> c, undo |-> {}]>>
    BY <1>3 DEF WritingOther
  <2>1. PICK c : pub.todo = <<[name |-> n, content |-> c, undo |-> {}]>>
    BY <2>0
  <2> DEFINE w == [name |-> n, content |-> c, undo |-> {}]
  <2>2. w.name \in Names /\ w.undo \subseteq {"private"}
    OBVIOUS
  <2> HIDE DEF w
  <2> QED  BY <2>1, <2>2, Zenon DEF w
<1> QED  BY <1>1, <1>2, <1>3, Zenon DEF KeyInv


LEMMA FirstOfTodo ==
  ASSUME NEW t, NEW w, t = <<w>> \/ \E v : t = <<w, v>>
  PROVE  Head(t) = w /\ 1 \in 1..Len(t) /\ t[1] = w
<1>1. CASE t = <<w>>
  BY <1>1
<1>2. CASE \E v : t = <<w, v>>
  <2>1. PICK v : t = <<w, v>>
    BY <1>2
  <2> QED  BY <2>1
<1> QED  BY <1>1, <1>2

\* A document that is being written is neither absent nor foreign.
LEMMA WrittenPresent ==
  ASSUME NEW x \in PublicDocuments, NEW s \in {"torn", "unsynced", "whole"}
  PROVE  [state |-> s, content |-> x] \notin {Absent, Foreign}
<1>1. x \in KeyDocuments
  BY DEF KeyDocuments
<1> QED  BY <1>1, CapsuleCommandsAssumption

\* Create.
LEMMA CreateSound ==
  ASSUME PublishInv, Create
  PROVE  PublishInv' /\ DocsKept /\ UNCHANGED <<con, made>>
<1>0. /\ KeyInv /\ FilesSound /\ TodoSound /\ ReadSound /\ pub.pc = "create" /\ UNCHANGED <<tree, con, made>>
      /\ PubRecord /\ files = [n \in Names |-> files[n]]
  BY DEF PublishInv, Create, KeyInv
<1>1. KeyInv'
  BY <1>0, CreateKeys
<1>2. PICK w : /\ w.name \in Names /\ w.undo \subseteq {"private"}
               /\ pub.todo = <<w>> \/ \E v : pub.todo = <<w, v>>
  BY <1>0, NextWrite DEF Writing
<1>3. Head(pub.todo) = w /\ 1 \in 1..Len(pub.todo) /\ pub.todo[1] = w
  BY <1>2, FirstOfTodo
<1>4. Sound(made, w.name, w.content)
  BY <1>0, <1>3 DEF TodoSound, Writing
<1>5. CASE files[w.name] # Absent
  <2>1. files' = [n \in Names |-> IF n \in w.undo THEN Absent ELSE files[n]]
    BY <1>3, <1>5 DEF Create, Undone
  <2>5. \E e : PubFail(e)
    BY <1>3, <1>5, Zenon DEF Create
  <2>2. pub'.pc = "failed"
    BY <2>5 DEF PubFail, NoCommand
  <2>3. FilesSound'
    BY <1>0, <2>1, RewrittenSound DEF Rewritten
  <2>4. DocsKept
    BY <1>2, <2>1 DEF DocsKept, Present, DocNames, Names
  <2> QED  BY <1>0, <1>1, <2>2, <2>3, <2>4 DEF PublishInv, TodoSound, FillSound, ReadSound, Writing
<1>6. CASE files[w.name] = Absent
  <2>1. /\ files' = [files EXCEPT ![w.name] = [state |-> "torn", content |-> w.content]]
        /\ pub' = [pub EXCEPT !.pc = "fill"]
    BY <1>3, <1>6 DEF Create
  <2>2. pub'.pc = "fill" /\ pub'.todo = pub.todo
    BY <1>0, <2>1 DEF PubRecord
  <2>3. /\ files'[w.name] = [state |-> "torn", content |-> w.content]
        /\ \A n \in Names \ {w.name} : files'[n] = files[n]
    BY <1>0, <1>2, <2>1
  <2>4. \A n \in Names : Rewritten(n)
    <3> TAKE n \in Names
    <3>1. CASE n = w.name
      BY <1>0, <1>4, <2>3, <3>1, Zenon DEF Rewritten
    <3>2. CASE n # w.name
      BY <2>3, <3>2 DEF Rewritten
    <3> QED  BY <3>1, <3>2
  <2>5. FilesSound'
    BY <1>0, <2>4, RewrittenSound
  <2>6. DocsKept
    <3> SUFFICES ASSUME NEW n \in DocNames, Present(n)
                 PROVE  Present(n)' /\ files'[n].content = files[n].content
      BY DEF DocsKept
    <3>1. n \in Names /\ n # w.name
      BY <1>6 DEF Present, DocNames, Names
    <3>2. files'[n] = files[n]
      BY <2>3, <3>1
    <3> QED  BY <3>2 DEF Present
  <2>7. TodoSound'
    BY <1>0, <2>2 DEF TodoSound, Writing
  <2>8. FillSound'
    BY <1>3, <2>2, <2>3 DEF FillSound
  <2>9. ReadSound'
    BY <1>0, <2>2 DEF ReadSound
  <2> QED  BY <1>0, <1>1, <2>5, <2>6, <2>7, <2>8, <2>9 DEF PublishInv
<1> QED  BY <1>5, <1>6

\* The file that is filled keeps its content.
LEMMA FilledSound ==
  ASSUME PublishInv, pub.pc = "fill", UNCHANGED <<tree, made>>, NEW s \in {"torn", "unsynced", "whole"},
         NEW undo, undo \subseteq {"private"},
         files' = Undone([files EXCEPT ![Head(pub.todo).name].state = s], undo)
  PROVE  FilesSound' /\ DocsKept
<1>0. /\ KeyInv /\ FilesSound /\ TodoSound /\ FillSound /\ files = [n \in Names |-> files[n]]
  BY DEF PublishInv, KeyInv
<1>2. PICK w : /\ w.name \in Names
               /\ pub.todo = <<w>> \/ \E v : pub.todo = <<w, v>>
  BY <1>0, NextWrite DEF Writing
<1>3. Head(pub.todo) = w /\ 1 \in 1..Len(pub.todo) /\ pub.todo[1] = w
  BY <1>2, FirstOfTodo
<1>4. Sound(made, w.name, w.content)
  BY <1>0, <1>3 DEF TodoSound, Writing
<1>5. files[w.name] = [state |-> "torn", content |-> w.content]
  BY <1>0, <1>3 DEF FillSound
<1> DEFINE fs == [files EXCEPT ![w.name].state = s]
<1>6. fs = [files EXCEPT ![w.name] = [files[w.name] EXCEPT !.state = s]]
  BY Zenon
<1>7. [files[w.name] EXCEPT !.state = s] = [state |-> s, content |-> w.content]
  BY <1>5
<1>8. /\ fs[w.name] = [state |-> s, content |-> w.content]
      /\ \A n \in Names \ {w.name} : fs[n] = files[n]
  <2> HIDE DEF fs
  <2> QED  BY <1>0, <1>2, <1>6, <1>7
<1>9. files' = Undone(fs, undo)
  BY <1>3
<1> HIDE DEF fs
<1>10. files' = [n \in Names |-> IF n \in undo THEN Absent ELSE fs[n]]
  BY <1>9, Zenon DEF Undone
<1>11. \A n \in Names : Rewritten(n)
  <2> TAKE n \in Names
  <2>1. CASE n \in undo
    BY <1>10, <2>1 DEF Rewritten
  <2>2. CASE n \notin undo /\ n # w.name
    BY <1>8, <1>10, <2>2 DEF Rewritten
  <2>3. CASE n \notin undo /\ n = w.name
    <3>1. files'[n] = [state |-> s, content |-> w.content]
      BY <1>8, <1>10, <2>3
    <3> QED  BY <1>4, <2>3, <3>1, Zenon DEF Rewritten
  <2> QED  BY <2>1, <2>2, <2>3
<1>12. FilesSound'
  BY <1>0, <1>11, RewrittenSound
<1>13. DocsKept
  <2> SUFFICES ASSUME NEW n \in DocNames, Present(n)
               PROVE  Present(n)' /\ files'[n].content = files[n].content
    BY DEF DocsKept
  <2>1. n \in Names /\ n \notin undo
    BY DEF DocNames, Names
  <2>2. files'[n] = fs[n]
    BY <1>10, <2>1
  <2>3. CASE n # w.name
    BY <1>8, <2>1, <2>2, <2>3 DEF Present
  <2>4. CASE n = w.name
    <3>1. w.content \in PublicDocuments
      BY <1>4, <2>4 DEF Sound
    <3>2. files'[n] = [state |-> s, content |-> w.content] /\ files[n] = [state |-> "torn", content |-> w.content]
      BY <1>5, <1>8, <2>2, <2>4
    <3>3. Present(n)'
      BY <3>1, <3>2, WrittenPresent DEF Present
    <3> QED  BY <3>2, <3>3
  <2> QED  BY <2>3, <2>4
<1> QED  BY <1>12, <1>13

\* Fill and FillFails.
LEMMA FillsSound ==
  ASSUME PublishInv, Fill \/ FillFails
  PROVE  PublishInv' /\ DocsKept /\ UNCHANGED <<con, made>>
<1>0. /\ KeyInv /\ TodoSound /\ FillSound /\ ReadSound /\ pub.pc = "fill" /\ UNCHANGED <<tree, con, made>>
      /\ PubRecord /\ files = [n \in Names |-> files[n]]
  BY DEF PublishInv, Fill, FillFails, KeyInv
<1>1. KeyInv'
  BY <1>0, FillKeys, FillFailsKeys
<1>2. PICK w : /\ w.name \in Names /\ w.undo \subseteq {"private"}
               /\ pub.todo = <<w>> \/ \E v : pub.todo = <<w, v>>
  BY <1>0, NextWrite DEF Writing
<1>3. Head(pub.todo) = w
  BY <1>2, FirstOfTodo
<1>4. CASE FillFails
  <2>1. PICK s \in {"torn", "unsynced"} : files' = Undone([files EXCEPT ![w.name].state = s], w.undo)
    BY <1>3, <1>4 DEF FillFails
  <2>2. FilesSound' /\ DocsKept
    <3>1. s \in {"torn", "unsynced", "whole"}
      OBVIOUS
    <3> QED  BY <1>0, <1>2, <1>3, <2>1, <3>1, FilledSound
  <2>4. \E e : PubFail(e)
    BY <1>4, Zenon DEF FillFails
  <2>3. pub'.pc = "failed"
    BY <2>4 DEF PubFail, NoCommand
  <2> QED  BY <1>0, <1>1, <2>2, <2>3 DEF PublishInv, TodoSound, FillSound, ReadSound, Writing
<1>5. CASE Fill
  <2> DEFINE fs == [files EXCEPT ![Head(pub.todo).name].state = "whole"]
  <2>1. files' = fs
    BY <1>5 DEF Fill
  <2>2. fs = [n \in Names |-> fs[n]]
    BY <1>0
  <2>3. fs = Undone(fs, {})
    <3> HIDE DEF fs
    <3> QED  BY <2>2 DEF Undone
  <2>4. FilesSound' /\ DocsKept
    <3>1. files' = Undone(fs, {})
      BY <2>1, <2>3, Zenon
    <3> QED  BY <1>0, <3>1, FilledSound
  <2>5. \/ pub'.pc = "done"
        \/ pub'.pc = "create" /\ pub'.todo = Tail(pub.todo) /\ Len(pub.todo) # 1
    BY <1>0, <1>5 DEF Fill, PubRecord
  <2>6. TodoSound' /\ FillSound' /\ ReadSound'
    <3>1. CASE pub'.pc = "done"
      BY <1>0, <3>1 DEF TodoSound, FillSound, ReadSound, Writing
    <3>2. CASE pub'.pc = "create" /\ pub'.todo = Tail(pub.todo) /\ Len(pub.todo) # 1
      <4>1. PICK v : pub.todo = <<w, v>>
        BY <1>2, <3>2
      <4>2. pub'.todo = <<v>> /\ Len(pub'.todo) = 1 /\ pub'.todo[1] = v /\ Len(pub.todo) = 2 /\ pub.todo[2] = v
        BY <3>2, <4>1
      <4>3. Sound(made, v.name, v.content)
        BY <1>0, <4>2 DEF TodoSound, Writing
      <4>4. \A k \in 1..Len(pub'.todo) : Sound(made', pub'.todo[k].name, pub'.todo[k].content)
        BY <1>0, <4>2, <4>3
      <4> QED  BY <1>0, <3>2, <4>4 DEF TodoSound, FillSound, ReadSound
    <3> QED  BY <2>5, <3>1, <3>2
  <2> QED  BY <1>0, <1>1, <2>4, <2>6 DEF PublishInv
<1> QED  BY <1>4, <1>5


\* A refused command.
LEMMA RefusedSound ==
  ASSUME PublishInv, KeyInv', UNCHANGED <<files, tree, con, made>>,
         (\E k, e : Refused(k, e)) \/ \E e : PubFail(e)
  PROVE  PublishInv' /\ DocsKept
<1>1. \E k, e : pub' = [NoCommand EXCEPT !.pc = "failed", !.kind = k, !.res = e]
  BY Zenon DEF Refused, PubFail
<1>2. pub'.pc = "failed"
  BY <1>1 DEF NoCommand
<1>3. ReadSound' /\ pub'.pc \notin Writing
  BY <1>2 DEF PublishInv, ReadSound, Writing
<1> QED  BY <1>3, PublishKept

\* Generate.
LEMMA GenerateSound ==
  ASSUME PublishInv, NEW key \in Keys, NEW channel \in Channels, NEW pass \in Passphrases,
         Generate(key, channel, pass)
  PROVE  PublishInv' /\ DocsKept /\ UNCHANGED <<con, made>>
<1>0. UNCHANGED <<files, tree, con, made>> /\ KeyInv /\ KeyInv'
  BY GenerateKeys DEF Generate, PublishInv
<1>1. CASE \E e : Refused("generate", e)
  BY <1>0, <1>1, RefusedSound, Zenon
<1>2. CASE ~\E e : Refused("generate", e)
  <2>1. Begin("generate", <<WritePrivate(key, pass), WritePublic(key, channel)>>)
    BY <1>2, Zenon DEF Generate, WritePrivate, WritePublic
  <2>2. pub'.pc = "create" /\ pub'.todo = <<WritePrivate(key, pass), WritePublic(key, channel)>>
    BY <2>1, NewCommand DEF Begin
  <2>3. /\ WritePrivate(key, pass).name = "private"
        /\ WritePublic(key, channel).name = "public"
        /\ WritePublic(key, channel).content = PublicDocument(<<1>>, key, channel, "Active")
    BY DEF WritePrivate, WritePublic
  <2>4. PublicDocument(<<1>>, key, channel, "Active") \in PublicDocuments
    BY DEF PublicDocuments, Statuses
  <2>5. \A S : Sound(S, WritePrivate(key, pass).name, WritePrivate(key, pass).content)
    BY <2>3 DEF Sound, DocNames
  <2>6. \A S : Sound(S, WritePublic(key, channel).name, WritePublic(key, channel).content)
    BY <2>3, <2>4 DEF Sound
  <2> DEFINE v == WritePrivate(key, pass)
             w == WritePublic(key, channel)
  <2>7. \A k \in 1..Len(pub'.todo) : Sound(made', pub'.todo[k].name, pub'.todo[k].content)
    <3> HIDE DEF v, w
    <3>1. pub'.todo = <<v, w>>
      BY <2>2 DEF v, w
    <3>2. Sound(made', v.name, v.content) /\ Sound(made', w.name, w.content)
      BY <2>5, <2>6 DEF v, w
    <3> QED  BY <3>1, <3>2
  <2> QED  BY <1>0, <2>2, <2>7, PublishBegin
<1> QED  BY <1>0, <1>1, <1>2

\* A command that writes one file.
LEMMA WriteOne ==
  ASSUME PublishInv, KeyInv', UNCHANGED <<files, tree, con>>, made \subseteq made',
         NEW w, Sound(made', w.name, w.content), pub'.pc = "create", pub'.todo = <<w>>
  PROVE  PublishInv' /\ DocsKept
<1>1. Len(pub'.todo) = 1 /\ pub'.todo[1] = w
  OBVIOUS
<1>2. \A k \in 1..Len(pub'.todo) : Sound(made', pub'.todo[k].name, pub'.todo[k].content)
  BY <1>1
<1> QED  BY <1>2, PublishBegin

\* Status: a public document with another status is one.
LEMMA StatusSound ==
  ASSUME PublishInv, NEW from \in {"public", "status"}, NEW to \in {"status", "status2"},
         NEW status \in {"Retired", "Revoked"}, Present(from), Status(from, to, status)
  PROVE  PublishInv' /\ DocsKept /\ UNCHANGED <<con, made>>
<1>0. UNCHANGED <<files, tree, con, made>> /\ KeyInv /\ FilesSound
  BY DEF Status, PublishInv
<1>1. KeyInv'
  BY <1>0, DocumentKeys
<1> DEFINE doc == files[from].content
           w == [name |-> to, content |-> [doc EXCEPT !.status = status], undo |-> {}]
<1>2. CASE \E k, e : Refused(k, e)
  BY <1>0, <1>1, <1>2, RefusedSound, Zenon
<1>3. CASE ~\E k, e : Refused(k, e)
  <2>1. Begin("status", <<w>>)
    BY <1>3, Zenon DEF Status
  <2>2. doc \in PublicDocuments
    <3>1. from \in Names /\ from \in DocNames
      BY DEF Names, DocNames
    <3> QED  BY <1>0, <3>1, Zenon DEF FilesSound, Sound
  <2> HIDE DEF doc
  <2>3. PICK key \in Keys, channel \in Channels, old \in Statuses : doc = PublicDocument(<<1>>, key, channel, old)
    BY <2>2 DEF PublicDocuments
  <2>4. [doc EXCEPT !.status = status] = PublicDocument(<<1>>, key, channel, status)
    BY <2>3 DEF PublicDocument
  <2>5. [doc EXCEPT !.status = status] \in PublicDocuments
    BY <2>4 DEF PublicDocuments, Statuses
  <2>6. w.name = to /\ w.content = [doc EXCEPT !.status = status]
    OBVIOUS
  <2> HIDE DEF w
  <2>7. Sound(made', w.name, w.content)
    BY <2>5, <2>6 DEF Sound
  <2>8. pub'.pc = "create" /\ pub'.todo = <<w>>
    BY <2>1, NewCommand DEF Begin
  <2> QED  BY <1>0, <1>1, <2>7, <2>8, WriteOne
<1> QED  BY <1>0, <1>2, <1>3

\* Rekey writes a file that nobody trusts.
LEMMA RekeySound ==
  ASSUME PublishInv, NEW pass, NEW newPass, Rekey(pass, newPass)
  PROVE  PublishInv' /\ DocsKept /\ UNCHANGED <<con, made>>
<1>0. UNCHANGED <<files, tree, con, made>> /\ KeyInv
  BY DEF Rekey, PublishInv
<1>1. KeyInv'
  BY <1>0, DocumentKeys
<1>2. CASE \E k, e : Refused(k, e)
  BY <1>0, <1>1, <1>2, RefusedSound, Zenon
<1>3. CASE ~\E k, e : Refused(k, e)
  <2>0. \E c : Begin("rekey", <<[name |-> "rekeyed", content |-> c, undo |-> {}]>>)
    BY <1>3, Zenon DEF Rekey
  <2>1. PICK c : Begin("rekey", <<[name |-> "rekeyed", content |-> c, undo |-> {}]>>)
    BY <2>0
  <2> DEFINE w == [name |-> "rekeyed", content |-> c, undo |-> {}]
  <2>2. w.name = "rekeyed"
    OBVIOUS
  <2>4. Begin("rekey", <<w>>)
    BY <2>1, Zenon
  <2> HIDE DEF w
  <2>3. Sound(made', w.name, w.content)
    BY <2>2 DEF Sound, DocNames
  <2>5. pub'.pc = "create" /\ pub'.todo = <<w>>
    BY <2>4, NewCommand DEF Begin
  <2> QED  BY <1>0, <1>1, <2>3, <2>5, WriteOne
<1> QED  BY <1>0, <1>2, <1>3

\* Pack and Walk read files of the tree.
LEMMA WalkSound ==
  ASSUME PublishInv, (\E o, pass : Pack(o, pass)) \/ Walk
  PROVE  PublishInv' /\ DocsKept /\ UNCHANGED <<con, made>>
<1>0. /\ UNCHANGED <<files, tree, con, made>> /\ KeyInv /\ PubRecord
      /\ ReadSound /\ tree \in [1..N -> SourceFiles]
  BY Zenon DEF Pack, Walk, PublishInv, KeyInv, ReadSound
<1>1. KeyInv'
  BY <1>0, PackKeys
<1>2. CASE \E e : PubFail(e)
  BY <1>0, <1>1, <1>2, RefusedSound, Zenon
<1>3. CASE \E o, pass : Pack(o, pass)
  <2>1. pub'.pc = "walk" /\ pub'.idx = 1 /\ pub'.read = <<>>
    BY <1>3 DEF Pack, NoCommand
  <2>2. ReadSound' /\ pub'.pc \notin Writing
    BY <1>0, <2>1 DEF ReadSound, Writing
  <2> QED  BY <1>0, <1>1, <2>2, PublishKept
<1>4. CASE Walk /\ ~\E e : PubFail(e)
  <2>1. pub.pc = "walk" /\ pub.idx \in 1..N /\ pub.read \in Seq(ReadFiles)
    <3>1. pub.pc = "walk" /\ pub.idx <= N
      BY <1>4, Zenon DEF Walk
    <3>2. N \in Nat
      BY CapsuleCommandsAssumption
    <3>3. pub.idx \in Nat \ {0} /\ pub.read \in Seq(ReadFiles)
      BY <1>0, <3>1, Zenon DEF ReadSound
    <3> QED  BY <3>1, <3>2, <3>3
  <2> DEFINE i == pub.idx
             f == tree[i]
             x == [path |-> SourcePaths[i], bytes |-> f.bytes, executable |-> f.executable]
  <2>2. \/ \E l : pub' = [pub EXCEPT !.listed = l]
        \/ pub' = [pub EXCEPT !.idx = @ + 1]
        \/ pub' = [pub EXCEPT !.idx = @ + 1, !.read = Append(@, x)]
    BY <1>4, Zenon DEF Walk
  <2>3. x \in ReadFiles
    BY <1>0, <2>1 DEF ReadFiles
  <2> HIDE DEF x
  <2>4. /\ pub'.pc = "walk" /\ pub'.idx \in {pub.idx, pub.idx + 1}
        /\ pub'.read = pub.read \/ pub'.read = Append(pub.read, x)
    BY <1>0, <2>1, <2>2 DEF PubRecord
  <2>5. pub'.read \in Seq(ReadFiles)
    BY <2>1, <2>3, <2>4
  <2>7. pub'.idx \in Nat \ {0}
    BY <2>1, <2>4, CapsuleCommandsAssumption
  <2>6. ReadSound' /\ pub'.pc \notin Writing
    BY <1>0, <2>4, <2>5, <2>7 DEF ReadSound, Writing
  <2> QED  BY <1>0, <1>1, <2>6, PublishKept
<1> QED  BY <1>0, <1>2, <1>3, <1>4


\* SignPacked: what is written was signed.
LEMMA SignSound ==
  ASSUME PublishInv, NEW zsize, SignPacked(zsize)
  PROVE  PublishInv' /\ DocsKept /\ made \subseteq made' /\ UNCHANGED con
<1>0. /\ UNCHANGED <<files, tree, con>> /\ KeyInv /\ PubRecord /\ ReadSound /\ pub.pc = "walk"
  BY Zenon DEF SignPacked, PublishInv, KeyInv
<1>1. KeyInv'
  BY <1>0, PackKeys
<1> DEFINE key == files["private"].content.box.seed
           m == [key |-> key, files |-> pub.read]
           c == sign_capsule(Packed(pub.read, pub.o, zsize), key)
           x == IF pub.o.format = "token" THEN encode_token(c)
                ELSE [form |-> "binary", capsule |-> c, defect |-> Passed]
           w == [name |-> "capsule", undo |-> {}, content |-> x]
<1>2. \/ UNCHANGED made /\ \E e : PubFail(e)
      \/ made' = made \cup {m} /\ \E e : PubFail(e)
      \/ made' = made \cup {m} /\ pub' = [pub EXCEPT !.pc = "create", !.capsule = c, !.todo = <<w>>]
  BY Zenon DEF SignPacked
<1> HIDE DEF key
<1>3. CASE \E e : PubFail(e)
  <2>0. \E e : pub' = [NoCommand EXCEPT !.pc = "failed", !.kind = pub.kind, !.res = e]
    BY <1>3, Zenon DEF PubFail
  <2>1. pub'.pc = "failed"
    BY <2>0 DEF NoCommand
  <2>3. pub'.pc \notin Writing
    BY <2>1 DEF Writing
  <2>4. ReadSound'
    BY <1>0, <2>1 DEF ReadSound
  <2>2. made \subseteq made'
    <3> HIDE DEF m, c, w
    <3> QED  BY <1>2
  <2> QED  BY <1>0, <1>1, <2>2, <2>3, <2>4, PublishKept
<1>4. CASE ~\E e : PubFail(e)
  <2>1. made' = made \cup {m} /\ pub' = [pub EXCEPT !.pc = "create", !.capsule = c, !.todo = <<w>>]
    BY <1>2, <1>4, Zenon
  <2>2. pub.read \in Seq(ReadFiles)
    BY <1>0 DEF ReadSound
  <2>3. m \in made' /\ made \subseteq made'
    <3> HIDE DEF m
    <3> QED  BY <2>1
  <2>4. Vouches(made', c.signature) /\ Len(c.manifest.files) \in Nat
    <3>1. c = sign_capsule(Packed(pub.read, pub.o, zsize), key)
      OBVIOUS
    <3> HIDE DEF c
    <3> QED  BY <2>2, <2>3, <3>1, PackedVouched
  <2> HIDE DEF c
  <2>5. x = [form |-> x.form, capsule |-> x.capsule, defect |-> x.defect] /\ x.capsule = c
    <3>1. CASE pub.o.format = "token"
      BY <3>1 DEF encode_token
    <3>2. CASE pub.o.format # "token"
      BY <3>2
    <3> QED  BY <3>1, <3>2
  <2> HIDE DEF x
  <2>6. w.name = "capsule" /\ w.content = x
    OBVIOUS
  <2> HIDE DEF w, m
  <2>7. pub'.pc = "create" /\ pub'.todo = <<w>>
    BY <1>0, <2>1 DEF PubRecord
  <2>8. Sound(made', w.name, w.content)
    BY <2>4, <2>5, <2>6 DEF Sound, DocNames
  <2> QED  BY <1>0, <1>1, <2>3, <2>7, <2>8, WriteOne
<1> QED  BY <1>3, <1>4

\* The capsule that another signer puts in the place of the publisher's.
LEMMA ForgeSound ==
  ASSUME PublishInv, Idle, Present("capsule"), NEW c, Forge(c)
  PROVE  PublishInv' /\ DocsKept /\ made \subseteq made' /\ UNCHANGED con
<1>0. /\ UNCHANGED <<tree, pub, con>> /\ KeyInv /\ FilesSound /\ ReadSound /\ files = [n \in Names |-> files[n]]
      /\ pub.pc \notin Writing
  BY DEF Forge, PublishInv, KeyInv, Idle, Writing
<1>1. KeyInv'
  <2>1. \E f : files' = [files EXCEPT !["capsule"] = f]
    BY Zenon DEF Forge
  <2>2. /\ files' = [n \in Names |-> files'[n]] /\ files'["private"] = files["private"]
        /\ files'["public"] = files["public"]
    BY <1>0, <2>1 DEF Names
  <2>3. PubRecord'
    BY <1>0 DEF KeyInv, PubRecord
  <2> QED  BY <1>0, <2>2, <2>3, KeysKept
<1> DEFINE f == files["capsule"]
           x == f.content
           m == [key |-> c.signature.by, files |-> VerifiedFiles(c)]
<1>2. /\ Len(c.manifest.files) \in Nat
      /\ SignedByOther(c) \/ c.signature = x.capsule.signature
      /\ made' = IF SignedByOther(c) /\ PayloadStage(c) = Passed THEN made \cup {m} ELSE made
      /\ files' = [files EXCEPT !["capsule"].content.capsule = c]
  BY Zenon DEF Forge
<1>3. made \subseteq made' /\ (SignedByOther(c) /\ PayloadStage(c) = Passed => m \in made')
  <2> HIDE DEF m
  <2> QED  BY <1>2
<1>4. /\ f = [state |-> f.state, content |-> x]
      /\ x = [form |-> x.form, capsule |-> x.capsule, defect |-> x.defect]
      /\ Vouches(made, x.capsule.signature)
  <2>1. "capsule" \in Names
    BY DEF Names
  <2> QED  BY <1>0, <2>1, Zenon DEF FilesSound, Sound
<1>5. Vouches(made', c.signature)
  <2>1. CASE SignedByOther(c)
    BY <1>3, <2>1, OtherVouched, Zenon
  <2>2. CASE c.signature = x.capsule.signature
    BY <1>3, <1>4, <2>2, Zenon DEF Vouches
  <2> QED  BY <1>2, <2>1, <2>2
<1> DEFINE y == [form |-> x.form, capsule |-> c, defect |-> x.defect]
           g == [state |-> f.state, content |-> y]
<1>6. files' = [files EXCEPT !["capsule"] = [f EXCEPT !.content = [x EXCEPT !.capsule = c]]]
  BY <1>2, Zenon
<1> HIDE DEF x
<1>7. [x EXCEPT !.capsule = c] = y
  BY <1>4
<1> HIDE DEF y, f
<1>8. [f EXCEPT !.content = y] = g
  BY <1>4
<1> HIDE DEF g
<1>9. files' = [files EXCEPT !["capsule"] = g]
  BY <1>6, <1>7, <1>8, Zenon
<1>10. files'["capsule"] = g /\ \A n \in Names \ {"capsule"} : files'[n] = files[n]
  BY <1>0, <1>9 DEF Names
<1>11. Sound(made', "capsule", y)
  <2>1. y = [form |-> y.form, capsule |-> y.capsule, defect |-> y.defect] /\ y.capsule = c
    BY DEF y
  <2> QED  BY <1>2, <1>5, <2>1 DEF Sound, DocNames
<1>12. \A n \in Names : Rewritten(n)
  <2> TAKE n \in Names
  <2>1. CASE n = "capsule"
    BY <1>10, <1>11, <2>1, Zenon DEF Rewritten, g
  <2>2. CASE n # "capsule"
    BY <1>10, <2>2 DEF Rewritten
  <2> QED  BY <2>1, <2>2
<1>13. FilesSound'
  BY <1>0, <1>3, <1>12, RewrittenSound
<1>14. DocsKept
  <2>1. \A n \in DocNames : n \in Names \ {"capsule"}
    BY DEF DocNames, Names
  <2> QED  BY <1>10, <2>1 DEF DocsKept, Present
<1>15. TodoSound' /\ FillSound' /\ ReadSound'
  BY <1>0 DEF TodoSound, FillSound, ReadSound, Writing
<1> QED  BY <1>0, <1>1, <1>3, <1>13, <1>14, <1>15 DEF PublishInv

\* The consumer, and the other programs.
LEMMA OthersSound ==
  ASSUME PublishInv, Receive \/ Others
  PROVE  PublishInv' /\ DocsKept /\ made \subseteq made'
<1>0. KeyInv /\ KeyInv'
  BY OtherKeys DEF PublishInv
<1>1. ASSUME UNCHANGED <<files, pub, made>>, tree' \in [1..N -> SourceFiles]
      PROVE  PublishInv' /\ DocsKept /\ made \subseteq made'
  <2>1. FilesSound' /\ TodoSound' /\ FillSound' /\ ReadSound' /\ DocsKept
    BY <1>1 DEF PublishInv, FilesSound, TodoSound, FillSound, ReadSound, DocsKept, Present
  <2> QED  BY <1>0, <1>1, <2>1 DEF PublishInv
<1>2. tree \in [1..N -> SourceFiles]
  BY DEF PublishInv, ReadSound
<1>3. CASE Receive
  <2>1. ASSUME NEW kind, NEW option, NEW trust, NEW channels, Consume(kind, option, trust, channels)
        PROVE  UNCHANGED <<files, pub, made, tree>>
    BY <2>1, Zenon DEF Consume
  <2>2. CASE Diff \/ Decline \/ Apply
    <3>1. UNCHANGED <<publisher, made, tree>>
      BY <2>2, Zenon DEF Diff, Decline, Apply, ApplyFiles
    <3> QED  BY <1>1, <1>2, <3>1 DEF publisher
  <2>3. CASE UNCHANGED <<files, pub, made, tree>>
    BY <1>1, <1>2, <2>3
  <2> QED  BY <1>3, <2>1, <2>2, <2>3, Zenon DEF Receive
<1>4. ASSUME NEW i \in 1..N, NEW f \in SourceFiles, WriteSource(i, f)
      PROVE  PublishInv' /\ DocsKept /\ made \subseteq made'
  BY <1>1, <1>2, <1>4 DEF WriteSource
<1>5. ASSUME NEW i, NEW f, WriteRoot(i, f)
      PROVE  PublishInv' /\ DocsKept /\ made \subseteq made'
  BY <1>1, <1>2, <1>5 DEF WriteRoot
<1>6. ASSUME NEW n \in {"public", "capsule"}, CreateForeign(n)
      PROVE  PublishInv' /\ DocsKept /\ made \subseteq made'
  <2>1. /\ UNCHANGED <<tree, pub, made>> /\ pub.pc # "fill" /\ files[n] = Absent
        /\ files' = [files EXCEPT ![n] = Foreign]
    BY <1>6 DEF CreateForeign
  <2>2. \A k \in Names : files'[k] = files[k] \/ (files[k] = Absent /\ files'[k] = Foreign)
    BY <1>0, <2>1 DEF KeyInv
  <2>3. FilesSound'
    BY <2>1, <2>2, RewrittenSound DEF Rewritten, PublishInv
  <2>4. DocsKept
    <3>1. DocNames \subseteq Names
      BY DEF DocNames, Names
    <3> QED  BY <2>2, <3>1 DEF DocsKept, Present
  <2>5. TodoSound' /\ FillSound' /\ ReadSound'
    BY <2>1 DEF PublishInv, TodoSound, FillSound, ReadSound
  <2> QED  BY <1>0, <2>1, <2>3, <2>4, <2>5 DEF PublishInv
<1>7. CASE Kill
  <2>1. UNCHANGED <<files, tree, made>> /\ pub'.pc = "crashed"
    BY <1>7 DEF Kill, NoCommand
  <2>2. ReadSound' /\ pub'.pc \notin Writing
    BY <1>2, <2>1 DEF ReadSound, Writing
  <2> QED  BY <1>0, <2>1, <2>2, PublishKept
<1>8. Complete("capsule") => Present("capsule")
  BY DEF Complete, Present
<1>9. CASE Others
  BY <1>4, <1>5, <1>6, <1>7, <1>8, <1>9, ForgeSound, Zenon DEF Others
<1> QED  BY <1>3, <1>9


\* Every step keeps the invariant, the documents and what was signed.
LEMMA PublishStep ==
  ASSUME PublishInv, [Next]_vars
  PROVE  PublishInv' /\ DocsKept /\ made \subseteq made' /\ (Receive \/ UNCHANGED con)
<1>1. CASE Publish
  <2>1. \A n \in Names : files[n] \notin {Absent, Foreign} <=> Present(n)
    BY DEF Present
  <2>2. {"public", "status"} \subseteq Names
    BY DEF Names
  <2>3. PublishInv' /\ DocsKept /\ made \subseteq made' /\ UNCHANGED con
    <3>1. CASE UNCHANGED <<con, made>> /\ PublishInv' /\ DocsKept
      BY <3>1
    <3> QED  BY <1>1, <2>1, <2>2, <3>1, GenerateSound, StatusSound, RekeySound, WalkSound, SignSound,
                CreateSound, FillsSound, Zenon DEF Publish
  <2> QED  BY <2>3
<1>2. CASE UNCHANGED vars
  <2>1. KeyInv'
    BY <1>2, KeyInvStep DEF PublishInv
  <2>2. FilesSound' /\ TodoSound' /\ FillSound' /\ ReadSound' /\ DocsKept
    BY <1>2 DEF vars, PublishInv, FilesSound, TodoSound, FillSound, ReadSound, DocsKept, Present
  <2> QED  BY <1>2, <2>1, <2>2 DEF PublishInv, vars
<1>3. CASE Receive \/ Others
  <2>1. Others => UNCHANGED con
    BY Zenon DEF Others, WriteSource, WriteRoot, CreateForeign, Forge, Kill
  <2> QED  BY <1>3, <2>1, OthersSound
<1> QED  BY <1>1, <1>2, <1>3 DEF Next

LEMMA PublishInit ==
  ASSUME Init
  PROVE  PublishInv
<1>1. PubRecord /\ pub.pc = "idle"
  BY DEF Init, NoCommand, PubRecord
<1>2. files = [n \in Names |-> files[n]] /\ \A n \in Names : ~Present(n)
  BY DEF Init, Present
<1>3. Published
  BY DEF Init, Published, Unpublished, Names
<1>4. KeyInv
  BY <1>1, <1>2, <1>3 DEF KeyInv, Writing
<1>5. ReadSound
  BY <1>1, CapsuleCommandsAssumption DEF Init, ReadSound
<1> QED  BY <1>1, <1>2, <1>4, <1>5 DEF PublishInv, FilesSound, TodoSound, FillSound, Writing


-----------------------------------------------------------------------------
(* What a command releases.                                                *)

\* The documents named in trust admit a key that signed the files of the capsule.
SignedFor(c, trust, channels) ==
  \E m \in made : Triples(m.files) = Triples(VerifiedFiles(c)) /\ Admitted(m.key, trust, channels)

\* A key whose signature a keyring accepts is admitted by its documents: the
\* keyring has no second document of the key (TrustedKeyring::new).
LEMMA KeyringAdmits ==
  ASSUME FilesSound, NEW trust \in Seq(DocNames), \A i \in 1..Len(trust) : Present(trust[i]),
         NEW channels, NEW keyring, keyring = trusted_keys(Documents(trust)), KeyringError(keyring) = Passed,
         NEW id, NEW digest, NEW signature,
         verify_signature(id, digest, signature, channels, keyring) = Passed
  PROVE  /\ Admitted(signature.by, trust, channels)
         /\ signature.message = signature_message(digest)
<1> DEFINE docs == Documents(trust)
           dev == PublicDocument(<<1>>, DevelopmentKey, "Development", "Active")
           n == Len(trust)
<1>1. n \in Nat /\ docs = [i \in 1..n |-> docs[i]] /\ \A i \in 1..n : docs[i] = files[trust[i]].content
  <2>1. n \in Nat
    OBVIOUS
  <2> QED  BY <2>1, Zenon DEF Documents
<1>2. \A i \in 1..n : docs[i] \in PublicDocuments
  <2> TAKE i \in 1..n
  <2>1. trust[i] \in DocNames /\ trust[i] \in Names
    BY DEF DocNames, Names
  <2>2. Sound(made, trust[i], files[trust[i]].content)
    BY <2>1 DEF FilesSound
  <2> QED  BY <1>1, <2>1, <2>2 DEF Sound
<1>3. keyring = <<dev>> \o docs
  BY Zenon DEF trusted_keys
<1> HIDE DEF docs, dev
<1>4. docs \in Seq({docs[i] : i \in 1..n}) /\ Len(docs) = n
  <2> HIDE DEF n
  <2> QED  BY <1>1, AsSequence
<1> DEFINE S == {docs[i] : i \in 1..n} \cup {dev}
<1>5. keyring \in Seq(S)
  <2> DEFINE T == {docs[i] : i \in 1..n}
  <2>1. docs \in Seq(T)
    BY <1>4
  <2> HIDE DEF T
  <2>2. <<dev>> \o docs \in Seq(T \cup {dev})
    BY <2>1, OneBefore
  <2> QED  BY <1>3, <2>2 DEF T
<1> HIDE DEF S
<1>6. /\ Len(keyring) = n + 1 /\ keyring[1] = dev
      /\ \A i \in 1..n : keyring[i + 1] = docs[i]
  <2> HIDE DEF n
  <2> QED  BY <1>3, <1>4, OneBefore
<1>7. PICK k \in 1..Len(keyring) :
           /\ keyring[k].key_id = id
           /\ keyring[k].status \notin {"Retired", "Revoked"}
           /\ keyring[k].channel = "Production" \/ keyring[k].channel \in channels
           /\ signature = Sign(keyring[k].public_key, signature_message(digest))
  BY <1>5, SignatureHolds
<1>8. signature.by = keyring[k].public_key /\ signature.message = signature_message(digest)
  BY <1>7 DEF Sign
<1>9. /\ \A i \in 1..Len(keyring) : keyring[i].key_id = key_id(keyring[i].public_key)
      /\ \A i, j \in 1..Len(keyring) : keyring[i].key_id = keyring[j].key_id => i = j
  BY <1>5, KeyringHolds, Zenon
<1>10. \A i \in 1..n : docs[i].public_key = keyring[k].public_key => i + 1 = k
  <2> TAKE i \in 1..n
  <2>1. i + 1 \in 1..Len(keyring)
    BY <1>1, <1>6
  <2> QED  BY <1>6, <1>9, <2>1
<1>11. \A i \in 1..n : docs[i].status \in {"Active", "Retired", "Revoked"}
  BY <1>2 DEF PublicDocuments, PublicDocument, Statuses
<1>12. \A i \in 1..n : docs[i].public_key = keyring[k].public_key => docs[i].status = "Active"
  BY <1>6, <1>7, <1>10, <1>11
<1>13. CASE k = 1
  <2>1. /\ dev.public_key = DevelopmentKey /\ dev.channel = "Development"
    BY DEF dev, PublicDocument
  <2>2. keyring[k].public_key = DevelopmentKey /\ "Development" \in channels
    BY <1>6, <1>7, <1>13, <2>1
  <2> QED  BY <1>1, <1>8, <1>12, <2>2, Zenon DEF Admitted
<1>14. CASE k # 1
  <2>1. k - 1 \in 1..n /\ keyring[k] = docs[k - 1]
    BY <1>1, <1>6, <1>14
  <2> DEFINE i == k - 1
  <2>2. i \in 1..n /\ keyring[k] = docs[i]
    BY <2>1
  <2> HIDE DEF i
  <2> QED  BY <1>1, <1>7, <1>8, <1>12, <2>2, Zenon DEF Admitted
<1> QED  BY <1>8, <1>13, <1>14

\* A capsule that the pipeline accepts was signed, with these files, by an
\* admitted key (verify_capsule_with_limits).
LEMMA AcceptedSigned ==
  ASSUME FilesSound, NEW trust \in Seq(DocNames), \A i \in 1..Len(trust) : Present(trust[i]),
         NEW channels, NEW input, Vouches(made, input.capsule.signature),
         TrustError(trust) = Passed,
         VerifyError(input, channels, trusted_keys(Documents(trust))) = Passed
  PROVE  SignedFor(input.capsule, trust, channels)
<1> DEFINE keyring == trusted_keys(Documents(trust))
           c == input.capsule
           digest == capsule_digest(c.header, c.manifest, c.stored)
<1>1. "Policy" # Passed
  BY DEF Passed
<1>2. KeyringError(keyring) = Passed
  BY <1>1, Zenon DEF TrustError
<1>3. /\ PayloadStage(c) = Passed
      /\ verify_signature(c.header.publisher_key_id, digest, c.signature, channels, keyring) = Passed
  BY VerifiedStages, Zenon
<1>4. Admitted(c.signature.by, trust, channels) /\ c.signature.message = signature_message(digest)
  <2> DEFINE id == c.header.publisher_key_id
             sig == c.signature
             kr == keyring
             dg == digest
  <2>1. kr = trusted_keys(Documents(trust)) /\ KeyringError(kr) = Passed
    BY <1>2
  <2>2. verify_signature(id, dg, sig, channels, kr) = Passed
    BY <1>3
  <2> HIDE DEF id, sig, kr, dg
  <2>3. Admitted(sig.by, trust, channels) /\ sig.message = signature_message(dg)
    BY <2>1, <2>2, KeyringAdmits
  <2> QED  BY <2>3 DEF sig, dg
<1>5. PICK m \in made : m.key = c.signature.by /\ Triples(m.files) = Triples(VerifiedFiles(c))
  BY <1>3, <1>4, Zenon DEF Vouches
<1> QED  BY <1>4, <1>5, Zenon DEF SignedFor

\* What a verified command keeps.
ConRecord ==
  con = [pc |-> con.pc, kind |-> con.kind, trust |-> con.trust, channels |-> con.channels, input |-> con.input,
         steps |-> con.steps, valid |-> con.valid, report |-> con.report, res |-> con.res]
Verified == con.valid
ReleaseSound ==
  Verified =>
    /\ con.trust \in Seq(DocNames) /\ \A i \in 1..Len(con.trust) : Present(con.trust[i])
    /\ Len(con.input.capsule.manifest.files) \in Nat
    /\ SignedFor(con.input.capsule, con.trust, con.channels)

\* Documents that are kept admit what they admitted.
LEMMA ReleaseKept ==
  ASSUME ReleaseSound, DocsKept, made \subseteq made',
         Verified' => /\ Verified
                      /\ UNCHANGED <<con.trust, con.channels, con.input>>
  PROVE  ReleaseSound'
<1> SUFFICES ASSUME Verified'
             PROVE  /\ con'.trust \in Seq(DocNames) /\ \A i \in 1..Len(con'.trust) : Present(con.trust[i])'
                    /\ Len(con'.input.capsule.manifest.files) \in Nat
                    /\ SignedFor(con.input.capsule, con.trust, con.channels)'
  BY DEF ReleaseSound
<1>1. /\ Verified /\ con'.trust = con.trust /\ con'.channels = con.channels /\ con'.input = con.input
  OBVIOUS
<1>2. /\ con.trust \in Seq(DocNames) /\ \A i \in 1..Len(con.trust) : Present(con.trust[i])
      /\ Len(con.input.capsule.manifest.files) \in Nat
      /\ SignedFor(con.input.capsule, con.trust, con.channels)
  BY <1>1 DEF ReleaseSound
<1>3. \A i \in 1..Len(con.trust) :
        Present(con.trust[i])' /\ files'[con.trust[i]].content = files[con.trust[i]].content
  <2> TAKE i \in 1..Len(con.trust)
  <2>1. con.trust[i] \in DocNames /\ Present(con.trust[i])
    BY <1>2
  <2> QED  BY <1>1, <2>1 DEF DocsKept, Present
<1>4. PICK m \in made : /\ Triples(m.files) = Triples(VerifiedFiles(con.input.capsule))
                        /\ Admitted(m.key, con.trust, con.channels)
  BY <1>2, Zenon DEF SignedFor
<1>5. Admitted(m.key, con.trust, con.channels)'
  BY <1>1, <1>3, <1>4, Zenon DEF Admitted
<1>6. SignedFor(con.input.capsule, con.trust, con.channels)'
  BY <1>1, <1>4, <1>5, Zenon DEF SignedFor
<1> QED  BY <1>1, <1>2, <1>3, <1>6


\* A command that gets past verification read a capsule file as it lies there
\* (read_input).
LEMMA ReadInput ==
  ASSUME FilesSound, Present("capsule"), NEW option, read_input(option).form # "torn"
  PROVE  /\ read_input(option) = files["capsule"].content
         /\ Sound(made, "capsule", files["capsule"].content)
<1> DEFINE x == files["capsule"].content
<1>1. Sound(made, "capsule", x)
  BY DEF FilesSound, Names
<1>2. x = [form |-> x.form, capsule |-> x.capsule, defect |-> x.defect]
  BY <1>1 DEF Sound
<1>3. read_input(option) \in {x, [x EXCEPT !.form = "torn"]}
  BY Zenon DEF read_input
<1> HIDE DEF x
<1>4. [x EXCEPT !.form = "torn"].form = "torn"
  BY <1>2
<1> QED  BY <1>1, <1>3, <1>4 DEF x

LEMMA ConsumeSound ==
  ASSUME FilesSound, NEW trust \in Seq(DocNames), \A i \in 1..Len(trust) : Present(trust[i]),
         NEW kind, NEW option, NEW channels, Consume(kind, option, trust, channels)
  PROVE  ReleaseSound' /\ ConRecord' /\ (con'.pc \in {"diff", "confirm"} => con'.valid)
<1> DEFINE input == read_input(option)
           keyring == trusted_keys(Documents(trust))
<1>1. Present("capsule") /\ UNCHANGED <<files, made>>
  BY Zenon DEF Consume, Present
<1> DEFINE structure == IF from_input(input) # Passed THEN from_input(input) ELSE DecodeStage(input)
           error == IF kind = "inspect" /\ structure # Passed THEN structure
                    ELSE IF TrustError(trust) # Passed THEN TrustError(trust)
                    ELSE VerifyError(input, channels, keyring)
           steps == ExplainSteps(input, channels, keyring)
           refused == Refuses(kind, structure, TrustError(trust), error)
           pc == IF kind \in {"diff", "apply"} THEN "diff" ELSE "done"
           valid == error = Passed
           in == input
           code == exit_code(error)
<1>2. con' = IF refused THEN [NoConsumer EXCEPT !.pc = "failed", !.kind = kind, !.res = code]
             ELSE [[NoConsumer EXCEPT !.kind = kind, !.trust = trust, !.channels = channels, !.input = in]
                     EXCEPT !.pc = pc, !.steps = steps, !.valid = valid, !.res = 0]
  BY Zenon DEF Consume
<1>5. valid => TrustError(trust) = Passed /\ VerifyError(input, channels, keyring) = Passed
  BY Zenon
<1>6. ~refused => (pc \in {"diff", "confirm"} => valid)
  <2>1. "done" \notin {"diff", "confirm"} /\ "inspect" \notin {"diff", "apply"}
    OBVIOUS
  <2> QED  BY <2>1, Zenon DEF Refuses
<1>7. valid \in BOOLEAN
  OBVIOUS
<1> HIDE DEF error, steps, refused, pc, valid, in, code
<1>3. CASE refused
  <2>1. con' = [NoConsumer EXCEPT !.pc = "failed", !.kind = kind, !.res = code]
    BY <1>2, <1>3
  <2>2. con'.pc = "failed" /\ con'.valid = FALSE /\ ConRecord'
    BY <2>1 DEF NoConsumer, ConRecord
  <2> QED  BY <2>2 DEF ReleaseSound, Verified
<1>4. CASE ~refused
  <2>1. con' = [[NoConsumer EXCEPT !.kind = kind, !.trust = trust, !.channels = channels, !.input = in]
                   EXCEPT !.pc = pc, !.steps = steps, !.valid = valid, !.res = 0]
    BY <1>2, <1>4
  <2>2. /\ con'.pc = pc /\ con'.trust = trust /\ con'.channels = channels
        /\ con'.input = in /\ con'.valid = valid /\ ConRecord'
    BY <1>7, <2>1 DEF NoConsumer, ConRecord
  <2>3. ASSUME valid
        PROVE  /\ \A i \in 1..Len(con'.trust) : Present(con.trust[i])'
               /\ Len(con'.input.capsule.manifest.files) \in Nat
               /\ SignedFor(con.input.capsule, con.trust, con.channels)'
    <3>1. TrustError(trust) = Passed /\ VerifyError(input, channels, keyring) = Passed
      BY <1>5, <2>3
    <3>2. input.form # "torn"
      BY <3>1, VerifiedStages, Zenon
    <3>3. input = files["capsule"].content /\ Sound(made, "capsule", input)
      BY <1>1, <3>2, ReadInput
    <3>4. Len(input.capsule.manifest.files) \in Nat /\ Vouches(made, input.capsule.signature)
      BY <3>3 DEF Sound
    <3>5. VerifyError(in, channels, trusted_keys(Documents(trust))) = Passed /\ Vouches(made, in.capsule.signature)
      BY <3>1, <3>4 DEF in
    <3>6. SignedFor(in.capsule, trust, channels)
      BY <3>1, <3>5, AcceptedSigned
    <3>7. SignedFor(con.input.capsule, con.trust, con.channels)'
      BY <1>1, <2>2, <3>6, Zenon DEF SignedFor, Admitted
    <3>8. \A i \in 1..Len(con'.trust) : Present(con.trust[i])'
      BY <1>1, <2>2 DEF Present
    <3>9. Len(con'.input.capsule.manifest.files) \in Nat
      BY <2>2, <3>4 DEF in
    <3> QED  BY <3>7, <3>8, <3>9
  <2>4. ReleaseSound'
    BY <2>2, <2>3 DEF ReleaseSound, Verified
  <2> QED  BY <1>4, <1>6, <2>2, <2>4
<1> QED  BY <1>3, <1>4

\* A command that goes on after reading the capsule has verified it.
ConInv == ConRecord /\ ReleaseSound /\ (con.pc \in {"diff", "confirm"} => con.valid)

\* A step after the verification ends the command, or keeps what it verified.
LEMMA ReceiveSound ==
  ASSUME ConInv, Diff \/ Decline \/ Apply
  PROVE  ConInv'
<1>0. /\ ConRecord /\ ReleaseSound /\ con.pc \in {"diff", "confirm"} /\ con.valid /\ UNCHANGED <<files, made>>
  BY Zenon DEF ConInv, Diff, Decline, Apply, ApplyFiles, publisher
<1>1. DocsKept /\ made \subseteq made'
  BY <1>0 DEF DocsKept, Present
<1>2. CASE \E kind, res : con' = [NoConsumer EXCEPT !.pc = "failed", !.kind = kind, !.res = res]
  <2>1. con'.pc = "failed" /\ con'.valid = FALSE /\ ConRecord'
    BY <1>2 DEF NoConsumer, ConRecord
  <2> QED  BY <2>1 DEF ConInv, ReleaseSound, Verified
<1>3. CASE \E pc, report : con' = [con EXCEPT !.pc = pc, !.report = report]
  <2>1. /\ con'.trust = con.trust /\ con'.channels = con.channels /\ con'.input = con.input
        /\ con'.valid = con.valid /\ ConRecord'
    BY <1>0, <1>3 DEF ConRecord
  <2>2. ReleaseSound'
    BY <1>0, <1>1, <2>1, ReleaseKept DEF Verified
  <2> QED  BY <1>0, <2>1, <2>2 DEF ConInv
<1>4. CASE con' = [con EXCEPT !.pc = "done"]
  <2>1. /\ con'.trust = con.trust /\ con'.channels = con.channels /\ con'.input = con.input
        /\ con'.valid = con.valid /\ ConRecord'
    BY <1>0, <1>4 DEF ConRecord
  <2>2. ReleaseSound'
    BY <1>0, <1>1, <2>1, ReleaseKept DEF Verified
  <2> QED  BY <1>0, <2>1, <2>2 DEF ConInv
<1> QED  BY <1>2, <1>3, <1>4, Zenon DEF Diff, Decline, Apply, ApplyFiles

\* Every step keeps what the consumer's command rests on.
LEMMA ConInvStep == PublishInv /\ ConInv /\ [Next]_vars => ConInv'
<1> SUFFICES ASSUME PublishInv, ConInv, [Next]_vars  PROVE ConInv'
  OBVIOUS
<1>1. DocsKept /\ made \subseteq made' /\ (Receive \/ UNCHANGED con)
  BY PublishStep
<1>2. CASE UNCHANGED con
  <2>1. ReleaseSound'
    BY <1>1, <1>2, ReleaseKept DEF ConInv, Verified
  <2>2. ConRecord'
    BY <1>2 DEF ConInv, ConRecord
  <2> QED  BY <1>2, <2>1, <2>2 DEF ConInv
<1>3. CASE Receive
  <2>1. ASSUME NEW trust \in TrustLists, \A i \in 1..Len(trust) : files[trust[i]] \notin {Absent, Foreign},
               NEW kind, NEW option, NEW channels, Consume(kind, option, trust, channels)
        PROVE  ConInv'
    <3>1. trust \in Seq(DocNames)
      BY <2>1, CapsuleCommandsAssumption DEF DocNames
    <3>2. \A i \in 1..Len(trust) : Present(trust[i])
      BY <2>1 DEF Present
    <3>3. ReleaseSound' /\ ConRecord' /\ (con'.pc \in {"diff", "confirm"} => con'.valid)
      BY <2>1, <3>1, <3>2, ConsumeSound DEF PublishInv
    <3> QED  BY <3>3 DEF ConInv
  <2> QED  BY <1>3, <2>1, ReceiveSound, Zenon DEF Receive
<1> QED  BY <1>1, <1>2, <1>3

LEMMA ConInvInit ==
  ASSUME Init
  PROVE  ConInv
<1>1. ConRecord /\ con.pc = "idle" /\ con.valid = FALSE
  BY DEF Init, NoConsumer, ConRecord
<1> QED  BY <1>1 DEF ConInv, ReleaseSound, Verified

\* What a command releases, or an inspection calls valid, is a tree that the
\* holder of a trusted, active key signed, whatever replaced the capsule and in whichever order the documents
\* are named, for every number of files, keys, documents and signers
\* (verify_capsule_with_limits, TrustedKeyring::new, enforce_policy).
THEOREM ReleasedWasSigned == Spec => []ReleasedIsSigned
<1>1. Init => PublishInv /\ ConInv
  BY PublishInit, ConInvInit
<1>2. PublishInv /\ ConInv /\ [Next]_vars => PublishInv' /\ ConInv'
  BY PublishStep, ConInvStep
<1>3. PublishInv /\ ConInv => ReleasedIsSigned
  <2> SUFFICES ASSUME ConInv, con.valid  PROVE ReleasedIsSigned
    BY DEF ReleasedIsSigned
  <2>1. SignedFor(con.input.capsule, con.trust, con.channels)
    BY DEF ConInv, ReleaseSound, Verified
  <2> QED  BY <2>1, Zenon DEF ReleasedIsSigned, SignedFor, Released
<1> QED  BY <1>1, <1>2, <1>3, PTL DEF Spec

\* What the destination is given is of one signed tree.
LEMMA AppliedSigned ==
  ASSUME ConInv, Apply, root' # root
  PROVE  \E m \in made :
           /\ Admitted(m.key, con.trust, con.channels)
           /\ \A i \in 1..N : root'[i] # root[i] =>
                \E k \in 1..Len(m.files) : Target(m.files[k]) = i /\ root'[i] = Written(m.files[k])
<1> DEFINE r == Released
           T == {Target(r[k]) : k \in 1..Len(r)}
           new(i) == r[CHOOSE k \in 1..Len(r) : Target(r[k]) = i]
<1>1. con.valid /\ ReleaseSound
  BY Zenon DEF ConInv, Apply, ApplyFiles
<1>2. root' = [i \in 1..N |-> IF i \in T THEN Written(new(i)) ELSE root[i]]
  BY Zenon DEF Apply, ApplyFiles
<1>3. PICK m \in made : Triples(m.files) = Triples(r) /\ Admitted(m.key, con.trust, con.channels)
  <2>1. SignedFor(con.input.capsule, con.trust, con.channels)
    BY <1>1 DEF ReleaseSound, Verified
  <2> QED  BY <2>1, Zenon DEF SignedFor, Released
<1> HIDE DEF r
<1>4. ASSUME NEW i \in 1..N, root'[i] # root[i]
      PROVE  \E k \in 1..Len(m.files) : Target(m.files[k]) = i /\ root'[i] = Written(m.files[k])
  <2>1. i \in T /\ root'[i] = Written(new(i))
    BY <1>2, <1>4
  <2> DEFINE j == CHOOSE k \in 1..Len(r) : Target(r[k]) = i
  <2>2. j \in 1..Len(r) /\ Target(r[j]) = i
    BY <2>1, Zenon
  <2>3. root'[i] = Written(r[j])
    BY <2>1
  <2> HIDE DEF j
  <2>4. <<r[j].path, r[j].bytes, r[j].executable>> \in Triples(m.files)
    BY <1>3, <2>2, Zenon DEF Triples
  <2>5. PICK k \in 1..Len(m.files) :
          <<r[j].path, r[j].bytes, r[j].executable>> = <<m.files[k].path, m.files[k].bytes, m.files[k].executable>>
    BY <2>4, Zenon DEF Triples
  <2>6. r[j].path = m.files[k].path /\ r[j].bytes = m.files[k].bytes /\ r[j].executable = m.files[k].executable
    BY <2>5
  <2>7. Target(m.files[k]) = i /\ root'[i] = Written(m.files[k])
    BY <2>2, <2>3, <2>6, Zenon DEF Target, Written
  <2> QED  BY <2>7
<1> QED  BY <1>3, <1>4

\* The destination is only ever changed, by the command, to what one tree says
\* that the holder of a trusted, active key signed, for every number of files,
\* keys, documents and signers and whatever happens between the verification
\* and the transaction (apply, apply_transaction).
THEOREM WhatIsWrittenWasSigned == Spec => OnlySignedIsWritten
<1>1. Init => PublishInv /\ ConInv
  BY PublishInit, ConInvInit
<1>2. PublishInv /\ ConInv /\ [Next]_vars => PublishInv' /\ ConInv'
  BY PublishStep, ConInvStep
<1> DEFINE A == con' # con /\ root' # root =>
                  \E m \in made :
                    /\ Admitted(m.key, con.trust, con.channels)
                    /\ \A i \in 1..N : root'[i] # root[i] =>
                         \E k \in 1..Len(m.files) : Target(m.files[k]) = i /\ root'[i] = Written(m.files[k])
<1>3. PublishInv /\ ConInv /\ [Next]_vars => [A]_vars
  <2> SUFFICES ASSUME PublishInv, ConInv, [Next]_vars, con' # con, root' # root  PROVE A
    BY Zenon
  <2>1. Receive
    BY PublishStep, Zenon
  <2>2. ASSUME NEW kind, NEW option, NEW trust, NEW channels, Consume(kind, option, trust, channels)
        PROVE  UNCHANGED root
    BY <2>2, Zenon DEF Consume
  <2>3. Apply
    BY <2>1, <2>2, Zenon DEF Receive, Diff, Decline
  <2> QED  BY <2>3, AppliedSigned, Zenon
<1> QED  BY <1>1, <1>2, <1>3, PTL DEF Spec, OnlySignedIsWritten


-----------------------------------------------------------------------------
(* Errors a validator does not end with.                                   *)

\* A check that fails has an error outside B, and a list of such checks.
Avoids(c, B) == c[1] => c[2] \notin B
AllAvoid(l, B) == (\E T : l \in Seq(T)) /\ \A i \in 1..Len(l) : Avoids(l[i], B)

\* A check that does not fail, or has an error outside B.
LEMMA AvoidCheck ==
  ASSUME NEW a, NEW e, NEW B, ~a \/ e \notin B
  PROVE  Avoids(<<a, e>>, B)
BY DEF Avoids

\* The error of such a list is outside B.
LEMMA ErrorAvoids ==
  ASSUME NEW l, NEW B, AllAvoid(l, B), Passed \notin B
  PROVE  FirstError(l) \notin B
<1>1. Len(l) \in Nat
  BY DEF AllAvoid
<1>2. CASE Failing(l) = {}
  BY <1>2, NoneFails
<1>3. CASE Failing(l) # {}
  <2>1. PICK i \in Failing(l) : FirstError(l) = l[i][2]
    BY <1>1, <1>3, SomeFails
  <2>2. i \in 1..Len(l) /\ l[i][1]
    BY <2>1 DEF Failing
  <2> QED  BY <2>1, <2>2 DEF AllAvoid, Avoids
<1> QED  BY <1>2, <1>3

\* A list of checks that have errors to report passes when none of them fails.
LEMMA NoneFailing ==
  ASSUME NEW l, AllAvoid(l, {Passed})
  PROVE  FirstError(l) = Passed <=> \A i \in 1..Len(l) : ~l[i][1]
<1>1. Len(l) \in Nat
  BY DEF AllAvoid
<1>2. CASE Failing(l) = {}
  <2>1. \A i \in 1..Len(l) : ~l[i][1]
    BY <1>2 DEF Failing
  <2> QED  BY <1>2, <2>1 DEF FirstError
<1>3. CASE Failing(l) # {}
  <2>1. PICK i \in Failing(l) : FirstError(l) = l[i][2]
    BY <1>1, <1>3, SomeFails
  <2>2. i \in 1..Len(l) /\ l[i][1]
    BY <2>1 DEF Failing
  <2>3. l[i][2] # Passed
    BY <2>2 DEF AllAvoid, Avoids
  <2> QED  BY <2>1, <2>2, <2>3
<1> QED  BY <1>2, <1>3

\* Two lists, one after the other.
LEMMA BothAvoid ==
  ASSUME NEW l, NEW m, NEW B, AllAvoid(l, B), AllAvoid(m, B)
  PROVE  /\ AllAvoid(l \o m, B)
         /\ (\A i \in 1..Len(l \o m) : ~(l \o m)[i][1])
              <=> (\A i \in 1..Len(l) : ~l[i][1]) /\ (\A i \in 1..Len(m) : ~m[i][1])
<1>1. PICK S : l \in Seq(S)
  BY DEF AllAvoid
<1>2. PICK U : m \in Seq(U)
  BY DEF AllAvoid
<1>3. PICK T : T = S \cup U
  OBVIOUS
<1>4. l \in Seq(T) /\ m \in Seq(T)
  BY <1>1, <1>2, <1>3
<1>5. PICK p \in Nat, q \in Nat : p = Len(l) /\ q = Len(m)
  BY <1>4
<1>6. PICK n : n = l \o m
  OBVIOUS
<1>7. n \in Seq(T) /\ Len(n) = p + q
  BY <1>4, <1>5, <1>6
<1>8. \A i \in 1..p : n[i] = l[i]
  BY <1>4, <1>5, <1>6
<1>9. \A i \in 1..q : n[p + i] = m[i]
  BY <1>4, <1>5, <1>6
<1>10. \A i \in 1..(p + q) : i \in 1..p \/ (i - p \in 1..q /\ i = p + (i - p))
  BY <1>5
<1>11. AllAvoid(n, B)
  <2>1. ASSUME NEW i \in 1..(p + q)  PROVE Avoids(n[i], B)
    <3>1. CASE i \in 1..p
      BY <1>5, <1>8, <3>1 DEF AllAvoid
    <3>2. CASE i - p \in 1..q /\ i = p + (i - p)
      <4>1. n[i] = m[i - p]
        BY <1>9, <3>2
      <4> QED  BY <1>5, <3>2, <4>1 DEF AllAvoid
    <3> QED  BY <1>10, <3>1, <3>2
  <2> QED  BY <1>7, <2>1 DEF AllAvoid
<1>12. (\A i \in 1..(p + q) : ~n[i][1]) <=> (\A i \in 1..p : ~l[i][1]) /\ (\A i \in 1..q : ~m[i][1])
  <2>1. ASSUME \A i \in 1..(p + q) : ~n[i][1]
        PROVE  (\A i \in 1..p : ~l[i][1]) /\ (\A i \in 1..q : ~m[i][1])
    <3>1. \A i \in 1..q : p + i \in 1..(p + q)
      BY <1>5
    <3>2. \A i \in 1..p : i \in 1..(p + q)
      BY <1>5
    <3> QED  BY <1>8, <1>9, <2>1, <3>1, <3>2
  <2>2. ASSUME \A i \in 1..p : ~l[i][1], \A i \in 1..q : ~m[i][1], NEW i \in 1..(p + q)
        PROVE  ~n[i][1]
    <3>1. CASE i \in 1..p
      BY <1>8, <2>2, <3>1
    <3>2. CASE i - p \in 1..q /\ i = p + (i - p)
      <4>1. n[i] = m[i - p]
        BY <1>9, <3>2
      <4> QED  BY <2>2, <3>2, <4>1
    <3> QED  BY <1>10, <3>1, <3>2
  <2> QED  BY <2>1, <2>2
<1> QED  BY <1>5, <1>6, <1>7, <1>11, <1>12

\* They pass when both pass.
LEMMA BothPass ==
  ASSUME NEW l, NEW m, AllAvoid(l, {Passed}), AllAvoid(m, {Passed})
  PROVE  /\ AllAvoid(l \o m, {Passed})
         /\ FirstError(l \o m) = Passed <=> FirstError(l) = Passed /\ FirstError(m) = Passed
<1>1. PICK n : n = l \o m
  OBVIOUS
<1>2. /\ AllAvoid(n, {Passed})
      /\ (\A i \in 1..Len(n) : ~n[i][1])
           <=> (\A i \in 1..Len(l) : ~l[i][1]) /\ (\A i \in 1..Len(m) : ~m[i][1])
  BY <1>1, BothAvoid
<1>3. /\ FirstError(n) = Passed <=> \A i \in 1..Len(n) : ~n[i][1]
      /\ FirstError(l) = Passed <=> \A i \in 1..Len(l) : ~l[i][1]
      /\ FirstError(m) = Passed <=> \A i \in 1..Len(m) : ~m[i][1]
  BY <1>2, NoneFailing
<1> QED  BY <1>1, <1>2, <1>3

\* Lists that are written out.
LEMMA OneAvoids ==
  ASSUME NEW c, NEW B, Avoids(c, B)
  PROVE  AllAvoid(<<c>>, B)
<1>1. PICK l : l = <<c>>
  OBVIOUS
<1>2. l \in Seq({c}) /\ Len(l) = 1 /\ l[1] = c
  BY <1>1
<1>3. \A i \in 1..1 : i = 1
  OBVIOUS
<1> QED  BY <1>1, <1>2, <1>3 DEF AllAvoid

\* The same for two checks.
LEMMA TwoAvoid ==
  ASSUME NEW c, NEW d, NEW B, Avoids(c, B), Avoids(d, B)
  PROVE  AllAvoid(<<c, d>>, B)
<1>1. PICK l : l = <<c, d>>
  OBVIOUS
<1>2. l \in Seq({c, d}) /\ Len(l) = 2 /\ l[1] = c /\ l[2] = d
  BY <1>1
<1>3. \A i \in 1..2 : i = 1 \/ i = 2
  OBVIOUS
<1> QED  BY <1>1, <1>2, <1>3 DEF AllAvoid

\* The same for three checks.
LEMMA ThreeAvoid ==
  ASSUME NEW c, NEW d, NEW e, NEW B, Avoids(c, B), Avoids(d, B), Avoids(e, B)
  PROVE  AllAvoid(<<c, d, e>>, B)
<1>1. PICK l : l = <<c, d, e>>
  OBVIOUS
<1>2. l \in Seq({c, d, e}) /\ Len(l) = 3 /\ l[1] = c /\ l[2] = d /\ l[3] = e
  BY <1>1
<1>3. \A i \in 1..3 : i = 1 \/ i = 2 \/ i = 3
  OBVIOUS
<1> QED  BY <1>1, <1>2, <1>3 DEF AllAvoid

\* The same for four checks.
LEMMA FourAvoid ==
  ASSUME NEW c, NEW d, NEW e, NEW f, NEW B, Avoids(c, B), Avoids(d, B), Avoids(e, B), Avoids(f, B)
  PROVE  AllAvoid(<<c, d, e, f>>, B)
<1>1. PICK l : l = <<c, d, e, f>>
  OBVIOUS
<1>2. l \in Seq({c, d, e, f}) /\ Len(l) = 4 /\ l[1] = c /\ l[2] = d /\ l[3] = e /\ l[4] = f
  BY <1>1
<1>3. \A i \in 1..4 : i = 1 \/ i = 2 \/ i = 3 \/ i = 4
  OBVIOUS
<1> QED  BY <1>1, <1>2, <1>3 DEF AllAvoid

\* The same for five checks.
LEMMA FiveAvoid ==
  ASSUME NEW c, NEW d, NEW e, NEW f, NEW g, NEW B,
         Avoids(c, B), Avoids(d, B), Avoids(e, B), Avoids(f, B), Avoids(g, B)
  PROVE  AllAvoid(<<c, d, e, f, g>>, B)
<1>1. PICK l : l = <<c, d, e, f, g>>
  OBVIOUS
<1>2. /\ l \in Seq({c, d, e, f, g}) /\ Len(l) = 5
      /\ l[1] = c /\ l[2] = d /\ l[3] = e /\ l[4] = f /\ l[5] = g
  BY <1>1
<1>3. \A i \in 1..5 : i = 1 \/ i = 2 \/ i = 3 \/ i = 4 \/ i = 5
  OBVIOUS
<1> QED  BY <1>1, <1>2, <1>3 DEF AllAvoid

-----------------------------------------------------------------------------
(* Lists joined.                                                           *)

\* The lists of seqs joined up to each of the first n.
JoinedUpTo(f, seqs, n) == f = [i \in 1..n |-> IF i = 1 THEN seqs[i] ELSE f[i - 1] \o seqs[i]]

\* The equation that defines them has a solution.
LEMMA JoinsExist ==
  ASSUME NEW seqs, NEW n \in Nat
  PROVE  \E f : JoinedUpTo(f, seqs, n)
<1> DEFINE S == {m \in Nat : ~\E f : JoinedUpTo(f, seqs, m)}
<1> SUFFICES ASSUME S # {}  PROVE FALSE
  OBVIOUS
<1>1. PICK m \in S : \A j \in S : m <= j
  <2>1. S \subseteq Nat
    OBVIOUS
  <2> HIDE DEF S
  <2> QED  BY <2>1, Smallest
<1>2. m \in Nat /\ ~\E f : JoinedUpTo(f, seqs, m)
  OBVIOUS
<1>3. m # 0
  <2> SUFFICES ASSUME m = 0  PROVE FALSE
    OBVIOUS
  <2> DEFINE f == [i \in 1..0 |-> seqs]
  <2>1. JoinedUpTo(f, seqs, 0)
    BY DEF JoinedUpTo
  <2> QED  BY <1>2, <2>1
<1>4. m - 1 \in Nat /\ m - 1 \notin S
  BY <1>1, <1>2, <1>3
<1>5. PICK f : JoinedUpTo(f, seqs, m - 1)
  BY <1>4
<1> DEFINE With(i, v) == v \o seqs[i]
           g == [i \in 1..m |-> IF i = m THEN (IF m = 1 THEN seqs[m] ELSE With(m, f[m - 1])) ELSE f[i]]
<1>6. \A i \in 1..(m - 1) : f[i] = IF i = 1 THEN seqs[i] ELSE With(i, f[i - 1])
  BY <1>5 DEF JoinedUpTo
<1> HIDE DEF With, S
<1>7. \A i \in 1..m : g[i] = IF i = 1 THEN seqs[i] ELSE With(i, g[i - 1])
  <2> SUFFICES ASSUME NEW i \in 1..m  PROVE g[i] = IF i = 1 THEN seqs[i] ELSE With(i, g[i - 1])
    OBVIOUS
  <2>1. CASE i = m
    <3>1. g[m] = (IF m = 1 THEN seqs[m] ELSE With(m, f[m - 1])) /\ (m # 1 => g[m - 1] = f[m - 1])
      BY <1>2, <1>3
    <3> HIDE DEF g
    <3> QED  BY <2>1, <3>1
  <2>2. CASE i # m
    <3>1. i \in 1..(m - 1) /\ g[i] = f[i]
      BY <1>2, <2>2
    <3>2. i # 1 => g[i - 1] = f[i - 1]
      BY <1>2, <3>1
    <3> HIDE DEF g
    <3> QED  BY <1>6, <3>1, <3>2
  <2> QED  BY <2>1, <2>2
<1>8. g = [i \in 1..m |-> IF i = 1 THEN seqs[i] ELSE With(i, g[i - 1])]
  BY <1>7
<1>9. JoinedUpTo(g, seqs, m)
  <2>1. PICK h : h = g
    OBVIOUS
  <2>2. h = [i \in 1..m |-> IF i = 1 THEN seqs[i] ELSE With(i, h[i - 1])]
    BY <1>8, <2>1, Zenon
  <2> HIDE DEF g
  <2>3. JoinedUpTo(h, seqs, m)
    BY <2>2, Zenon DEF JoinedUpTo, With
  <2> QED  BY <2>1, <2>3
<1> QED  BY <1>2, <1>9

\* What FlattenSeq returns is the last of them.
LEMMA FlattenIs ==
  ASSUME NEW seqs, NEW n \in Nat, Len(seqs) = n, n # 0
  PROVE  \E f : JoinedUpTo(f, seqs, n) /\ FlattenSeq(seqs) = f[n]
<1> DEFINE all == CHOOSE f : f = [i \in 1..Len(seqs) |-> IF i = 1 THEN seqs[i] ELSE f[i - 1] \o seqs[i]]
<1>1. FlattenSeq(seqs) = all[Len(seqs)]
  BY DEF FlattenSeq
<1>2. \E f : JoinedUpTo(f, seqs, Len(seqs))
  BY JoinsExist
<1>3. JoinedUpTo(all, seqs, Len(seqs))
  BY <1>2, Zenon DEF JoinedUpTo
<1> HIDE DEF all
<1> QED  BY <1>1, <1>3

\* Lists over one set joined are a list over it.
LEMMA FlattenType ==
  ASSUME NEW T, NEW seqs, NEW n \in Nat, seqs = [i \in 1..n |-> seqs[i]], Len(seqs) = n,
         \A i \in 1..n : seqs[i] \in Seq(T)
  PROVE  FlattenSeq(seqs) \in Seq(T)
<1>1. CASE n = 0
  <2>1. FlattenSeq(seqs) = seqs
    BY <1>1 DEF FlattenSeq
  <2>2. seqs = [i \in 1..0 |-> seqs[i]]
    BY <1>1
  <2>3. seqs = <<>>
    BY <2>2
  <2>4. <<>> \in Seq(T)
    OBVIOUS
  <2> QED  BY <2>1, <2>3, <2>4, Zenon
<1>2. CASE n # 0
  <2>1. PICK f : JoinedUpTo(f, seqs, n) /\ FlattenSeq(seqs) = f[n]
    BY <1>2, FlattenIs
  <2> DEFINE With(i, v) == v \o seqs[i]
  <2>2. \A i \in 1..n : f[i] = IF i = 1 THEN seqs[i] ELSE With(i, f[i - 1])
    BY <2>1 DEF JoinedUpTo
  <2>3. \A i \in 1..n, v \in Seq(T) : With(i, v) \in Seq(T)
    OBVIOUS
  <2> HIDE DEF With
  <2> DEFINE S == {i \in Nat : i \in 1..n /\ f[i] \notin Seq(T)}
  <2>4. S = {}
    <3> SUFFICES ASSUME S # {}  PROVE FALSE
      OBVIOUS
    <3>1. PICK m \in S : \A j \in S : m <= j
      <4>1. S \subseteq Nat
        OBVIOUS
      <4> HIDE DEF S
      <4> QED  BY <4>1, Smallest
    <3>2. m \in 1..n /\ f[m] \notin Seq(T)
      OBVIOUS
    <3>3. m # 1
      BY <2>2, <3>2
    <3>4. m - 1 \in 1..n /\ m - 1 \notin S
      BY <3>1, <3>2, <3>3
    <3>5. f[m - 1] \in Seq(T)
      BY <3>4
    <3> QED  BY <2>2, <2>3, <3>2, <3>3, <3>5
  <2>5. f[n] \in Seq(T)
    BY <1>2, <2>4
  <2> QED  BY <2>1, <2>5
<1> QED  BY <1>1, <1>2

\* Lists of checks joined are a list of checks.
LEMMA FlattenAvoids ==
  ASSUME NEW seqs, NEW B, NEW n \in Nat, seqs = [i \in 1..n |-> seqs[i]], Len(seqs) = n,
         \A i \in 1..n : AllAvoid(seqs[i], B)
  PROVE  AllAvoid(FlattenSeq(seqs), B)
<1> DEFINE T == UNION {{seqs[i][j] : j \in 1..Len(seqs[i])} : i \in 1..n}
<1>1. \A i \in 1..n : seqs[i] \in Seq(T)
  <2> SUFFICES ASSUME NEW i \in 1..n  PROVE seqs[i] \in Seq(T)
    OBVIOUS
  <2>1. PICK U : seqs[i] \in Seq(U)
    BY DEF AllAvoid
  <2>2. \A j \in 1..Len(seqs[i]) : seqs[i][j] \in T
    OBVIOUS
  <2> HIDE DEF T
  <2> QED  BY <2>1, <2>2
<1>2. \A c \in T : Avoids(c, B)
  BY DEF AllAvoid
<1> HIDE DEF T
<1>3. FlattenSeq(seqs) \in Seq(T)
  BY <1>1, FlattenType
<1>4. PICK l : l = FlattenSeq(seqs)
  OBVIOUS
<1>5. l \in Seq(T)
  BY <1>3, <1>4, Zenon
<1>6. \A i \in 1..Len(l) : l[i] \in T
  BY <1>5
<1>7. \A i \in 1..Len(l) : Avoids(l[i], B)
  BY <1>2, <1>6, Zenon
<1> QED  BY <1>4, <1>5, <1>7, Zenon DEF AllAvoid

\* They pass only if each of them passes.
LEMMA FlattenPasses ==
  ASSUME NEW seqs, NEW n \in Nat, seqs = [i \in 1..n |-> seqs[i]], Len(seqs) = n,
         \A i \in 1..n : AllAvoid(seqs[i], {Passed}), FirstError(FlattenSeq(seqs)) = Passed
  PROVE  \A i \in 1..n : FirstError(seqs[i]) = Passed
<1>1. CASE n = 0
  BY <1>1
<1>2. CASE n # 0
  <2>1. PICK f : JoinedUpTo(f, seqs, n) /\ FlattenSeq(seqs) = f[n]
    BY <1>2, FlattenIs
  <2> DEFINE With(i, v) == v \o seqs[i]
             Good(k) == AllAvoid(f[k], {Passed})
             Each(k) == FirstError(f[k]) = Passed => \A i \in 1..k : FirstError(seqs[i]) = Passed
  <2>2. \A i \in 1..n : f[i] = IF i = 1 THEN seqs[i] ELSE With(i, f[i - 1])
    BY <2>1 DEF JoinedUpTo
  <2>3. ASSUME NEW i \in 1..n, NEW v, AllAvoid(v, {Passed})
        PROVE  /\ AllAvoid(With(i, v), {Passed})
               /\ FirstError(With(i, v)) = Passed => FirstError(v) = Passed /\ FirstError(seqs[i]) = Passed
    BY <2>3, BothPass
  <2> HIDE DEF With
  <2> DEFINE S == {i \in Nat : i \in 1..n /\ ~(Good(i) /\ Each(i))}
  <2>4. S = {}
    <3> SUFFICES ASSUME S # {}  PROVE FALSE
      OBVIOUS
    <3>1. PICK m \in S : \A j \in S : m <= j
      <4>1. S \subseteq Nat
        OBVIOUS
      <4> HIDE DEF S
      <4> QED  BY <4>1, Smallest
    <3>2. m \in 1..n /\ ~(Good(m) /\ Each(m))
      OBVIOUS
    <3>3. m # 1
      <4> SUFFICES ASSUME m = 1  PROVE FALSE
        OBVIOUS
      <4>1. f[1] = seqs[1] /\ 1 \in 1..n
        BY <2>2, <3>2
      <4>2. \A i \in 1..1 : i = 1
        OBVIOUS
      <4> QED  BY <3>2, <4>1, <4>2
    <3>4. m - 1 \in 1..n /\ m - 1 \in Nat /\ m - 1 \notin S
      <4>1. m - 1 \in 1..n /\ m - 1 \in Nat /\ ~(m <= m - 1)
        BY <3>2, <3>3
      <4> HIDE DEF S
      <4> QED  BY <3>1, <4>1, Zenon
    <3>5. Good(m - 1) /\ Each(m - 1)
      <4> HIDE DEF Good, Each
      <4> QED  BY <3>4
    <3>6. f[m] = With(m, f[m - 1])
      BY <2>2, <3>2, <3>3
    <3>7. \A i \in 1..m : i \in 1..(m - 1) \/ i = m
      BY <3>2
    <3> HIDE DEF S
    <3>8. Good(m)
      BY <2>3, <3>2, <3>5, <3>6
    <3>9. Each(m)
      BY <2>3, <3>2, <3>5, <3>6, <3>7
    <3> QED  BY <3>2, <3>8, <3>9
  <2>5. Each(n)
    BY <1>2, <2>4
  <2> QED  BY <2>1, <2>5
<1> QED  BY <1>1, <1>2

-----------------------------------------------------------------------------
(* The order of paths.                                                     *)

\* p and q part at the i-th component, where p ends or has the smaller one.
PartsAt(p, q, i) ==
  /\ i <= Len(p) + 1 /\ i <= Len(q)
  /\ \A j \in 1..(i - 1) : p[j] = q[j]
  /\ i <= Len(p) => p[i] < q[i]

\* One path is less than another when they part somewhere.
LEMMA PathLessParts ==
  ASSUME NEW p \in Seq(Nat), NEW q \in Seq(Nat)
  PROVE  PathLess(p, q) <=> \E i \in Nat \ {0} : PartsAt(p, q, i)
<1>1. /\ Len(p) \in Nat /\ Len(q) \in Nat /\ DOMAIN p = 1..Len(p) /\ DOMAIN q = 1..Len(q)
      /\ \A i \in 1..Len(p) : p[i] \in Nat
      /\ \A i \in 1..Len(q) : q[i] \in Nat
  OBVIOUS
<1>2. IsStrictPrefix(p, q) <=> Len(p) < Len(q) /\ \A j \in 1..Len(p) : p[j] = q[j]
  <2>1. ASSUME IsStrictPrefix(p, q)
        PROVE  Len(p) < Len(q) /\ \A j \in 1..Len(p) : p[j] = q[j]
    <3>1. Len(p) <= Len(q) /\ SubSeq(p, 1, Len(p)) = SubSeq(q, 1, Len(p)) /\ p # q
      BY <2>1 DEF IsStrictPrefix, IsPrefix
    <3>2. \A j \in 1..Len(p) : SubSeq(p, 1, Len(p))[j] = p[j] /\ SubSeq(q, 1, Len(p))[j] = q[j]
      BY <1>1, <3>1
    <3>3. \A j \in 1..Len(p) : p[j] = q[j]
      BY <3>1, <3>2
    <3>4. Len(p) # Len(q)
      BY <3>1, <3>3, SeqEqual
    <3>5. Len(p) < Len(q)
      <4>1. Len(p) \in Nat /\ Len(q) \in Nat /\ Len(p) <= Len(q)
        BY <1>1, <3>1, Zenon
      <4> QED  BY <3>4, <4>1
    <3> QED  BY <3>3, <3>5
  <2>2. ASSUME Len(p) < Len(q), \A j \in 1..Len(p) : p[j] = q[j]
        PROVE  IsStrictPrefix(p, q)
    <3>1. SubSeq(p, 1, Len(p)) = SubSeq(q, 1, Len(p))
      <4>1. SubSeq(p, 1, Len(p)) = [j \in 1..Len(p) |-> p[j]]
        BY <1>1
      <4>2. SubSeq(q, 1, Len(p)) = [j \in 1..Len(p) |-> q[j]]
        BY <1>1, <2>2
      <4> QED  BY <2>2, <4>1, <4>2
    <3>2. p # q
      BY <1>1, <2>2
    <3> QED  BY <1>1, <2>2, <3>1, <3>2 DEF IsStrictPrefix, IsPrefix
  <2> QED  BY <2>1, <2>2
<1>3. ASSUME PathLess(p, q) PROVE \E i \in Nat \ {0} : PartsAt(p, q, i)
  <2>1. CASE IsStrictPrefix(p, q)
    <3>1. PartsAt(p, q, Len(p) + 1)
      BY <1>1, <1>2, <2>1 DEF PartsAt
    <3> QED  BY <1>1, <3>1
  <2>2. CASE \E i \in DOMAIN p \cap DOMAIN q : (\A j \in 1..(i - 1) : p[j] = q[j]) /\ p[i] < q[i]
    <3>1. PICK i \in DOMAIN p \cap DOMAIN q : (\A j \in 1..(i - 1) : p[j] = q[j]) /\ p[i] < q[i]
      BY <2>2
    <3>2. i \in Nat \ {0} /\ PartsAt(p, q, i)
      BY <1>1, <3>1 DEF PartsAt
    <3> QED  BY <3>2
  <2> QED  BY <1>3, <2>1, <2>2 DEF PathLess
<1>4. ASSUME NEW i \in Nat \ {0}, PartsAt(p, q, i) PROVE PathLess(p, q)
  <2>1. CASE i <= Len(p)
    <3>1. i \in DOMAIN p \cap DOMAIN q
      BY <1>1, <1>4, <2>1 DEF PartsAt
    <3> QED  BY <1>4, <2>1, <3>1 DEF PartsAt, PathLess
  <2>2. CASE i > Len(p)
    <3>1. i - 1 = Len(p)
      BY <1>1, <1>4, <2>2 DEF PartsAt
    <3>2. IsStrictPrefix(p, q)
      BY <1>1, <1>2, <1>4, <3>1 DEF PartsAt
    <3> QED  BY <3>2 DEF PathLess
  <2> QED  BY <1>1, <2>1, <2>2
<1> QED  BY <1>3, <1>4

\* No path is less than itself.
LEMMA PathLessIrreflexive ==
  ASSUME NEW p \in Seq(Nat)
  PROVE  ~PathLess(p, p)
<1>1. /\ Len(p) \in Nat /\ \A i \in 1..Len(p) : p[i] \in Nat
  OBVIOUS
<1>2. ASSUME NEW i \in Nat \ {0}, PartsAt(p, p, i) PROVE FALSE
  BY <1>1, <1>2 DEF PartsAt
<1> QED  BY <1>2, PathLessParts

\* The order is transitive: the first and the last path part where the first two
\* do or where the last two do, whichever comes first.
LEMMA PathLessTransitive ==
  ASSUME NEW p \in Seq(Nat), NEW q \in Seq(Nat), NEW r \in Seq(Nat), PathLess(p, q), PathLess(q, r)
  PROVE  PathLess(p, r)
<1>1. /\ Len(p) \in Nat /\ Len(q) \in Nat /\ Len(r) \in Nat
      /\ \A i \in 1..Len(p) : p[i] \in Nat
      /\ \A i \in 1..Len(q) : q[i] \in Nat
      /\ \A i \in 1..Len(r) : r[i] \in Nat
  OBVIOUS
<1>2. PICK i \in Nat \ {0} : PartsAt(p, q, i)
  BY PathLessParts
<1>3. PICK k \in Nat \ {0} : PartsAt(q, r, k)
  BY PathLessParts
<1>4. CASE i < k
  <2>1. PartsAt(p, r, i)
    <3>1. i <= Len(p) + 1 /\ i <= Len(q) /\ k <= Len(r)
      BY <1>2, <1>3 DEF PartsAt
    <3>2. \A j \in 1..(i - 1) : p[j] = q[j] /\ q[j] = r[j]
      <4>1. \A j \in 1..(i - 1) : j \in 1..(k - 1)
        BY <1>4
      <4> QED  BY <1>2, <1>3, <4>1 DEF PartsAt
    <3>3. q[i] = r[i]
      BY <1>3, <1>4 DEF PartsAt
    <3>4. i <= Len(p) => p[i] < r[i]
      BY <1>2, <3>3 DEF PartsAt
    <3> QED  BY <1>1, <1>4, <3>1, <3>2, <3>4 DEF PartsAt
  <2> QED  BY <2>1, PathLessParts
<1>5. CASE k <= i
  <2>1. PartsAt(p, r, k)
    <3>1. i <= Len(p) + 1 /\ i <= Len(q) /\ k <= Len(r) /\ k <= Len(q) /\ k <= Len(p) + 1
      BY <1>1, <1>2, <1>3, <1>5 DEF PartsAt
    <3>2. \A j \in 1..(k - 1) : p[j] = q[j] /\ q[j] = r[j]
      <4>1. \A j \in 1..(k - 1) : j \in 1..(i - 1)
        BY <1>5
      <4> QED  BY <1>2, <1>3, <4>1 DEF PartsAt
    <3>3. q[k] < r[k]
      BY <1>3, <3>1 DEF PartsAt
    <3>4. k <= Len(p) => p[k] <= q[k]
      <4>1. CASE k = i
        BY <1>1, <1>2, <3>1, <4>1 DEF PartsAt
      <4>2. CASE k < i
        BY <1>1, <1>2, <3>1, <4>2 DEF PartsAt
      <4> QED  BY <1>5, <4>1, <4>2
    <3>5. k <= Len(p) => p[k] < r[k]
      <4> SUFFICES ASSUME k <= Len(p) PROVE p[k] < r[k]
        OBVIOUS
      <4>1. k \in 1..Len(p) /\ k \in 1..Len(q) /\ k \in 1..Len(r)
        BY <1>1, <3>1
      <4>2. p[k] \in Nat /\ q[k] \in Nat /\ r[k] \in Nat
        BY <1>1, <4>1
      <4> QED  BY <3>3, <3>4, <4>2
    <3> QED  BY <3>1, <3>2, <3>5 DEF PartsAt
  <2> QED  BY <2>1, PathLessParts
<1> QED  BY <1>4, <1>5

\* Of two different paths one is less.
LEMMA PathLessTotal ==
  ASSUME NEW p \in Seq(Nat), NEW q \in Seq(Nat), p # q
  PROVE  PathLess(p, q) \/ PathLess(q, p)
<1>1. /\ Len(p) \in Nat /\ Len(q) \in Nat
      /\ \A i \in 1..Len(p) : p[i] \in Nat
      /\ \A i \in 1..Len(q) : q[i] \in Nat
  OBVIOUS
<1> DEFINE D == {i \in 1..(Len(p) + 1) : i > Len(p) \/ i > Len(q) \/ p[i] # q[i]}
<1>2. D \subseteq Nat /\ D # {}
  <2>1. Len(p) + 1 \in D
    BY <1>1
  <2> QED  BY <2>1
<1>3. PICK i \in D : \A j \in D : i <= j
  BY <1>2, Smallest
<1>4. i \in 1..(Len(p) + 1) /\ \A j \in 1..(i - 1) : j <= Len(p) /\ j <= Len(q) /\ p[j] = q[j]
  <2>1. i \in 1..(Len(p) + 1)
    OBVIOUS
  <2> SUFFICES ASSUME NEW j \in 1..(i - 1) PROVE j <= Len(p) /\ j <= Len(q) /\ p[j] = q[j]
    BY <2>1
  <2>2. j \in 1..(Len(p) + 1) /\ j < i
    BY <1>1, <2>1
  <2>3. j \notin D
    BY <1>3, <2>1, <2>2
  <2> QED  BY <1>1, <2>2, <2>3
<1>5. CASE i <= Len(p) /\ i <= Len(q)
  <2>1. p[i] # q[i] /\ p[i] \in Nat /\ q[i] \in Nat
    BY <1>1, <1>5
  <2>2. PartsAt(p, q, i) \/ PartsAt(q, p, i)
    BY <1>1, <1>4, <1>5, <2>1 DEF PartsAt
  <2> QED  BY <1>4, <2>2, PathLessParts
<1>6. CASE i > Len(p) /\ i <= Len(q)
  <2>1. PartsAt(p, q, i)
    BY <1>1, <1>4, <1>6 DEF PartsAt
  <2> QED  BY <1>4, <2>1, PathLessParts
<1>7. CASE i <= Len(p) /\ i > Len(q)
  <2>1. i <= Len(q) + 1
    <3>1. CASE i = 1
      BY <1>1, <3>1
    <3>2. CASE i > 1
      <4>1. i - 1 \in 1..(i - 1)
        BY <1>4, <3>2
      <4> QED  BY <1>1, <1>4, <4>1
    <3> QED  BY <1>4, <3>1, <3>2
  <2>2. PartsAt(q, p, i)
    BY <1>1, <1>4, <1>7, <2>1 DEF PartsAt
  <2> QED  BY <1>4, <2>2, PathLessParts
<1>8. CASE i > Len(p) /\ i > Len(q)
  <2>1. i - 1 = Len(p)
    BY <1>1, <1>4, <1>8
  <2>2. Len(p) <= Len(q) /\ \A j \in 1..Len(p) : p[j] = q[j]
    <3>1. \A j \in 1..Len(p) : j <= Len(q) /\ p[j] = q[j]
      BY <1>4, <2>1
    <3>2. Len(p) <= Len(q)
      <4>1. CASE Len(p) = 0
        BY <1>1, <4>1
      <4>2. CASE Len(p) > 0
        BY <1>1, <3>1, <4>2
      <4> QED  BY <1>1, <4>1, <4>2
    <3> QED  BY <3>1, <3>2
  <2>3. Len(p) = Len(q)
    BY <1>1, <1>8, <2>1, <2>2
  <2>4. p = q
    BY <2>2, <2>3, SeqEqual
  <2> QED  BY <2>4
<1> QED  BY <1>1, <1>4, <1>5, <1>6, <1>7, <1>8

-----------------------------------------------------------------------------
(* Sorting.                                                                *)

\* The place of the i-th entry in path order; entries of one path keep their order.
Rank(entries, i) ==
  1 + Cardinality({j \in 1..Len(entries) :
                     \/ PathLess(entries[j].path, entries[i].path)
                     \/ entries[j].path = entries[i].path /\ j < i})

\* The entries that come before the i-th in path order.
Below(entries, i) ==
  {j \in 1..Len(entries) :
     \/ PathLess(entries[j].path, entries[i].path)
     \/ entries[j].path = entries[i].path /\ j < i}

\* The entries before one of two entries are among those before the other,
\* which has at least one more.
LEMMA BelowOrdered ==
  ASSUME NEW entries, Len(entries) \in Nat,
         \A i \in 1..Len(entries) : entries[i].path \in Seq(Nat),
         NEW i \in 1..Len(entries), NEW k \in 1..Len(entries), i \in Below(entries, k)
  PROVE  Below(entries, i) \subseteq Below(entries, k) /\ i \notin Below(entries, i)
<1>1. entries[i].path \in Seq(Nat) /\ entries[k].path \in Seq(Nat)
  OBVIOUS
<1>2. i \notin Below(entries, i)
  BY <1>1, PathLessIrreflexive DEF Below
<1>3. ASSUME NEW j \in Below(entries, i) PROVE j \in Below(entries, k)
  <2>1. j \in 1..Len(entries) /\ entries[j].path \in Seq(Nat)
    BY <1>3 DEF Below
  <2>2. PICK p \in Seq(Nat) : p = entries[j].path
    BY <2>1
  <2>3. PICK q \in Seq(Nat) : q = entries[i].path
    BY <1>1
  <2>4. PICK r \in Seq(Nat) : r = entries[k].path
    BY <1>1
  <2>5. PathLess(p, q) \/ (p = q /\ j < i)
    BY <1>3, <2>2, <2>3 DEF Below
  <2>6. PathLess(q, r) \/ (q = r /\ i < k)
    BY <2>3, <2>4 DEF Below
  <2>7. PathLess(p, q) /\ PathLess(q, r) => PathLess(p, r)
    BY PathLessTransitive
  <2>8. PathLess(p, r) \/ (p = r /\ j < k)
    <3>1. CASE p = q /\ q = r
      BY <2>1, <2>5, <2>6, <3>1, PathLessIrreflexive
    <3>2. CASE p # q \/ q # r
      BY <2>5, <2>6, <2>7, <3>2
    <3> QED  BY <3>1, <3>2
  <2> QED  BY <2>1, <2>2, <2>4, <2>8 DEF Below
<1> QED  BY <1>2, <1>3

\* Every rank from one to the number of entries belongs to exactly one entry.
LEMMA RankBijective ==
  ASSUME NEW entries, Len(entries) \in Nat,
         \A i \in 1..Len(entries) : entries[i].path \in Seq(Nat)
  PROVE  /\ \A i \in 1..Len(entries) : Rank(entries, i) \in 1..Len(entries)
         /\ \A i, k \in 1..Len(entries) : Rank(entries, i) = Rank(entries, k) => i = k
         /\ \A k \in 1..Len(entries) : \E i \in 1..Len(entries) : Rank(entries, i) = k
<1>1. PICK n \in Nat : n = Len(entries)
  OBVIOUS
<1>2. IsFiniteSet(1..n) /\ Cardinality(1..n) = n
  BY FS_Interval
<1>3. \A i \in 1..n : /\ Below(entries, i) \in SUBSET (1..n)
                      /\ IsFiniteSet(Below(entries, i))
                      /\ Cardinality(Below(entries, i)) \in Nat
                      /\ Rank(entries, i) = 1 + Cardinality(Below(entries, i))
  <2>1. \A i \in 1..n : Below(entries, i) \in SUBSET (1..n)
    BY <1>1 DEF Below
  <2>2. \A i \in 1..n : IsFiniteSet(Below(entries, i))
    BY <1>2, <2>1, FS_Subset
  <2>3. \A i \in 1..n : Cardinality(Below(entries, i)) \in Nat
    BY <2>2, FS_CardinalityType
  <2> QED  BY <2>1, <2>2, <2>3 DEF Rank, Below
<1>4. ASSUME NEW i \in 1..n, NEW k \in 1..n, i # k, Rank(entries, i) = Rank(entries, k)
      PROVE  FALSE
  <2>1. i \in Below(entries, k) \/ k \in Below(entries, i)
    <3>1. PICK p \in Seq(Nat) : p = entries[i].path
      BY <1>1
    <3>2. PICK q \in Seq(Nat) : q = entries[k].path
      BY <1>1
    <3>3. PathLess(p, q) \/ PathLess(q, p) \/ p = q
      BY PathLessTotal
    <3>4. i < k \/ k < i
      BY <1>4
    <3> QED  BY <1>1, <3>1, <3>2, <3>3, <3>4 DEF Below
  <2>2. ASSUME NEW x \in 1..n, NEW y \in 1..n, x \in Below(entries, y)
        PROVE  Rank(entries, x) # Rank(entries, y)
    <3>1. Below(entries, x) \in SUBSET Below(entries, y) /\ x \notin Below(entries, x)
      BY <1>1, <2>2, BelowOrdered
    <3>2. Below(entries, x) # Below(entries, y)
      BY <2>2, <3>1
    <3>3. Cardinality(Below(entries, x)) # Cardinality(Below(entries, y))
      BY <1>3, <3>1, <3>2, FS_Subset
    <3> QED  BY <1>3, <3>3
  <2> QED  BY <1>4, <2>1, <2>2
<1>5. \A i \in 1..n : Rank(entries, i) \in 1..n
  <2> SUFFICES ASSUME NEW i \in 1..n PROVE Rank(entries, i) \in 1..n
    OBVIOUS
  <2>1. i \notin Below(entries, i)
    <3>1. PICK p \in Seq(Nat) : p = entries[i].path
      BY <1>1
    <3> QED  BY <3>1, PathLessIrreflexive DEF Below
  <2>2. Cardinality(Below(entries, i)) <= n /\ Cardinality(Below(entries, i)) # n
    BY <1>2, <1>3, <2>1, FS_Subset
  <2> QED  BY <1>3, <2>2
<1>6. PICK f : f = [i \in 1..n |-> Rank(entries, i)]
  OBVIOUS
<1>7. f \in Injection(1..n, 1..n)
  <2>1. f \in [1..n -> 1..n]
    BY <1>5, <1>6
  <2>2. \A x, y \in 1..n : f[x] = f[y] => x = y
    BY <1>4, <1>6
  <2> QED  BY <2>1, <2>2 DEF Injection, IsInjective
<1>8. f \in Surjection(1..n, 1..n)
  BY <1>2, <1>7, FS_Injection
<1>9. \A k \in 1..n : \E i \in 1..n : Rank(entries, i) = k
  BY <1>6, <1>8 DEF Surjection
<1> QED  BY <1>1, <1>4, <1>5, <1>9

\* An entry before another has a smaller rank.
LEMMA RankOrdered ==
  ASSUME NEW entries, Len(entries) \in Nat,
         \A i \in 1..Len(entries) : entries[i].path \in Seq(Nat),
         NEW i \in 1..Len(entries), NEW k \in 1..Len(entries), PathLess(entries[i].path, entries[k].path)
  PROVE  Rank(entries, i) < Rank(entries, k)
<1>1. PICK n \in Nat : n = Len(entries)
  OBVIOUS
<1>2. IsFiniteSet(1..n)
  BY FS_Interval
<1>3. Below(entries, i) \in SUBSET (1..n) /\ Below(entries, k) \in SUBSET (1..n) /\ i \in Below(entries, k)
  BY <1>1 DEF Below
<1>4. IsFiniteSet(Below(entries, i)) /\ IsFiniteSet(Below(entries, k))
  BY <1>2, <1>3, FS_Subset
<1>5. Cardinality(Below(entries, i)) \in Nat /\ Cardinality(Below(entries, k)) \in Nat
  BY <1>4, FS_CardinalityType
<1>6. Below(entries, i) \in SUBSET Below(entries, k) /\ i \notin Below(entries, i)
  BY <1>3, BelowOrdered
<1>7. Cardinality(Below(entries, i)) <= Cardinality(Below(entries, k))
      /\ Cardinality(Below(entries, i)) # Cardinality(Below(entries, k))
  BY <1>3, <1>4, <1>6, FS_Subset
<1>8. Rank(entries, i) = 1 + Cardinality(Below(entries, i)) /\ Rank(entries, k) = 1 + Cardinality(Below(entries, k))
  BY DEF Rank, Below
<1> QED  BY <1>5, <1>7, <1>8

\* What is packed is in path order (sort_by).
LEMMA OrderedSorts ==
  ASSUME NEW S, NEW fs \in Seq(S), \A i \in 1..Len(fs) : fs[i].path \in Seq(Nat)
  PROVE  \A i, j \in 1..Len(fs) : i < j => ~PathLess(Ordered(fs)[j].path, Ordered(fs)[i].path)
<1> DEFINE n == Len(fs)
           orders == Bijection(1..n, 1..n)
           order == CHOOSE p \in orders : Sorts(p, fs) \/ \A q \in orders : ~Sorts(q, fs)
           at(k) == CHOOSE i \in 1..n : Rank(fs, i) = k
<1>12. Ordered(fs) = [i \in 1..n |-> fs[order[i]]]
  BY Zenon DEF Ordered
<1>1. n \in Nat /\ n = Len(fs)
  OBVIOUS
<1> HIDE DEF n
<1>2. PICK p : p = [k \in 1..n |-> at(k)]
  OBVIOUS
<1>3. /\ \A i \in 1..n : Rank(fs, i) \in 1..n
      /\ \A i, k \in 1..n : Rank(fs, i) = Rank(fs, k) => i = k
      /\ \A k \in 1..n : \E i \in 1..n : Rank(fs, i) = k
  BY <1>1, RankBijective
<1>4. \A k \in 1..n : p[k] \in 1..n /\ Rank(fs, p[k]) = k
  BY <1>2, <1>3
<1>5. \A i \in 1..n : Rank(fs, i) \in 1..n /\ p[Rank(fs, i)] = i
  BY <1>3, <1>4
<1>6. p \in [1..n -> 1..n]
  BY <1>2, <1>4
<1> HIDE DEF at
<1>7. p \in orders
  <2>1. \A i, k \in 1..n : p[i] = p[k] => i = k
    BY <1>4
  <2>2. \A i \in 1..n : \E k \in 1..n : p[k] = i
    BY <1>5
  <2> QED  BY <1>6, <2>1, <2>2 DEF Bijection, Injection, Surjection, IsInjective
<1>8. Sorts(p, fs)
  <2> SUFFICES ASSUME NEW i \in 1..n, NEW j \in 1..n, i < j, PathLess(fs[p[j]].path, fs[p[i]].path)  PROVE FALSE
    BY <1>1 DEF Sorts
  <2>1. Rank(fs, p[j]) < Rank(fs, p[i])
    BY <1>1, <1>4, RankOrdered
  <2> QED  BY <1>4, <2>1
<1>9. \E q \in orders : Sorts(q, fs)
  <2> HIDE DEF orders
  <2> QED  BY <1>7, <1>8, Zenon
<1>10. Sorts(order, fs)
  <2> HIDE DEF orders
  <2> QED  BY <1>9, Zenon
<1> HIDE DEF order
<1>13. \A i \in 1..n : Ordered(fs)[i] = fs[order[i]]
  BY <1>12
<1> QED  BY <1>1, <1>10, <1>13 DEF Sorts

-----------------------------------------------------------------------------
(* Sums and slices.                                                        *)

\* The sums of sizes up to each of the first n.
SummedUpTo(f, sizes, n) == f = [i \in 0..n |-> IF i = 0 THEN 0 ELSE f[i - 1] + sizes[i]]

\* The equation that defines them has a solution.
LEMMA SumsExist ==
  ASSUME NEW sizes, NEW n \in Nat
  PROVE  \E f : SummedUpTo(f, sizes, n)
<1> DEFINE S == {m \in Nat : ~\E f : SummedUpTo(f, sizes, m)}
<1> SUFFICES ASSUME S # {}  PROVE FALSE
  OBVIOUS
<1>1. PICK m \in S : \A j \in S : m <= j
  <2>1. S \subseteq Nat
    OBVIOUS
  <2> HIDE DEF S
  <2> QED  BY <2>1, Smallest
<1>2. m \in Nat /\ ~\E f : SummedUpTo(f, sizes, m)
  OBVIOUS
<1>3. m # 0
  <2> SUFFICES ASSUME m = 0  PROVE FALSE
    OBVIOUS
  <2> DEFINE f == [i \in 0..0 |-> 0]
  <2>1. f = [i \in 0..0 |-> IF i = 0 THEN 0 ELSE f[i - 1] + sizes[i]]
    OBVIOUS
  <2>2. SummedUpTo(f, sizes, 0)
    BY <2>1, Zenon DEF SummedUpTo
  <2> QED  BY <1>2, <2>2
<1>4. m - 1 \in Nat /\ m - 1 \notin S
  BY <1>1, <1>2, <1>3
<1>5. PICK f : SummedUpTo(f, sizes, m - 1)
  BY <1>4
<1> DEFINE With(i, v) == v + sizes[i]
           g == [i \in 0..m |-> IF i = m THEN With(m, f[m - 1]) ELSE f[i]]
<1>6. \A i \in 0..(m - 1) : f[i] = IF i = 0 THEN 0 ELSE With(i, f[i - 1])
  BY <1>5 DEF SummedUpTo
<1> HIDE DEF With, S
<1>7. \A i \in 0..m : g[i] = IF i = 0 THEN 0 ELSE With(i, g[i - 1])
  <2> SUFFICES ASSUME NEW i \in 0..m  PROVE g[i] = IF i = 0 THEN 0 ELSE With(i, g[i - 1])
    OBVIOUS
  <2>1. CASE i = m
    <3>1. g[m] = With(m, f[m - 1]) /\ g[m - 1] = f[m - 1]
      BY <1>2, <1>3
    <3> HIDE DEF g
    <3> QED  BY <1>3, <2>1, <3>1
  <2>2. CASE i # m
    <3>1. i \in 0..(m - 1) /\ g[i] = f[i]
      BY <1>2, <2>2
    <3>2. i # 0 => g[i - 1] = f[i - 1]
      BY <1>2, <3>1
    <3> HIDE DEF g
    <3> QED  BY <1>6, <3>1, <3>2
  <2> QED  BY <2>1, <2>2
<1>8. g = [i \in 0..m |-> IF i = 0 THEN 0 ELSE With(i, g[i - 1])]
  BY <1>7
<1>9. SummedUpTo(g, sizes, m)
  <2>1. PICK h : h = g
    OBVIOUS
  <2>2. h = [i \in 0..m |-> IF i = 0 THEN 0 ELSE With(i, h[i - 1])]
    BY <1>8, <2>1, Zenon
  <2> HIDE DEF g
  <2>3. SummedUpTo(h, sizes, m)
    BY <2>2, Zenon DEF SummedUpTo, With
  <2> QED  BY <2>1, <2>3
<1> QED  BY <1>2, <1>9

\* Total is the last of them.
LEMMA TotalIs ==
  ASSUME NEW sizes, NEW n \in Nat, Len(sizes) = n
  PROVE  \E f : SummedUpTo(f, sizes, n) /\ Total(sizes) = f[n]
<1> DEFINE all == CHOOSE f : f = [i \in 0..Len(sizes) |-> IF i = 0 THEN 0 ELSE f[i - 1] + sizes[i]]
<1>1. Total(sizes) = all[Len(sizes)]
  BY DEF Total
<1>2. \E f : SummedUpTo(f, sizes, Len(sizes))
  BY SumsExist
<1>3. SummedUpTo(all, sizes, Len(sizes))
  BY <1>2, Zenon DEF SummedUpTo
<1> HIDE DEF all
<1> QED  BY <1>1, <1>3

\* The total of natural numbers is one.
LEMMA TotalType ==
  ASSUME NEW sizes, NEW n \in Nat, Len(sizes) = n, \A i \in 1..n : sizes[i] \in Nat
  PROVE  Total(sizes) \in Nat
<1>1. PICK f : SummedUpTo(f, sizes, n) /\ Total(sizes) = f[n]
  BY TotalIs
<1>2. \A i \in 0..n : f[i] = IF i = 0 THEN 0 ELSE f[i - 1] + sizes[i]
  BY <1>1 DEF SummedUpTo
<1> DEFINE S == {i \in Nat : i \in 0..n /\ f[i] \notin Nat}
<1>3. S = {}
  <2> SUFFICES ASSUME S # {}  PROVE FALSE
    OBVIOUS
  <2>1. PICK m \in S : \A j \in S : m <= j
    <3>1. S \subseteq Nat
      OBVIOUS
    <3> HIDE DEF S
    <3> QED  BY <3>1, Smallest
  <2>2. m \in 0..n /\ f[m] \notin Nat
    OBVIOUS
  <2>3. m # 0
    BY <1>2, <2>2
  <2>4. m - 1 \in 0..n /\ m - 1 \in Nat /\ ~(m <= m - 1)
    BY <2>2, <2>3
  <2>5. m - 1 \notin S
    <3> HIDE DEF S
    <3> QED  BY <2>1, <2>4, Zenon
  <2>6. f[m - 1] \in Nat
    BY <2>4, <2>5
  <2>7. m \in 1..n /\ f[m] = f[m - 1] + sizes[m]
    BY <1>2, <2>2, <2>3
  <2> QED  BY <2>2, <2>6, <2>7
<1>4. n \in 0..n
  OBVIOUS
<1> QED  BY <1>1, <1>3, <1>4

\* Two such joinings of lists agree as far as the lists do.
LEMMA JoinsAgree ==
  ASSUME NEW f, NEW g, NEW s, NEW t, NEW n \in Nat, NEW m \in Nat, m <= n,
         JoinedUpTo(f, s, n), JoinedUpTo(g, t, m), \A i \in 1..m : s[i] = t[i]
  PROVE  \A i \in 1..m : f[i] = g[i]
<1> DEFINE With(i, v) == v \o s[i]
<1>1. \A i \in 1..n : f[i] = IF i = 1 THEN s[i] ELSE With(i, f[i - 1])
  BY DEF JoinedUpTo
<1>2. \A i \in 1..m : g[i] = IF i = 1 THEN s[i] ELSE With(i, g[i - 1])
  <2>1. \A i \in 1..m : g[i] = IF i = 1 THEN t[i] ELSE g[i - 1] \o t[i]
    BY DEF JoinedUpTo
  <2>2. \A i \in 1..m : s[i] = t[i]
    OBVIOUS
  <2> QED  BY <2>1, <2>2, Zenon
<1> HIDE DEF With
<1> DEFINE S == {i \in Nat : i \in 1..m /\ f[i] # g[i]}
<1>3. S = {}
  <2> SUFFICES ASSUME S # {}  PROVE FALSE
    OBVIOUS
  <2>1. PICK k \in S : \A j \in S : k <= j
    <3>1. S \subseteq Nat
      OBVIOUS
    <3> HIDE DEF S
    <3> QED  BY <3>1, Smallest
  <2>2. k \in 1..m /\ k \in 1..n /\ f[k] # g[k]
    OBVIOUS
  <2>3. k # 1
    BY <1>1, <1>2, <2>2
  <2>4. k - 1 \in 1..m /\ k - 1 \in Nat /\ ~(k <= k - 1)
    BY <2>2, <2>3
  <2>5. k - 1 \notin S
    <3> HIDE DEF S
    <3> QED  BY <2>1, <2>4, Zenon
  <2>6. f[k - 1] = g[k - 1]
    BY <2>4, <2>5
  <2> QED  BY <1>1, <1>2, <2>2, <2>3, <2>6
<1> QED  BY <1>3

\* The list long begins with short.
Begins(long, short) == Len(short) <= Len(long) /\ \A j \in 1..Len(short) : long[j] = short[j]

\* Joining: lists over T, each beginning with those before it.
LEMMA JoinsGrow ==
  ASSUME NEW T, NEW parts, NEW n \in Nat, NEW f, JoinedUpTo(f, parts, n), \A i \in 1..n : parts[i] \in Seq(T)
  PROVE  /\ \A i \in 1..n : f[i] \in Seq(T)
         /\ \A i \in 1..n : f[i] = IF i = 1 THEN parts[i] ELSE f[i - 1] \o parts[i]
         /\ \A i, k \in 1..n : i <= k => Begins(f[k], f[i])
<1> DEFINE With(i, v) == v \o parts[i]
<1>1. \A i \in 1..n : f[i] = IF i = 1 THEN parts[i] ELSE With(i, f[i - 1])
  BY DEF JoinedUpTo
<1>2. \A i \in 1..n, v \in Seq(T) : With(i, v) \in Seq(T)
  OBVIOUS
<1>3. \A i \in 1..n, v \in Seq(T) : Begins(With(i, v), v)
  <2> SUFFICES ASSUME NEW i \in 1..n, NEW v \in Seq(T)  PROVE Begins(With(i, v), v)
    OBVIOUS
  <2>1. PICK w \in Seq(T) : w = parts[i]
    OBVIOUS
  <2>2. Len(v \o w) = Len(v) + Len(w) /\ \A j \in 1..Len(v) : (v \o w)[j] = v[j]
    OBVIOUS
  <2>3. Len(v) \in Nat /\ Len(w) \in Nat
    OBVIOUS
  <2> QED  BY <2>1, <2>2, <2>3 DEF Begins
<1>4. \A i \in 1..n : f[i] = IF i = 1 THEN parts[i] ELSE f[i - 1] \o parts[i]
  BY <1>1
<1> HIDE DEF With
<1> DEFINE S == {i \in Nat : i \in 1..n /\ f[i] \notin Seq(T)}
<1>5. S = {}
  <2> SUFFICES ASSUME S # {}  PROVE FALSE
    OBVIOUS
  <2>1. PICK k \in S : \A j \in S : k <= j
    <3>1. S \subseteq Nat
      OBVIOUS
    <3> HIDE DEF S
    <3> QED  BY <3>1, Smallest
  <2>2. k \in 1..n /\ f[k] \notin Seq(T)
    OBVIOUS
  <2>3. k # 1
    BY <1>1, <2>2
  <2>4. k - 1 \in 1..n /\ k - 1 \in Nat /\ ~(k <= k - 1)
    BY <2>2, <2>3
  <2>5. k - 1 \notin S
    <3> HIDE DEF S
    <3> QED  BY <2>1, <2>4, Zenon
  <2>6. f[k - 1] \in Seq(T)
    BY <2>4, <2>5
  <2> QED  BY <1>1, <1>2, <2>2, <2>3, <2>6
<1>6. \A i \in 1..n : f[i] \in Seq(T)
  BY <1>5
<1> HIDE DEF S
<1>7. ASSUME NEW i \in 1..n  PROVE \A k \in 1..n : i <= k => Begins(f[k], f[i])
  <2> DEFINE U == {k \in Nat : k \in i..n /\ ~Begins(f[k], f[i])}
  <2>1. U = {}
    <3> SUFFICES ASSUME U # {}  PROVE FALSE
      OBVIOUS
    <3>1. PICK k \in U : \A j \in U : k <= j
      <4>1. U \subseteq Nat
        OBVIOUS
      <4> HIDE DEF U
      <4> QED  BY <4>1, Smallest
    <3>2. k \in i..n /\ ~Begins(f[k], f[i])
      OBVIOUS
    <3>3. k # i
      <4>1. Len(f[i]) \in Nat
        BY <1>6
      <4> QED  BY <3>2, <4>1 DEF Begins
    <3>4. k - 1 \in i..n /\ k - 1 \in Nat /\ ~(k <= k - 1) /\ k \in 1..n /\ k # 1 /\ k - 1 \in 1..n
      BY <3>2, <3>3
    <3>5. k - 1 \notin U
      <4> HIDE DEF U
      <4> QED  BY <3>1, <3>4, Zenon
    <3>6. Begins(f[k - 1], f[i])
      BY <3>4, <3>5
    <3>7. Begins(f[k], f[k - 1])
      BY <1>1, <1>3, <1>6, <3>4
    <3>8. Len(f[k]) \in Nat /\ Len(f[k - 1]) \in Nat /\ Len(f[i]) \in Nat
      BY <1>6, <3>4
    <3>9. Begins(f[k], f[i])
      <4>1. PICK a, b, c : a = f[k] /\ b = f[k - 1] /\ c = f[i]
        OBVIOUS
      <4>2. Begins(b, c) /\ Begins(a, b) /\ Len(a) \in Nat /\ Len(b) \in Nat /\ Len(c) \in Nat
        BY <3>6, <3>7, <3>8, <4>1
      <4>3. Begins(a, c)
        BY <4>2 DEF Begins
      <4> QED  BY <4>1, <4>3
    <3> QED  BY <3>2, <3>9
  <2> QED  BY <2>1
<1> QED  BY <1>4, <1>6, <1>7

\* The first i of the lists joined.
UpTo(parts, i) == FlattenSeq([k \in 1..i |-> parts[k]])

\* They are those of one joining.
LEMMA UpToIs ==
  ASSUME NEW parts, NEW n \in Nat, NEW f, JoinedUpTo(f, parts, n)
  PROVE  \A i \in 0..n : UpTo(parts, i) = IF i = 0 THEN <<>> ELSE f[i]
<1> SUFFICES ASSUME NEW i \in 0..n  PROVE UpTo(parts, i) = IF i = 0 THEN <<>> ELSE f[i]
  OBVIOUS
<1>1. PICK s : s = [k \in 1..i |-> parts[k]]
  OBVIOUS
<1>2. Len(s) = i /\ i \in Nat /\ i <= n /\ \A k \in 1..i : parts[k] = s[k]
  BY <1>1
<1>3. UpTo(parts, i) = FlattenSeq(s)
  BY <1>1 DEF UpTo
<1>4. CASE i = 0
  <2>1. s = <<>>
    BY <1>1, <1>4
  <2>2. FlattenSeq(s) = s
    BY <1>2, <1>4 DEF FlattenSeq
  <2> QED  BY <1>3, <1>4, <2>1, <2>2
<1>5. CASE i # 0
  <2>1. PICK g : JoinedUpTo(g, s, i) /\ FlattenSeq(s) = g[i]
    BY <1>2, <1>5, FlattenIs
  <2>2. \A k \in 1..i : f[k] = g[k]
    BY <1>2, <2>1, JoinsAgree
  <2>3. i \in 1..i
    BY <1>2, <1>5
  <2> QED  BY <1>3, <1>5, <2>1, <2>2, <2>3
<1> QED  BY <1>4, <1>5

\* The joined list holds each list at the place where the lists before it end.
LEMMA Slices ==
  ASSUME NEW T, NEW parts, NEW n \in Nat, parts = [i \in 1..n |-> parts[i]],
         \A i \in 1..n : parts[i] \in Seq(T)
  PROVE  /\ \A i \in 0..n : UpTo(parts, i) \in Seq(T)
         /\ UpTo(parts, 0) = <<>> /\ UpTo(parts, n) = FlattenSeq(parts)
         /\ \A i \in 1..n : /\ UpTo(parts, i) = UpTo(parts, i - 1) \o parts[i]
                            /\ Len(UpTo(parts, i)) = Len(UpTo(parts, i - 1)) + Len(parts[i])
                            /\ Begins(FlattenSeq(parts), UpTo(parts, i))
<1>1. PICK f : JoinedUpTo(f, parts, n)
  BY JoinsExist
<1>2. \A i \in 0..n : UpTo(parts, i) = IF i = 0 THEN <<>> ELSE f[i]
  BY <1>1, UpToIs
<1>3. /\ \A i \in 1..n : f[i] \in Seq(T)
      /\ \A i \in 1..n : f[i] = IF i = 1 THEN parts[i] ELSE f[i - 1] \o parts[i]
      /\ \A i, k \in 1..n : i <= k => Begins(f[k], f[i])
  BY <1>1, JoinsGrow
<1>4. UpTo(parts, n) = FlattenSeq(parts)
  BY Zenon DEF UpTo
<1>5. <<>> \in Seq(T)
  OBVIOUS
<1>6. \A i \in 0..n : UpTo(parts, i) \in Seq(T)
  <2> TAKE i \in 0..n
  <2>1. CASE i = 0
    BY <1>2, <1>5, <2>1
  <2>2. CASE i # 0
    <3>1. i \in 1..n /\ UpTo(parts, i) = f[i]
      BY <1>2, <2>2
    <3> QED  BY <1>3, <3>1
  <2> QED  BY <2>1, <2>2
<1>7. UpTo(parts, 0) = <<>>
  BY <1>2
<1>8. ASSUME NEW i \in 1..n
      PROVE  /\ UpTo(parts, i) = UpTo(parts, i - 1) \o parts[i]
             /\ Len(UpTo(parts, i)) = Len(UpTo(parts, i - 1)) + Len(parts[i])
             /\ Begins(FlattenSeq(parts), UpTo(parts, i))
  <2>1. PICK w \in Seq(T) : w = parts[i]
    OBVIOUS
  <2>2. i - 1 \in 0..n /\ i \in 0..n /\ n \in 1..n /\ n \in 0..n /\ i <= n
    OBVIOUS
  <2>3. PICK v \in Seq(T) : v = UpTo(parts, i - 1)
    BY <1>6, <2>2
  <2>4. UpTo(parts, i) = v \o w
    <3>1. CASE i = 1
      <4>1. v = <<>> /\ f[1] = w
        BY <1>3, <1>7, <2>1, <2>3, <3>1
      <4>2. <<>> \o w = w
        OBVIOUS
      <4> QED  BY <1>2, <2>2, <3>1, <4>1, <4>2
    <3>2. CASE i # 1
      <4>1. i - 1 # 0 /\ i - 1 \in 1..n
        BY <3>2
      <4>2. v = f[i - 1] /\ f[i] = v \o w
        BY <1>2, <1>3, <2>1, <2>2, <2>3, <3>2, <4>1
      <4>3. UpTo(parts, i) = f[i]
        BY <1>2, <2>2, <3>2
      <4> QED  BY <4>2, <4>3
    <3> QED  BY <3>1, <3>2
  <2>5. Len(v \o w) = Len(v) + Len(w)
    OBVIOUS
  <2>6. UpTo(parts, i) = f[i] /\ FlattenSeq(parts) = f[n]
    BY <1>2, <1>4, <2>2
  <2>7. Begins(f[n], f[i])
    BY <1>3, <2>2
  <2> QED  BY <2>1, <2>3, <2>4, <2>5, <2>6, <2>7
<1> QED  BY <1>4, <1>6, <1>7, <1>8

\* What comes after v in a list that begins with v and w.
LEMMA MiddleSlice ==
  ASSUME NEW T, NEW v \in Seq(T), NEW w \in Seq(T), NEW all \in Seq(T), Begins(all, v \o w)
  PROVE  /\ Len(v) + Len(w) <= Len(all)
         /\ SubSeq(all, Len(v) + 1, Len(v) + Len(w)) = w
<1>1. PICK a \in Nat, b \in Nat, c \in Nat : a = Len(v) /\ b = Len(w) /\ c = Len(all)
  OBVIOUS
<1>2. Len(v \o w) = Len(v) + Len(w) /\ \A j \in 1..Len(w) : (v \o w)[Len(v) + j] = w[j]
  OBVIOUS
<1>3. PICK u : u = v \o w
  OBVIOUS
<1>4. Len(u) = a + b /\ (\A j \in 1..b : u[a + j] = w[j]) /\ Begins(all, u)
  BY <1>1, <1>2, <1>3
<1>5. a + b <= c /\ \A j \in 1..(a + b) : all[j] = u[j]
  BY <1>1, <1>4 DEF Begins
<1>6. \A j \in 1..b : a + j \in 1..(a + b)
  OBVIOUS
<1>7. \A j \in 1..b : all[a + j] = w[j]
  BY <1>4, <1>5, <1>6
<1>8. \A j \in (a + 1)..(a + b) : all[j] \in T
  <2>1. \A j \in (a + 1)..(a + b) : j \in 1..c
    BY <1>5
  <2> QED  BY <1>1, <2>1
<1>9. PICK s : s = SubSeq(all, a + 1, a + b)
  OBVIOUS
<1>10. PICK x \in Int, y \in Int : x = a + 1 /\ y = a + b
  OBVIOUS
<1>11. /\ s \in Seq(T) /\ Len(s) = IF x <= y THEN y - x + 1 ELSE 0
       /\ \A j \in 1..(y - x + 1) : s[j] = all[x + j - 1]
  BY <1>8, <1>9, <1>10, SubSeqProperties
<1>12. y - x + 1 = b /\ (x <= y <=> b # 0) /\ \A j \in 1..b : x + j - 1 = a + j
  BY <1>10
<1>13. Len(s) = b /\ \A j \in 1..b : s[j] = all[a + j]
  BY <1>11, <1>12
<1>14. Len(s) = Len(w) /\ \A j \in 1..Len(s) : s[j] = w[j]
  BY <1>1, <1>7, <1>13
<1>15. s = w
  BY <1>11, <1>14, SeqEqual
<1> QED  BY <1>1, <1>5, <1>9, <1>15

\* The lengths of lists add up to the length of the lists joined.
LEMMA TotalLength ==
  ASSUME NEW T, NEW parts, NEW n \in Nat, parts = [i \in 1..n |-> parts[i]],
         \A i \in 1..n : parts[i] \in Seq(T), NEW m \in 0..n,
         NEW sizes, sizes = [k \in 1..m |-> sizes[k]], \A k \in 1..m : sizes[k] = Len(parts[k])
  PROVE  Total(sizes) = Len(UpTo(parts, m))
<1>1. Len(sizes) = m /\ m \in Nat
  OBVIOUS
<1>2. PICK f : SummedUpTo(f, sizes, m) /\ Total(sizes) = f[m]
  BY <1>1, TotalIs
<1>3. \A i \in 0..m : f[i] = IF i = 0 THEN 0 ELSE f[i - 1] + sizes[i]
  BY <1>2 DEF SummedUpTo
<1>4. /\ UpTo(parts, 0) = <<>>
      /\ \A i \in 1..n : Len(UpTo(parts, i)) = Len(UpTo(parts, i - 1)) + Len(parts[i])
  BY Slices
<1> DEFINE S == {i \in Nat : i \in 0..m /\ f[i] # Len(UpTo(parts, i))}
<1>5. S = {}
  <2> SUFFICES ASSUME S # {}  PROVE FALSE
    OBVIOUS
  <2>1. PICK k \in S : \A j \in S : k <= j
    <3>1. S \subseteq Nat
      OBVIOUS
    <3> HIDE DEF S
    <3> QED  BY <3>1, Smallest
  <2>2. k \in 0..m /\ f[k] # Len(UpTo(parts, k))
    OBVIOUS
  <2>3. k # 0
    <3>1. Len(UpTo(parts, 0)) = 0 /\ f[0] = 0
      <4>1. 0 \in 0..m
        BY <1>1
      <4>2. Len(<<>>) = 0
        OBVIOUS
      <4> QED  BY <1>3, <1>4, <4>1, <4>2
    <3> QED  BY <2>2, <3>1
  <2>4. k - 1 \in 0..m /\ k - 1 \in Nat /\ ~(k <= k - 1) /\ k \in 1..m /\ k \in 1..n
    BY <1>1, <2>2, <2>3
  <2>5. k - 1 \notin S
    <3> HIDE DEF S
    <3> QED  BY <2>1, <2>4, Zenon
  <2>6. f[k - 1] = Len(UpTo(parts, k - 1))
    BY <2>4, <2>5
  <2>7. sizes[k] = Len(parts[k])
    BY <2>4
  <2> QED  BY <1>3, <1>4, <2>2, <2>3, <2>4, <2>6, <2>7
<1>6. m \in 0..m
  BY <1>1
<1> QED  BY <1>1, <1>2, <1>5, <1>6

-----------------------------------------------------------------------------
(* The entries that pack makes.                                            *)

\* Files whose paths and contents are sequences of numbers.
PlainFiles(fs) ==
  (\E S : fs \in Seq(S)) /\ \A i \in 1..Len(fs) : fs[i].path \in Seq(Nat) /\ fs[i].bytes \in Seq(Nat)

\* The contents in path order.
Contents(fs) == [i \in 1..Len(fs) |-> Ordered(fs)[i].bytes]

\* Sorting is a permutation.
LEMMA OrderedBy ==
  ASSUME NEW S, NEW fs \in Seq(S)
  PROVE  \E p \in [1..Len(fs) -> 1..Len(fs)] :
           /\ \A i, k \in 1..Len(fs) : p[i] = p[k] => i = k
           /\ \A i \in 1..Len(fs) : Ordered(fs)[i] = fs[p[i]]
<1> DEFINE n == Len(fs)
           orders == Bijection(1..n, 1..n)
           order == CHOOSE p \in orders : Sorts(p, fs) \/ \A q \in orders : ~Sorts(q, fs)
<1>1. [i \in 1..n |-> i] \in orders
  BY DEF Bijection, Injection, Surjection, IsInjective
<1>2. \E p \in orders : Sorts(p, fs) \/ \A q \in orders : ~Sorts(q, fs)
  <2> HIDE DEF orders
  <2> QED  BY <1>1, Zenon
<1>3. order \in orders
  <2> HIDE DEF orders
  <2> QED  BY <1>2, Zenon
<1>4. order \in [1..n -> 1..n] /\ \A i, k \in 1..n : order[i] = order[k] => i = k
  BY <1>3 DEF Bijection, Injection, Surjection, IsInjective
<1>5. Ordered(fs) = [i \in 1..n |-> fs[order[i]]]
  BY Zenon DEF Ordered
<1> HIDE DEF order
<1>6. \A i \in 1..n : Ordered(fs)[i] = fs[order[i]]
  BY <1>5
<1> QED  BY <1>4, <1>6

\* An entry is made of its fields.
LEMMA EntryFields ==
  ASSUME NEW p, NEW x, NEW k, NEW o, NEW s, NEW d, NEW e,
         e = [path |-> p, defect |-> Passed, executable |-> x, kind |-> k, offset |-> o, size |-> s, digest |-> d]
  PROVE  e.path = p /\ e.defect = Passed /\ e.kind = k /\ e.offset = o /\ e.size = s /\ e.digest = d
OBVIOUS

\* The entries and the contents they stand for.
LEMMA PackedFields ==
  ASSUME NEW fs, PlainFiles(fs), NEW n, n = Len(fs), NEW e, e = PackedEntries(fs), NEW parts, parts = Contents(fs)
  PROVE  /\ n \in Nat /\ Len(e) = n /\ parts = [i \in 1..n |-> parts[i]]
         /\ \A i \in 1..n :
              /\ parts[i] \in Seq(Nat) /\ parts[i] = Ordered(fs)[i].bytes
              /\ e[i].path \in Seq(Nat) /\ e[i].path = Ordered(fs)[i].path /\ e[i].defect = Passed
              /\ e[i].kind = IF IsText(parts[i]) THEN "TextUtf8" ELSE "Binary"
              /\ e[i].offset = Len(UpTo(parts, i - 1)) /\ e[i].size = Len(parts[i])
              /\ e[i].digest = file_digest(parts[i])
         /\ Payload(fs) = FlattenSeq(parts)
<1>1. PICK S : fs \in Seq(S)
  BY DEF PlainFiles
<1>2. n \in Nat
  BY <1>1
<1>3. PICK p \in [1..n -> 1..n] : \A i \in 1..n : Ordered(fs)[i] = fs[p[i]]
  BY <1>1, OrderedBy
<1>4. PICK s : s = Ordered(fs)
  OBVIOUS
<1>5. Len(s) = n
  BY <1>1, <1>4, OrderedFiles
<1>6. parts = [i \in 1..n |-> s[i].bytes]
  BY <1>4, Zenon DEF Contents
<1>7. \A i \in 1..n : parts[i] = s[i].bytes /\ s[i].path \in Seq(Nat) /\ s[i].bytes \in Seq(Nat)
  <2> TAKE i \in 1..n
  <2>1. p[i] \in 1..Len(fs) /\ s[i] = fs[p[i]]
    BY <1>3, <1>4
  <2>2. fs[p[i]].path \in Seq(Nat) /\ fs[p[i]].bytes \in Seq(Nat)
    BY <2>1 DEF PlainFiles
  <2> QED  BY <1>6, <2>1, <2>2
<1> DEFINE o(i) == Len(FlattenSeq([k \in 1..(i - 1) |-> s[k].bytes]))
           kind(i) == IF IsText(s[i].bytes) THEN "TextUtf8" ELSE "Binary"
<1>8. e = [i \in 1..Len(s) |->
             [path |-> s[i].path, defect |-> Passed, executable |-> s[i].executable, kind |-> kind(i),
              offset |-> o(i), size |-> Len(s[i].bytes), digest |-> file_digest(s[i].bytes)]]
  BY <1>4, Zenon DEF PackedEntries
<1>9. \A i \in 1..n : o(i) = Len(UpTo(parts, i - 1))
  <2> TAKE i \in 1..n
  <2>1. \A k \in 1..(i - 1) : k \in 1..n
    BY <1>2
  <2>2. [k \in 1..(i - 1) |-> s[k].bytes] = [k \in 1..(i - 1) |-> parts[k]]
    BY <1>7, <2>1
  <2> QED  BY <2>2, Zenon DEF UpTo
<1> HIDE DEF o, kind
<1>10. \A i \in 1..n :
         e[i] = [path |-> s[i].path, defect |-> Passed, executable |-> s[i].executable, kind |-> kind(i),
                 offset |-> o(i), size |-> Len(s[i].bytes), digest |-> file_digest(s[i].bytes)]
  BY <1>5, <1>8
<1>11. \A i \in 1..n : /\ e[i].path = s[i].path /\ e[i].defect = Passed /\ e[i].kind = kind(i)
                       /\ e[i].offset = o(i) /\ e[i].size = Len(s[i].bytes) /\ e[i].digest = file_digest(s[i].bytes)
  <2> TAKE i \in 1..n
  <2>1. PICK p1, p2, p3, p4, p5, p6, x :
          /\ p1 = s[i].path /\ p2 = s[i].executable /\ p3 = kind(i) /\ p4 = o(i) /\ p5 = Len(s[i].bytes)
          /\ p6 = file_digest(s[i].bytes) /\ x = e[i]
    OBVIOUS
  <2>2. x = [path |-> p1, defect |-> Passed, executable |-> p2, kind |-> p3, offset |-> p4, size |-> p5, digest |-> p6]
    BY <1>10, <2>1, Zenon
  <2>3. x.path = p1 /\ x.defect = Passed /\ x.kind = p3 /\ x.offset = p4 /\ x.size = p5 /\ x.digest = p6
    BY <2>2, EntryFields
  <2> QED  BY <2>1, <2>3, Zenon
<1>12. Len(e) = n
  BY <1>2, <1>5, <1>8
<1>13. \A i \in 1..n : kind(i) = IF IsText(parts[i]) THEN "TextUtf8" ELSE "Binary"
  BY <1>7 DEF kind
<1>14. parts = [i \in 1..n |-> parts[i]]
  BY <1>6
<1>15. Payload(fs) = FlattenSeq(parts)
  BY Zenon DEF Payload, Contents
<1> QED  BY <1>2, <1>4, <1>7, <1>9, <1>11, <1>12, <1>13, <1>14, <1>15

\* The payload holds each file where its entry says.
LEMMA PackedSlices ==
  ASSUME NEW fs, PlainFiles(fs), NEW n, n = Len(fs), NEW e, e = PackedEntries(fs), NEW payload, payload = Payload(fs)
  PROVE  /\ payload \in Seq(Nat)
         /\ \A i \in 1..n :
              /\ e[i].offset \in Nat /\ e[i].size \in Nat /\ e[i].offset + e[i].size <= Len(payload)
              /\ e[i].digest = file_digest(Slice(payload, e[i]))
              /\ e[i].kind = "TextUtf8" => IsText(Slice(payload, e[i]))
         /\ \A i \in 1..n : e[i].offset = SizeBefore(e, i)
         /\ SizeBefore(e, n + 1) = Len(payload)
<1>1. PICK parts : parts = Contents(fs)
  OBVIOUS
<1>2. /\ n \in Nat /\ Len(e) = n /\ parts = [i \in 1..n |-> parts[i]]
      /\ \A i \in 1..n :
           /\ parts[i] \in Seq(Nat)
           /\ e[i].kind = IF IsText(parts[i]) THEN "TextUtf8" ELSE "Binary"
           /\ e[i].offset = Len(UpTo(parts, i - 1)) /\ e[i].size = Len(parts[i])
           /\ e[i].digest = file_digest(parts[i])
      /\ payload = FlattenSeq(parts)
  BY <1>1, PackedFields
<1>3. payload \in Seq(Nat) /\ UpTo(parts, n) = payload
  <2>1. UpTo(parts, n) \in Seq(Nat) /\ UpTo(parts, n) = FlattenSeq(parts)
    <3>1. n \in 0..n
      BY <1>2
    <3> QED  BY <1>2, <3>1, Slices
  <2> QED  BY <1>2, <2>1
<1>4. ASSUME NEW i \in 1..n
      PROVE  /\ e[i].offset \in Nat /\ e[i].size \in Nat /\ e[i].offset + e[i].size <= Len(payload)
             /\ Slice(payload, e[i]) = parts[i]
  <2>1. PICK a, b : a = Len(UpTo(parts, i - 1)) /\ b = Len(parts[i])
    OBVIOUS
  <2>2. /\ a \in Nat /\ b \in Nat /\ Len(payload) \in Nat /\ a + b <= Len(payload)
        /\ SubSeq(payload, a + 1, a + b) = parts[i]
    <3>1. \A j \in 1..n : parts[j] \in Seq(Nat)
      BY <1>2
    <3>2. n \in Nat /\ parts = [j \in 1..n |-> parts[j]] /\ payload = FlattenSeq(parts)
      BY <1>2
    <3>3. i - 1 \in 0..n
      BY <3>2
    <3>4. /\ UpTo(parts, i - 1) \in Seq(Nat) /\ UpTo(parts, i) = UpTo(parts, i - 1) \o parts[i]
          /\ Begins(FlattenSeq(parts), UpTo(parts, i))
      BY <3>1, <3>2, <3>3, Slices
    <3>5. PICK v \in Seq(Nat), w \in Seq(Nat) : v = UpTo(parts, i - 1) /\ w = parts[i]
      BY <3>1, <3>4
    <3>6. a = Len(v) /\ b = Len(w) /\ Begins(payload, v \o w) /\ payload \in Seq(Nat)
      BY <1>3, <2>1, <3>2, <3>4, <3>5, Zenon
    <3>7. Len(v) \in Nat /\ Len(w) \in Nat
      OBVIOUS
    <3>8. Len(payload) \in Nat
      BY <1>3
    <3>9. Len(v) + Len(w) <= Len(payload) /\ SubSeq(payload, Len(v) + 1, Len(v) + Len(w)) = w
      BY <3>6, MiddleSlice
    <3> QED  BY <3>5, <3>6, <3>7, <3>8, <3>9, Zenon
  <2>3. e[i].offset = a /\ e[i].size = b
    BY <1>2, <2>1
  <2>4. Slice(payload, e[i]) = IF a + b > Len(payload) THEN <<>> ELSE SubSeq(payload, a + 1, a + b)
    BY <2>3, Zenon DEF Slice
  <2>5. ~(a + b > Len(payload))
    BY <2>2
  <2> QED  BY <2>2, <2>3, <2>4, <2>5
<1>5. ASSUME NEW i \in 1..n
      PROVE  /\ e[i].digest = file_digest(Slice(payload, e[i]))
             /\ e[i].kind = "TextUtf8" => IsText(Slice(payload, e[i]))
  <2>1. Slice(payload, e[i]) = parts[i]
    BY <1>4
  <2>2. e[i].kind = (IF IsText(parts[i]) THEN "TextUtf8" ELSE "Binary") /\ e[i].digest = file_digest(parts[i])
    BY <1>2
  <2>3. "Binary" # "TextUtf8"
    OBVIOUS
  <2> QED  BY <2>1, <2>2, <2>3, Zenon
<1>6. ASSUME NEW m \in 0..n
      PROVE  SizeBefore(e, m + 1) = Len(UpTo(parts, m))
  <2>1. PICK sizes : sizes = [k \in 1..m |-> e[k].size]
    OBVIOUS
  <2>2. sizes = [k \in 1..m |-> sizes[k]] /\ \A k \in 1..m : sizes[k] = Len(parts[k])
    <3>1. \A k \in 1..m : k \in 1..n
      BY <1>2
    <3> QED  BY <1>2, <2>1, <3>1
  <2>3. Total(sizes) = Len(UpTo(parts, m))
    BY <1>2, <2>2, TotalLength
  <2>4. m + 1 - 1 = m
    BY <1>2
  <2>5. SizeBefore(e, m + 1) = Total([k \in 1..(m + 1 - 1) |-> e[k].size])
    BY DEF SizeBefore
  <2> QED  BY <2>1, <2>3, <2>4, <2>5
<1>7. ASSUME NEW i \in 1..n
      PROVE  e[i].offset = SizeBefore(e, i)
  <2>1. PICK m \in 0..n : m = i - 1
    BY <1>2
  <2>2. m + 1 = i
    BY <1>2, <2>1
  <2> QED  BY <1>2, <1>6, <2>1, <2>2
<1>8. SizeBefore(e, n + 1) = Len(payload)
  <2>1. n \in 0..n
    BY <1>2
  <2> QED  BY <1>3, <1>6, <2>1
<1> QED  BY <1>3, <1>4, <1>5, <1>7, <1>8

\* Without two files of one path the entries are in strict path order.
LEMMA PackedOrder ==
  ASSUME NEW fs, PlainFiles(fs), NEW n, n = Len(fs), NEW e, e = PackedEntries(fs),
         \A i, j \in 1..n : i < j => fs[i].path # fs[j].path
  PROVE  \A i \in 2..n : PathLess(e[i - 1].path, e[i].path)
<1>1. PICK S : fs \in Seq(S)
  BY DEF PlainFiles
<1>2. n \in Nat /\ \A i \in 1..n : e[i].path \in Seq(Nat) /\ e[i].path = Ordered(fs)[i].path
  BY PackedFields
<1>3. PICK p \in [1..n -> 1..n] : /\ \A i, k \in 1..n : p[i] = p[k] => i = k
                                  /\ \A i \in 1..n : Ordered(fs)[i] = fs[p[i]]
  <2>1. PICK p \in [1..Len(fs) -> 1..Len(fs)] : /\ \A i, k \in 1..Len(fs) : p[i] = p[k] => i = k
                                                /\ \A i \in 1..Len(fs) : Ordered(fs)[i] = fs[p[i]]
    BY <1>1, OrderedBy
  <2> QED  BY <2>1, Zenon
<1>4. \A i, j \in 1..n : i < j => ~PathLess(Ordered(fs)[j].path, Ordered(fs)[i].path)
  <2>1. \A i \in 1..Len(fs) : fs[i].path \in Seq(Nat)
    BY DEF PlainFiles
  <2> QED  BY <1>1, <2>1, OrderedSorts
<1> SUFFICES ASSUME NEW i \in 2..n  PROVE PathLess(e[i - 1].path, e[i].path)
  OBVIOUS
<1>5. i - 1 \in 1..n /\ i \in 1..n /\ i - 1 < i
  BY <1>2
<1>6. p[i - 1] \in 1..n /\ p[i] \in 1..n /\ p[i - 1] # p[i]
  BY <1>3, <1>5
<1>7. fs[p[i - 1]].path # fs[p[i]].path
  <2>1. PICK a \in 1..n, b \in 1..n : a = p[i - 1] /\ b = p[i]
    BY <1>6
  <2>2. a < b \/ b < a
    BY <1>2, <1>6, <2>1
  <2> QED  BY <2>1, <2>2
<1>8. PICK q \in Seq(Nat), r \in Seq(Nat) : q = e[i - 1].path /\ r = e[i].path
  BY <1>2, <1>5
<1>9. q # r
  <2>1. q = Ordered(fs)[i - 1].path /\ r = Ordered(fs)[i].path
    BY <1>2, <1>5, <1>8, Zenon
  <2>2. Ordered(fs)[i - 1] = fs[p[i - 1]] /\ Ordered(fs)[i] = fs[p[i]]
    BY <1>3, <1>5, Zenon
  <2> QED  BY <1>7, <2>1, <2>2, Zenon
<1>10. ~PathLess(r, q)
  BY <1>2, <1>4, <1>5, <1>8
<1>11. PathLess(q, r)
  BY <1>9, <1>10, PathLessTotal
<1> QED  BY <1>8, <1>11

-----------------------------------------------------------------------------
(* What pack may end with.                                                 *)

\* A list that fails decides before what follows it.
LEMMA FailsFirst ==
  ASSUME NEW l, NEW m, AllAvoid(l, {Passed}), AllAvoid(m, {Passed}), FirstError(l) # Passed
  PROVE  FirstError(l \o m) = FirstError(l)
<1>1. PICK S : l \in Seq(S)
  BY DEF AllAvoid
<1>2. PICK U : m \in Seq(U)
  BY DEF AllAvoid
<1>3. PICK T : T = S \cup U
  OBVIOUS
<1>4. l \in Seq(T) /\ m \in Seq(T)
  BY <1>1, <1>2, <1>3
<1>5. PICK p \in Nat, q \in Nat : p = Len(l) /\ q = Len(m)
  BY <1>4
<1>6. PICK n : n = l \o m
  OBVIOUS
<1>7. Len(n) = p + q /\ \A i \in 1..p : n[i] = l[i]
  BY <1>4, <1>5, <1>6
<1>8. Failing(l) # {} /\ Failing(l) \subseteq Nat
  BY <1>5 DEF FirstError, Failing
<1>9. PICK k \in Failing(l) : \A j \in Failing(l) : k <= j
  BY <1>8, Smallest
<1>10. k \in 1..p /\ l[k][1]
  BY <1>5, <1>9 DEF Failing
<1>11. Failing(l) \subseteq Failing(n) /\ \A j \in Failing(n) : j \in 1..p => j \in Failing(l)
  <2>1. \A i \in 1..p : i \in 1..(p + q)
    BY <1>5
  <2> QED  BY <1>5, <1>7, <2>1 DEF Failing
<1>12. Failing(n) \subseteq Nat /\ \A j \in Failing(n) : j >= 1
  BY <1>5, <1>7 DEF Failing
<1>13. \A j \in Failing(n) : k <= j
  <2> TAKE j \in Failing(n)
  <2>1. CASE j \in 1..p
    BY <1>9, <1>11, <2>1
  <2>2. CASE j \notin 1..p
    BY <1>5, <1>10, <1>12, <2>2
  <2> QED  BY <2>1, <2>2
<1>14. k = CHOOSE i \in Failing(l) : \A j \in Failing(l) : i <= j
  <2>1. \A i \in Failing(l) : (\A j \in Failing(l) : i <= j) => i = k
    BY <1>8, <1>9
  <2> QED  BY <1>9, <2>1
<1>15. k = CHOOSE i \in Failing(n) : \A j \in Failing(n) : i <= j
  <2>1. k \in Failing(n)
    BY <1>9, <1>11
  <2>2. \A i \in Failing(n) : (\A j \in Failing(n) : i <= j) => i = k
    BY <1>12, <1>13, <2>1
  <2> QED  BY <1>13, <2>1, <2>2
<1>16. FirstError(l) = l[k][2]
  BY <1>8, <1>14, Zenon DEF FirstError
<1>17. FirstError(n) = n[k][2]
  <2>1. Failing(n) # {}
    BY <1>8, <1>11
  <2> QED  BY <1>15, <2>1, Zenon DEF FirstError
<1> QED  BY <1>6, <1>7, <1>10, <1>16, <1>17

\* The error names of a capsule that is wrong are no passes.
LEMMA ErrorNames ==
  /\ Passed \notin SelfCheckErrors
  /\ \A e \in {"EmptyString", "StringTooLong", "SizeTooLarge", "FileCountTooLarge", "InputTooLarge", "Path",
               "TooManyFiles", "DuplicatePath", "FileTooLarge", "OutputTooLarge", "ManifestTooLarge",
               "Compression"} : e # Passed /\ e \notin SelfCheckErrors
  /\ \A e \in SelfCheckErrors : e # Passed
BY DEF SelfCheckErrors, Passed

\* Files of different paths within the limit of a file.
Packable(fs) ==
  /\ \A i, j \in 1..Len(fs) : i < j => fs[i].path # fs[j].path
  /\ \A i \in 1..Len(fs) : ~(Len(Ordered(fs)[i].bytes) > V1.max_single_file_bytes)

\* What pack checks of files before it encodes them finds whatever is wrong.
LEMMA FilesChecked ==
  ASSUME NEW fs, PlainFiles(fs), NEW l,
         l = << <<Len(fs) > V1.max_file_count, "TooManyFiles">>, reject_duplicates(fs) >> \o total_size(fs)
  PROVE  /\ AllAvoid(l, {Passed}) /\ AllAvoid(l, SelfCheckErrors)
         /\ FirstError(l) = Passed => Packable(fs)
<1>1. PICK a, b, d : /\ a = (Len(fs) > V1.max_file_count)
                     /\ b = (\E i, j \in 1..Len(fs) : i < j /\ fs[i].path = fs[j].path)
                     /\ d = << <<a, "TooManyFiles">>, <<b, "DuplicatePath">> >>
  OBVIOUS
<1>2. d = << <<Len(fs) > V1.max_file_count, "TooManyFiles">>, reject_duplicates(fs) >>
  BY <1>1, Zenon DEF reject_duplicates
<1>3. ASSUME NEW B, B = {Passed} \/ B = SelfCheckErrors  PROVE AllAvoid(d, B)
  <2>1. "TooManyFiles" \notin B /\ "DuplicatePath" \notin B
    BY <1>3, ErrorNames
  <2>2. Avoids(<<a, "TooManyFiles">>, B) /\ Avoids(<<b, "DuplicatePath">>, B)
    BY <2>1, AvoidCheck
  <2> QED  BY <1>1, <2>2, TwoAvoid
<1>4. PICK S : fs \in Seq(S)
  BY DEF PlainFiles
<1>5. PICK n \in Nat : n = Len(fs)
  BY <1>4
<1>6. PICK s : s = Ordered(fs)
  OBVIOUS
<1>7. Len(s) = n
  BY <1>4, <1>5, <1>6, OrderedFiles
<1> DEFINE x(i) == Len(s[i].bytes) > V1.max_single_file_bytes
           y(i) == Len(FlattenSeq([k \in 1..i |-> s[k].bytes])) > V1.max_uncompressed_payload_bytes
           each(i) == << <<x(i), "FileTooLarge">>, <<y(i), "OutputTooLarge">> >>
<1>8. total_size(fs) = FlattenSeq([i \in 1..n |-> each(i)])
  BY <1>6, <1>7, Zenon DEF total_size
<1>9. PICK t : t = [i \in 1..n |-> each(i)]
  OBVIOUS
<1> HIDE DEF x, y
<1>10. t = [i \in 1..n |-> t[i]] /\ Len(t) = n /\ \A i \in 1..n : t[i] = each(i)
  BY <1>5, <1>9
<1>11. ASSUME NEW B, B = {Passed} \/ B = SelfCheckErrors, NEW i \in 1..n  PROVE AllAvoid(t[i], B)
  <2>1. "FileTooLarge" \notin B /\ "OutputTooLarge" \notin B
    BY <1>11, ErrorNames
  <2>2. Avoids(<<x(i), "FileTooLarge">>, B) /\ Avoids(<<y(i), "OutputTooLarge">>, B)
    BY <2>1, AvoidCheck
  <2>3. AllAvoid(each(i), B)
    BY <2>2, TwoAvoid
  <2> QED  BY <1>10, <2>3
<1>12. total_size(fs) = FlattenSeq(t)
  BY <1>8, <1>9
<1>13. ASSUME NEW B, B = {Passed} \/ B = SelfCheckErrors  PROVE AllAvoid(total_size(fs), B)
  BY <1>10, <1>11, <1>12, <1>13, FlattenAvoids
<1>14. AllAvoid(l, {Passed}) /\ AllAvoid(l, SelfCheckErrors)
  BY <1>2, <1>3, <1>13, BothAvoid
<1>15. ASSUME FirstError(l) = Passed  PROVE Packable(fs)
  <2>1. FirstError(d) = Passed /\ FirstError(FlattenSeq(t)) = Passed
    BY <1>2, <1>3, <1>12, <1>13, <1>15, BothPass
  <2>2. ~b
    <3>1. d[2][1] = b /\ 2 \in 1..Len(d)
      BY <1>1
    <3>2. AllAvoid(d, {Passed})
      BY <1>3
    <3> QED  BY <2>1, <3>1, <3>2, NoneFailing
  <2>3. \A i \in 1..n : ~x(i)
    <3>1. \A i \in 1..n : FirstError(t[i]) = Passed
      BY <1>10, <1>11, <2>1, FlattenPasses
    <3> TAKE i \in 1..n
    <3>2. FirstError(each(i)) = Passed /\ AllAvoid(each(i), {Passed})
      BY <1>10, <1>11, <3>1
    <3>3. each(i)[1][1] = x(i) /\ 1 \in 1..Len(each(i))
      OBVIOUS
    <3> HIDE DEF each
    <3> QED  BY <3>2, <3>3, NoneFailing
  <2> QED  BY <1>1, <1>5, <1>6, <2>2, <2>3 DEF Packable, x
<1> QED  BY <1>14, <1>15

\* The entries of packable files are in order and contiguous (validate_entries).
LEMMA EntriesValid ==
  ASSUME NEW fs, PlainFiles(fs), Packable(fs), NEW n, n = Len(fs), NEW e, e = PackedEntries(fs)
  PROVE  /\ n \in Nat /\ Len(e) = n
         /\ \A i \in 1..n :
              /\ ~(i > 1 /\ ~PathLess(e[IF i > 1 THEN i - 1 ELSE 1].path, e[i].path))
              /\ e[i].offset = SizeBefore(e, i)
              /\ ~(e[i].size > V1.max_single_file_bytes)
<1>1. PICK parts : parts = Contents(fs)
  OBVIOUS
<1>2. /\ n \in Nat /\ Len(e) = n
      /\ \A i \in 1..n : parts[i] = Ordered(fs)[i].bytes /\ e[i].size = Len(parts[i])
  BY <1>1, PackedFields
<1>3. \A i \in 1..n : e[i].offset = SizeBefore(e, i)
  BY PackedSlices
<1>4. \A i \in 1..n : ~(Len(Ordered(fs)[i].bytes) > V1.max_single_file_bytes)
  BY DEF Packable
<1>5. \A i \in 1..n : ~(e[i].size > V1.max_single_file_bytes)
  BY <1>2, <1>4
<1>6. \A i \in 2..n : PathLess(e[i - 1].path, e[i].path)
  <2>1. \A i, j \in 1..n : i < j => fs[i].path # fs[j].path
    BY DEF Packable
  <2> QED  BY <2>1, PackedOrder
<1>7. ASSUME NEW i \in 1..n, i > 1  PROVE PathLess(e[IF i > 1 THEN i - 1 ELSE 1].path, e[i].path)
  <2>1. i \in 2..n
    BY <1>2, <1>7
  <2>2. (IF i > 1 THEN i - 1 ELSE 1) = i - 1
    BY <1>7
  <2>3. PathLess(e[i - 1].path, e[i].path)
    BY <1>6, <2>1
  <2> QED  BY <2>2, <2>3, Zenon
<1> QED  BY <1>2, <1>3, <1>5, <1>7

\* The checks of validate_entries, whatever the entries.
EntryChecks(e, i) ==
  << <<i > 1 /\ ~PathLess(e[IF i > 1 THEN i - 1 ELSE 1].path, e[i].path), "NonCanonicalPathOrder">>,
     <<e[i].offset # SizeBefore(e, i) \/ e[i].size > V1.max_single_file_bytes, "NonContiguousPayload">> >>

\* They have errors to report.
LEMMA EntryErrorsNamed ==
  ASSUME NEW e, Len(e) \in Nat
  PROVE  AllAvoid(validate_entries(e), {Passed})
<1>1. PICK n \in Nat : n = Len(e)
  OBVIOUS
<1>2. PICK t : t = [i \in 1..n |-> EntryChecks(e, i)]
  OBVIOUS
<1>3. validate_entries(e) = FlattenSeq(t)
  BY <1>1, <1>2, Zenon DEF validate_entries, EntryChecks
<1>4. t = [i \in 1..n |-> t[i]] /\ Len(t) = n /\ \A i \in 1..n : t[i] = EntryChecks(e, i)
  BY <1>2
<1>5. \A i \in 1..n : AllAvoid(t[i], {Passed})
  <2> TAKE i \in 1..n
  <2>1. PICK a, b : /\ a = (i > 1 /\ ~PathLess(e[IF i > 1 THEN i - 1 ELSE 1].path, e[i].path))
                    /\ b = (e[i].offset # SizeBefore(e, i) \/ e[i].size > V1.max_single_file_bytes)
    OBVIOUS
  <2>2. EntryChecks(e, i) = << <<a, "NonCanonicalPathOrder">>, <<b, "NonContiguousPayload">> >>
    BY <2>1, Zenon DEF EntryChecks
  <2>3. "NonCanonicalPathOrder" \notin {Passed} /\ "NonContiguousPayload" \notin {Passed}
    BY DEF Passed
  <2>4. Avoids(<<a, "NonCanonicalPathOrder">>, {Passed}) /\ Avoids(<<b, "NonContiguousPayload">>, {Passed})
    BY <2>3, AvoidCheck
  <2>5. AllAvoid(<< <<a, "NonCanonicalPathOrder">>, <<b, "NonContiguousPayload">> >>, {Passed})
    BY <2>4, TwoAvoid
  <2> QED  BY <1>4, <2>2, <2>5
<1> QED  BY <1>3, <1>4, <1>5, FlattenAvoids

\* Entries of packable files report none of the errors.
LEMMA EntriesAvoid ==
  ASSUME NEW fs, PlainFiles(fs), Packable(fs), NEW B
  PROVE  AllAvoid(validate_entries(PackedEntries(fs)), B)
<1>1. PICK e : e = PackedEntries(fs)
  OBVIOUS
<1>2. PICK n : n = Len(fs)
  OBVIOUS
<1>3. /\ n \in Nat /\ Len(e) = n
      /\ \A i \in 1..n :
              /\ ~(i > 1 /\ ~PathLess(e[IF i > 1 THEN i - 1 ELSE 1].path, e[i].path))
              /\ e[i].offset = SizeBefore(e, i)
              /\ ~(e[i].size > V1.max_single_file_bytes)
  BY <1>1, <1>2, EntriesValid
<1>4. PICK t : t = [i \in 1..n |-> EntryChecks(e, i)]
  OBVIOUS
<1>5. validate_entries(e) = FlattenSeq(t)
  BY <1>3, <1>4, Zenon DEF validate_entries, EntryChecks
<1>6. t = [i \in 1..n |-> t[i]] /\ Len(t) = n /\ \A i \in 1..n : t[i] = EntryChecks(e, i)
  BY <1>3, <1>4
<1>7. \A i \in 1..n : AllAvoid(t[i], B)
  <2> TAKE i \in 1..n
  <2>1. PICK a, b : /\ a = (i > 1 /\ ~PathLess(e[IF i > 1 THEN i - 1 ELSE 1].path, e[i].path))
                    /\ b = (e[i].offset # SizeBefore(e, i) \/ e[i].size > V1.max_single_file_bytes)
    OBVIOUS
  <2>2. EntryChecks(e, i) = << <<a, "NonCanonicalPathOrder">>, <<b, "NonContiguousPayload">> >>
    BY <2>1, Zenon DEF EntryChecks
  <2>3. ~a /\ ~b
    BY <1>3, <2>1, Zenon
  <2>4. Avoids(<<a, "NonCanonicalPathOrder">>, B) /\ Avoids(<<b, "NonContiguousPayload">>, B)
    BY <2>3, AvoidCheck
  <2>5. AllAvoid(<< <<a, "NonCanonicalPathOrder">>, <<b, "NonContiguousPayload">> >>, B)
    BY <2>4, TwoAvoid
  <2> QED  BY <1>6, <2>2, <2>5
<1> QED  BY <1>1, <1>3, <1>5, <1>6, <1>7, FlattenAvoids

\* pack never ends with an error of a capsule that is wrong, and packs only
\* files of different paths within their limit.
LEMMA PackAvoids ==
  ASSUME NEW fs, PlainFiles(fs), NEW o, NEW zsize
  PROVE  /\ PackError(fs, o, zsize) \notin SelfCheckErrors
         /\ PackError(fs, o, zsize) = Passed => Packable(fs)
<1>1. PICK u : u = Packed(fs, o, zsize)
  OBVIOUS
<1>2. u.manifest.files = PackedEntries(fs)
  BY <1>1, Zenon DEF Packed
<1>3. Len(PackedEntries(fs)) \in Nat
  BY PackedFields
<1>4. PICK l, m, a, b, d :
        /\ l = << <<Len(fs) > V1.max_file_count, "TooManyFiles">>, reject_duplicates(fs) >> \o total_size(fs)
        /\ m = validate_entries(PackedEntries(fs))
        /\ a = (ManifestSize(u.manifest) > V1.max_manifest_bytes)
        /\ b = (CompressError(Payload(fs), o.compression, <<>>, zsize, V1) # Passed)
        /\ d = << <<a, "ManifestTooLarge">>, <<b, "Compression">> >>
  OBVIOUS
<1>5. PackError(fs, o, zsize) = FirstError(l \o m \o d)
  BY <1>1, <1>2, <1>4, Zenon DEF PackError
<1>6. AllAvoid(l, {Passed}) /\ AllAvoid(l, SelfCheckErrors) /\ (FirstError(l) = Passed => Packable(fs))
  BY <1>4, FilesChecked
<1>7. AllAvoid(m, {Passed})
  BY <1>3, <1>4, EntryErrorsNamed
<1>8. ASSUME NEW B, B = {Passed} \/ B = SelfCheckErrors  PROVE AllAvoid(d, B)
  <2>1. "ManifestTooLarge" \notin B /\ "Compression" \notin B
    BY <1>8, ErrorNames
  <2>2. Avoids(<<a, "ManifestTooLarge">>, B) /\ Avoids(<<b, "Compression">>, B)
    BY <2>1, AvoidCheck
  <2> QED  BY <1>4, <2>2, TwoAvoid
<1>9. AllAvoid(d, {Passed}) /\ AllAvoid(d, SelfCheckErrors)
  BY <1>8
<1>10. /\ AllAvoid(l \o m, {Passed})
       /\ FirstError(l \o m) = Passed => FirstError(l) = Passed
  BY <1>6, <1>7, BothPass
<1>11. CASE FirstError(l) = Passed
  <2>1. AllAvoid(m, SelfCheckErrors)
    BY <1>4, <1>6, <1>11, EntriesAvoid
  <2>2. AllAvoid(l \o m, SelfCheckErrors)
    BY <1>6, <2>1, BothAvoid
  <2>3. AllAvoid(l \o m \o d, SelfCheckErrors)
    BY <1>9, <2>2, BothAvoid
  <2>4. Passed \notin SelfCheckErrors
    BY ErrorNames
  <2>5. FirstError(l \o m \o d) \notin SelfCheckErrors
    BY <2>3, <2>4, ErrorAvoids
  <2> QED  BY <1>5, <1>6, <1>11, <2>5
<1>12. CASE FirstError(l) # Passed
  <2>1. FirstError(l \o m) = FirstError(l)
    BY <1>6, <1>7, <1>12, FailsFirst
  <2>2. FirstError(l \o m \o d) = FirstError(l)
    BY <1>9, <1>10, <1>12, <2>1, FailsFirst
  <2>3. FirstError(l) \notin SelfCheckErrors
    BY <1>6, ErrorAvoids, ErrorNames
  <2> QED  BY <1>5, <1>12, <2>2, <2>3
<1> QED  BY <1>11, <1>12

-----------------------------------------------------------------------------
(* What the capsule that pack signs is refused for.                        *)

\* The fields of a signed capsule (sign_capsule).
LEMMA SealedFields ==
  ASSUME NEW fs, NEW o, NEW zsize, NEW key, NEW c, c = sign_capsule(Packed(fs, o, zsize), key)
  PROVE  /\ c.header.defect = Passed /\ c.header.compression = o.compression
         /\ c.header.manifest_size = ManifestSize(c.manifest)
         /\ c.header.compressed_payload_size = c.stored.size
         /\ c.header.uncompressed_payload_size = Len(Payload(fs))
         /\ c.header.file_count = Len(c.manifest.files)
         /\ c.header.publisher_key_id = key_id(key)
         /\ c.manifest.files = PackedEntries(fs) /\ c.manifest.defect = Passed /\ c.manifest.trailing = 0
         /\ c.manifest.name = o.name /\ c.manifest.description = o.description
         /\ c.manifest.producer = o.producer /\ c.manifest.version = o.version
         /\ c.stored = Encoded(Payload(fs), o.compression, <<>>, zsize)
         /\ c.trailing = 0
         /\ c.digest = capsule_digest(c.header, c.manifest, c.stored)
         /\ c.signature = Sign(key, signature_message(c.digest))
<1>1. PICK u : u = Packed(fs, o, zsize)
  OBVIOUS
<1>2. PICK x, y, z, v, w, p, q : /\ x = PackedEntries(fs) /\ y = Encoded(Payload(fs), o.compression, <<>>, zsize)
                     /\ z = Len(Payload(fs)) /\ v = o.name /\ w = o.description /\ p = o.producer /\ q = o.version
  OBVIOUS
<1>3. u = [manifest |-> [defect |-> Passed, name |-> v, description |-> w,
                         producer |-> p, version |-> q, files |-> x, trailing |-> 0],
           stored |-> y, size |-> z, compression |-> o.compression]
  BY <1>1, <1>2, Zenon DEF Packed
<1>4. /\ u.manifest.files = x /\ u.manifest.defect = Passed /\ u.manifest.trailing = 0
      /\ u.manifest.name = v /\ u.manifest.description = w /\ u.manifest.producer = p /\ u.manifest.version = q
      /\ u.stored = y /\ u.size = z /\ u.compression = o.compression
  BY <1>3
<1>5. PICK m, s, a, b, f, k : /\ m = u.manifest /\ s = u.stored /\ a = ManifestSize(m) /\ b = s.size
                              /\ f = Len(m.files) /\ k = key_id(key)
  OBVIOUS
<1>6. PICK h : h = [defect |-> Passed, compression |-> o.compression, manifest_size |-> a,
                    compressed_payload_size |-> b, uncompressed_payload_size |-> z, file_count |-> f,
                    publisher_key_id |-> k]
  OBVIOUS
<1>7. /\ h.defect = Passed /\ h.compression = o.compression /\ h.manifest_size = a
      /\ h.compressed_payload_size = b /\ h.uncompressed_payload_size = z /\ h.file_count = f
      /\ h.publisher_key_id = k
  BY <1>6
<1>8. PICK r : r = [header |-> h, manifest |-> m, stored |-> s, digest |-> <<>>, signature |-> <<>>, trailing |-> 0]
  OBVIOUS
<1>9. c = Seal(r, key)
  BY <1>1, <1>4, <1>5, <1>6, <1>8, Zenon DEF sign_capsule
<1>10. PICK d, g : d = capsule_digest(h, m, s) /\ g = Sign(key, signature_message(d))
  OBVIOUS
<1>11. r.header = h /\ r.manifest = m /\ r.stored = s
  BY <1>8
<1>12. c = [r EXCEPT !.digest = d, !.signature = g]
  BY <1>9, <1>10, <1>11, Zenon DEF Seal
<1>13. c.header = h /\ c.manifest = m /\ c.stored = s /\ c.trailing = 0 /\ c.digest = d /\ c.signature = g
  BY <1>8, <1>12
<1>14. /\ c.header.defect = Passed /\ c.header.compression = o.compression
       /\ c.header.manifest_size = ManifestSize(c.manifest)
       /\ c.header.compressed_payload_size = c.stored.size
       /\ c.header.uncompressed_payload_size = Len(Payload(fs))
       /\ c.header.file_count = Len(c.manifest.files)
       /\ c.header.publisher_key_id = key_id(key)
  BY <1>2, <1>5, <1>7, <1>13, Zenon
<1>15. /\ c.manifest.files = PackedEntries(fs) /\ c.manifest.defect = Passed /\ c.manifest.trailing = 0
       /\ c.manifest.name = o.name /\ c.manifest.description = o.description
       /\ c.manifest.producer = o.producer /\ c.manifest.version = o.version
       /\ c.stored = Encoded(Payload(fs), o.compression, <<>>, zsize)
  BY <1>2, <1>4, <1>5, <1>13, Zenon
<1>16. /\ c.trailing = 0
       /\ c.digest = capsule_digest(c.header, c.manifest, c.stored)
       /\ c.signature = Sign(key, signature_message(c.digest))
  BY <1>10, <1>13, Zenon
<1> QED  BY <1>14, <1>15, <1>16, Zenon

\* Options with texts.
PlainOptions(o) == o.producer \in Seq(Nat) /\ {o.name, o.description, o.version} \subseteq Seq(Seq(Nat))

\* The size of a text that may be absent.
LEMMA OptionSizeNat ==
  ASSUME NEW t \in Seq(Seq(Nat))
  PROVE  OptionSize(t) \in Nat
<1>1. CASE t = <<>>
  BY <1>1 DEF OptionSize
<1>2. CASE t # <<>>
  <2>1. t[1] \in Seq(Nat)
    BY <1>2
  <2>2. Len(t[1]) \in Nat
    BY <2>1
  <2> QED  BY <1>2, <2>2 DEF OptionSize
<1> QED  BY <1>1, <1>2

\* The manifest of packed files has a size.
LEMMA ManifestSizeNat ==
  ASSUME NEW fs, PlainFiles(fs), NEW o, PlainOptions(o), NEW m, m.files = PackedEntries(fs), m.trailing = 0,
         m.name = o.name, m.description = o.description, m.producer = o.producer, m.version = o.version
  PROVE  ManifestSize(m) \in Nat
<1>1. PICK e, n, parts : e = PackedEntries(fs) /\ n = Len(fs) /\ parts = Contents(fs)
  OBVIOUS
<1>2. n \in Nat /\ Len(e) = n /\ \A i \in 1..n : e[i].path \in Seq(Nat)
  BY <1>1, PackedFields
<1>3. PICK sizes : sizes = [i \in 1..n |-> EntrySize(e[i])]
  OBVIOUS
<1>4. Len(sizes) = n /\ \A i \in 1..n : sizes[i] \in Nat
  <2>1. \A i \in 1..n : EntrySize(e[i]) \in Nat
    <3> TAKE i \in 1..n
    <3>1. PICK p : p = e[i].path
      OBVIOUS
    <3>2. Len(p) \in Nat
      BY <1>2, <3>1
    <3> QED  BY <3>1, <3>2 DEF EntrySize
  <2> QED  BY <1>2, <1>3, <2>1
<1>5. Total(sizes) \in Nat
  BY <1>2, <1>4, TotalType
<1>6. OptionSize(o.name) \in Nat /\ OptionSize(o.description) \in Nat /\ OptionSize(o.version) \in Nat
  BY OptionSizeNat DEF PlainOptions
<1>7. Len(o.producer) \in Nat
  BY DEF PlainOptions
<1>8. PICK a, b, d, f, g : /\ a = OptionSize(o.name) /\ b = OptionSize(o.description) /\ d = OptionSize(o.version)
                           /\ f = Len(o.producer) /\ g = Total(sizes)
  OBVIOUS
<1>9. ManifestSize(m) = 1 + a + b + f + d + g + 0
  BY <1>1, <1>2, <1>3, <1>8, Zenon DEF ManifestSize
<1>10. a \in Nat /\ b \in Nat /\ d \in Nat /\ f \in Nat /\ g \in Nat
  BY <1>5, <1>6, <1>7, <1>8
<1> QED  BY <1>9, <1>10

\* A capsule that pack signs.
Sealed(c, fs, o, zsize, key) ==
  /\ PlainFiles(fs) /\ Packable(fs) /\ PlainOptions(o) /\ zsize \in Nat
  /\ c = sign_capsule(Packed(fs, o, zsize), key)

\* Its sizes are numbers, and its payload is the one that was packed.
LEMMA SealedSizes ==
  ASSUME NEW fs, NEW o, NEW zsize, NEW key, NEW c, Sealed(c, fs, o, zsize, key)
  PROVE  /\ ManifestSize(c.manifest) \in Nat /\ c.stored.size \in Nat /\ Len(Payload(fs)) \in Nat
         /\ DecodedBytes(c.stored, c.header.compression) = Payload(fs)
         /\ Len(c.manifest.files) = Len(fs) /\ Len(fs) \in Nat
         /\ SizeBefore(c.manifest.files, Len(c.manifest.files) + 1) = Len(Payload(fs))
<1>0. PlainFiles(fs) /\ PlainOptions(o) /\ zsize \in Nat /\ c = sign_capsule(Packed(fs, o, zsize), key)
  BY DEF Sealed
<1>1. /\ c.header.compression = o.compression /\ c.manifest.files = PackedEntries(fs) /\ c.manifest.trailing = 0
      /\ c.manifest.name = o.name /\ c.manifest.description = o.description
      /\ c.manifest.producer = o.producer /\ c.manifest.version = o.version
      /\ c.stored = Encoded(Payload(fs), o.compression, <<>>, zsize)
  BY <1>0, SealedFields
<1>2. ManifestSize(c.manifest) \in Nat
  <2>1. PICK m : m = c.manifest
    OBVIOUS
  <2>2. /\ m.files = PackedEntries(fs) /\ m.trailing = 0 /\ m.name = o.name /\ m.description = o.description
        /\ m.producer = o.producer /\ m.version = o.version
    BY <1>1, <2>1
  <2>3. ManifestSize(m) \in Nat
    BY <1>0, <2>2, ManifestSizeNat
  <2> QED  BY <2>1, <2>3
<1>3. PICK n, e, p : n = Len(fs) /\ e = PackedEntries(fs) /\ p = Payload(fs)
  OBVIOUS
<1>4. n \in Nat /\ Len(e) = n
  <2>1. PICK parts : parts = Contents(fs)
    OBVIOUS
  <2> QED  BY <1>0, <1>3, <2>1, PackedFields
<1>5. p \in Seq(Nat) /\ SizeBefore(e, n + 1) = Len(p)
  BY <1>0, <1>3, PackedSlices
<1>6. Len(p) \in Nat
  BY <1>5
<1>7. /\ o.compression = "None" => c.stored = Raw(p)
      /\ o.compression # "None" => c.stored = Frame(p, <<>>, zsize)
  BY <1>1, <1>3, Zenon DEF Encoded
<1>8. c.stored.size \in Nat /\ DecodedBytes(c.stored, o.compression) = p
  <2>1. CASE o.compression = "None"
    <3>1. c.stored.form = "raw" /\ c.stored.data = p /\ c.stored.size = Len(p)
      BY <1>7, <2>1 DEF Raw
    <3> QED  BY <1>6, <2>1, <3>1, Zenon DEF DecodedBytes, BytesOf
  <2>2. CASE o.compression # "None"
    <3>1. c.stored.data = p /\ c.stored.size = zsize
      BY <1>7, <2>2 DEF Frame
    <3> QED  BY <1>0, <2>2, <3>1, Zenon DEF DecodedBytes
  <2> QED  BY <2>1, <2>2
<1> QED  BY <1>1, <1>2, <1>3, <1>4, <1>5, <1>6, <1>8, Zenon

\* The limits of a header are not among the errors of a capsule that is wrong.
LEMMA HeaderAvoids ==
  ASSUME NEW h
  PROVE  AllAvoid(HeaderValid(h), SelfCheckErrors)
<1>1. PICK a, b, d, f : /\ a = (h.manifest_size > V1.max_manifest_bytes)
                        /\ b = (h.compressed_payload_size > V1.max_compressed_payload_bytes)
                        /\ d = (h.uncompressed_payload_size > V1.max_uncompressed_payload_bytes)
                        /\ f = (h.file_count > V1.max_file_count)
  OBVIOUS
<1>2. HeaderValid(h) = << <<a, "SizeTooLarge">>, <<b, "SizeTooLarge">>, <<d, "SizeTooLarge">>,
                          <<f, "FileCountTooLarge">> >>
  BY <1>1, Zenon DEF HeaderValid
<1>3. "SizeTooLarge" \notin SelfCheckErrors /\ "FileCountTooLarge" \notin SelfCheckErrors
  BY ErrorNames
<1>4. /\ Avoids(<<a, "SizeTooLarge">>, SelfCheckErrors) /\ Avoids(<<b, "SizeTooLarge">>, SelfCheckErrors)
      /\ Avoids(<<d, "SizeTooLarge">>, SelfCheckErrors) /\ Avoids(<<f, "FileCountTooLarge">>, SelfCheckErrors)
  BY <1>3, AvoidCheck
<1> QED  BY <1>2, <1>4, FourAvoid

\* Nor are the bounds of texts.
LEMMA TextAvoids ==
  ASSUME NEW t
  PROVE  AllAvoid(BoundedString(t), SelfCheckErrors)
<1>1. PICK a, b : a = (t = <<>>) /\ b = (Len(t) > MaxTextBytes)
  OBVIOUS
<1>2. BoundedString(t) = << <<a, "EmptyString">>, <<b, "StringTooLong">> >>
  BY <1>1, Zenon DEF BoundedString
<1>3. "EmptyString" \notin SelfCheckErrors /\ "StringTooLong" \notin SelfCheckErrors
  BY ErrorNames
<1>4. Avoids(<<a, "EmptyString">>, SelfCheckErrors) /\ Avoids(<<b, "StringTooLong">>, SelfCheckErrors)
  BY <1>3, AvoidCheck
<1> QED  BY <1>2, <1>4, TwoAvoid

\* The same for a text that may be absent.
LEMMA OptionalAvoids ==
  ASSUME NEW t
  PROVE  AllAvoid(OptionalString(t), SelfCheckErrors)
<1>1. CASE t = <<>>
  <2>1. OptionalString(t) = <<>>
    BY <1>1 DEF OptionalString
  <2>2. AllAvoid(<<>>, SelfCheckErrors)
    <3>1. PICK l : l = <<>>
      OBVIOUS
    <3>2. l \in Seq({}) /\ Len(l) = 0
      BY <3>1
    <3>3. \A i \in 1..Len(l) : FALSE
      BY <3>2
    <3> QED  BY <3>1, <3>2, <3>3, Zenon DEF AllAvoid
  <2> QED  BY <2>1, <2>2
<1>2. CASE t # <<>>
  <2>1. OptionalString(t) = BoundedString(t[1])
    BY <1>2 DEF OptionalString
  <2> QED  BY <2>1, TextAvoids
<1> QED  BY <1>1, <1>2

\* encode_capsule finds nothing wrong in what was packed.
LEMMA EncodeAvoids ==
  ASSUME NEW fs, NEW o, NEW zsize, NEW key, NEW c, Sealed(c, fs, o, zsize, key)
  PROVE  encode_capsule(c) \notin SelfCheckErrors
<1>0. PlainFiles(fs) /\ Packable(fs) /\ c = sign_capsule(Packed(fs, o, zsize), key)
  BY DEF Sealed
<1>1. /\ c.header.manifest_size = ManifestSize(c.manifest) /\ c.header.compressed_payload_size = c.stored.size
      /\ c.header.uncompressed_payload_size = Len(Payload(fs)) /\ c.header.file_count = Len(c.manifest.files)
      /\ c.manifest.files = PackedEntries(fs)
  BY <1>0, SealedFields
<1>2. SizeBefore(c.manifest.files, Len(c.manifest.files) + 1) = Len(Payload(fs))
  BY SealedSizes
<1>3. PICK a, b : /\ a = (\/ c.header.manifest_size # ManifestSize(c.manifest)
                          \/ c.header.compressed_payload_size # c.stored.size
                          \/ c.header.file_count # Len(c.manifest.files))
                  /\ b = (SizeBefore(c.manifest.files, Len(c.manifest.files) + 1)
                            # c.header.uncompressed_payload_size)
  OBVIOUS
<1>4. ~a /\ ~b
  BY <1>1, <1>2, <1>3, Zenon
<1>5. DeclaredLengths(c) = << <<a, "FileCountMismatch">>, <<b, "PayloadSizeMismatch">> >>
  BY <1>3, Zenon DEF DeclaredLengths
<1>6. Avoids(<<a, "FileCountMismatch">>, SelfCheckErrors) /\ Avoids(<<b, "PayloadSizeMismatch">>, SelfCheckErrors)
  BY <1>4, AvoidCheck
<1>7. AllAvoid(DeclaredLengths(c), SelfCheckErrors)
  BY <1>5, <1>6, TwoAvoid
<1>8. AllAvoid(validate_entries(c.manifest.files), SelfCheckErrors)
  BY <1>0, <1>1, EntriesAvoid
<1>9. PICK l, m, d : l = HeaderValid(c.header) /\ m = validate_entries(c.manifest.files) /\ d = DeclaredLengths(c)
  OBVIOUS
<1>10. AllAvoid(l, SelfCheckErrors) /\ AllAvoid(m, SelfCheckErrors) /\ AllAvoid(d, SelfCheckErrors)
  BY <1>7, <1>8, <1>9, HeaderAvoids
<1>11. AllAvoid(l \o m, SelfCheckErrors)
  BY <1>10, BothAvoid
<1>12. AllAvoid(l \o m \o d, SelfCheckErrors)
  BY <1>10, <1>11, BothAvoid
<1>13. FirstError(l \o m \o d) \notin SelfCheckErrors
  BY <1>12, ErrorAvoids, ErrorNames
<1> QED  BY <1>9, <1>13, Zenon DEF encode_capsule

\* A number is neither below nor above itself.
LEMMA NotBelow == \A k \in Nat : ~(k < k) /\ ~(k > k)
OBVIOUS

\* decode_manifest finds nothing wrong in it.
LEMMA ManifestAvoids ==
  ASSUME NEW fs, NEW o, NEW zsize, NEW key, NEW c, Sealed(c, fs, o, zsize, key)
  PROVE  AllAvoid(decode_manifest(c.manifest, c.header), SelfCheckErrors)
<1>0. PlainFiles(fs) /\ Packable(fs) /\ c = sign_capsule(Packed(fs, o, zsize), key)
  BY DEF Sealed
<1>1. /\ c.header.manifest_size = ManifestSize(c.manifest) /\ c.header.file_count = Len(c.manifest.files)
      /\ c.header.uncompressed_payload_size = Len(Payload(fs))
      /\ c.manifest.files = PackedEntries(fs) /\ c.manifest.defect = Passed /\ c.manifest.trailing = 0
  BY <1>0, SealedFields
<1>2. /\ ManifestSize(c.manifest) \in Nat /\ Len(c.manifest.files) = Len(fs) /\ Len(fs) \in Nat
      /\ SizeBefore(c.manifest.files, Len(c.manifest.files) + 1) = Len(Payload(fs))
  BY SealedSizes
<1>3. PICK m, h, e, n : m = c.manifest /\ h = c.header /\ e = c.manifest.files /\ n = Len(fs)
  OBVIOUS
<1>4. /\ n \in Nat /\ Len(e) = n /\ m.files = e /\ h.manifest_size = ManifestSize(m) /\ ManifestSize(m) \in Nat
      /\ h.file_count = n /\ SizeBefore(e, n + 1) = h.uncompressed_payload_size
      /\ m.defect = Passed /\ m.trailing = 0
  BY <1>1, <1>2, <1>3, Zenon
<1>5. \A i \in 1..n :
        /\ ~(i > 1 /\ ~PathLess(e[IF i > 1 THEN i - 1 ELSE 1].path, e[i].path))
        /\ e[i].offset = SizeBefore(e, i)
        /\ ~(e[i].size > V1.max_single_file_bytes)
  BY <1>0, <1>1, <1>3, EntriesValid
<1>6. \A i \in 1..n : e[i].defect = Passed
  <2>1. PICK parts : parts = Contents(fs)
    OBVIOUS
  <2> QED  BY <1>0, <1>1, <1>3, <2>1, PackedFields
<1>7. AllAvoid(<< CursorError(m, h), <<m.defect # Passed, m.defect>> >>, SelfCheckErrors)
  <2>1. PICK a, b, x : a = (h.manifest_size < ManifestSize(m) \/ h.file_count > Len(m.files)) /\ b = (m.defect # Passed)
                       /\ x = m.defect
    OBVIOUS
  <2>2. ~a
    BY <1>4, <2>1, NotBelow, Zenon
  <2>3. ~b
    BY <1>4, <2>1
  <2>4. Avoids(<<a, "UnexpectedEof">>, SelfCheckErrors) /\ Avoids(<<b, x>>, SelfCheckErrors)
    BY <2>2, <2>3, AvoidCheck
  <2>5. AllAvoid(<< <<a, "UnexpectedEof">>, <<b, x>> >>, SelfCheckErrors)
    BY <2>4, TwoAvoid
  <2>6. << CursorError(m, h), <<m.defect # Passed, m.defect>> >> = << <<a, "UnexpectedEof">>, <<b, x>> >>
    BY <2>1, Zenon DEF CursorError
  <2> QED  BY <2>5, <2>6
<1> DEFINE pair(i) == << <<i > 1 /\ ~PathLess(m.files[IF i > 1 THEN i - 1 ELSE 1].path, m.files[i].path),
                           "NonCanonicalPathOrder">>,
                         <<m.files[i].offset # SizeBefore(m.files, i), "NonContiguousPayload">> >>
           each(i) == decode_entry(m.files[i]) \o pair(i)
<1>8. ASSUME NEW i \in 1..n  PROVE AllAvoid(decode_entry(m.files[i]), SelfCheckErrors)
  <2>1. PICK a, b, d, f, x : /\ a = (Len(e[i].path) > V1.max_path_bytes) /\ b = ~ValidPath(e[i].path, V1.max_path_bytes)
                          /\ d = (e[i].defect # Passed) /\ f = (e[i].size > V1.max_single_file_bytes)
                          /\ x = e[i].defect
    OBVIOUS
  <2>2. decode_entry(m.files[i]) = << <<a, "InputTooLarge">>, <<b, "Path">>, <<d, x>>, <<f, "InputTooLarge">> >>
    BY <1>4, <2>1, Zenon DEF decode_entry
  <2>3. ~d
    BY <1>6, <2>1
  <2>4. "InputTooLarge" \notin SelfCheckErrors /\ "Path" \notin SelfCheckErrors
    BY ErrorNames
  <2>5. /\ Avoids(<<a, "InputTooLarge">>, SelfCheckErrors) /\ Avoids(<<b, "Path">>, SelfCheckErrors)
        /\ Avoids(<<d, x>>, SelfCheckErrors) /\ Avoids(<<f, "InputTooLarge">>, SelfCheckErrors)
    BY <2>3, <2>4, AvoidCheck
  <2> QED  BY <2>2, <2>5, FourAvoid
<1>9. ASSUME NEW i \in 1..n  PROVE AllAvoid(pair(i), SelfCheckErrors)
  <2>1. PICK a, b : /\ a = (i > 1 /\ ~PathLess(e[IF i > 1 THEN i - 1 ELSE 1].path, e[i].path))
                    /\ b = (e[i].offset # SizeBefore(e, i))
    OBVIOUS
  <2>2. pair(i) = << <<a, "NonCanonicalPathOrder">>, <<b, "NonContiguousPayload">> >>
    BY <1>4, <2>1, Zenon
  <2>3. ~a /\ ~b
    BY <1>5, <2>1, Zenon
  <2>4. Avoids(<<a, "NonCanonicalPathOrder">>, SelfCheckErrors) /\ Avoids(<<b, "NonContiguousPayload">>, SelfCheckErrors)
    BY <2>3, AvoidCheck
  <2> HIDE DEF pair
  <2> QED  BY <2>2, <2>4, TwoAvoid
<1>10. PICK t : t = [i \in 1..n |-> each(i)]
  OBVIOUS
<1>11. AllAvoid(FlattenSeq(t), SelfCheckErrors)
  <2> HIDE DEF pair
  <2>1. \A i \in 1..n : AllAvoid(each(i), SelfCheckErrors)
    BY <1>8, <1>9, BothAvoid
  <2> HIDE DEF each
  <2>2. t = [i \in 1..n |-> t[i]] /\ Len(t) = n /\ \A i \in 1..n : t[i] = each(i)
    BY <1>4, <1>10
  <2>3. \A i \in 1..n : AllAvoid(t[i], SelfCheckErrors)
    BY <2>1, <2>2
  <2> QED  BY <1>4, <2>2, <2>3, FlattenAvoids
<1>12. PICK a, b : /\ a = (m.trailing # 0 \/ h.manifest_size > ManifestSize(m) \/ h.file_count < Len(m.files))
                   /\ b = (SizeBefore(m.files, Len(m.files) + 1) # h.uncompressed_payload_size)
  OBVIOUS
<1>13. AllAvoid(<< <<a, "TrailingBytes">>, <<b, "PayloadSizeMismatch">> >>, SelfCheckErrors)
  <2>1. ~a
    BY <1>4, <1>12, NotBelow, Zenon
  <2>2. ~b
    BY <1>4, <1>12, Zenon
  <2>3. Avoids(<<a, "TrailingBytes">>, SelfCheckErrors) /\ Avoids(<<b, "PayloadSizeMismatch">>, SelfCheckErrors)
    BY <2>1, <2>2, AvoidCheck
  <2> QED  BY <2>3, TwoAvoid
<1>14. PICK l1, l2, l3, l4, l5, l6, l7 :
         /\ l1 = << CursorError(m, h), <<m.defect # Passed, m.defect>> >>
         /\ l2 = OptionalString(m.name) /\ l3 = OptionalString(m.description)
         /\ l4 = BoundedString(m.producer) /\ l5 = OptionalString(m.version) /\ l6 = FlattenSeq(t)
         /\ l7 = << <<a, "TrailingBytes">>, <<b, "PayloadSizeMismatch">> >>
  OBVIOUS
<1>15. decode_manifest(m, h) = l1 \o l2 \o l3 \o l4 \o l5 \o l6 \o l7
  <2>1. t = [i \in 1..Len(m.files) |-> decode_entry(m.files[i])
              \o << <<i > 1 /\ ~PathLess(m.files[IF i > 1 THEN i - 1 ELSE 1].path, m.files[i].path),
                      "NonCanonicalPathOrder">>,
                    <<m.files[i].offset # SizeBefore(m.files, i), "NonContiguousPayload">> >>]
    BY <1>4, <1>10, Zenon
  <2> QED  BY <1>12, <1>14, <2>1, Zenon DEF decode_manifest
<1>16. /\ AllAvoid(l1, SelfCheckErrors) /\ AllAvoid(l2, SelfCheckErrors) /\ AllAvoid(l3, SelfCheckErrors)
       /\ AllAvoid(l4, SelfCheckErrors) /\ AllAvoid(l5, SelfCheckErrors) /\ AllAvoid(l6, SelfCheckErrors)
       /\ AllAvoid(l7, SelfCheckErrors)
  BY <1>7, <1>11, <1>13, <1>14, OptionalAvoids, TextAvoids
<1>17. AllAvoid(l1 \o l2 \o l3, SelfCheckErrors)
  BY <1>16, BothAvoid
<1>18. AllAvoid(l1 \o l2 \o l3 \o l4 \o l5, SelfCheckErrors)
  BY <1>16, <1>17, BothAvoid
<1>19. AllAvoid(l1 \o l2 \o l3 \o l4 \o l5 \o l6 \o l7, SelfCheckErrors)
  BY <1>16, <1>18, BothAvoid
<1> QED  BY <1>3, <1>15, <1>19, Zenon

\* decode_capsule finds nothing wrong in it.
LEMMA DecodeAvoids ==
  ASSUME NEW fs, NEW o, NEW zsize, NEW key, NEW c, Sealed(c, fs, o, zsize, key), NEW input, input.form # "torn",
         input.capsule = c
  PROVE  DecodeStage(input) \notin SelfCheckErrors
<1>0. PlainFiles(fs) /\ Packable(fs) /\ c = sign_capsule(Packed(fs, o, zsize), key)
  BY DEF Sealed
<1>1. /\ c.header.manifest_size = ManifestSize(c.manifest) /\ c.header.compressed_payload_size = c.stored.size
      /\ c.header.defect = Passed /\ c.manifest.files = PackedEntries(fs) /\ c.trailing = 0
  BY <1>0, SealedFields
<1>2. ManifestSize(c.manifest) \in Nat /\ c.stored.size \in Nat
  BY SealedSizes
<1>3. PICK p, q : p = HeaderSize + c.header.manifest_size + c.header.compressed_payload_size + TrailerSize
                  /\ q = BinarySize(c)
  OBVIOUS
<1>4. p \in Nat /\ q = p
  <2>1. PICK x \in Nat, y \in Nat : x = ManifestSize(c.manifest) /\ y = c.stored.size
    BY <1>2
  <2>2. p = HeaderSize + x + y + TrailerSize
    BY <1>1, <1>3, <2>1, Zenon
  <2>3. q = HeaderSize + x + y + TrailerSize + 0
    BY <1>1, <1>3, <2>1, Zenon DEF BinarySize
  <2> QED  BY <2>2, <2>3, CapsuleCodecAssumption
<1>5. PICK a, b, d, f, x : /\ a = (BinarySize(c) > V1.max_capsule_bytes)
                           /\ b = (BinarySize(c) < p) /\ d = (BinarySize(c) > p)
                           /\ f = (c.header.defect # Passed) /\ x = c.header.defect
  OBVIOUS
<1>6. ~b /\ ~d /\ ~f
  BY <1>1, <1>3, <1>4, <1>5, NotBelow, Zenon
<1>7. PICK l1, l2, l3, l4, l5 :
        /\ l1 = << <<a, "InputTooLarge">> >> /\ l2 = << <<f, x>> >> /\ l3 = HeaderValid(c.header)
        /\ l4 = << <<b, "UnexpectedEof">>, <<d, "TrailingBytes">> >> /\ l5 = decode_manifest(c.manifest, c.header)
  OBVIOUS
<1>8. DecodeError(c) = FirstError(l1 \o (l2 \o l3) \o l4 \o l5)
  <2>1. decode_header(c.header) = l2 \o l3
    BY <1>5, <1>7, Zenon DEF decode_header
  <2> QED  BY <1>3, <1>5, <1>7, <2>1, Zenon DEF DecodeError
<1>9. "InputTooLarge" \notin SelfCheckErrors
  BY ErrorNames
<1>10. /\ Avoids(<<a, "InputTooLarge">>, SelfCheckErrors) /\ Avoids(<<f, x>>, SelfCheckErrors)
       /\ Avoids(<<b, "UnexpectedEof">>, SelfCheckErrors) /\ Avoids(<<d, "TrailingBytes">>, SelfCheckErrors)
  BY <1>6, <1>9, AvoidCheck
<1>11. AllAvoid(l1, SelfCheckErrors) /\ AllAvoid(l2, SelfCheckErrors)
  BY <1>7, <1>10, OneAvoids
<1>12. AllAvoid(l3, SelfCheckErrors) /\ AllAvoid(l4, SelfCheckErrors) /\ AllAvoid(l5, SelfCheckErrors)
  BY <1>7, <1>10, HeaderAvoids, TwoAvoid, ManifestAvoids
<1>13. AllAvoid(l2 \o l3, SelfCheckErrors)
  BY <1>11, <1>12, BothAvoid
<1>14. AllAvoid(l1 \o (l2 \o l3) \o l4 \o l5, SelfCheckErrors)
  BY <1>11, <1>12, <1>13, BothAvoid
<1>15. DecodeError(c) \notin SelfCheckErrors
  BY <1>8, <1>14, ErrorAvoids, ErrorNames
<1>16. FirstError(HeaderValid(c.header) \o validate_entries(c.manifest.files)) \notin SelfCheckErrors
  <2>1. PICK m : m = validate_entries(c.manifest.files)
    OBVIOUS
  <2>2. AllAvoid(m, SelfCheckErrors)
    BY <1>0, <1>1, <2>1, EntriesAvoid
  <2>3. AllAvoid(l3 \o m, SelfCheckErrors)
    BY <1>12, <2>2, BothAvoid
  <2>4. FirstError(l3 \o m) \notin SelfCheckErrors
    BY <2>3, ErrorAvoids, ErrorNames
  <2> QED  BY <1>7, <2>1, <2>4
<1> QED  BY <1>15, <1>16, Zenon DEF DecodeStage

\* A signature by the only key of its identifier, active in production, holds.
LEMMA OwnSignature ==
  ASSUME NEW keyring, NEW i \in Nat, NEW key, NEW label, NEW digest, Holds(keyring, key_id(key)) = {i},
         keyring[i] = PublicDocument(label, key, "Production", "Active")
  PROVE  verify_signature(key_id(key), digest, Sign(key, signature_message(digest)), {}, keyring) = Passed
<1>1. PICK doc, H : doc = keyring[i] /\ H = Holds(keyring, key_id(key))
  OBVIOUS
<1>2. doc.status = "Active" /\ doc.channel = "Production" /\ doc.public_key = key
  BY <1>1 DEF PublicDocument
<1>3. i = CHOOSE k \in H : \A j \in H : k <= j
  <2>1. H = {i}
    BY <1>1
  <2> QED  BY <2>1
<1>4. PICK a, b, d, f : /\ a = (doc.status = "Retired") /\ b = (doc.status = "Revoked")
                        /\ d = (doc.channel # "Production" /\ doc.channel \notin {})
                        /\ f = (Sign(key, signature_message(digest)) # Sign(doc.public_key, signature_message(digest)))
  OBVIOUS
<1>5. a \in BOOLEAN /\ b \in BOOLEAN /\ d \in BOOLEAN /\ f \in BOOLEAN /\ ~a /\ ~b /\ ~d /\ ~f
  BY <1>2, <1>4
<1>6. PICK l : l = << <<a, "RetiredKey">>, <<b, "RevokedKey">>, <<d, "DisallowedChannel">> >>
                   \o << <<f, "InvalidSignature">> >>
  OBVIOUS
<1>7. PICK m, n : /\ m = << <<a, "RetiredKey">>, <<b, "RevokedKey">>, <<d, "DisallowedChannel">> >>
                  /\ n = << <<f, "InvalidSignature">> >>
  OBVIOUS
<1>8. FirstError(l) = Passed
  <2>1. /\ Avoids(<<a, "RetiredKey">>, {Passed}) /\ Avoids(<<b, "RevokedKey">>, {Passed})
        /\ Avoids(<<d, "DisallowedChannel">>, {Passed}) /\ Avoids(<<f, "InvalidSignature">>, {Passed})
    BY <1>5, AvoidCheck
  <2>2. AllAvoid(m, {Passed}) /\ AllAvoid(n, {Passed})
    BY <1>7, <2>1, ThreeAvoid, OneAvoids
  <2>3. FirstError(m) = Passed
    BY <1>5, <1>7, ThreeChecks
  <2>4. \A k \in 1..Len(n) : ~n[k][1]
    <3>1. Len(n) = 1 /\ n[1][1] = f /\ \A k \in 1..1 : k = 1
      BY <1>7
    <3> QED  BY <1>5, <3>1
  <2>5. FirstError(n) = Passed
    BY <2>2, <2>4, NoneFailing
  <2>6. FirstError(m \o n) = Passed
    BY <2>2, <2>3, <2>5, BothPass
  <2> QED  BY <1>6, <1>7, <2>6
<1>9. enforce_policy(doc, {}) = << <<a, "RetiredKey">>, <<b, "RevokedKey">>, <<d, "DisallowedChannel">> >>
  BY <1>4, Zenon DEF enforce_policy
<1>10. verify_signature(key_id(key), digest, Sign(key, signature_message(digest)), {}, keyring) = FirstError(l)
  <2>1. H # {}
    BY <1>1
  <2>2. doc = keyring[CHOOSE k \in H : \A j \in H : k <= j]
    BY <1>1, <1>3, Zenon
  <2> QED  BY <1>1, <1>4, <1>6, <1>9, <2>1, <2>2, Zenon DEF verify_signature
<1> QED  BY <1>8, <1>10

\* Its signature stage passes under such a keyring.
LEMMA SealedSigned ==
  ASSUME NEW fs, NEW o, NEW zsize, NEW key, NEW c, Sealed(c, fs, o, zsize, key),
         NEW keyring, NEW i \in Nat, NEW label, Holds(keyring, key_id(key)) = {i},
         keyring[i] = PublicDocument(label, key, "Production", "Active")
  PROVE  SignatureStage(c, {}, keyring) = Passed
<1>1. PICK d : d = capsule_digest(c.header, c.manifest, c.stored)
  OBVIOUS
<1>2. c.digest = d /\ c.header.publisher_key_id = key_id(key) /\ c.signature = Sign(key, signature_message(d))
  BY <1>1, SealedFields DEF Sealed
<1>3. verify_signature(key_id(key), d, Sign(key, signature_message(d)), {}, keyring) = Passed
  BY OwnSignature
<1> QED  BY <1>1, <1>2, <1>3, Zenon DEF SignatureStage

\* Its payload is refused only for its expansion (verify_payload).
LEMMA SealedPayload ==
  ASSUME NEW fs, NEW o, NEW zsize, NEW key, NEW c, Sealed(c, fs, o, zsize, key)
  PROVE  PayloadStage(c) \notin SelfCheckErrors
<1>0. PlainFiles(fs) /\ c.manifest.files = PackedEntries(fs)
  BY SealedFields DEF Sealed
<1>1. /\ DecodedBytes(c.stored, c.header.compression) = Payload(fs)
      /\ Len(c.manifest.files) = Len(fs) /\ Len(fs) \in Nat
  BY SealedSizes
<1>2. PICK e, n, p : e = PackedEntries(fs) /\ n = Len(fs) /\ p = Payload(fs)
  OBVIOUS
<1>3. /\ p \in Seq(Nat)
      /\ \A i \in 1..n :
           /\ e[i].offset \in Nat /\ e[i].size \in Nat /\ e[i].offset + e[i].size <= Len(p)
           /\ e[i].digest = file_digest(Slice(p, e[i]))
           /\ e[i].kind = "TextUtf8" => IsText(Slice(p, e[i]))
  BY <1>0, <1>2, PackedSlices
<1>4. ASSUME NEW i \in 1..n  PROVE EntryError(p, e[i]) = Passed
  <2>1. PICK a, b, d : /\ a = (e[i].offset + e[i].size > Len(p))
                       /\ b = (e[i].kind = "TextUtf8" /\ ~IsText(Slice(p, e[i])))
                       /\ d = (e[i].digest # file_digest(Slice(p, e[i])))
    OBVIOUS
  <2>2. ~a
    <3>1. Len(p) \in Nat
      BY <1>3
    <3>2. PICK x \in Nat, y \in Nat, z \in Nat : x = e[i].offset /\ y = e[i].size /\ z = Len(p)
      BY <1>3, <3>1
    <3>3. x + y <= z
      BY <1>3, <3>2
    <3>4. ~(x + y > z)
      BY <3>3
    <3> QED  BY <2>1, <3>2, <3>4, Zenon
  <2>3. ~b /\ ~d
    BY <1>3, <2>1, Zenon
  <2>4. a \in BOOLEAN /\ b \in BOOLEAN /\ d \in BOOLEAN
    <3>1. (e[i].offset + e[i].size > Len(p)) \in BOOLEAN
      OBVIOUS
    <3>2. b \in BOOLEAN /\ d \in BOOLEAN
      BY <2>1, Zenon
    <3> QED  BY <2>1, <3>1, <3>2, Zenon
  <2>5. FirstError(<< <<a, "PayloadRangeMismatch">>, <<b, "InvalidTextContent">>, <<d, "FileDigestMismatch">> >>) = Passed
    BY <2>2, <2>3, <2>4, ThreeChecks
  <2> QED  BY <2>1, <2>5, Zenon DEF EntryError
<1>5. PICK r : r = [i \in 1..n |-> EntryError(p, e[i])]
  OBVIOUS
<1>6. Len(r) = n /\ n \in Nat /\ \A i \in 1..n : r[i] = Passed
  BY <1>1, <1>2, <1>4, <1>5
<1>7. FirstOf(r) = Passed
  <2>1. PICK l : l = [i \in 1..Len(r) |-> <<r[i] # Passed, r[i]>>]
    OBVIOUS
  <2>2. Len(l) = n
    BY <1>6, <2>1
  <2>3. Failing(l) = {}
    <3> SUFFICES ASSUME NEW i \in 1..n  PROVE ~l[i][1]
      BY <2>2 DEF Failing
    <3>1. PICK v, w : v = (r[i] # Passed) /\ w = r[i]
      OBVIOUS
    <3>2. l[i] = <<v, w>>
      BY <1>6, <2>1, <3>1
    <3>3. l[i][1] = v
      BY <3>2
    <3>4. ~v
      BY <1>6, <3>1, Zenon
    <3> QED  BY <3>3, <3>4
  <2>4. FirstError(l) = Passed
    BY <2>3, NoneFails
  <2> QED  BY <2>1, <2>4, Zenon DEF FirstOf
<1>8. PayloadStage(c) = "Compression" \/ PayloadStage(c) = FirstOf(r)
  BY <1>0, <1>1, <1>2, <1>5, Zenon DEF PayloadStage
<1> QED  BY <1>7, <1>8, ErrorNames

\* The self-verification of pack ends with none of the errors.
LEMMA SelfCheckAvoids ==
  ASSUME NEW fs, NEW o, NEW zsize, NEW key, NEW c, Sealed(c, fs, o, zsize, key)
  PROVE  SelfCheck(c, key) \notin SelfCheckErrors
<1>1. PICK input, doc, keyring : /\ input = [form |-> "binary", capsule |-> c]
                                 /\ doc = PublicDocument(<<1>>, key, "Production", "Active") /\ keyring = <<doc>>
  OBVIOUS
<1>2. input.form = "binary" /\ input.capsule = c
  BY <1>1
<1>3. from_input(input) \notin SelfCheckErrors
  <2>1. PICK a : a = (BinarySize(c) > V1.max_capsule_bytes)
    OBVIOUS
  <2>2. "InputTooLarge" \notin SelfCheckErrors
    BY ErrorNames
  <2>3. AllAvoid(<< <<a, "InputTooLarge">> >>, SelfCheckErrors)
    BY <2>2, AvoidCheck, OneAvoids
  <2>4. FirstError(<< <<a, "InputTooLarge">> >>) \notin SelfCheckErrors
    BY <2>3, ErrorAvoids, ErrorNames
  <2>5. "binary" # "token"
    OBVIOUS
  <2> QED  BY <1>2, <2>1, <2>4, <2>5, Zenon DEF from_input
<1>4. DecodeStage(input) \notin SelfCheckErrors
  <2>1. input.form # "torn"
    BY <1>2
  <2> QED  BY <1>2, <2>1, DecodeAvoids
<1>5. SignatureStage(c, {}, keyring) = Passed
  <2>1. Len(keyring) = 1 /\ keyring[1] = doc /\ \A i \in 1..1 : i = 1
    BY <1>1
  <2>2. doc.key_id = key_id(key)
    BY <1>1 DEF PublicDocument
  <2>3. Holds(keyring, key_id(key)) = {1}
    BY <2>1, <2>2 DEF Holds
  <2> QED  BY <1>1, <2>1, <2>3, SealedSigned
<1>6. PayloadStage(c) \notin SelfCheckErrors
  BY SealedPayload
<1>7. SelfCheck(c, key) = VerifyError(input, {}, keyring)
  BY <1>1, Zenon DEF SelfCheck
<1> QED  BY <1>2, <1>3, <1>4, <1>5, <1>6, <1>7, Zenon DEF VerifyError

\* The token of a capsule within its limit is within the limit of tokens.
LEMMA TokenFits ==
  ASSUME NEW b \in Nat, b <= V1.max_capsule_bytes
  PROVE  ~(4 + (4 * b + 2) \div 3 > V1.max_token_bytes)
<1>1. PICK m \in Nat, t \in Nat : m = V1.max_capsule_bytes /\ t = V1.max_token_bytes
  BY CapsuleCodecAssumption
<1>2. 4 + (4 * m + 2) \div 3 <= t /\ b <= m
  BY <1>1, CapsuleCodecAssumption
<1>3. \A x, y \in Nat : x <= y => x \div 3 <= y \div 3 /\ x \div 3 \in Nat /\ y \div 3 \in Nat
  OBVIOUS
<1>4. 4 * b + 2 \in Nat /\ 4 * m + 2 \in Nat /\ 4 * b + 2 <= 4 * m + 2
  BY <1>2
<1>5. PICK x \in Nat, y \in Nat : x = (4 * b + 2) \div 3 /\ y = (4 * m + 2) \div 3
  BY <1>3, <1>4
<1>6. x <= y /\ 4 + y <= t
  BY <1>2, <1>3, <1>4, <1>5
<1>7. ~(4 + x > t)
  BY <1>6
<1> QED  BY <1>1, <1>5, <1>7, Zenon

\* A check alone.
LEMMA OneCheck ==
  ASSUME NEW a, NEW e, e # Passed
  PROVE  FirstError(<< <<a, e>> >>) = Passed <=> ~a
<1>1. PICK l : l = << <<a, e>> >>
  OBVIOUS
<1>2. AllAvoid(l, {Passed})
  BY <1>1, AvoidCheck, OneAvoids
<1>3. Len(l) = 1 /\ l[1] = <<a, e>> /\ \A k \in 1..1 : k = 1
  BY <1>1
<1>4. l[1][1] = a
  BY <1>3
<1>5. FirstError(l) = Passed <=> \A i \in 1..Len(l) : ~l[i][1]
  BY <1>2, NoneFailing
<1>6. (\A i \in 1..Len(l) : ~l[i][1]) <=> ~a
  <2>1. 1 \in 1..Len(l) /\ \A k \in 1..Len(l) : k = 1
    BY <1>3
  <2> QED  BY <1>4, <2>1, Zenon
<1> QED  BY <1>1, <1>5, <1>6, Zenon

\* A capsule that passed its self-verification passes, in either form, under a
\* keyring with its key after the development key.
LEMMA SealedAccepted ==
  ASSUME NEW fs, NEW o, NEW zsize, NEW key, NEW c, Sealed(c, fs, o, zsize, key), SelfCheck(c, key) = Passed,
         key # DevelopmentKey, NEW w, w.capsule = c, w.defect = Passed, w.form \in {"token", "binary"}
  PROVE  VerifyError(w, {}, trusted_keys(<<PublicDocument(<<1>>, key, "Production", "Active")>>)) = Passed
<1>1. PICK input, doc, dev, keyring :
        /\ input = [form |-> "binary", capsule |-> c]
        /\ doc = PublicDocument(<<1>>, key, "Production", "Active")
        /\ dev = PublicDocument(<<1>>, DevelopmentKey, "Development", "Active")
        /\ keyring = <<dev>> \o <<doc>>
  OBVIOUS
<1>2. input.form = "binary" /\ input.capsule = c
  BY <1>1
<1>3. VerifyError(input, {}, <<doc>>) = Passed
  BY <1>1, Zenon DEF SelfCheck
<1>4. from_input(input) = Passed /\ DecodeStage(input) = Passed /\ PayloadStage(c) = Passed
  BY <1>2, <1>3, Zenon DEF VerifyError
<1>5. PICK b : b = BinarySize(c)
  OBVIOUS
<1>6. b \in Nat
  <2>1. ManifestSize(c.manifest) \in Nat /\ c.stored.size \in Nat
    BY SealedSizes
  <2>2. c.trailing = 0
    BY SealedFields DEF Sealed
  <2>3. PICK x \in Nat, y \in Nat : x = ManifestSize(c.manifest) /\ y = c.stored.size
    BY <2>1
  <2>4. b = HeaderSize + x + y + TrailerSize + 0
    BY <1>5, <2>2, <2>3, Zenon DEF BinarySize
  <2> QED  BY <2>4, CapsuleCodecAssumption
<1>7. "InputTooLarge" # Passed
  BY DEF Passed
<1>8. ~(b > V1.max_capsule_bytes)
  <2>1. "binary" # "token"
    OBVIOUS
  <2>2. FirstError(<< <<b > V1.max_capsule_bytes, "InputTooLarge">> >>) = Passed
    BY <1>2, <1>4, <1>5, <2>1, Zenon DEF from_input
  <2> QED  BY <1>7, <2>2, OneCheck
<1>9. from_input(w) = Passed
  <2>1. CASE w.form = "token"
    <3>1. PICK a, d : a = (TokenSize(c) > V1.max_token_bytes) /\ d = (w.defect # Passed)
      OBVIOUS
    <3>2. TokenSize(c) = 4 + (4 * b + 2) \div 3
      BY <1>5, Zenon DEF TokenSize
    <3>3. b <= V1.max_capsule_bytes
      BY <1>6, <1>8, CapsuleCodecAssumption
    <3>4. ~(4 + (4 * b + 2) \div 3 > V1.max_token_bytes)
      BY <1>6, <3>3, TokenFits
    <3>5. ~a /\ ~d
      BY <3>1, <3>2, <3>4, Zenon
    <3>6. decode_token(w) = << <<a, "InputTooLarge">>, <<d, w.defect>> >>
      BY <3>1, Zenon DEF decode_token
    <3>7. PICK l : l = << <<a, "InputTooLarge">>, <<d, w.defect>> >>
      OBVIOUS
    <3>8. Avoids(<<a, "InputTooLarge">>, {Passed}) /\ Avoids(<<d, w.defect>>, {Passed})
      BY <3>5, AvoidCheck
    <3>9. AllAvoid(l, {Passed})
      BY <3>7, <3>8, TwoAvoid
    <3>10. Len(l) = 2 /\ l[1][1] = a /\ l[2][1] = d
      BY <3>7
    <3>11. \A i \in 1..Len(l) : i = 1 \/ i = 2
      BY <3>10
    <3>12. \A i \in 1..Len(l) : ~l[i][1]
      BY <3>5, <3>10, <3>11, Zenon
    <3>13. FirstError(l) = Passed
      BY <3>9, <3>12, NoneFailing
    <3> QED  BY <2>1, <3>6, <3>7, <3>13, Zenon DEF from_input
  <2>2. CASE w.form # "token"
    BY <1>2, <1>4, <2>2 DEF from_input
  <2> QED  BY <2>1, <2>2
<1>10. DecodeStage(w) = Passed
  <2>1. w.form # "torn" /\ input.form # "torn"
    BY <1>2
  <2> QED  BY <1>2, <1>4, <2>1 DEF DecodeStage
<1>11. SignatureStage(c, {}, keyring) = Passed
  <2>1. Len(keyring) = 2 /\ keyring[1] = dev /\ keyring[2] = doc
    BY <1>1
  <2>2. doc.key_id = key_id(key) /\ dev.key_id = key_id(DevelopmentKey)
    BY <1>1 DEF PublicDocument
  <2>3. key_id(key) # key_id(DevelopmentKey)
    BY DEF key_id
  <2>4. \A i \in 1..2 : i = 1 \/ i = 2
    OBVIOUS
  <2>5. Holds(keyring, key_id(key)) = {2}
    BY <2>1, <2>2, <2>3, <2>4 DEF Holds
  <2>6. PICK i \in Nat : i = 2
    OBVIOUS
  <2>7. keyring[i] = PublicDocument(<<1>>, key, "Production", "Active") /\ Holds(keyring, key_id(key)) = {i}
    BY <1>1, <2>1, <2>5, <2>6
  <2>8. Sealed(c, fs, o, zsize, key)
    OBVIOUS
  <2> QED  BY <2>7, <2>8, SealedSigned
<1>12. trusted_keys(<<doc>>) = keyring
  BY <1>1, Zenon DEF trusted_keys
<1>13. VerifyError(w, {}, keyring) = Passed
  BY <1>4, <1>9, <1>10, <1>11, Zenon DEF VerifyError
<1> QED  BY <1>1, <1>12, <1>13, Zenon

\* It holds the files that were packed.
LEMMA SealedFiles ==
  ASSUME NEW fs, NEW o, NEW zsize, NEW key, NEW c, Sealed(c, fs, o, zsize, key), SelfCheck(c, key) = Passed
  PROVE  {<<f.path, f.bytes, f.executable>> : f \in {VerifiedFiles(c)[i] : i \in 1..Len(fs)}}
           = {<<f.path, f.bytes, f.executable>> : f \in {fs[i] : i \in 1..Len(fs)}}
<1>1. PICK S : fs \in Seq(S)
  BY DEF Sealed, PlainFiles
<1>2. PICK m, T : m = [key |-> key, files |-> fs] /\ T = {m}
  OBVIOUS
<1>3. Vouches(T, c.signature)
  BY <1>1, <1>2, PackedVouched DEF Sealed
<1>4. c.signature.message = signature_message(capsule_digest(c.header, c.manifest, c.stored))
  <2>1. /\ c.digest = capsule_digest(c.header, c.manifest, c.stored)
        /\ c.signature = Sign(key, signature_message(c.digest))
    BY SealedFields DEF Sealed
  <2> QED  BY <2>1 DEF Sign
<1>5. PayloadStage(c) = Passed
  <2>1. PICK input, keyring : /\ input = [form |-> "binary", capsule |-> c]
                              /\ keyring = <<PublicDocument(<<1>>, key, "Production", "Active")>>
    OBVIOUS
  <2>2. VerifyError(input, {}, keyring) = Passed
    BY <2>1, Zenon DEF SelfCheck
  <2>3. input.capsule = c
    BY <2>1
  <2> QED  BY <2>2, <2>3, VerifiedStages
<1>6. Triples(m.files) = Triples(VerifiedFiles(c))
  BY <1>2, <1>3, <1>4, <1>5, Zenon DEF Vouches
<1>7. m.files = fs
  BY <1>2
<1>8. Len(VerifiedFiles(c)) = Len(fs)
  <2>1. Len(c.manifest.files) = Len(fs) /\ Len(fs) \in Nat
    BY SealedSizes
  <2> QED  BY <2>1 DEF VerifiedFiles
<1>9. PICK v : v = VerifiedFiles(c)
  OBVIOUS
<1>10. {<<v[i].path, v[i].bytes, v[i].executable>> : i \in 1..Len(fs)}
         = {<<fs[i].path, fs[i].bytes, fs[i].executable>> : i \in 1..Len(fs)}
  BY <1>6, <1>7, <1>8, <1>9 DEF Triples
<1>11. \A s : {<<f.path, f.bytes, f.executable>> : f \in {s[i] : i \in 1..Len(fs)}}
                = {<<s[i].path, s[i].bytes, s[i].executable>> : i \in 1..Len(fs)}
  OBVIOUS
<1>12. {<<f.path, f.bytes, f.executable>> : f \in {v[i] : i \in 1..Len(fs)}}
         = {<<f.path, f.bytes, f.executable>> : f \in {fs[i] : i \in 1..Len(fs)}}
  BY <1>10, <1>11
<1> QED  BY <1>9, <1>12

-----------------------------------------------------------------------------
(* pack verifies what it writes.                                           *)

\* The private document is one that generate made.
Generated(x) == \E key \in Keys : \E pass : x = PrivateDocument(key, pass, 1, "v2")
PrivateSound == Present("private") => Generated(files["private"].content)

\* The walk of pack reads regular files.
PlainReads ==
  {[path |-> SourcePaths[i], bytes |-> f.bytes, executable |-> f.executable] :
     i \in 1..N, f \in SourceFiles \ {Absent, Link}}
WalkPlain ==
  pub.pc = "walk" => pub.kind = "pack" /\ pub.o \in PackCommands /\ pub.read \in Seq(PlainReads) /\ pub.res = "none"

\* What pack has begun to write.
Verifies(written, capsule, read) ==
  LET key == capsule.signature.by IN
  /\ VerifyError(written, {}, trusted_keys(<<PublicDocument(<<1>>, key, "Production", "Active")>>)) = Passed
  /\ {<<f.path, f.bytes, f.executable>> : f \in {VerifiedFiles(capsule)[i] : i \in 1..Len(read)}}
       = {<<f.path, f.bytes, f.executable>> : f \in {read[i] : i \in 1..Len(read)}}
WrittenVerifies ==
  pub.kind = "pack" /\ pub.pc \in Writing =>
    Len(pub.todo) = 1 /\ Verifies(Head(pub.todo).content, pub.capsule, pub.read)
EndsWell == pub.kind = "pack" => pub.res \notin SelfCheckErrors

PackInv == PrivateSound /\ WalkPlain /\ WrittenVerifies /\ EndsWell

\* The property is part of the invariant.
LEMMA PackInvSuffices == PackInv => PackedVerifies
<1> SUFFICES ASSUME PackInv, pub.kind = "pack"
             PROVE  /\ pub.pc \in {"create", "fill"} =>
                         LET written == Head(pub.todo).content
                             key == pub.capsule.signature.by
                         IN /\ VerifyError(written, {}, trusted_keys(<<PublicDocument(<<1>>, key, "Production", "Active")>>)) = Passed
                            /\ {<<f.path, f.bytes, f.executable>> : f \in {VerifiedFiles(pub.capsule)[i] : i \in 1..Len(pub.read)}}
                                 = {<<f.path, f.bytes, f.executable>> : f \in {pub.read[i] : i \in 1..Len(pub.read)}}
                    /\ pub.res \notin SelfCheckErrors
  BY Zenon DEF PackedVerifies
<1>1. pub.res \notin SelfCheckErrors
  BY Zenon DEF PackInv, EndsWell
<1>2. pub.pc \in {"create", "fill"} => Verifies(Head(pub.todo).content, pub.capsule, pub.read)
  BY Zenon DEF PackInv, WrittenVerifies, Writing
<1> QED  BY <1>1, <1>2, Zenon DEF Verifies

\* Steps that leave the publisher's command.
LEMMA PackSame ==
  ASSUME PackInv, PrivateSound', UNCHANGED pub
  PROVE  PackInv'
<1>1. WalkPlain'
  BY DEF PackInv, WalkPlain
<1>2. WrittenVerifies'
  BY DEF PackInv, WrittenVerifies
<1>3. EndsWell'
  BY DEF PackInv, EndsWell
<1> QED  BY <1>1, <1>2, <1>3 DEF PackInv

\* Another command.
LEMMA PackOther ==
  ASSUME PrivateSound', pub'.pc # "walk", pub'.kind # "pack"
  PROVE  PackInv'
<1>1. WalkPlain' /\ WrittenVerifies' /\ EndsWell'
  BY Zenon DEF WalkPlain, WrittenVerifies, EndsWell
<1> QED  BY <1>1 DEF PackInv

\* A command that ends in an error.
LEMMA PackFails ==
  ASSUME PrivateSound', NEW k, NEW e, pub' = [NoCommand EXCEPT !.pc = "failed", !.kind = k, !.res = e],
         k = "pack" => e \notin SelfCheckErrors
  PROVE  PackInv'
<1>1. pub'.pc = "failed" /\ pub'.kind = k /\ pub'.res = e
  BY DEF NoCommand
<1>2. "failed" # "walk" /\ "failed" \notin Writing
  BY DEF Writing
<1>3. WalkPlain' /\ WrittenVerifies' /\ EndsWell'
  BY <1>1, <1>2, Zenon DEF WalkPlain, WrittenVerifies, EndsWell, SelfCheckErrors
<1> QED  BY <1>3 DEF PackInv

\* The private document stays, or goes.
LEMMA PrivateKept ==
  ASSUME PrivateSound, files'["private"] = files["private"] \/ files'["private"] = Absent
  PROVE  PrivateSound'
BY DEF PrivateSound, Present

\* The file that is written next, and what it is when it is the private one.
LEMMA NextPrivate ==
  ASSUME KeyInv, pub.pc \in Writing
  PROVE  \E w : /\ Head(pub.todo) = w /\ w.name \in Names
                /\ w.name = "private" => Generated(w.content)
<1>1. CASE GeneratingPrivate
  <2>1. PICK key \in Keys, pass \in Long, channel \in Channels :
          pub.todo = <<WritePrivate(key, pass), WritePublic(key, channel)>>
    BY <1>1 DEF GeneratingPrivate
  <2>2. PICK v, w : v = WritePrivate(key, pass) /\ w = WritePublic(key, channel)
    OBVIOUS
  <2>3. v.name = "private" /\ v.content = PrivateDocument(key, pass, 1, "v2")
    BY <2>2 DEF WritePrivate
  <2>4. Generated(v.content)
    BY <2>3, Zenon DEF Generated
  <2>5. pub.todo = <<v, w>>
    BY <2>1, <2>2
  <2>6. Head(pub.todo) = v
    BY <2>5
  <2>7. v.name \in Names
    BY <2>3 DEF Names
  <2> QED  BY <2>4, <2>6, <2>7, Zenon
<1>2. CASE GeneratingPublic
  <2>1. PICK key \in Keys, channel \in Channels : pub.todo = <<WritePublic(key, channel)>>
    BY <1>2 DEF GeneratingPublic
  <2>2. PICK w : w = WritePublic(key, channel)
    OBVIOUS
  <2>3. w.name = "public"
    BY <2>2 DEF WritePublic
  <2>4. w.name \in Names /\ w.name # "private"
    BY <2>3 DEF Names
  <2>5. Head(pub.todo) = w
    BY <2>1, <2>2
  <2> QED  BY <2>4, <2>5, Zenon
<1>3. CASE WritingOther
  <2>0. PICK n \in Names \ {"private", "public"} : \E c : pub.todo = <<[name |-> n, content |-> c, undo |-> {}]>>
    BY <1>3 DEF WritingOther
  <2>1. PICK c : pub.todo = <<[name |-> n, content |-> c, undo |-> {}]>>
    BY <2>0
  <2>2. PICK w : w = [name |-> n, content |-> c, undo |-> {}]
    OBVIOUS
  <2>3. w.name = n
    BY <2>2
  <2>4. w.name \in Names /\ w.name # "private"
    BY <2>3
  <2>5. Head(pub.todo) = w
    BY <2>1, <2>2
  <2> QED  BY <2>4, <2>5, Zenon
<1> QED  BY <1>1, <1>2, <1>3, Zenon DEF KeyInv

\* Create.
LEMMA CreatePack ==
  ASSUME PublishInv, PackInv, Create
  PROVE  PackInv'
<1>0. KeyInv /\ PubRecord /\ files = [n \in Names |-> files[n]] /\ pub.pc = "create" /\ PrivateSound /\ WrittenVerifies
      /\ WalkPlain /\ EndsWell
  BY DEF PublishInv, KeyInv, Create, PackInv
<1>1. PICK w : /\ Head(pub.todo) = w /\ w.name \in Names
               /\ w.name = "private" => Generated(w.content)
  BY <1>0, NextPrivate DEF Writing
<1>2. CASE files[w.name] # Absent
  <2>1. files' = Undone(files, w.undo) /\ PubFail("Io")
    BY <1>1, <1>2 DEF Create
  <2>2. files'["private"] = files["private"] \/ files'["private"] = Absent
    BY <2>1 DEF Undone, Names
  <2>3. PrivateSound'
    BY <1>0, <2>2, PrivateKept
  <2>4. "Io" \notin SelfCheckErrors
    BY DEF SelfCheckErrors
  <2> QED  BY <2>1, <2>3, <2>4, PackFails DEF PubFail
<1>3. CASE files[w.name] = Absent
  <2>1. /\ files' = [files EXCEPT ![w.name] = [state |-> "torn", content |-> w.content]]
        /\ pub' = [pub EXCEPT !.pc = "fill"]
    BY <1>1, <1>3 DEF Create
  <2>2. PrivateSound'
    <3>1. CASE w.name = "private"
      <4>1. files'["private"] = [state |-> "torn", content |-> w.content]
        BY <1>0, <2>1, <3>1 DEF Names
      <4>2. files'["private"].content = w.content
        BY <4>1
      <4>3. Generated(files'["private"].content)
        BY <1>1, <3>1, <4>2
      <4> QED  BY <4>3 DEF PrivateSound, Generated
    <3>2. CASE w.name # "private"
      <4>1. files'["private"] = files["private"]
        BY <1>0, <2>1, <3>2 DEF Names
      <4> QED  BY <1>0, <4>1, PrivateKept
    <3> QED  BY <3>1, <3>2
  <2>3. /\ pub'.pc = "fill" /\ pub'.kind = pub.kind /\ pub'.todo = pub.todo /\ pub'.capsule = pub.capsule
        /\ pub'.read = pub.read /\ pub'.res = pub.res
    BY <1>0, <2>1 DEF PubRecord
  <2>4. WalkPlain'
    BY <2>3 DEF WalkPlain
  <2>5. WrittenVerifies' /\ EndsWell'
    <3>1. pub.pc \in Writing
      BY <1>0 DEF Writing
    <3>2. WrittenVerifies'
      BY <1>0, <2>3, <3>1 DEF WrittenVerifies
    <3>3. EndsWell'
      BY <1>0, <2>3 DEF EndsWell
    <3> QED  BY <3>2, <3>3
  <2> QED  BY <2>2, <2>4, <2>5 DEF PackInv
<1> QED  BY <1>2, <1>3

\* The file that is filled keeps its content.
LEMMA FilledPrivate ==
  ASSUME PublishInv, PackInv, pub.pc = "fill", NEW s, NEW undo,
         files' = Undone([files EXCEPT ![Head(pub.todo).name].state = s], undo)
  PROVE  PrivateSound'
<1>0. KeyInv /\ FillSound /\ files = [n \in Names |-> files[n]] /\ PrivateSound
  BY DEF PublishInv, KeyInv, PackInv
<1>1. PICK w : /\ Head(pub.todo) = w /\ w.name \in Names
               /\ w.name = "private" => Generated(w.content)
  BY <1>0, NextPrivate DEF Writing
<1>2. files[w.name] = [state |-> "torn", content |-> w.content]
  BY <1>0, <1>1 DEF FillSound
<1>3. PICK fs : fs = [files EXCEPT ![w.name].state = s]
  OBVIOUS
<1>4. fs = [files EXCEPT ![w.name] = [files[w.name] EXCEPT !.state = s]]
  BY <1>3, Zenon
<1>5. [files[w.name] EXCEPT !.state = s] = [state |-> s, content |-> w.content]
  BY <1>2
<1>6. files' = [n \in Names |-> IF n \in undo THEN Absent ELSE fs[n]]
  <2>1. files' = Undone(fs, undo)
    BY <1>1, <1>3
  <2> QED  BY <2>1, Zenon DEF Undone
<1>7. "private" \in Names
  BY DEF Names
<1>8. CASE "private" \in undo
  <2>1. files'["private"] = Absent
    BY <1>6, <1>7, <1>8
  <2> QED  BY <1>0, <2>1, PrivateKept
<1>9. CASE "private" \notin undo /\ w.name # "private"
  <2>1. files'["private"] = files["private"]
    BY <1>0, <1>4, <1>6, <1>7, <1>9
  <2> QED  BY <1>0, <2>1, PrivateKept
<1>10. CASE "private" \notin undo /\ w.name = "private"
  <2>1. fs["private"] = [state |-> s, content |-> w.content]
    BY <1>0, <1>4, <1>5, <1>7, <1>10
  <2>2. files'["private"] = [state |-> s, content |-> w.content]
    BY <1>6, <1>7, <1>10, <2>1
  <2>3. files'["private"].content = w.content
    BY <2>2
  <2>4. Generated(files'["private"].content)
    BY <1>1, <1>10, <2>3
  <2> QED  BY <2>4 DEF PrivateSound, Generated
<1> QED  BY <1>8, <1>9, <1>10

\* Fill and FillFails.
LEMMA FillsPack ==
  ASSUME PublishInv, PackInv, Fill \/ FillFails
  PROVE  PackInv'
<1>0. /\ KeyInv /\ PubRecord /\ files = [n \in Names |-> files[n]] /\ pub.pc = "fill"
      /\ WrittenVerifies
  BY DEF PublishInv, KeyInv, Fill, FillFails, PackInv
<1>1. CASE FillFails
  <2>1. PICK s \in {"torn", "unsynced"} :
          files' = Undone([files EXCEPT ![Head(pub.todo).name].state = s], Head(pub.todo).undo)
    BY <1>1 DEF FillFails
  <2>2. PrivateSound'
    BY <1>0, <2>1, FilledPrivate
  <2>3. PubFail("Io")
    BY <1>1 DEF FillFails
  <2>4. "Io" \notin SelfCheckErrors
    BY DEF SelfCheckErrors
  <2> QED  BY <2>2, <2>3, <2>4, PackFails DEF PubFail
<1>2. CASE Fill
  <2> DEFINE fs == [files EXCEPT ![Head(pub.todo).name].state = "whole"]
  <2>1. files' = fs
    BY <1>2 DEF Fill
  <2>2. fs = [n \in Names |-> fs[n]]
    BY <1>0
  <2>3. fs = Undone(fs, {})
    <3> HIDE DEF fs
    <3> QED  BY <2>2 DEF Undone
  <2>4. PrivateSound'
    <3>1. files' = Undone(fs, {})
      BY <2>1, <2>3, Zenon
    <3> QED  BY <1>0, <3>1, FilledPrivate
  <2>5. \/ pub'.pc = "done" /\ pub'.res = Passed
        \/ pub'.pc = "create" /\ pub'.kind = pub.kind /\ Len(pub.todo) # 1
    BY <1>0, <1>2 DEF Fill, PubRecord
  <2>6. CASE pub'.pc = "done" /\ pub'.res = Passed
    <3>1. "done" # "walk" /\ "done" \notin Writing
      BY DEF Writing
    <3>2. WalkPlain' /\ WrittenVerifies'
      BY <2>6, <3>1, Zenon DEF WalkPlain, WrittenVerifies
    <3>3. EndsWell'
      BY <2>6, ErrorNames DEF EndsWell, SelfCheckErrors
    <3> QED  BY <2>4, <3>2, <3>3 DEF PackInv
  <2>7. CASE pub'.pc = "create" /\ pub'.kind = pub.kind /\ Len(pub.todo) # 1
    <3>1. pub.kind # "pack"
      BY <1>0, <2>7 DEF WrittenVerifies, Writing
    <3>2. pub'.pc # "walk" /\ pub'.kind # "pack"
      BY <2>7, <3>1
    <3> QED  BY <2>4, <3>2, PackOther
  <2> QED  BY <2>5, <2>6, <2>7
<1> QED  BY <1>1, <1>2

\* Generate, Status and Rekey.
LEMMA DocumentPack ==
  ASSUME PublishInv, PackInv,
         \/ \E key, channel, pass : Generate(key, channel, pass)
         \/ \E from, to, status : Status(from, to, status)
         \/ \E pass, newPass : Rekey(pass, newPass)
  PROVE  PackInv'
<1>1. UNCHANGED files
  BY Zenon DEF Generate, Status, Rekey
<1>2. PrivateSound'
  <2>1. files'["private"] = files["private"] /\ PrivateSound
    BY <1>1 DEF PackInv
  <2> QED  BY <2>1, PrivateKept
<1>3. \E k \in {"generate", "status", "rekey"} : (\E e : Refused(k, e)) \/ \E t : Begin(k, t)
  <2>1. ASSUME NEW key, NEW channel, NEW pass, Generate(key, channel, pass)
        PROVE  (\E e : Refused("generate", e)) \/ \E t : Begin("generate", t)
    BY <2>1, Zenon DEF Generate
  <2>2. ASSUME NEW from, NEW to, NEW status, Status(from, to, status)
        PROVE  (\E e : Refused("status", e)) \/ \E t : Begin("status", t)
    BY <2>2, Zenon DEF Status
  <2>3. ASSUME NEW pass, NEW newPass, Rekey(pass, newPass)
        PROVE  (\E e : Refused("rekey", e)) \/ \E t : Begin("rekey", t)
    BY <2>3, Zenon DEF Rekey
  <2> QED  BY <2>1, <2>2, <2>3, Zenon
<1>4. PICK k \in {"generate", "status", "rekey"} : (\E e : Refused(k, e)) \/ \E t : Begin(k, t)
  BY <1>3
<1>5. pub'.pc \in {"failed", "create"} /\ pub'.kind = k
  BY <1>4 DEF Refused, Begin, NoCommand
<1>6. pub'.pc # "walk" /\ pub'.kind # "pack"
  BY <1>5
<1> QED  BY <1>2, <1>6, PackOther

\* Pack.
LEMMA BeginPack ==
  ASSUME PackInv, NEW o \in PackCommands, NEW pass, Pack(o, pass)
  PROVE  PackInv'
<1>1. UNCHANGED files /\ \E l : pub' = [NoCommand EXCEPT !.pc = "walk", !.kind = "pack", !.o = o, !.pass = pass,
                                                         !.listed = l]
  BY Zenon DEF Pack
<1>2. PrivateSound'
  BY <1>1, PrivateKept DEF PackInv
<1>3. pub'.pc = "walk" /\ pub'.kind = "pack" /\ pub'.o = o /\ pub'.read = <<>> /\ pub'.res = "none"
  BY <1>1 DEF NoCommand
<1>4. <<>> \in Seq(PlainReads) /\ "none" \notin SelfCheckErrors /\ "walk" \notin Writing
  BY DEF SelfCheckErrors, Writing
<1>5. WalkPlain'
  BY <1>3, <1>4 DEF WalkPlain
<1>6. WrittenVerifies' /\ EndsWell'
  BY <1>3, <1>4 DEF WrittenVerifies, EndsWell
<1> QED  BY <1>2, <1>5, <1>6 DEF PackInv

\* read_artifact ends with an error of its own.
LEMMA ReadAvoids ==
  ASSUME NEW read, NEW i
  PROVE  read_artifact(read, i) \notin SelfCheckErrors
<1>1. PICK a, b, d, f, g :
        /\ a = (Len(SourcePaths[i]) > MaxDepth + 1) /\ b = (Len(read) + 1 > V1.max_file_count)
        /\ d = (Len(tree[i].bytes) > V1.max_single_file_bytes)
        /\ f = (Len(FlattenSeq([k \in 1..Len(read) |-> read[k].bytes])) + Len(tree[i].bytes)
                  > V1.max_uncompressed_payload_bytes)
        /\ g = ~ValidPath(SourcePaths[i], V1.max_path_bytes)
  OBVIOUS
<1>2. PICK l : l = << <<a, "nesting is too deep">>, <<b, "TooManyFiles">>, <<d, "FileTooLarge">>,
                      <<f, "OutputTooLarge">>, <<g, "Path">> >>
  OBVIOUS
<1>3. read_artifact(read, i) = FirstError(l)
  BY <1>1, <1>2, Zenon DEF read_artifact
<1>4. /\ "nesting is too deep" \notin SelfCheckErrors /\ "TooManyFiles" \notin SelfCheckErrors
      /\ "FileTooLarge" \notin SelfCheckErrors /\ "OutputTooLarge" \notin SelfCheckErrors
      /\ "Path" \notin SelfCheckErrors
  BY DEF SelfCheckErrors
<1>5. /\ Avoids(<<a, "nesting is too deep">>, SelfCheckErrors) /\ Avoids(<<b, "TooManyFiles">>, SelfCheckErrors)
      /\ Avoids(<<d, "FileTooLarge">>, SelfCheckErrors) /\ Avoids(<<f, "OutputTooLarge">>, SelfCheckErrors)
      /\ Avoids(<<g, "Path">>, SelfCheckErrors)
  BY <1>4, AvoidCheck
<1>6. AllAvoid(l, SelfCheckErrors)
  BY <1>2, <1>5, FiveAvoid
<1>7. FirstError(l) \notin SelfCheckErrors
  BY <1>6, ErrorAvoids, ErrorNames
<1> QED  BY <1>3, <1>7, Zenon

\* Walk.
LEMMA WalkPack ==
  ASSUME PublishInv, PackInv, Walk
  PROVE  PackInv'
<1>0. /\ KeyInv /\ PubRecord /\ ReadSound /\ PrivateSound /\ WalkPlain /\ EndsWell /\ pub.pc = "walk"
      /\ UNCHANGED files
  BY Zenon DEF PublishInv, KeyInv, PackInv, Walk
<1>1. PrivateSound'
  BY <1>0, PrivateKept
<1>2. PICK i, f, x : i = pub.idx /\ f = tree[i]
                     /\ x = [path |-> SourcePaths[i], bytes |-> f.bytes, executable |-> f.executable]
  OBVIOUS
<1>3. \/ \E l : pub' = [pub EXCEPT !.listed = l]
      \/ pub' = [pub EXCEPT !.idx = @ + 1]
      \/ PubFail("cannot inspect source")
      \/ PubFail("source symlink is forbidden")
      \/ PubFail(read_artifact(pub.read, i))
      \/ f # Absent /\ f # Link /\ pub' = [pub EXCEPT !.idx = @ + 1, !.read = Append(@, x)]
  BY <1>2, Zenon DEF Walk
<1>4. ASSUME NEW e, PubFail(e), e \notin SelfCheckErrors  PROVE PackInv'
  BY <1>1, <1>4, PackFails DEF PubFail
<1>5. CASE PubFail("source symlink is forbidden") \/ PubFail("cannot inspect source")
  <2>1. "source symlink is forbidden" \notin SelfCheckErrors /\ "cannot inspect source" \notin SelfCheckErrors
    BY DEF SelfCheckErrors
  <2> QED  BY <1>4, <1>5, <2>1
<1>6. CASE PubFail(read_artifact(pub.read, i))
  BY <1>4, <1>6, ReadAvoids
<1>7. pub.idx \in 1..N /\ tree \in [1..N -> SourceFiles]
  <2>1. pub.idx <= N
    BY Zenon DEF Walk
  <2>2. N \in Nat
    BY CapsuleCommandsAssumption
  <2>3. pub.idx \in Nat \ {0} /\ tree \in [1..N -> SourceFiles]
    BY <1>0, Zenon DEF ReadSound
  <2> QED  BY <2>1, <2>2, <2>3
<1>8. ASSUME pub'.pc = "walk", pub'.kind = pub.kind, pub'.o = pub.o, pub'.res = pub.res, pub'.read \in Seq(PlainReads)
      PROVE  PackInv'
  <2>1. WalkPlain'
    BY <1>0, <1>8 DEF WalkPlain
  <2>2. "walk" \notin Writing
    BY DEF Writing
  <2>3. WrittenVerifies'
    BY <1>8, <2>2 DEF WrittenVerifies
  <2>4. EndsWell'
    BY <1>0, <1>8 DEF EndsWell
  <2> QED  BY <1>1, <2>1, <2>3, <2>4 DEF PackInv
<1>9. pub.read \in Seq(PlainReads)
  BY <1>0 DEF WalkPlain
<1>10. CASE pub' = [pub EXCEPT !.idx = @ + 1] \/ \E l : pub' = [pub EXCEPT !.listed = l]
  <2>1. pub'.pc = "walk" /\ pub'.kind = pub.kind /\ pub'.o = pub.o /\ pub'.res = pub.res /\ pub'.read = pub.read
    BY <1>0, <1>10 DEF PubRecord
  <2> QED  BY <1>8, <1>9, <2>1
<1>11. CASE f # Absent /\ f # Link /\ pub' = [pub EXCEPT !.idx = @ + 1, !.read = Append(@, x)]
  <2>1. /\ pub'.pc = "walk" /\ pub'.kind = pub.kind /\ pub'.o = pub.o /\ pub'.res = pub.res
        /\ pub'.read = Append(pub.read, x)
    BY <1>0, <1>11 DEF PubRecord
  <2>2. x \in PlainReads
    <3>1. i \in 1..N /\ f \in SourceFiles \ {Absent, Link}
      BY <1>2, <1>7, <1>11
    <3> QED  BY <1>2, <3>1 DEF PlainReads
  <2>3. pub'.read \in Seq(PlainReads)
    BY <1>9, <2>1, <2>2
  <2> QED  BY <1>8, <2>1, <2>3
<1> QED  BY <1>3, <1>5, <1>6, <1>10, <1>11

\* What the walk reads are files with paths and contents.
LEMMA ReadsPlain ==
  ASSUME NEW read \in Seq(PlainReads)
  PROVE  PlainFiles(read)
<1>1. ASSUME NEW x \in PlainReads  PROVE x.path \in Seq(Nat) /\ x.bytes \in Seq(Nat)
  <2>1. PICK i \in 1..N, f \in SourceFiles \ {Absent, Link} :
          x = [path |-> SourcePaths[i], bytes |-> f.bytes, executable |-> f.executable]
    BY DEF PlainReads
  <2>2. x.path = SourcePaths[i] /\ x.bytes = f.bytes
    BY <2>1
  <2>3. SourcePaths[i] \in Seq(Nat)
    BY PackAssumption DEF N
  <2>4. f.bytes \in Seq(Nat)
    BY PackAssumption
  <2> QED  BY <2>2, <2>3, <2>4
<1>2. \A i \in 1..Len(read) : read[i] \in PlainReads
  OBVIOUS
<1>3. \A i \in 1..Len(read) : read[i].path \in Seq(Nat) /\ read[i].bytes \in Seq(Nat)
  BY <1>1, <1>2
<1> QED  BY <1>3, Zenon DEF PlainFiles

\* Opening a generated document ends with an error of its own.
LEMMA SignerAvoids ==
  ASSUME NEW doc, Generated(doc), NEW pass
  PROVE  SignerError(doc, pass) \notin SelfCheckErrors
<1>1. doc.defect = Passed
  <2>1. PICK key \in Keys : \E p : doc = PrivateDocument(key, p, 1, "v2")
    BY DEF Generated
  <2>2. PICK p : doc = PrivateDocument(key, p, 1, "v2")
    BY <2>1
  <2> QED  BY <2>2 DEF PrivateDocument
<1>2. /\ "UnsupportedDocument" \notin SelfCheckErrors /\ "IdentityMismatch" \notin SelfCheckErrors
      /\ "InvalidPassphrase" \notin SelfCheckErrors /\ "AuthenticationFailed" \notin SelfCheckErrors
      /\ Passed \notin SelfCheckErrors
  BY DEF SelfCheckErrors, Passed
<1>3. PrivateDocumentError(doc) \notin SelfCheckErrors
  <2>1. PICK a, b, d, f, l :
          /\ a = (doc.kind # "private") /\ b = (doc.defect # Passed) /\ d = (doc.scheme \notin Schemes)
          /\ f = (key_id(doc.public_key) # doc.key_id)
          /\ l = << <<a, "UnsupportedDocument">>, <<b, doc.defect>>, <<d, "UnsupportedDocument">>, <<f, "IdentityMismatch">> >>
    OBVIOUS
  <2>2. ~b
    BY <1>1, <2>1, Zenon
  <2>3. /\ Avoids(<<a, "UnsupportedDocument">>, SelfCheckErrors) /\ Avoids(<<b, doc.defect>>, SelfCheckErrors)
        /\ Avoids(<<d, "UnsupportedDocument">>, SelfCheckErrors) /\ Avoids(<<f, "IdentityMismatch">>, SelfCheckErrors)
    BY <1>2, <2>2, AvoidCheck
  <2>4. AllAvoid(l, SelfCheckErrors)
    BY <2>1, <2>3, FourAvoid
  <2>5. FirstError(l) \notin SelfCheckErrors
    BY <1>2, <2>4, ErrorAvoids
  <2> QED  BY <2>1, <2>5, Zenon DEF PrivateDocumentError
<1>4. unlock(doc, pass) \notin SelfCheckErrors
  <2>1. PICK a, b, d, l :
          /\ a = (pass \in ShortPassphrases)
          /\ b = (\/ doc.box.key # derive_encryption_key(pass, doc.salt, KdfCost(doc.scheme))
                  \/ doc.box.aad # associated_data(doc.public_key, doc.key_id, doc.salt))
          /\ d = (doc.box.seed # doc.public_key)
          /\ l = << <<a, "InvalidPassphrase">>, <<b, "AuthenticationFailed">>, <<d, "IdentityMismatch">> >>
    OBVIOUS
  <2>2. /\ Avoids(<<a, "InvalidPassphrase">>, SelfCheckErrors) /\ Avoids(<<b, "AuthenticationFailed">>, SelfCheckErrors)
        /\ Avoids(<<d, "IdentityMismatch">>, SelfCheckErrors)
    BY <1>2, AvoidCheck
  <2>3. AllAvoid(l, SelfCheckErrors)
    BY <2>1, <2>2, ThreeAvoid
  <2>4. FirstError(l) \notin SelfCheckErrors
    BY <1>2, <2>3, ErrorAvoids
  <2> QED  BY <2>1, <2>4, Zenon DEF unlock, validate_passphrase
<1> QED  BY <1>3, <1>4, Zenon DEF SignerError

\* A signed capsule names its key.
LEMMA SealedBy ==
  ASSUME NEW fs, NEW o, NEW zsize, NEW key, NEW c, Sealed(c, fs, o, zsize, key)
  PROVE  c.signature.by = key
<1>1. c.signature = Sign(key, signature_message(c.digest))
  BY SealedFields DEF Sealed
<1> QED  BY <1>1 DEF Sign

\* SignPacked: the capsule verifies, or pack ends with another error.
LEMMA SignPack ==
  ASSUME PublishInv, PackInv, NEW zsize \in ZstdSizes, SignPacked(zsize)
  PROVE  PackInv'
<1>0. /\ KeyInv /\ PubRecord /\ PrivateSound /\ WalkPlain /\ EndsWell /\ pub.pc = "walk"
      /\ UNCHANGED files
  BY Zenon DEF PublishInv, KeyInv, PackInv, SignPacked
<1>1. PrivateSound'
  BY <1>0, PrivateKept
<1>2. pub.kind = "pack" /\ pub.o \in PackCommands /\ pub.read \in Seq(PlainReads) /\ pub.res = "none"
  BY <1>0 DEF WalkPlain
<1>3. PlainFiles(pub.read) /\ PlainOptions(pub.o) /\ zsize \in Nat
  BY <1>2, ReadsPlain, PackAssumption DEF PlainOptions
<1>4. PICK doc, key, packing, c, a, b, error :
        /\ doc = files["private"].content /\ key = doc.box.seed
        /\ packing = PackError(pub.read, pub.o, zsize)
        /\ c = sign_capsule(Packed(pub.read, pub.o, zsize), key)
        /\ a = (pub.read = <<>>) /\ b = (PackOptionsError(pub.o) # Passed)
        /\ error = FirstError(<< <<a, "source directory contains no files">>, <<b, "Format">> >>)
  OBVIOUS
<1>5. PICK w : w = IF pub.o.format = "token" THEN encode_token(c)
                   ELSE [form |-> "binary", capsule |-> c, defect |-> Passed]
  OBVIOUS
<1>6. \/ PubFail(error)
      \/ PubFail(packing)
      \/ PubFail("InvalidDocument")
      \/ Complete("private") /\ PubFail(SignerError(doc, pub.pass))
      \/ Complete("private") /\ packing = Passed /\ PubFail(encode_capsule(c))
      \/ Complete("private") /\ packing = Passed /\ PubFail(SelfCheck(c, key))
      \/ /\ Complete("private") /\ packing = Passed /\ SelfCheck(c, key) = Passed
         /\ pub' = [pub EXCEPT !.pc = "create", !.capsule = c,
                       !.todo = <<[name |-> "capsule", undo |-> {}, content |-> w]>>]
  BY <1>4, <1>5, Zenon DEF SignPacked
<1>7. ASSUME NEW e, PubFail(e), e \notin SelfCheckErrors  PROVE PackInv'
  BY <1>1, <1>7, PackFails DEF PubFail
<1>8. error \notin SelfCheckErrors
  <2>1. "source directory contains no files" \notin SelfCheckErrors /\ "Format" \notin SelfCheckErrors
    BY DEF SelfCheckErrors
  <2>2. PICK l : l = << <<a, "source directory contains no files">>, <<b, "Format">> >>
    OBVIOUS
  <2>3. /\ Avoids(<<a, "source directory contains no files">>, SelfCheckErrors)
        /\ Avoids(<<b, "Format">>, SelfCheckErrors)
    BY <2>1, AvoidCheck
  <2>4. AllAvoid(l, SelfCheckErrors)
    BY <2>2, <2>3, TwoAvoid
  <2>5. FirstError(l) \notin SelfCheckErrors
    BY <2>4, ErrorAvoids, ErrorNames
  <2> QED  BY <1>4, <2>2, <2>5, Zenon
<1>9. packing \notin SelfCheckErrors /\ (packing = Passed => Packable(pub.read))
  BY <1>3, <1>4, PackAvoids
<1>10. "InvalidDocument" \notin SelfCheckErrors
  BY DEF SelfCheckErrors
<1>11. Complete("private") => Generated(doc)
  BY <1>0, <1>4 DEF Complete, PrivateSound, Present
<1>12. Complete("private") => SignerError(doc, pub.pass) \notin SelfCheckErrors
  BY <1>11, SignerAvoids
<1>13. packing = Passed => Sealed(c, pub.read, pub.o, zsize, key)
  BY <1>3, <1>4, <1>9, Zenon DEF Sealed
<1>14. packing = Passed => encode_capsule(c) \notin SelfCheckErrors /\ SelfCheck(c, key) \notin SelfCheckErrors
  BY <1>13, EncodeAvoids, SelfCheckAvoids
<1>15. ASSUME Complete("private"), packing = Passed, SelfCheck(c, key) = Passed,
              pub' = [pub EXCEPT !.pc = "create", !.capsule = c,
                       !.todo = <<[name |-> "capsule", undo |-> {}, content |-> w]>>]
       PROVE  PackInv'
  <2>1. key # DevelopmentKey
    <3>1. PICK k \in Keys : \E p : doc = PrivateDocument(k, p, 1, "v2")
      BY <1>11, <1>15 DEF Generated
    <3>2. PICK p : doc = PrivateDocument(k, p, 1, "v2")
      BY <3>1
    <3>3. doc.box.seed = k
      BY <3>2 DEF PrivateDocument
    <3> QED  BY <1>4, <3>3, CapsuleCommandsAssumption
  <2>2. w.capsule = c /\ w.defect = Passed /\ w.form \in {"token", "binary"}
    <3>1. CASE pub.o.format = "token"
      <4>1. w = [form |-> "token", capsule |-> c, defect |-> Passed]
        BY <1>5, <3>1, Zenon DEF encode_token
      <4> QED  BY <4>1
    <3>2. CASE pub.o.format # "token"
      <4>1. w = [form |-> "binary", capsule |-> c, defect |-> Passed]
        BY <1>5, <3>2, Zenon
      <4> QED  BY <4>1
    <3> QED  BY <3>1, <3>2
  <2>3. VerifyError(w, {}, trusted_keys(<<PublicDocument(<<1>>, key, "Production", "Active")>>)) = Passed
    BY <1>13, <1>15, <2>1, <2>2, SealedAccepted
  <2>4. {<<f.path, f.bytes, f.executable>> : f \in {VerifiedFiles(c)[i] : i \in 1..Len(pub.read)}}
          = {<<f.path, f.bytes, f.executable>> : f \in {pub.read[i] : i \in 1..Len(pub.read)}}
    BY <1>13, <1>15, SealedFiles
  <2>5. c.signature.by = key
    BY <1>13, <1>15, SealedBy
  <2>6. Verifies(w, c, pub.read)
    BY <2>3, <2>4, <2>5, Zenon DEF Verifies
  <2>7. PICK v : v = [name |-> "capsule", undo |-> {}, content |-> w]
    OBVIOUS
  <2>8. v.content = w
    BY <2>7
  <2>9. /\ pub'.pc = "create" /\ pub'.kind = pub.kind /\ pub'.capsule = c /\ pub'.todo = <<v>>
        /\ pub'.read = pub.read /\ pub'.res = pub.res
    BY <1>0, <1>15, <2>7 DEF PubRecord
  <2>10. Len(pub'.todo) = 1 /\ Head(pub'.todo) = v
    BY <2>9
  <2>11. WalkPlain'
    BY <2>9 DEF WalkPlain
  <2>12. WrittenVerifies'
    <3>1. Verifies(Head(pub'.todo).content, pub'.capsule, pub'.read)
      BY <2>6, <2>8, <2>9, <2>10
    <3> QED  BY <2>10, <3>1 DEF WrittenVerifies
  <2>13. EndsWell'
    BY <1>0, <2>9 DEF EndsWell
  <2> QED  BY <1>1, <2>11, <2>12, <2>13 DEF PackInv
<1> QED  BY <1>6, <1>7, <1>8, <1>9, <1>10, <1>12, <1>14, <1>15

\* The consumer and the others.
LEMMA OtherPack ==
  ASSUME PublishInv, PackInv, Receive \/ Others
  PROVE  PackInv'
<1>0. KeyInv /\ files = [n \in Names |-> files[n]] /\ PrivateSound
  BY DEF PublishInv, KeyInv, PackInv
<1>1. ASSUME UNCHANGED publisher  PROVE PackInv'
  <2>1. UNCHANGED pub /\ files'["private"] = files["private"]
    BY <1>1 DEF publisher
  <2> QED  BY <1>0, <2>1, PrivateKept, PackSame
<1>2. ASSUME NEW kind, NEW option, NEW trust, NEW channels, Consume(kind, option, trust, channels)
      PROVE  UNCHANGED publisher
  BY <1>2, Zenon DEF Consume, publisher
<1>3. CASE Receive
  BY <1>1, <1>2, <1>3, Zenon DEF Receive, Diff, Decline, Apply, ApplyFiles
<1>4. ASSUME NEW i, NEW f, WriteSource(i, f) \/ WriteRoot(i, f)
      PROVE  UNCHANGED publisher
  BY <1>4 DEF WriteSource, WriteRoot, publisher
<1>5. ASSUME NEW n \in {"public", "capsule"}, CreateForeign(n)  PROVE PackInv'
  <2>1. UNCHANGED pub /\ files' = [files EXCEPT ![n] = Foreign]
    BY <1>5 DEF CreateForeign
  <2>2. files'["private"] = files["private"]
    BY <1>0, <2>1 DEF Names
  <2> QED  BY <1>0, <2>1, <2>2, PrivateKept, PackSame
<1>6. ASSUME NEW c, Forge(c)  PROVE PackInv'
  <2>1. UNCHANGED pub /\ \E f : files' = [files EXCEPT !["capsule"] = f]
    BY <1>6, Zenon DEF Forge
  <2>2. files'["private"] = files["private"]
    BY <1>0, <2>1 DEF Names
  <2> QED  BY <1>0, <2>1, <2>2, PrivateKept, PackSame
<1>7. CASE Kill
  <2>1. UNCHANGED files /\ pub'.pc = "crashed" /\ pub'.kind = "none"
    BY <1>7 DEF Kill, NoCommand
  <2>2. pub'.pc # "walk" /\ pub'.kind # "pack"
    BY <2>1
  <2> QED  BY <1>0, <2>1, <2>2, PrivateKept, PackOther
<1>8. CASE Others
  BY <1>1, <1>4, <1>5, <1>6, <1>7, <1>8, Zenon DEF Others
<1> QED  BY <1>3, <1>8

\* Every step keeps the invariant.
LEMMA PackStep == PublishInv /\ PackInv /\ [Next]_vars => PackInv'
<1> SUFFICES ASSUME PublishInv, PackInv, [Next]_vars  PROVE PackInv'
  OBVIOUS
<1>1. CASE Publish
  BY <1>1, CreatePack, FillsPack, DocumentPack, BeginPack, WalkPack, SignPack, Zenon DEF Publish
<1>2. CASE UNCHANGED vars
  <2>1. UNCHANGED pub /\ files'["private"] = files["private"] /\ PrivateSound
    BY <1>2 DEF vars, PackInv
  <2> QED  BY <2>1, PrivateKept, PackSame
<1> QED  BY <1>1, <1>2, OtherPack DEF Next

\* A capsule that pack writes is accepted in the form it is written in by
\* whoever trusts its key and holds the files as they were read, and pack never
\* ends because the capsule it just signed is wrong: for every source tree,
\* every change to it during the walk, every order of paths, every compression
\* and every limit (producer::run, pack, sign_capsule, verify_capsule).
THEOREM WhatIsPackedVerifies == Spec => []PackedVerifies
<1>1. Init => PublishInv /\ PackInv
  <2> SUFFICES ASSUME Init  PROVE PublishInv /\ PackInv
    OBVIOUS
  <2>1. PublishInv
    BY PublishInit
  <2>2. pub.pc = "idle" /\ pub.kind = "none" /\ files["private"] = Absent
    BY DEF Init, NoCommand, Names
  <2>3. PrivateSound
    BY <2>2 DEF PrivateSound, Present
  <2>4. WalkPlain /\ WrittenVerifies /\ EndsWell
    BY <2>2 DEF WalkPlain, WrittenVerifies, EndsWell
  <2> QED  BY <2>1, <2>3, <2>4 DEF PackInv
<1>2. PublishInv /\ PackInv /\ [Next]_vars => (PublishInv /\ PackInv)'
  BY PublishStep, PackStep
<1> QED  BY <1>1, <1>2, PackInvSuffices, PTL DEF Spec

=============================================================================
