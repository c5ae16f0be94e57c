--------------------------- MODULE PublisherKeys ---------------------------
(***************************************************************************)
(* Publisher keys: key documents (crates/rebyte-signer/src/key_file.rs)    *)
(* and the local trust policy (crates/rebyte-signature/src/lib.rs).        *)
(*                                                                         *)
(* A key is a value that stands for its seed and for its public half.  The *)
(* defect of a document is the first malformed field of its fixed part.    *)
(* Sealing and signing are perfect: a box opens only with the key and the  *)
(* associated data it was made with, a signature holds only for its        *)
(* message.                                                                *)
(***************************************************************************)
EXTENDS Integers, Sequences, FiniteSets, Checks

CONSTANTS
  InvalidKeys,        \* public keys that are no curve points or are weak
  ShortPassphrases,   \* passphrases shorter than MIN_PASSPHRASE_BYTES
  DevelopmentKey      \* the built-in development key

key_id(key) == <<"key-id", key>>
signature_message(digest) == <<"signature", digest>>
Sign(key, message) == [by |-> key, message |-> message]

-----------------------------------------------------------------------------
(* Public documents and their status.                                      *)

PublicDocument(name, key, channel, status) ==
  [kind |-> "public", defect |-> Passed, name |-> name, channel |-> channel,
   status |-> status, public_key |-> key, key_id |-> key_id(key)]

\* TrustedPublicKey::new.
TrustedKeyError(name, key) ==
  FirstError(<< <<name = <<>>, "InvalidPublisherName">>, <<key \in InvalidKeys, "InvalidPublicKey">> >>)

\* PublicKeyDocument::to_trusted_key, which from_json runs as well.
to_trusted_key(doc) ==
  FirstError(<< <<doc.kind # "public", "UnsupportedDocument">>,
                <<doc.defect # Passed, doc.defect>>,
                <<TrustedKeyError(doc.name, doc.public_key) # Passed, "InvalidPublicKey">>,
                <<key_id(doc.public_key) # doc.key_id, "IdentityMismatch">> >>)

\* PublicKeyDocument::with_status: a status is never taken back.
with_status(doc, status) ==
  <<~(\/ doc.status = "Active"
      \/ doc.status = "Retired" /\ status \in {"Retired", "Revoked"}
      \/ doc.status = "Revoked" /\ status = "Revoked"), "InvalidStatusTransition">>

-----------------------------------------------------------------------------
(* Private documents.                                                      *)

Schemes == {"v1", "v2"}
KdfCost(scheme) == IF scheme = "v2" THEN "high-memory" ELSE "three-pass"
derive_encryption_key(pass, salt, cost) == <<"argon2id", pass, salt, cost>>
associated_data(key, id, salt) == <<"local-key", key, id, salt>>

\* encrypt_private_seed_at; salt stands for the salt and the nonce.
PrivateDocument(key, pass, salt, scheme) ==
  [kind |-> "private", defect |-> Passed, scheme |-> scheme, public_key |-> key,
   key_id |-> key_id(key), salt |-> salt,
   box |-> [key |-> derive_encryption_key(pass, salt, KdfCost(scheme)),
            aad |-> associated_data(key, key_id(key), salt), seed |-> key]]

\* EncryptedPrivateKeyDocument::validate.
PrivateDocumentError(doc) ==
  FirstError(<< <<doc.kind # "private", "UnsupportedDocument">>,
                <<doc.defect # Passed, doc.defect>>,
                <<doc.scheme \notin Schemes, "UnsupportedDocument">>,
                <<key_id(doc.public_key) # doc.key_id, "IdentityMismatch">> >>)

validate_passphrase(pass) == <<pass \in ShortPassphrases, "InvalidPassphrase">>

\* The document opens with pass, to the seed of the key it names.
unlock(doc, pass) ==
  FirstError(<< validate_passphrase(pass),
                <<\/ doc.box.key # derive_encryption_key(pass, doc.salt, KdfCost(doc.scheme))
                  \/ doc.box.aad # associated_data(doc.public_key, doc.key_id, doc.salt),
                  "AuthenticationFailed">>,
                <<doc.box.seed # doc.public_key, "IdentityMismatch">> >>)

\* load_local_signer: the document is checked, then opened.
SignerError(doc, pass) ==
  IF PrivateDocumentError(doc) # Passed THEN PrivateDocumentError(doc) ELSE unlock(doc, pass)

\* rekey_encrypted_key: the error, and the document under the current scheme.
RekeyError(doc, pass, newPass) ==
  FirstError(<< <<PrivateDocumentError(doc) # Passed, PrivateDocumentError(doc)>>,
                validate_passphrase(newPass),
                <<unlock(doc, pass) # Passed, unlock(doc, pass)>> >>)
Rekeyed(doc, newPass, salt) == PrivateDocument(doc.box.seed, newPass, salt, "v2")

\* generate_encrypted_key.
GenerateError(name, key, pass) ==
  FirstError(<< validate_passphrase(pass), <<TrustedKeyError(name, key) # Passed, "InvalidPublicKey">> >>)

-----------------------------------------------------------------------------
(* Trust.  A keyring is a sequence of documents.                           *)

\* trusted_keys: the built-in development key comes first.
trusted_keys(docs) ==
  <<PublicDocument(<<1>>, DevelopmentKey, "Development", "Active")>> \o docs

\* Mutant: a repeated key is accepted, and its first document counts.
KeyringErrorFirst(docs) ==
  FirstError([i \in 1..Len(docs) |-> <<to_trusted_key(docs[i]) # Passed, "Policy">>])

\* load_trusted_key for each document, then TrustedKeyring::new.
KeyringError(docs) ==
  FirstError([i \in 1..Len(docs) |-> <<to_trusted_key(docs[i]) # Passed, "Policy">>]
             \o << <<\E i, j \in 1..Len(docs) : i < j /\ docs[i].key_id = docs[j].key_id, "DuplicateKey">> >>)

Holds(keyring, id) == {i \in 1..Len(keyring) : keyring[i].key_id = id}

\* enforce_policy, with the channels the command line allows (trust_policy).
enforce_policy(doc, channels) ==
  << <<doc.status = "Retired", "RetiredKey">>, <<doc.status = "Revoked", "RevokedKey">>,
     <<doc.channel # "Production" /\ doc.channel \notin channels, "DisallowedChannel">> >>

\* verify_signature: the first document with the key id decides.
verify_signature(id, digest, signature, channels, keyring) ==
  IF Holds(keyring, id) = {} THEN "UnknownKey"
  ELSE LET doc == keyring[CHOOSE i \in Holds(keyring, id) : \A j \in Holds(keyring, id) : i <= j] IN
       FirstError(enforce_policy(doc, channels)
                  \o << <<signature # Sign(doc.public_key, signature_message(digest)), "InvalidSignature">> >>)

=============================================================================
