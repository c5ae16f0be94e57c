---------------------------- MODULE Identities ----------------------------
(***************************************************************************)
(* Chain identities (crates/rebyte-chain/src/identity.rs), their backup    *)
(* shares (backup.rs) and status documents (status.rs).                    *)
(*                                                                         *)
(* A secret is a field element; the key it derives is a value that stands  *)
(* for its public half.  Names are numbers, 0 an invalid one, and distinct *)
(* for distinct identities: the order of names stands for the arbitrary    *)
(* order of identity ids.  Signing, sealing and hashing are perfect.       *)
(***************************************************************************)
EXTENDS SecretSharing

CONSTANTS ShortPassphrases, MinBackupThreshold, MaxBackupShares

SigningKey(seed) == <<"ed25519", seed>>
EncryptionKey(ikm) == <<"x25519", ikm>>
Sign(seed, message) == [by |-> SigningKey(seed), message |-> message]
Signed(signature, key, message) == signature.by = key /\ signature.message = message

identity_message(name, signing, encryption, nonce) == <<"identity", name, signing, encryption, nonce>>

\* create_identity_documents: the public one.
PublicIdentity(name, seed, ikm, nonce) ==
  LET message == identity_message(name, SigningKey(seed), EncryptionKey(ikm), nonce) IN
  [name |-> name, signing |-> SigningKey(seed), encryption |-> EncryptionKey(ikm), nonce |-> nonce,
   id |-> <<"identity-id", message>>, proof |-> Sign(seed, message)]

\* IdentityPublicDocument::validate.
PublicIdentityError(p) ==
  LET message == identity_message(p.name, p.signing, p.encryption, p.nonce) IN
  FirstError(<< <<p.name = 0, "InvalidName">>,
                <<~Signed(p.proof, p.signing, message), "InvalidSignature">>,
                <<p.id # <<"identity-id", message>>, "IdentityMismatch">> >>)

-----------------------------------------------------------------------------
(* Private documents.                                                      *)

Cost(scheme) == IF scheme = "v2" THEN "current" ELSE "legacy"
derive_encryption_key(pass, salt, cost) == <<"argon2id", pass, salt, cost>>
private_aad(p, salt, cost) == <<p, salt, cost>>
validate_passphrase(pass) == <<pass \in ShortPassphrases, "InvalidPassphrase">>

\* encrypt_identity_at; salt stands for the salt and the nonce.
PrivateIdentity(p, seed, ikm, pass, salt, scheme) ==
  [scheme |-> scheme, public |-> p, salt |-> salt,
   box |-> [key |-> derive_encryption_key(pass, salt, Cost(scheme)),
            aad |-> private_aad(p, salt, Cost(scheme)), seed |-> seed, ikm |-> ikm]]

\* EncryptedIdentityDocument::validate.
PrivateIdentityError(d) ==
  FirstError(<< <<d.scheme \notin {"v1", "v2"}, "UnsupportedDocument">>,
                <<PublicIdentityError(d.public) # Passed, PublicIdentityError(d.public)>> >>)

\* Mutant: the keys of the secrets are not compared with the public document.
unlocked_from_seeds_unchecked(seed, ikm, p) == PublicIdentityError(p)

unlocked_from_seeds(seed, ikm, p) ==
  FirstError(<< <<SigningKey(seed) # p.signing \/ EncryptionKey(ikm) # p.encryption, "IdentityMismatch">>,
                <<PublicIdentityError(p) # Passed, PublicIdentityError(p)>> >>)

\* EncryptedIdentityDocument::unlock.
UnlockError(d, pass) ==
  FirstError(<< <<PrivateIdentityError(d) # Passed, PrivateIdentityError(d)>>,
                validate_passphrase(pass),
                <<\/ d.box.key # derive_encryption_key(pass, d.salt, Cost(d.scheme))
                  \/ d.box.aad # private_aad(d.public, d.salt, Cost(d.scheme)), "AuthenticationFailed">>,
                <<unlocked_from_seeds(d.box.seed, d.box.ikm, d.public) # Passed, "IdentityMismatch">> >>)

\* generate_identity and rekey_identity.
GenerateError(name, pass) ==
  FirstError(<< <<name = 0, "InvalidName">>, validate_passphrase(pass) >>)
RekeyError(d, pass, newPass) ==
  FirstError(<< <<UnlockError(d, pass) # Passed, UnlockError(d, pass)>>, validate_passphrase(newPass) >>)
reencrypt_identity(p, seed, ikm, pass, salt) == PrivateIdentity(p, seed, ikm, pass, salt, "v2")

-----------------------------------------------------------------------------
(* Backup shares.                                                          *)

validate_backup_parameters(count, threshold) ==
  <<threshold < MinBackupThreshold \/ threshold > count \/ count > MaxBackupShares, "InvalidThreshold">>

share_message(s) == <<"share", s.count, s.threshold, s.signing, s.encryption, s.public>>

\* IdentityBackupShare::validate_shape.
ShareError(s) ==
  FirstError(<< validate_backup_parameters(s.count, s.threshold),
                <<PublicIdentityError(s.public) # Passed, PublicIdentityError(s.public)>>,
                <<s.signing.x = 0 \/ s.signing.x # s.encryption.x \/ s.signing.x > s.count, "InvalidShare">>,
                <<~Signed(s.signature, s.public.signing, share_message(s)), "InvalidSignature">> >>)

\* backup_identity of an unlocked private document; each secret has its own
\* random polynomial.
backup_identity(d, count, threshold, polynomials) ==
  LET signing == split_secret(d.box.seed, count, polynomials[1])
      encryption == split_secret(d.box.ikm, count, polynomials[2])
      Bare(i) == [count |-> count, threshold |-> threshold, public |-> d.public,
                  signing |-> signing[i], encryption |-> encryption[i], signature |-> "none"]
  IN [i \in 1..count |-> [Bare(i) EXCEPT !.signature = Sign(d.box.seed, share_message(Bare(i)))]]

\* restore_identity.  The shares are sorted by abscissa before they are
\* combined, which does not change what combine_shares returns.
Signings(shares) == [i \in 1..Len(shares) |-> shares[i].signing]
Encryptions(shares) == [i \in 1..Len(shares) |-> shares[i].encryption]
Bound(s, first) == s.threshold = first.threshold /\ s.count = first.count /\ s.public = first.public

BoundError(s, first) ==
  FirstError(<< <<ShareError(s) # Passed, ShareError(s)>>, <<~Bound(s, first), "BindingMismatch">> >>)

RestoreShapeError(shares) ==
  LET first == shares[1]
      bound == FirstOf([i \in 1..Len(shares) |-> BoundError(shares[i], first)])
  IN IF shares = <<>> THEN "InvalidShare"
     ELSE FirstError(<< <<ShareError(first) # Passed, ShareError(first)>>,
                        <<Len(shares) # first.threshold, "InvalidShare">>,
                        <<bound # Passed, bound>>,
                        <<CombineError(Signings(shares), first.threshold) # Passed, "InvalidShare">> >>)

RestoreError(shares, pass) ==
  LET shape == RestoreShapeError(shares) IN
  IF shape # Passed THEN shape
  ELSE FirstError(<< <<unlocked_from_seeds(combine_shares(Signings(shares)),
                                           combine_shares(Encryptions(shares)),
                                           shares[1].public) # Passed, "IdentityMismatch">>,
                     validate_passphrase(pass) >>)

Restored(shares, pass, salt) ==
  reencrypt_identity(shares[1].public, combine_shares(Signings(shares)), combine_shares(Encryptions(shares)),
                     pass, salt)

-----------------------------------------------------------------------------
(* Status documents.                                                       *)

status_message(status, p) == <<"status", status, p>>

\* issue_identity_status of an unlocked private document.
issue_identity_status(d, status) ==
  [status |-> status, public |-> d.public, signature |-> Sign(d.box.seed, status_message(status, d.public))]

\* IdentityStatusDocument::validate_shape.
StatusError(s) ==
  FirstError(<< <<s.status \notin {"retired", "revoked"}, "UnsupportedDocument">>,
                <<PublicIdentityError(s.public) # Passed, PublicIdentityError(s.public)>>,
                <<~Signed(s.signature, s.public.signing, status_message(s.status, s.public)),
                  "InvalidSignature">> >>)

\* read_status_documents, then deny_statused_identities.
StatusDenial(statuses, participants) ==
  FirstError([i \in 1..Len(statuses) |-> <<StatusError(statuses[i]) # Passed, StatusError(statuses[i])>>]
             \o [i \in 1..Len(statuses) |-> <<statuses[i].public.id \in participants, "Denied">>])

=============================================================================
