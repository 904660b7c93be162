----------------------------- MODULE NodeCrypto -----------------------------
(***************************************************************************)
(* The Node crypto provider, password hasher and secret sealer.  Digests,  *)
(* derived keys and ciphertexts are terms: two are equal exactly when they *)
(* come from the same key and the same bytes.  What the code builds around *)
(* the primitives is kept: the framing of the bytes, the schemes, the      *)
(* limits, the upgrades and the order of the checks.                       *)
(*                                                                         *)
(* A text is a sequence of numbers, one for each byte or, in a context,    *)
(* one for each string of the JSON array it is.  An optional value is a    *)
(* sequence of at most one.  A secret is [id, len].  A protected value is  *)
(* [scheme, form, text], where form says which parser accepts its text.    *)
(* Refusals by type, or of text with control characters, are left out.     *)
(***************************************************************************)
EXTENDS Naturals, Sequences, FiniteSets, SequencesExt

HMAC_SCHEME == "hmac-sha256.v2"
HMAC_LEGACY_FRAMING == "hmac-sha256.legacy.v1"
PBKDF2_SCHEME == "pbkdf2-sha256.v1"

CryptoFailure == [ok |-> FALSE, reason |-> "CRYPTO_FAILED"]
CryptoOk(value) == [ok |-> TRUE, value |-> value]

protectedValue(scheme, form, text) == [scheme |-> scheme, form |-> form, text |-> text]

\* The characters base64url needs for n bytes.
Base64Url(n) == (4 * n + 2) \div 3

-----------------------------------------------------------------------------
(* The provider                                                            *)

Bytes == 0..255

\* A byte that would favour the first characters is drawn again.
unbiasedLimit(size) == 256 - (256 % size)

\* The bytes that give character i of an alphabet of some size.
BytesFor(size, i) == {b \in Bytes : b < unbiasedLimit(size) /\ b % size = i}

\* Any text of the asked length over the alphabet.
randomSecretString(alphabet, length) == [1..length -> alphabet]

hash(value, scheme) == CryptoOk(protectedValue(scheme, "sha256", value))

\* The old framing has no length before the value; the headers are one byte here.
FramedBytes(framing, context, value) ==
  IF framing = HMAC_LEGACY_FRAMING
  THEN IF context = <<>> THEN value
       ELSE <<1, Len(context[1]), 0>> \o context[1] \o <<0>> \o value
  ELSE <<2, Len(context), Len(FlattenSeq(context))>> \o FlattenSeq(context)
       \o <<Len(value)>> \o value

hmacDigest(key, framing, context, value) == <<key, FramedBytes(framing, context, value)>>

hmac(i) ==
  IF i.framing # HMAC_SCHEME THEN CryptoFailure
  ELSE CryptoOk(protectedValue(i.scheme, "hmac",
                               hmacDigest(i.key, i.framing, i.context, i.value)))

NotVerified == CryptoOk([verified |-> FALSE])

verifyHmac(i) ==
  IF \/ i.framing \notin {HMAC_SCHEME, HMAC_LEGACY_FRAMING}
     \/ i.framing = HMAC_LEGACY_FRAMING /\ i.upgradeScheme = i.scheme
     \/ i.protectedValue.form # "hmac"
  THEN CryptoFailure
  ELSE IF \/ i.protectedValue.scheme # i.scheme
          \/ hmacDigest(i.key, i.framing, i.context, i.value) # i.protectedValue.text
  THEN NotVerified
  ELSE IF i.framing = HMAC_SCHEME
  THEN CryptoOk([verified |-> TRUE, needsUpgrade |-> FALSE])
  ELSE CryptoOk([verified |-> TRUE, needsUpgrade |-> TRUE,
                 upgradedValue |-> protectedValue(i.upgradeScheme, "hmac",
                   hmacDigest(i.key, HMAC_SCHEME, i.context, i.value))])

-----------------------------------------------------------------------------
(* The password hasher; a hasher is its [iterations, keyLength]            *)

MIN_ITERATIONS == 600000
MAX_ITERATIONS == 10000000
MIN_KEY_LENGTH == 32
MAX_KEY_LENGTH == 128

ValidHasher(hasher) ==
  /\ hasher.iterations \in MIN_ITERATIONS..MAX_ITERATIONS
  /\ hasher.keyLength \in MIN_KEY_LENGTH..MAX_KEY_LENGTH

boundedPassword(password) == password.len \in 1..4096

derivePbkdf2(password, salt, iterations, keyLength) ==
  [password |-> password, salt |-> salt, iterations |-> iterations, length |-> keyLength]

\* A new hash with the hasher's own strength.
Derived(hasher, password, salt) ==
  protectedValue(PBKDF2_SCHEME, "pbkdf2",
    [iterations |-> hasher.iterations, salt |-> salt,
     hash |-> derivePbkdf2(password, salt, hasher.iterations, hasher.keyLength)])

hashPassword(hasher, password, salt) ==
  IF boundedPassword(password) THEN CryptoOk(Derived(hasher, password, salt)) ELSE CryptoFailure

\* Whether the text of a stored hash can be read.
parsePbkdf2(kept) ==
  /\ kept.scheme = PBKDF2_SCHEME /\ kept.form = "pbkdf2"
  /\ kept.text.iterations \in 1..MAX_ITERATIONS
  /\ kept.text.hash.length \in 16..MAX_KEY_LENGTH
  /\ Base64Url(kept.text.hash.length) \in 16..256

\* A hash at least as strong as the hasher's own in both respects is kept.
StrongEnough(hasher, kept) ==
  /\ kept.text.iterations >= hasher.iterations
  /\ kept.text.hash.length >= hasher.keyLength

verifyPassword(hasher, password, kept, salt) ==
  IF ~boundedPassword(password) \/ ~parsePbkdf2(kept) THEN CryptoFailure
  ELSE IF kept.text.hash # derivePbkdf2(password, kept.text.salt, kept.text.iterations,
                                          kept.text.hash.length)
  THEN NotVerified
  ELSE IF StrongEnough(hasher, kept)
  THEN CryptoOk([verified |-> TRUE, needsRehash |-> FALSE])
  ELSE CryptoOk([verified |-> TRUE, needsRehash |-> TRUE,
                 upgradedValue |-> Derived(hasher, password, salt)])

-----------------------------------------------------------------------------
(* The secret sealer, [key, keyId]                                         *)

SEAL_ALGORITHM == "aes-256-gcm.v1"
maxSealedCiphertextCharacters == 5000000
maxSealedPlaintextBytes == 3749969

\* iv.tag.text, where one byte more says whether the secret was a string.
SealedLength(bytes) == Base64Url(12) + 1 + Base64Url(16) + 1 + Base64Url(1 + bytes)

\* The tag authenticates the purpose and the expiry with the text.
sealAad(purpose, expiresAt) == <<purpose, expiresAt>>

\* sealedValue refuses a ciphertext that is too long.
seal(sealer, value, purpose, expiresAt) ==
  IF value.len > maxSealedPlaintextBytes
     \/ SealedLength(value.len) > maxSealedCiphertextCharacters
  THEN CryptoFailure
  ELSE CryptoOk([algorithm |-> SEAL_ALGORITHM, keyId |-> sealer.keyId, expiresAt |-> expiresAt,
                 len |-> SealedLength(value.len),
                 ciphertext |-> [key |-> sealer.key, aad |-> sealAad(purpose, expiresAt),
                                 value |-> value]])

unseal(sealer, sealed, purpose, instant) ==
  IF /\ sealed.algorithm = SEAL_ALGORITHM
     /\ sealed.keyId = sealer.keyId
     /\ sealed.expiresAt = <<>> \/ sealed.expiresAt[1] > instant
     /\ sealed.len <= maxSealedCiphertextCharacters
     /\ sealed.ciphertext.key = sealer.key
     /\ sealed.ciphertext.aad = sealAad(purpose, sealed.expiresAt)
  THEN CryptoOk(sealed.ciphertext.value)
  ELSE CryptoFailure

=============================================================================
