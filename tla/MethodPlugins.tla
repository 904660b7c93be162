--------------------------- MODULE MethodPlugins ---------------------------
(***************************************************************************)
(* What the OTP method, the password method and the opaque token format    *)
(* compute, over the Node crypto provider.  An operator is one run of a    *)
(* plugin's function, from its input to its result or its failure.         *)
(*                                                                         *)
(* A subject as typed is [name, form, len, normal]: form is "plain",       *)
(* "padded" or "upper", normal its length once trimmed and lowered.  A     *)
(* method is [id, kind, subjectKind].  Public data is [nodes, depth,       *)
(* chars], a delivery target [len, list] (list: it holds a comma or a      *)
(* semicolon); what is optional is a sequence of at most one.  Inputs of   *)
(* the wrong type and texts with control characters are left out.          *)
(***************************************************************************)
EXTENDS NodeCrypto, DeliveryPipeline

Ok(value) == [ok |-> TRUE, value |-> value]

\* A failure the caller is charged for is one that counts as an attempt.
methodErr(reason, countsAsAttempt) ==
  [ok |-> FALSE, reason |-> reason, countsAsAttempt |-> countsAsAttempt]

validationError(field) == [ok |-> FALSE, reason |-> field, countsAsAttempt |-> FALSE]

\* What both methods ask of public data.
PublicDataOk(d) == d.nodes <= MaxNodes /\ d.depth <= MaxDepth /\ d.chars <= MaxCharacters

\* Only an email is lowered.
normalizeSubject(subject, subjectKind) ==
  IF subjectKind = "email"
  THEN [subject EXCEPT !.form = "plain", !.len = subject.normal]
  ELSE IF subject.form = "padded"
  THEN [subject EXCEPT !.form = "plain", !.len = subject.normal] ELSE subject

SubjectOk(subject, subjectKind) ==
  subject.len <= (IF subjectKind = "email" THEN 320 ELSE 512) /\ subject.normal > 0

Lookup(method, input) ==
  [method |-> method, subject |-> normalizeSubject(input.subject, method.subjectKind),
   display |-> IF input.display = <<>> THEN input.subject.len ELSE input.display[1]]

-----------------------------------------------------------------------------
(* The OTP method; its options are [method, channel, key, alphabet,        *)
(* codeLength, ttlSeconds, maxAttempts]                                    *)

OtpV2 == "otp-hmac-sha256.v2"
OtpV3 == "otp-hmac-sha256.v3"

\* Whether there are at least 1000000 codes.
RECURSIVE EnoughCodes(_, _, _)
EnoughCodes(size, length, codes) ==
  codes >= 1000000 \/ (length > 0 /\ EnoughCodes(size, length - 1, codes * size))

normalizeOtpOptions(o) ==
  /\ o.ttlSeconds \in 1..3600
  /\ o.maxAttempts \in 1..100
  /\ o.codeLength \in 1..128
  /\ Cardinality(o.alphabet) \in 2..256
  /\ EnoughCodes(Cardinality(o.alphabet), o.codeLength, 1)

validateOtpBeginInput(o, input) ==
  IF ~SubjectOk(input.subject, o.method.subjectKind) THEN validationError("subject")
  ELSE IF input.display # <<>> /\ input.display[1] > 512 THEN validationError("display")
  ELSE IF ~PublicDataOk(input.publicData) THEN validationError("publicData")
  ELSE Ok([lookup |-> Lookup(o.method, input), publicData |-> input.publicData])

validateOtpCompleteInput(o, input) ==
  IF Len(input.code) # o.codeLength \/ \E i \in DOMAIN input.code : input.code[i] \notin o.alphabet
  THEN validationError("code")
  ELSE IF ~PublicDataOk(input.publicData) THEN validationError("publicData")
  ELSE Ok(input)

\* The JSON array tells the tenant and the challenge apart; 0 stands for its prefix.
SlipOtpHmacContext(tenant, challenge) == <<0, tenant>>
otpHmacContext(tenant, challenge) == <<0, tenant, challenge>>

\* Messages go out by what the subject is, if the option does not say.
Channel(o) == IF o.channel = <<>> THEN o.method.subjectKind ELSE o.channel[1]

safeResolveDeliveryTarget(target) ==
  IF target.len \in 1..1024 THEN Ok(target) ELSE methodErr("DELIVERY_FAILED", FALSE)

\* The provider's result is taken only with the scheme that was asked for.
snapshotProtectedValue(kept, scheme) == kept.scheme = scheme

safeHmac(i) ==
  LET result == hmac(i) IN
  IF result.ok /\ snapshotProtectedValue(result.value, i.scheme) THEN result
  ELSE methodErr("CRYPTO_FAILED", FALSE)

\* An upgrade is believed only where the old framing was asked for.
snapshotHmacVerifyResult(value, i) ==
  \/ value = [verified |-> FALSE]
  \/ value = [verified |-> TRUE, needsUpgrade |-> FALSE]
  \/ /\ i.framing = HMAC_LEGACY_FRAMING
     /\ DOMAIN value = {"verified", "needsUpgrade", "upgradedValue"}
     /\ value.verified /\ value.needsUpgrade
     /\ snapshotProtectedValue(value.upgradedValue, i.upgradeScheme)

safeVerifyHmac(i) ==
  LET result == verifyHmac(i) IN
  IF result.ok /\ snapshotHmacVerifyResult(result.value, i) THEN result
  ELSE methodErr("CRYPTO_FAILED", FALSE)

\* ctx is [tenant, challenge, now, lookup, target]; code is the text drawn.
OtpBegin(o, input, ctx, code) ==
  LET codeHash == safeHmac([key |-> o.key, value |-> code, framing |-> HMAC_SCHEME, scheme |-> OtpV3,
                            context |-> <<otpHmacContext(ctx.tenant, ctx.challenge)>>])
      target == safeResolveDeliveryTarget(ctx.target)
  IN IF ~codeHash.ok THEN codeHash
     ELSE IF ~target.ok THEN target
     ELSE Ok([material |-> [schemaVersion |-> "otp.v1", codeHash |-> codeHash.value],
              expiresAt |-> ctx.instant + o.ttlSeconds,
              maxAttempts |-> o.maxAttempts,
              effect |-> [policy |-> "required", key |-> ctx.challenge,
                          expiresAt |-> ctx.instant + o.ttlSeconds,
                          channel |-> Channel(o), target |-> target.value,
                          display |-> input.lookup.display, code |-> code,
                          subject |-> input.lookup.subject.len],
              publicData |-> input.publicData])

\* The scheme of a stored code hash, if it is one this method can check.
protectedOtpHmac(kept) ==
  CHOOSE found \in {<<>>, <<OtpV2>>, <<OtpV3>>} :
    IF snapshotProtectedValue(kept, OtpV3) THEN found = <<OtpV3>>
    ELSE IF snapshotProtectedValue(kept, OtpV2) THEN found = <<OtpV2>>
    ELSE found = <<>>

validLookup(lookup, method) == lookup.method = method /\ lookup.subject.len > 0

\* What it asks the provider to verify; a code of the old scheme has the old framing.
OtpVerification(o, code, ctx, scheme) ==
  LET common == [key |-> o.key, value |-> code, scheme |-> scheme,
                 context |-> <<otpHmacContext(ctx.tenant, ctx.challenge)>>,
                 protectedValue |-> ctx.material.codeHash]
  IN IF scheme = OtpV2
     THEN [framing |-> HMAC_LEGACY_FRAMING, upgradeScheme |-> OtpV3] @@ common
     ELSE [framing |-> HMAC_SCHEME] @@ common

makeProof(method, lookup, instant) ==
  [method |-> method, identity |-> [lookup |-> lookup, verifiedAt |-> <<>>],
   additional |-> <<>>, authTime |-> instant, expiresAt |-> <<>>]

\* ctx is [tenant, challenge, now, lookup, material].
OtpComplete(o, input, ctx) ==
  LET scheme == protectedOtpHmac(ctx.material.codeHash) IN
  IF ctx.material.schemaVersion # "otp.v1" \/ scheme = <<>> \/ ~validLookup(ctx.lookup, o.method)
  THEN methodErr("INTERNAL", FALSE)
  ELSE LET verification == safeVerifyHmac(OtpVerification(o, input.code, ctx, scheme[1])) IN
       IF ~verification.ok THEN verification
       ELSE IF ~verification.value.verified THEN methodErr("OTP_MISMATCH", TRUE)
       ELSE Ok([proof |-> [makeProof(o.method, ctx.lookup, ctx.instant)
                             EXCEPT !.identity.verifiedAt = <<ctx.instant>>],
                publicData |-> input.publicData])

-----------------------------------------------------------------------------
(* The password method; its options are [method, hasher, min, max]         *)

validatePasswordInput(o, input) ==
  IF ~SubjectOk(input.subject, o.method.subjectKind) THEN validationError("subject")
  ELSE IF input.password.len \notin o.min..o.max THEN validationError("password")
  ELSE IF input.display # <<>> /\ input.display[1] > 512 THEN validationError("display")
  ELSE IF ~PublicDataOk(input.publicData) THEN validationError("publicData")
  ELSE Ok([lookup |-> Lookup(o.method, input), password |-> input.password,
           publicData |-> input.publicData])

safeHashPassword(hasher, password, salt) ==
  LET result == hashPassword(hasher, password, salt) IN
  IF result.ok THEN result ELSE methodErr("CRYPTO_FAILED", FALSE)

safeVerifyPassword(hasher, password, kept, salt) ==
  LET result == verifyPassword(hasher, password, kept, salt) IN
  IF /\ result.ok
     /\ \/ result.value = [verified |-> FALSE]
        \/ result.value = [verified |-> TRUE, needsRehash |-> FALSE]
        \/ DOMAIN result.value = {"verified", "needsRehash", "upgradedValue"}
  THEN result ELSE methodErr("CRYPTO_FAILED", FALSE)

\* The salt is the one the hasher draws.
PasswordEnroll(o, input, instant, salt) ==
  LET passwordHash == safeHashPassword(o.hasher, input.password, salt)
      proof == makeProof(o.method, input.lookup, instant)
  IN IF ~passwordHash.ok THEN passwordHash
     ELSE Ok([identity |-> proof.identity, proof |-> proof, publicData |-> input.publicData,
              material |-> [schemaVersion |-> "password.v1", passwordHash |-> passwordHash.value]])

\* material is what is stored for the identity, if anything; without it the work is the same.
PasswordAuthenticate(o, input, instant, material, salt) ==
  IF material = <<>> \/ material[1].schemaVersion # "password.v1"
  THEN LET dummyWork == safeHashPassword(o.hasher, input.password, salt) IN
       IF dummyWork.ok THEN methodErr("CREDENTIAL_NOT_FOUND", TRUE) ELSE dummyWork
  ELSE LET verification ==
             safeVerifyPassword(o.hasher, input.password, material[1].passwordHash, salt) IN
       IF ~verification.ok THEN verification
       ELSE IF ~verification.value.verified THEN methodErr("PASSWORD_MISMATCH", TRUE)
       ELSE Ok([proof |-> makeProof(o.method, input.lookup, instant),
                publicData |-> input.publicData,
                material |-> IF verification.value.needsRehash
                             THEN <<[material[1] EXCEPT
                                       !.passwordHash = verification.value.upgradedValue]>>
                             ELSE <<>>])

-----------------------------------------------------------------------------
(* Opaque tokens; the format is [bytes, scheme]                            *)

validIssueInput(input) == input.expiresAt > input.issuedAt

snapshotRawToken(raw, bytes) == raw.len = Base64Url(bytes)

snapshotTokenHash(kept, scheme) == kept.scheme = scheme

\* raw is the text drawn.
issue(format, input, raw) ==
  IF ~validIssueInput(input) \/ ~snapshotRawToken(raw, format.bytes)
  THEN methodErr("TOKEN_INVALID", FALSE)
  ELSE LET tokenHash == hash(raw, format.scheme) IN
       IF ~snapshotTokenHash(tokenHash.value, format.scheme) THEN methodErr("TOKEN_INVALID", FALSE)
       ELSE Ok([raw |-> raw, tokenHash |-> tokenHash.value])

\* A token that cannot be one of this format names no session, and is no failure.
identify(format, raw) ==
  IF ~snapshotRawToken(raw, format.bytes) THEN Ok(<<>>)
  ELSE LET tokenHash == hash(raw, format.scheme) IN
       IF ~snapshotTokenHash(tokenHash.value, format.scheme) THEN methodErr("TOKEN_INVALID", FALSE)
       ELSE Ok(<<tokenHash.value>>)

=============================================================================
