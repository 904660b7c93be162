---------------------------- MODULE MethodCalls ----------------------------
(***************************************************************************)
(* The method's part of the core's operations: validate the input, run the *)
(* plugin, judge its result.  Each operator is one call, from the input to *)
(* the output the core goes on with, or to the failure it reports.  What   *)
(* the core stores and answers is in ChallengeFlow, SessionFlow and        *)
(* AccountFlow; here the plugins are the OTP and password methods.         *)
(***************************************************************************)
EXTENDS MethodBoundary

PluginRefused(reason) == methodErr(reason, FALSE)

ProofValue(proof) ==
  LET method == Object(<< <<"methodId", Text(Len(proof.method.id))>>,
                          <<"methodKind", Text(Len(proof.method.kind))>> >>) IN
  Object(<< <<"type", Text(Len("auth.proof"))>>, <<"proofMethod", method>>,
            <<"primaryIdentity", LookupValue(proof.identity.lookup)>>,
            <<"evidence", Array(<<Object(<< <<"kind", Text(Len(proof.method.kind))>>,
                                            <<"method", method>> >>)>>)>>,
            <<"assurance", Object(<< <<"level", Text(Len("medium"))>>,
                                     <<"factors", Array(<<Text(Len(proof.method.kind))>>)>> >>)>>,
            <<"authTime", Scalar>> >>)

-----------------------------------------------------------------------------
(* begin and complete with the OTP method                                  *)

BeginInputValue(v) ==
  Object(<< <<"subject", Text(v.lookup.subject.len)>>, <<"locale", Scalar>>,
            <<"publicData", Data(v.publicData)>>, <<"lookup", LookupValue(v.lookup)>> >>)

\* Template, subject kind and challenge identifier are as long as they may be.
BeginResultValue(r) ==
  LET to == Object(<< <<"channel", Text(Len(r.effect.channel))>>,
                      <<"target", Text(r.effect.target.len)>>, <<"display", Text(r.effect.display)>> >>)
      data == Object(<< <<"code", Secret(Len(r.effect.code))>>,
                        <<"subject", Text(r.effect.subject)>> >>)
      message == Object(<< <<"to", to>>, <<"templateId", Text(256)>>, <<"locale", Scalar>>,
                           <<"data", data>> >>)
  IN Object(<< <<"challengeMaterial",
                 Object(<< <<"schemaVersion", Text(6)>>,
                           <<"publicData", Object(<< <<"subjectKind", Text(128)>> >>)>>,
                           <<"privateData", Object(<< <<"codeHash", Secret(43)>> >>)>> >>)>>,
               <<"expiresAt", Scalar>>, <<"maxAttempts", Scalar>>,
               <<"sideEffects", Array(<<Object(<< <<"type", Text(8)>>, <<"dispatchPolicy", Text(8)>>,
                  <<"idempotencyKey", Text(512)>>, <<"expiresAt", Scalar>>,
                  <<"message", message>> >>)>>)>>,
               <<"publicData", Data(r.publicData)>> >>)

BeginOutput(lookup, instant, run) ==
  IF ~run.ok THEN run
  ELSE IF isValidBeginOutput(run.value, instant) /\ PublicDataOk(run.value.publicData)
  THEN Ok([lookup |-> lookup] @@ run.value)
  ELSE PluginRefused("VALIDATION_FAILED")

BeginRun(lookup, instant, result) ==
  BeginOutput(lookup, instant, invokeMethodRun(result, BeginResultValue(result.value)))

ValidatedBegin(checked) ==
  invokeMethodValidation(checked, BeginInputValue(checked.value), <<checked.value.lookup>>)

CallBegin(o, input, ctx, code) ==
  LET validated == ValidatedBegin(validateOtpBeginInput(o, input)) IN
  IF ~validated.ok THEN PluginRefused("VALIDATION_FAILED")
  ELSE BeginRun(validated.value.lookup, ctx.instant, OtpBegin(o, validated.value, ctx, code))

CompleteInputValue(v) ==
  Object(<< <<"code", Secret(Len(v.code))>>, <<"publicData", Data(v.publicData)>> >>)

CompleteResultValue(r) ==
  Object(<< <<"proof", ProofValue(r.proof)>>, <<"publicData", Data(r.publicData)>> >>)

CompleteOutput(o, ctx, run) ==
  IF ~run.ok THEN run
  ELSE IF ~PublicDataOk(run.value.publicData) THEN PluginRefused("VALIDATION_FAILED")
  ELSE IF proofMatches(o.method, ctx.lookup, run.value.proof, ctx.instant) THEN run
  ELSE PluginRefused("IDENTITY_BINDING_MISMATCH")

CompleteRun(o, ctx, result) ==
  CompleteOutput(o, ctx, invokeMethodRun(result, CompleteResultValue(result.value)))

\* ctx.lookup and ctx.material are those of the stored challenge.
CallComplete(o, input, ctx) ==
  LET validated == invokeMethodValidation(validateOtpCompleteInput(o, input),
                                          CompleteInputValue(input), <<>>) IN
  IF ~validated.ok THEN PluginRefused("VALIDATION_FAILED")
  ELSE CompleteRun(o, ctx, OtpComplete(o, validated.value, ctx))

-----------------------------------------------------------------------------
(* enroll and authenticate with the password method                        *)

PasswordInputValue(v) ==
  Object(<< <<"subject", Text(v.lookup.subject.len)>>, <<"password", Secret(v.password.len)>>,
            <<"lookup", LookupValue(v.lookup)>>, <<"publicData", Data(v.publicData)>> >>)

MaterialValue(material) ==
  Object(<< <<"schemaVersion", Text(11)>>,
            <<"privateData", Object(<< <<"passwordHash",
               Secret(8 + 22 + Base64Url(material.passwordHash.text.hash.length) + 2)>> >>)>> >>)

ValidatedPassword(checked) ==
  invokeMethodValidation(checked, PasswordInputValue(checked.value), <<checked.value.lookup>>)

EnrollResultValue(r, lookup) ==
  Object(<< <<"identity", LookupValue(lookup)>>, <<"credentialMaterial", MaterialValue(r.material)>>,
            <<"proof", ProofValue(r.proof)>>, <<"publicData", Data(r.publicData)>> >>)

EnrollOutput(o, lookup, instant, run) ==
  IF ~run.ok THEN run
  ELSE IF ~isIdentityClaim(run.value.identity, instant) THEN PluginRefused("VALIDATION_FAILED")
  ELSE IF \/ run.value.identity.lookup.method # o.method
          \/ ~identityMatches(lookup, run.value.identity)
  THEN PluginRefused("IDENTITY_BINDING_MISMATCH")
  ELSE IF ~PublicDataOk(run.value.publicData) THEN PluginRefused("VALIDATION_FAILED")
  ELSE IF /\ proofMatches(o.method, lookup, run.value.proof, instant)
          /\ identityMatches(run.value.identity.lookup, run.value.proof.identity) THEN run
  ELSE PluginRefused("IDENTITY_BINDING_MISMATCH")

EnrollRun(o, value, instant, result) ==
  EnrollOutput(o, value.lookup, instant,
               invokeMethodRun(result, EnrollResultValue(result.value, value.lookup)))

CallEnroll(o, input, instant, salt) ==
  LET validated == ValidatedPassword(validatePasswordInput(o, input)) IN
  IF ~validated.ok THEN PluginRefused("VALIDATION_FAILED")
  ELSE EnrollRun(o, validated.value, instant, PasswordEnroll(o, validated.value, instant, salt))

AuthenticateResultValue(r) ==
  Object(<< <<"proof", ProofValue(r.proof)>>, <<"publicData", Data(r.publicData)>>,
            <<"credentialMaterial",
              IF r.material = <<>> THEN Scalar ELSE MaterialValue(r.material[1])>> >>)

AuthenticateOutput(o, lookup, instant, credential, run) ==
  IF ~run.ok THEN run
  ELSE IF credential = <<>> THEN methodErr("AUTHENTICATION_FAILED", TRUE)
  ELSE IF ~PublicDataOk(run.value.publicData) THEN PluginRefused("VALIDATION_FAILED")
  ELSE IF proofMatches(o.method, lookup, run.value.proof, instant) THEN run
  ELSE PluginRefused("IDENTITY_BINDING_MISMATCH")

AuthenticateRun(o, value, instant, credential, result) ==
  AuthenticateOutput(o, value.lookup, instant, credential,
                     invokeMethodRun(result, AuthenticateResultValue(result.value)))

\* credential: the material of the identity's active credential, if there is one.
CallAuthenticate(o, input, instant, credential, salt) ==
  LET validated == ValidatedPassword(validatePasswordInput(o, input)) IN
  IF ~validated.ok THEN PluginRefused("VALIDATION_FAILED")
  ELSE AuthenticateRun(o, validated.value, instant, credential,
         PasswordAuthenticate(o, validated.value, instant, credential, salt))

=============================================================================
