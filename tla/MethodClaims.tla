---------------------------- MODULE MethodClaims ----------------------------
(***************************************************************************)
(* What the plugins, the provider and the core's boundary owe each other,  *)
(* over inputs chosen at and beside the limits.  The operators are pure;   *)
(* the claims are evaluated for every combination of the inputs below.     *)
(***************************************************************************)
EXTENDS MethodCalls

Email == [id |-> "otp.email", kind |-> "otp", subjectKind |-> "email"]
Phone == [id |-> "otp.phone", kind |-> "otp", subjectKind |-> "phone"]
Password == [id |-> "password.email", kind |-> "password", subjectKind |-> "email"]

Subject(name, form, len, normal) == [name |-> name, form |-> form, len |-> len, normal |-> normal]

\* One mailbox typed in three ways; the longest; one that grows when lowered; a blank.
Subjects ==
  {Subject("ann", "plain", 5, 5), Subject("ann", "padded", 9, 5), Subject("ann", "upper", 5, 5),
   Subject("bob", "plain", 320, 320), Subject("bob", "plain", 512, 512),
   Subject("eve", "upper", 320, 513), Subject("none", "padded", 3, 0)}

NoData == [nodes |-> 0, depth |-> 0, chars |-> 0]
PublicData == {NoData, [nodes |-> 1000, depth |-> 16, chars |-> 65536],
               [nodes |-> 1001, depth |-> 1, chars |-> 8],
               [nodes |-> 20, depth |-> 1, chars |-> 995000],
               [nodes |-> 20, depth |-> 1, chars |-> 998000],
               [nodes |-> 20, depth |-> 1, chars |-> 1000000]}
Displays == {<<>>, <<0>>, <<512>>, <<513>>}
Target(len) == [len |-> len, list |-> FALSE]
Targets == {Target(0), Target(5), [len |-> 5, list |-> TRUE], Target(1024), Target(1025)}

-----------------------------------------------------------------------------
(* A code opens its own challenge only                                     *)

Digits == 0..9
Otp(method, channel, key, ttl) ==
  [method |-> method, channel |-> channel, key |-> key, alphabet |-> Digits, codeLength |-> 6,
   ttlSeconds |-> ttl, maxAttempts |-> 5]

OtpMethods == {Otp(Email, <<>>, 1, 1), Otp(Email, <<"phone">>, 2, 300), Otp(Phone, <<>>, 1, 3600),
               Otp(Phone, <<"email">>, 1, 3600)}
Codes == {<<0, 0, 0, 0, 0, 0>>, <<0, 0, 0, 0, 0, 1>>}
TypedCodes == Codes \cup {<<0, 0, 0, 0, 0>>, <<0, 0, 0, 0, 0, 10>>}
Places == {1, 2} \X {1, 2}      \* a tenant and a challenge

Context(place, instant) ==
  [tenant |-> place[1], challenge |-> place[2], instant |-> instant, target |-> Target(5)]

Ann(method) == [subject |-> Subject("ann", "plain", 5, 5), display |-> <<>>, publicData |-> NoData]

\* What is stored for a code: by this version of the method, or by the one before.
Stored(o, place, code, legacy, begun) ==
  IF ~legacy THEN begun.material
  ELSE [schemaVersion |-> "otp.v1",
        codeHash |-> protectedValue(OtpV2, "hmac",
                       hmacDigest(o.key, HMAC_LEGACY_FRAMING,
                                  <<otpHmacContext(place[1], place[2])>>, code))]

CodesOpenTheirOwn ==
  \A o \in OtpMethods, place \in Places, code \in Codes, legacy \in BOOLEAN :
    \A begun \in {CallBegin(o, Ann(o.method), Context(place, 0), code).value} :
      \A other \in OtpMethods, at \in Places, typed \in TypedCodes :
        LET opens == typed = code /\ at = place /\ other.key = o.key /\ other.method = o.method
            kept == [lookup |-> begun.lookup, material |-> Stored(o, place, code, legacy, begun)]
        IN \A answer \in {CallComplete(other, [code |-> typed, publicData |-> NoData],
                                       kept @@ Context(at, 1))} :
             /\ answer.ok <=> opens
             /\ answer.ok => answer.value.proof.identity.lookup = begun.lookup
             /\ ~answer.ok => (answer.countsAsAttempt <=>
                                 typed \in Codes /\ other.method = o.method)

-----------------------------------------------------------------------------
(* A begun challenge can be stored, delivered and answered in time         *)

Sealer == [key |-> 1, keyId |-> "k1"]

\* The message of a begin that succeeded, which the transport sends when the method
\* speaks by mail and the target is one address, and its code as the dispatcher
\* seals it.
GoodBegin(begun, challenge, byMail, target) ==
  \A e \in {begun.effect} :
    /\ e.key = challenge /\ e.expiresAt = begun.expiresAt
    /\ Persistable(OtpMessage(e)) /\ WorkerAccepts(OtpMessage(e))
    /\ isDeliveryMessage(OtpMessage(e)) <=> byMail /\ ~target.list
    /\ \A sealed \in {seal(Sealer, [id |-> "code", len |-> Len(e.code)], challenge, <<e.expiresAt>>)} :
         /\ sealed.ok
         /\ unseal(Sealer, sealed.value, challenge, begun.expiresAt - 1).ok
         /\ ~unseal(Sealer, sealed.value, challenge, begun.expiresAt).ok

\* The characters the core's copy of a value leaves for public data.
Room(value) == MaxCharacters - snapshotMethodValue(value, <<>>, Limits, {}, Begun, 0).chars

Legal(o, input) ==
  validateOtpBeginInput(o, input).ok /\ normalizeSubject(input.subject, o.method.subjectKind).len <= 512

\* What becomes of a begin: public data validation accepts must leave room for
\* the rest of the input, and for the rest of the method's result.
BeginOutcome(o, input, ctx, code) ==
  IF ~Legal(o, input) THEN "VALIDATION_FAILED"
  ELSE LET bare == validateOtpBeginInput(o, [input EXCEPT !.publicData = NoData]).value
           run == OtpBegin(o, bare, ctx, code)
       IN IF input.publicData.chars > Room(BeginInputValue(bare)) THEN "VALIDATION_FAILED"
          ELSE IF ctx.target.len \notin 1..1024 THEN "DELIVERY_FAILED"
          ELSE IF input.publicData.chars > Room(BeginResultValue(run.value)) THEN "INTERNAL"
          ELSE "begun"

BeginOutcomesExact ==
  \A o \in OtpMethods, s \in Subjects, d \in Displays, p \in PublicData, t \in Targets :
    LET input == [subject |-> s, display |-> d, publicData |-> p]
        ctx == [tenant |-> 1, challenge |-> 2, instant |-> 7, target |-> t]
        code == <<1, 2, 3, 4, 5, 6>>
        byMail == o.channel = <<"email">> \/ (o.channel = <<>> /\ o.method = Email)
    IN \A answer \in {CallBegin(o, input, ctx, code)} :
         /\ BeginOutcome(o, input, ctx, code) = IF answer.ok THEN "begun" ELSE answer.reason
         /\ IF answer.ok THEN GoodBegin(answer.value, 2, byMail, t) ELSE ~answer.countsAsAttempt

-----------------------------------------------------------------------------
(* A password outlives every change of the hasher                          *)

Hashers == [iterations : {MIN_ITERATIONS, MAX_ITERATIONS}, keyLength : {MIN_KEY_LENGTH, MAX_KEY_LENGTH}]

PasswordMethod(hasher) == [method |-> Password, hasher |-> hasher, min |-> 8, max |-> 1024]

AnnsPassword(id, len) ==
  [subject |-> Subject("ann", "upper", 5, 5), display |-> <<>>, publicData |-> NoData,
   password |-> [id |-> id, len |-> len]]

\* What may be stored for a password: the hash of some hasher, or of a release before them all.
Materials(len) ==
  {[schemaVersion |-> "password.v1",
    passwordHash |-> Derived(h, [id |-> "right", len |-> len], salt)] :
     h \in Hashers \cup {[iterations |-> 1000, keyLength |-> 16]}, salt \in {0, 1}}

\* One step of any history of enrolments, sign-ins and changes of the hasher: what is stored
\* signs its owner in, is replaced by what the hasher of the day asks for, and stays in Materials.
PasswordsSurviveUpgrades ==
  \A h \in Hashers, len \in {8, 1024} :
    LET o == PasswordMethod(h)
        right == AnnsPassword("right", len)
        SignIn(id, credential) == CallAuthenticate(o, AnnsPassword(id, len), 5, credential, 1)
    IN /\ CallEnroll(o, right, 0, 1).value.material \in Materials(len)
       /\ SignIn("right", <<>>) = methodErr("CREDENTIAL_NOT_FOUND", TRUE)
       /\ \A kept \in Materials(len) : \A answer \in {SignIn("right", <<kept>>)} :
            LET after == IF answer.value.material = <<>> THEN kept ELSE answer.value.material[1]
            IN /\ answer.ok
               /\ after \in Materials(len)
               /\ SignIn("right", <<after>>).value.material = <<>>
               /\ SignIn("wrong", <<kept>>) = methodErr("PASSWORD_MISMATCH", TRUE)

-----------------------------------------------------------------------------
(* The copy of a value is refused exactly when its unfolding is too large  *)

SmallLimits == [nodes |-> 6, depth |-> 2, chars |-> 3]

Leaves == {Scalar, Other, Text(2), [t |-> "secret", chars |-> 1, shaped |-> TRUE],
           [t |-> "secret", chars |-> 1, shaped |-> FALSE]}
Members == Leaves \cup {Ref(1), Ref(2)}
\* Small objects and lists of items, or a leaf that is an object too.
Objects == {[t |-> t, props |-> ps] : t \in {"object", "array"},
              ps \in {<<>>} \cup {<< <<"k", i>> >> : i \in Members}
                     \cup {<< <<"k", i>>, <<"l", j>> >> : i \in Members, j \in Members}}

\* The values at the end of each path, from the root down to some depth.
RECURSIVE Unfolded(_, _, _)
Unfolded(value, heap, depth) ==
  LET v == IF value.t = "ref" THEN heap[value.to] ELSE value IN
  <<v>> \o IF depth = 0 \/ v.t \notin {"object", "array"} THEN <<>>
           ELSE FlattenSeq([i \in DOMAIN v.props |-> Unfolded(v.props[i][2], heap, depth - 1)])

RECURSIVE Deeper(_, _, _)
Deeper(value, heap, depth) ==
  LET v == IF value.t = "ref" THEN heap[value.to] ELSE value IN
  v.t \in {"object", "array"} /\ (v.props # <<>>)
    /\ (depth = 0 \/ \E i \in DOMAIN v.props : Deeper(v.props[i][2], heap, depth - 1))

Chars(v) ==
  CASE v.t \in {"text", "secret"} -> v.chars
    [] v.t = "object" -> Len(v.props)
    [] OTHER -> 0

FitsUnfolded(value, heap, limits) ==
  LET vs == Unfolded(value, heap, limits.depth)
      chars[k \in 0..Len(vs)] == IF k = 0 THEN 0 ELSE chars[k - 1] + Chars(vs[k])
  IN
  /\ ~Deeper(value, heap, limits.depth)
  /\ Len(vs) <= limits.nodes
  /\ chars[Len(vs)] <= limits.chars
  /\ \A i \in DOMAIN vs : vs[i] # Other /\ (vs[i].t = "secret" => vs[i].shaped)

CopyMatchesUnfolding ==
  \A one \in Objects, two \in {x \in Objects : Len(x.props) <= 1} :
    snapshotMethodValue(Ref(1), <<one, two>>, SmallLimits, {}, Begun, 0).ok
      <=> FitsUnfolded(Ref(1), <<one, two>>, SmallLimits)

-----------------------------------------------------------------------------
(* The provider's own                                                      *)

Texts(n) == UNION {[1..k -> 0..2] : k \in 0..n}

\* No two inputs of one framing are the same bytes; the old framing always had a context here.
FramingTellsApart ==
  LET instant == {<<c, v>> : c \in {<<>>} \cup {<<t>> : t \in Texts(2)}, v \in Texts(2)}
      before == {<< <<c>>, v>> : c \in Texts(2), v \in Texts(2)}
  IN /\ Cardinality({FramedBytes(HMAC_SCHEME, x[1], x[2]) : x \in instant}) = Cardinality(instant)
     /\ Cardinality({FramedBytes(HMAC_LEGACY_FRAMING, x[1], x[2]) : x \in before}) = Cardinality(before)

\* Every character of an alphabet is as likely as any other, and some byte is always taken.
DrawsAreEven ==
  \A size \in {2, 3, 10, 36, 62, 64, 255, 256} :
    /\ BytesFor(size, 0) # {}
    /\ \A i \in 0..(size - 1) : Cardinality(BytesFor(size, i)) = Cardinality(BytesFor(size, 0))

\* The two limits of the sealer agree, and a secret opens only as it was sealed.
SealsOpenAsSealed ==
  LET value == [id |-> "s", len |-> 6]
      expiries == {<<>>, <<5>>, <<6>>}
      sealers == {Sealer, [Sealer EXCEPT !.key = 2], [Sealer EXCEPT !.keyId = "k2"]}
  IN /\ SealedLength(maxSealedPlaintextBytes) = maxSealedCiphertextCharacters
     /\ SealedLength(maxSealedPlaintextBytes + 1) > maxSealedCiphertextCharacters
     /\ \A by \in sealers, e \in expiries, as \in expiries, p \in {1, 2}, instant \in 4..6 :
          LET row == [seal(Sealer, value, 1, e).value EXCEPT !.expiresAt = as] IN
          unseal(by, row, p, instant) =
            IF by = Sealer /\ as = e /\ p = 1 /\ (e = <<>> \/ instant < e[1])
            THEN CryptoOk(value) ELSE CryptoFailure

\* A token names the session it was issued for and no other.
TokensNameTheirSession ==
  LET formats == {[bytes |-> b, scheme |-> s] : b \in {16, 32, 128}, s \in {"v1", "v2"}}
      raws == {[id |-> i, len |-> Base64Url(b)] : i \in {1, 2}, b \in {16, 32, 128}}
  IN \A f \in formats, g \in formats, r \in raws, q \in raws :
       LET issued == issue(f, [issuedAt |-> 0, expiresAt |-> 1], r)
           named == identify(g, q)
       IN /\ issued.ok <=> r.len = Base64Url(f.bytes)
          /\ named.ok
          /\ issued.ok => ((named.value = <<issued.value.tokenHash>>) <=> f = g /\ q = r)

-----------------------------------------------------------------------------

ClaimsHold ==
  /\ CodesOpenTheirOwn
  /\ BeginOutcomesExact
  /\ PasswordsSurviveUpgrades
  /\ CopyMatchesUnfolding
  /\ FramingTellsApart
  /\ DrawsAreEven
  /\ SealsOpenAsSealed
  /\ TokensNameTheirSession

=============================================================================
