--------------------------- MODULE MethodBoundary ---------------------------
(***************************************************************************)
(* What the core makes of the values its plugins return: it takes a copy   *)
(* of them, node by node and within limits, and then judges the copy.      *)
(*                                                                         *)
(* A value is [t, ...] with t one of                                       *)
(*   "scalar"           undefined, null, a boolean, number or date         *)
(*   "text"   chars     a string or bytes                                  *)
(*   "data"   nodes, depth, chars   an object of public data               *)
(*   "secret" chars, shaped         an object with the type and the reveal *)
(*                      function of a secret; shaped when it has no more   *)
(*   "object", "array"  props       a sequence of <<key, value>>           *)
(*   "other"            a function, NaN, an instance of a class, an object *)
(*                      with accessors or symbols, a sparse array          *)
(*   "ref"    to        the object heap[to], which may be shared           *)
(***************************************************************************)
EXTENDS MethodPlugins

Scalar == [t |-> "scalar"]
Other == [t |-> "other"]
Text(chars) == [t |-> "text", chars |-> chars]
Secret(chars) == [t |-> "secret", chars |-> chars, shaped |-> TRUE]
Object(props) == [t |-> "object", props |-> props]
Array(items) == [t |-> "array", props |-> [i \in DOMAIN items |-> <<"", items[i]>>]]
Ref(to) == [t |-> "ref", to |-> to]
\* The object itself is one node more than its entries.
Data(d) == [t |-> "data", nodes |-> d.nodes + 1, depth |-> d.depth + 1, chars |-> d.chars]

\* A copy in the making: what it has cost.
Begun == [ok |-> TRUE, nodes |-> 0, chars |-> 0]
Invalid == [ok |-> FALSE, nodes |-> 0, chars |-> 0]

Spend(s, chars, limits) ==
  IF s.chars + chars > limits.chars THEN Invalid ELSE [s EXCEPT !.chars = @ + chars]

KeyAllowed(key) == Len(key) \in 1..512

snapshotSecretWrapper(secret, s, limits) ==
  IF ~secret.shaped \/ secret.chars = 0 THEN Invalid ELSE Spend(s, secret.chars, limits)

SnapshotData(d, s, depth, limits) ==
  IF s.nodes + d.nodes - 1 > limits.nodes \/ depth + d.depth > limits.depth THEN Invalid
  ELSE Spend([s EXCEPT !.nodes = @ + d.nodes - 1], d.chars, limits)

RECURSIVE snapshotMethodValue(_, _, _, _, _, _), SnapshotProperties(_, _, _, _, _, _, _)

\* The properties of v from the i-th on, one level down; the keys of a list cost nothing.
SnapshotProperties(v, i, heap, limits, visiting, s, depth) ==
  IF ~s.ok \/ i > Len(v.props) THEN s
  ELSE LET key == v.props[i][1]
           named == IF v.t = "array" THEN s
                    ELSE IF KeyAllowed(key) THEN Spend(s, Len(key), limits) ELSE Invalid
           copied == IF ~named.ok THEN named
                     ELSE snapshotMethodValue(v.props[i][2], heap, limits, visiting, named, depth)
       IN SnapshotProperties(v, i + 1, heap, limits, visiting, copied, depth)

snapshotMethodValue(value, heap, limits, visiting, s, depth) ==
  LET counted == [s EXCEPT !.nodes = @ + 1]
      v == IF value.t = "ref" THEN heap[value.to] ELSE value
      inside == IF value.t = "ref" THEN visiting \cup {value.to} ELSE visiting
  IN IF \/ counted.nodes > limits.nodes
        \/ depth > limits.depth
        \/ v.t = "other"
        \/ value.t = "ref" /\ value.to \in visiting
     THEN Invalid
     ELSE CASE v.t = "scalar" -> counted
            [] v.t = "text" -> Spend(counted, v.chars, limits)
            [] v.t = "secret" -> snapshotSecretWrapper(v, counted, limits)
            [] v.t = "data" -> SnapshotData(v, counted, depth, limits)
            [] OTHER -> SnapshotProperties(v, 1, heap, limits, inside, counted, depth + 1)

Limits == [nodes |-> 10000, depth |-> 32, chars |-> 1000000]

Copied(value) == snapshotMethodValue(value, <<>>, Limits, {}, Begun, 0).ok

-----------------------------------------------------------------------------
(* The calls.  Each plugin result is given with the value it is.           *)

isIdentityLookup(lookup) == lookup.subject.len \in 1..512 /\ lookup.display <= 512

LookupValue(lookup) ==
  Object(<< <<"methodId", Text(Len(lookup.method.id))>>, <<"methodKind", Text(Len(lookup.method.kind))>>,
            <<"subject", Text(lookup.subject.len)>>,
            <<"subjectKind", Text(Len(lookup.method.subjectKind))>>,
            <<"display", Text(lookup.display)>> >>)

\* lookups: the lookup of the result, if it has one.
invokeMethodValidation(result, value, lookups) ==
  IF /\ result.ok /\ Copied(value)
     /\ \A i \in DOMAIN lookups : isIdentityLookup(lookups[i])
     /\ PublicDataOk(result.value.publicData)
  THEN result ELSE validationError("METHOD_VALIDATION_FAILED")

invokeMethodRun(result, value) ==
  IF ~result.ok \/ Copied(value) THEN result ELSE methodErr("INTERNAL", FALSE)

-----------------------------------------------------------------------------
(* The judgements                                                          *)

isIdentityClaim(identity, instant) ==
  /\ identity.lookup.subject.len \in 1..512
  /\ identity.lookup.display <= 512
  /\ identity.verifiedAt = <<>> \/ identity.verifiedAt[1] <= instant

identityMatches(lookup, identity) ==
  /\ lookup.method = identity.lookup.method
  /\ lookup.subject = identity.lookup.subject

\* Without the subject's kind.
identityKeyForProof(identity) == <<identity.lookup.method.id, identity.lookup.subject>>

proofMatches(method, lookup, proof, instant) ==
  /\ proof.method = method
  /\ proof.authTime <= instant
  /\ proof.expiresAt = <<>> \/ (proof.expiresAt[1] > instant /\ proof.authTime <= proof.expiresAt[1])
  /\ isIdentityClaim(proof.identity, instant)
  /\ proof.identity.lookup.method = method
  /\ identityMatches(lookup, proof.identity)
  /\ Len(proof.additional) <= 100
  /\ \A i \in DOMAIN proof.additional : isIdentityClaim(proof.additional[i], instant)
  /\ IsInjective([i \in DOMAIN proof.additional |-> identityKeyForProof(proof.additional[i])])
  /\ \A i \in DOMAIN proof.additional :
       identityKeyForProof(proof.additional[i]) # identityKeyForProof(proof.identity)

\* The message a begun challenge has delivered; its code is sealed on the way.
OtpMessage(effect) ==
  [to |-> [channel |-> effect.channel, list |-> effect.target.list],
   data |-> <<[count |-> 1, item |-> [secret |-> TRUE, key |-> Len("code"),
                                      raw |-> Len(effect.code),
                                      cipher |-> SealedLength(Len(effect.code))]],
              [count |-> 1, item |-> [secret |-> FALSE, key |-> Len("subject"), depth |-> 0,
                                      nodes |-> 1, chars |-> effect.subject,
                                      longest |-> effect.subject, marked |-> FALSE]]>>,
   metadata |-> <<>>]

isSideEffect(effect) ==
  /\ effect.policy = "required"
  /\ Len(effect.channel) \in 1..64 /\ effect.target.len \in 1..2048
  /\ effect.display <= 512
  /\ CoreAccepts(OtpMessage(effect))

isValidBeginOutput(r, instant) ==
  /\ r.expiresAt > instant
  /\ r.maxAttempts \in 1..1000000
  /\ isSideEffect(r.effect)

=============================================================================
