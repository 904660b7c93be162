---------------------------- MODULE MCAuthStack ----------------------------
(***************************************************************************)
(* The scenes of the in-memory stack.                                      *)
(***************************************************************************)
EXTENDS AuthStack, MethodClaims

Account(op, status) == [op |-> op, account |-> "a1", status |-> status]
Identity(i, subject) ==
  [op |-> "createIdentity", identity |-> i, subject |-> subject, account |-> "a1"]
Credential(k, i) == [op |-> "createCredential", credential |-> k, identity |-> i, account |-> "a1"]
Session(s, token, t) ==
  [op |-> "createSession", session |-> s, token |-> token, account |-> "a1", expiresAt |-> t]
Challenge(h, t) == [op |-> "createChallenge", challenge |-> h, expiresAt |-> t]
OnChallenge(op, h, v) == [op |-> op, challenge |-> h, version |-> v]
OnCredential(op, k, v) == [op |-> op, credential |-> k, version |-> v, status |-> "disabled"]
Message(n, key, policy, content, t) ==
  [id |-> <<"seed", policy, n>>, key |-> key, policy |-> policy, content |-> content, expiresAt |-> t]
Enqueue(m) == [op |-> "enqueueBatch", batch |-> <<m>>]
Worker == "w1"
Claim == [op |-> "claimBatch", limit |-> 1, worker |-> Worker]
OnLease(op, id, n, last) == [op |-> op, id |-> id, lease |-> n, worker |-> Worker, terminal |-> last]
Plain(op) == [op |-> op]
Script(covers, calls) == [covers |-> covers, calls |-> calls]

FindAccount == [op |-> "findAccount", account |-> "a1"]
FindSubject == [op |-> "findBySubject", subject |-> "alice"]

\* Two clients enroll, verify and change credentials; somebody else disables
\* the account or takes the subject meanwhile.
RegistryScene ==
  [seed |-> <<Account("createAccount", "active")>>,
   scripts |->
     {Script({"accounts", "identities", "credentials"},
             <<Identity("i1", "alice"), Credential("k1", "i1")>>),
      Script({"identities", "accounts"}, <<FindSubject, Identity("i2", "alice")>>),
      Script({"identities", "credentials"},
             <<Identity("i3", "carol"), OnCredential("replaceMaterial", "k1", 1)>>),
      Script({"identities"}, <<[op |-> "markVerified", identity |-> "i1"]>>),
      Script({"credentials"}, <<[op |-> "findForIdentity", identity |-> "i1"],
                                OnCredential("updateCredentialStatus", "k1", 1)>>),
      Script({"accounts"}, <<FindAccount, Account("updateAccountStatus", "deleted")>>),
      Script({}, <<>>)},
   outputs |-> {},
   direct |-> {Account("updateAccountStatus", "disabled"), Identity("i4", "alice"),
               OnCredential("replaceMaterial", "k1", 1),
               [op |-> "createAccount", account |-> "a2", status |-> "active"]},
   limit |-> 1, dispatcher |-> "none"]

\* Sessions of an account and a challenge near its last attempt.
SessionScene ==
  [seed |-> <<Account("createAccount", "active"), Session("s1", "t1", 1), Challenge("h1", 1),
                   OnChallenge("recordFailedAttempt", "h1", 1)>>,
   scripts |->
     {Script({"accounts", "sessions"}, <<FindAccount, Session("s2", "t2", 2)>>),
      Script({"sessions"}, <<[op |-> "findByTokenHash", token |-> "t1"],
                             [op |-> "revoke", session |-> "s1"]>>),
      Script({"challenges"}, <<[op |-> "findChallenge", challenge |-> "h1"],
                               OnChallenge("consumePending", "h1", 2)>>),
      Script({"challenges"}, <<OnChallenge("recordFailedAttempt", "h1", 2)>>),
      Script({"sessions", "challenges"}, <<Session("s3", "t1", 2)>>)},
   outputs |-> {},
   direct |-> {Account("updateAccountStatus", "disabled"), [op |-> "revoke", session |-> "s2"],
               Session("s4", "t2", 2), Plain("cleanupExpiredSessions"),
               Plain("cleanupExpiredChallenges"), OnChallenge("recordFailedAttempt", "h1", 2),
               OnChallenge("consumePending", "h1", 3)},
   limit |-> 1, dispatcher |-> "none"]

Effect(policy, key, content, t) ==
  [policy |-> policy, key |-> key, content |-> content, expiresAt |-> t]
Output(t, effects) == [expiresAt |-> t, effects |-> effects]

Code == Effect("required", "c1", "code", 2)
Link == Effect("best-effort", None, "link", Never)
Note(content) == Effect("best-effort", "n1", content, 1)

SecretEntry(key, raw, cipher) == [secret |-> TRUE, key |-> key, raw |-> raw, cipher |-> cipher]
Value(key, depth, nodes, chars, longest, marked) ==
  [secret |-> FALSE, key |-> key, depth |-> depth, nodes |-> nodes, chars |-> chars,
   longest |-> longest, marked |-> marked]
TextEntry(key, n) == Value(key, 0, 1, n, n, FALSE)
Entry(n, item) == [count |-> n, item |-> item]
Mailbox == [channel |-> "email", list |-> FALSE]
Mailboxes == [channel |-> "email", list |-> TRUE]
Telephone == [channel |-> "phone", list |-> FALSE]
To(address, groups) ==
  [to |-> address, data |-> groups, metadata |-> <<Entry(1, TextEntry(6, 12))>>]
Carrying(groups) == To(Mailbox, groups)

MCShapes ==
  [code |-> Carrying(<<Entry(1, SecretEntry(4, 6, 120))>>),
   other |-> Carrying(<<Entry(1, SecretEntry(4, 6, 124))>>),
   link |-> Carrying(<<Entry(1, SecretEntry(3, 400, 900)), Entry(1, TextEntry(4, 30))>>),
   \* Two only the transport refuses.
   note |-> To(Telephone, <<Entry(2, TextEntry(4, 200))>>),
   late |-> To(Mailboxes, <<Entry(1, Value(5, 2, 12, 90, 20, FALSE))>>),
   \* Two values the core and the dispatcher count alone and the store together.
   wide |-> Carrying(<<Entry(2, Value(5, 3, 600, 700, 10, FALSE))>>),
   \* A secret the dispatcher and the worker have no room for.
   huge |-> Carrying(<<Entry(1, SecretEntry(4, 1000001, 1500000))>>)]

\* Every number at its limit and one past it, alone and next to a second value.
Edges ==
  {<<Entry(n, SecretEntry(k, raw, c))>> :
     n \in {1, 2}, k \in {0, 512, 513}, raw \in {0, 500000, 500001, 1000001},
     c \in {1, 499488, 500000, 500001, 1000000, 1000001}}
  \cup {<<Entry(n, Value(4, d, nodes, chars, 100, marked))>> :
     n \in {1, 2}, d \in {15, 16, 17}, nodes \in {17, 499, 500, 501, 999, 1000, 1001},
     chars \in {100, 499996, 499997, 999994, 1000000}, marked \in BOOLEAN}
  \cup {<<Entry(n, TextEntry(k, c))>> :
     n \in {1, 15, 16, 1000, 1001}, k \in {0, 1, 512, 513}, c \in {0, 488, 65536, 65537}}

Mixed ==
  {<<Entry(1, SecretEntry(4, 1000, c)), Entry(n, Value(4, 1, nodes, chars, 100, FALSE))>> :
     c \in {1, 500000, 999896}, n \in {1, 2}, nodes \in {2, 500, 501, 1000},
     chars \in {96, 100, 500000}}

MCSamples ==
  {[to |-> Mailbox, data |-> groups, metadata |-> <<>>] : groups \in Edges}
  \cup {[to |-> a, data |-> groups, metadata |-> <<>>] :
          a \in {Mailbox, Mailboxes, Telephone}, groups \in Mixed}
  \cup {[to |-> Mailbox, data |-> <<>>, metadata |-> groups] :
          groups \in {g \in Edges : ~g[1].item.secret}}

Outputs ==
  {Output(2, <<Link, Code, Note("note")>>),
   Output(2, <<Note("huge"), Code, Link>>),
   Output(2, <<Effect("required", "c1", "other", 2)>>),
   Output(2, <<Effect("required", "c2", "code", 2), Note("wide")>>)}

OutboxScene ==
  [seed |-> <<Enqueue(Message(1, "c1", "required", "code", 2)), Claim,
                   OnLease("markDispatched", <<"seed", "required", 1>>, 1, FALSE),
                   Enqueue(Message(2, "c2", "required", "code", 2)), Claim,
                   OnLease("markFailed", <<"seed", "required", 2>>, 2, TRUE)>>,
   scripts |-> {},
   outputs |-> Outputs,
   direct |-> {Claim, Plain("cleanupTerminal")},
   limit |-> 1, dispatcher |-> "outbox"]

\* A message nobody has claimed yet, near its last attempt.
WorkerScene ==
  [seed |-> <<Enqueue(Message(1, "c1", "required", "code", 2))>>,
   scripts |-> {Script({"outbox"}, <<Enqueue(Message(1, "c9", "best-effort", "late", 2))>>)},
   outputs |-> {Output(2, <<Code, Link>>)},
   direct |-> {Claim, OnLease("renewLease", <<"seed", "required", 1>>, 1, FALSE),
               OnLease("markFailed", <<"seed", "required", 1>>, 1, FALSE),
               OnLease("markDispatched", <<"seed", "required", 1>>, 1, FALSE),
               Plain("cleanupTerminal")},
   limit |-> 2, dispatcher |-> "outbox"]

\* Required effects without a key, and some there is no time or no room for.
EdgeScene ==
  [seed |-> <<>>, scripts |-> {},
   outputs |-> {Output(2, <<Effect("required", None, "code", 2)>>),
                Output(1, <<Effect("required", "c4", "code", 1)>>),
                Output(2, <<Effect("required", "c3", "wide", 2)>>)},
   direct |-> {}, limit |-> 0, dispatcher |-> "outbox"]

SyncScene ==
  [seed |-> <<>>, scripts |-> {},
   outputs |-> {Output(2, <<Link, Note("huge"), Note("note")>>), Output(2, <<Code>>)},
   direct |-> {}, limit |-> 0, dispatcher |-> "sync"]

\* No dispatcher, and an identifier that is taken.
BareScene ==
  [seed |-> <<Challenge("p2", 2)>>, scripts |-> {},
   outputs |-> {Output(2, <<Link>>), Output(2, <<Code>>)},
   direct |-> {}, limit |-> 2, dispatcher |-> "none"]

MCScenes == <<RegistryScene, SessionScene, OutboxScene, WorkerScene, EdgeScene, SyncScene, BareScene>>

-----------------------------------------------------------------------------
(* The plugins in front of the stack                                       *)

\* An answered code opened the challenge it was issued for and no other, in either
\* scheme a stored code can have; a begun challenge can be stored, delivered and
\* answered until it expires; a password signs its owner in whatever the hasher was
\* and is, and is hashed anew only when it is too weak; a result is copied exactly
\* when it is within the limits; seals and tokens open only as they were made
\* (the OTP and password methods, the token format, the Node crypto provider and
\* the copies the core takes of what they return).
MethodsSound == scene \in DOMAIN Scenes /\ ClaimsHold

=============================================================================
