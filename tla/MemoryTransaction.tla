-------------------------- MODULE MemoryTransaction --------------------------
(***************************************************************************)
(* The transaction runner of the testkit: a copy of the maps for the       *)
(* callback, and optimistic rules that say when the copy may replace the   *)
(* maps the direct calls have gone on changing.  A transaction is a record *)
(*   before   the maps when its turn came                                  *)
(*   working  the copy the callback reads and writes                       *)
(*   wrote    the entries the callback replaced in the copy                *)
(*   touched  the entries replaced in the committed maps since then        *)
(* An entry that was replaced is a new object, so "the same entry" is one  *)
(* that nobody replaced.                                                   *)
(***************************************************************************)
EXTENDS MemoryStores

\* What a worker asks of the outbox.
WorkerOps == {"claimBatch", "renewLease", "markDispatched", "markFailed", "cleanupTerminal"}

StoreOps == WorkerOps \cup
  {"createAccount", "findAccount", "updateAccountStatus", "createIdentity", "findBySubject",
   "markVerified", "createCredential", "findForIdentity", "replaceMaterial",
   "updateCredentialStatus", "createSession", "findByTokenHash", "revoke",
   "cleanupExpiredSessions", "createChallenge", "findChallenge", "recordFailedAttempt",
   "consumePending", "cleanupExpiredChallenges", "enqueueBatch"}

\* The scopes of a store call: the maps it asks memoryStateFor.
Needs(op) ==
  CASE op = "createIdentity" -> {"identities", "accounts"}
    [] op = "createCredential" -> {"credentials", "accounts", "identities"}
    [] op = "createSession" -> {"sessions", "accounts"}
    [] op \in {"createAccount", "findAccount", "updateAccountStatus"} -> {"accounts"}
    [] op \in {"findBySubject", "markVerified"} -> {"identities"}
    [] op \in {"findForIdentity", "replaceMaterial", "updateCredentialStatus"} -> {"credentials"}
    [] op \in {"findByTokenHash", "revoke", "cleanupExpiredSessions"} -> {"sessions"}
    [] op \in {"createChallenge", "findChallenge", "recordFailedAttempt", "consumePending",
               "cleanupExpiredChallenges"} -> {"challenges"}
    [] OTHER -> {"outbox"}

\* One store call on the maps it is given.
Perform(db, c, now) ==
  CASE c.op = "createAccount" -> createAccount(db, c, now)
    [] c.op = "findAccount" -> findAccount(db, c, now)
    [] c.op = "updateAccountStatus" -> updateAccountStatus(db, c, now)
    [] c.op = "createIdentity" -> createIdentity(db, c, now)
    [] c.op = "findBySubject" -> findBySubject(db, c, now)
    [] c.op = "markVerified" -> markVerified(db, c, now)
    [] c.op = "createCredential" -> createCredential(db, c, now)
    [] c.op = "findForIdentity" -> findForIdentity(db, c, now)
    [] c.op = "replaceMaterial" -> replaceMaterial(db, c, now)
    [] c.op = "updateCredentialStatus" -> updateCredentialStatus(db, c, now)
    [] c.op = "createSession" -> createSession(db, c, now)
    [] c.op = "findByTokenHash" -> findByTokenHash(db, c, now)
    [] c.op = "revoke" -> revoke(db, c, now)
    [] c.op = "cleanupExpiredSessions" -> cleanupExpiredSessions(db, c, now)
    [] c.op = "createChallenge" -> createChallenge(db, c, now)
    [] c.op = "findChallenge" -> findChallenge(db, c, now)
    [] c.op = "recordFailedAttempt" -> recordFailedAttempt(db, c, now)
    [] c.op = "consumePending" -> consumePending(db, c, now)
    [] c.op = "cleanupExpiredChallenges" -> cleanupExpiredChallenges(db, c, now)
    [] c.op = "enqueueBatch" -> enqueueBatch(db, c, now)
    [] c.op = "claimBatch" -> claimBatch(db, c, now)
    [] c.op = "renewLease" -> renewLease(db, c, now)
    [] c.op = "markDispatched" -> markDispatched(db, c, now)
    [] c.op = "markFailed" -> markFailed(db, c, now)
    [] c.op = "cleanupTerminal" -> cleanupTerminal(db, c, now)

Scopes == {"accounts", "identities", "credentials", "sessions", "challenges", "outbox"}

scopeStateKeys(scope) ==
  CASE scope = "accounts" -> {"accounts"}
    [] scope = "identities" -> {"identities", "subjects"}
    [] scope = "credentials" -> {"credentials", "byIdentity"}
    [] scope = "sessions" -> {"sessions", "byToken"}
    [] scope = "challenges" -> {"challenges"}
    [] scope = "outbox" -> {}

stateKeys == {"accounts", "identities", "subjects", "credentials", "byIdentity",
              "sessions", "byToken", "challenges"}
outboxKeys == {"messages", "keys"}

-----------------------------------------------------------------------------
(* A transaction that has its turn                                         *)

cloneState(owner, db, covers) ==
  [owner |-> owner, covers |-> covers, log |-> <<>>, wrote |-> {}, touched |-> {},
   before |-> db, working |-> db]

\* A call with the transaction, which must cover every scope of the call.
Within(tx, c, now) ==
  IF Needs(c.op) \subseteq tx.covers
  THEN LET r == Perform(tx.working, c, now)
       IN [tx |-> [tx EXCEPT !.working = r.db, !.wrote = @ \cup r.wrote], answer |-> r.answer]
  ELSE [tx |-> tx,
        answer |-> IF c.op = "enqueueBatch" THEN <<>> ELSE "STORE_UNAVAILABLE"]

entryMatches(left, right, map, k, replaced) ==
  /\ Has(left[map], k) <=> Has(right[map], k)
  /\ Has(left[map], k) => <<map, k>> \notin replaced /\ left[map][k] = right[map][k]

mapsMatch(base, tx, map) ==
  \A k \in DOMAIN base[map] \cup DOMAIN tx.before[map] :
    entryMatches(base, tx.before, map, k, tx.touched)

\* The entries of a map the callback has changed.
Changed(tx, map) ==
  {k \in DOMAIN tx.before[map] \cup DOMAIN tx.working[map] :
     ~entryMatches(tx.before, tx.working, map, k, tx.wrote)}

hasConflict(base, tx, map) ==
  \E k \in Changed(tx, map) : ~entryMatches(tx.before, base, map, k, tx.touched)

\* Only the entries the callback changed must be as they were.
SlipCanCommitTransactionState(base, tx) ==
  \A map \in stateKeys : ~hasConflict(base, tx, map)

canCommitTransactionState(base, tx) ==
  /\ \A map \in UNION {scopeStateKeys(s) : s \in tx.covers} : mapsMatch(base, tx, map)
  /\ \A map \in stateKeys : ~hasConflict(base, tx, map)

\* Asked of every transaction, also of one that does not cover the outbox.
canCommitMemoryOutboxState(base, tx) ==
  /\ \A map \in outboxKeys : mapsMatch(base, tx, map) /\ ~hasConflict(base, tx, map)
  /\ base.leaseSequence = tx.before.leaseSequence

applyChanges(base, tx, map) ==
  LET changed == Changed(tx, map)
      set == changed \cap DOMAIN tx.working[map]
  IN Over([k \in set |-> tx.working[map][k]], Without(base[map], changed \ set))

\* A new message is the last of the messages.
applyTransactionState(base, tx) ==
  [map \in DOMAIN base |->
     IF map \in stateKeys \cup outboxKeys THEN applyChanges(base, tx, map)
     ELSE IF map = "order"
     THEN Only(base.order, DOMAIN applyChanges(base, tx, "messages"))
            \o Only(tx.working.order, DOMAIN tx.working.messages \ DOMAIN base.messages)
     ELSE IF tx.working.leaseSequence # tx.before.leaseSequence
     THEN tx.working.leaseSequence ELSE base.leaseSequence]

=============================================================================
