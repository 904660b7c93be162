---------------------------- MODULE MemoryStores ----------------------------
(***************************************************************************)
(* The in-memory stores of the testkit as a value: the maps of MemoryState *)
(* and MemoryOutboxState, and what each store operation does to them.  An  *)
(* operation contains no await, so it is one function of the maps; it      *)
(* returns the new maps, the entries it replaced and its answer.  Every    *)
(* replaced entry is a new object, which is what the transaction runner    *)
(* compares.  There is one tenant.                                         *)
(***************************************************************************)
EXTENDS Naturals, Sequences, FiniteSets, SequencesExt, Loops

CONSTANTS
  MaxAttempts,   \* maxAttempts of a challenge and of a message
  LeaseSeconds,
  Horizon,       \* the clock stops here; later times are capped
  None           \* undefined or null

ASSUME MemoryAssumption ==
  MaxAttempts \in Nat \ {0} /\ LeaseSeconds \in Nat \ {0} /\ Horizon \in Nat

Time == 0..Horizon
Never == Horizon + 1          \* no expiresAt
Later(t, delay) == IF t + delay <= Horizon THEN t + delay ELSE Horizon

EmptyMap == [k \in {} |-> None]

createEmptyState ==
  [accounts |-> EmptyMap, identities |-> EmptyMap, subjects |-> EmptyMap,
   credentials |-> EmptyMap, byIdentity |-> EmptyMap,
   sessions |-> EmptyMap, byToken |-> EmptyMap, challenges |-> EmptyMap,
   messages |-> EmptyMap, order |-> <<>>, keys |-> EmptyMap, leaseSequence |-> 0]

\* The maps whose values are records; the others index them by value.
RecordMaps == {"accounts", "identities", "credentials", "sessions", "challenges", "messages"}

Has(map, k) == k \in DOMAIN map

Put(map, k, v) == [x \in DOMAIN map \cup {k} |-> IF x = k THEN v ELSE map[x]]

\* The entries of new, and those of map it does not have.
Over(new, map) ==
  [x \in DOMAIN new \cup DOMAIN map |-> IF x \in DOMAIN new THEN new[x] ELSE map[x]]

Without(map, gone) == [k \in DOMAIN map \ gone |-> map[k]]

Found(map, k) == IF Has(map, k) THEN map[k] ELSE None

\* A record found through an index.
FoundBy(index, k, map) == IF Has(index, k) THEN Found(map, index[k]) ELSE None

-----------------------------------------------------------------------------
(* Results of an operation                                                 *)

Answers(db, a) == [db |-> db, wrote |-> {}, answer |-> a]

Stores(db, map, k, v, a) ==
  [db |-> [db EXCEPT ![map] = Put(@, k, v)], wrote |-> {<<map, k>>}, answer |-> a]

\* One record and the entry of its index.
StoresIndexed(db, map, k, v, index, ik) ==
  [db |-> [db EXCEPT ![map] = Put(@, k, v), ![index] = Put(@, ik, k)],
   wrote |-> {<<map, k>>}, answer |-> "ok"]

-----------------------------------------------------------------------------
(* What the stores require of a record they are asked to create.  A time   *)
(* that is not set is Never.                                               *)

isAccountRecord(row) == row.status \in {"active", "disabled", "deleted"}

isIdentityRecord(row) == row.created \in Time /\ row.verifiedAt \in Time \cup {Never}

isCredentialRecord(row) == row.status \in {"active", "disabled"} /\ row.version >= 1

isSessionRecord(row) ==
  /\ row.status \in {"active", "revoked", "expired"}
  /\ row.expiresAt > row.issuedAt
  /\ row.status = "revoked" <=> row.revokedAt # Never

isChallengeRecord(row) ==
  /\ row.status \in {"pending", "consumed", "expired", "failed"}
  /\ row.attempts <= MaxAttempts
  /\ row.version >= 1
  /\ row.status = "consumed" <=> row.consumedAt # Never

-----------------------------------------------------------------------------
(* Accounts                                                                *)

createAccount(db, c, now) ==
  LET row == [status |-> c.status, created |-> now, updated |-> now] IN
  IF ~isAccountRecord(row) \/ Has(db.accounts, c.account) THEN Answers(db, "STORE_UNAVAILABLE")
  ELSE Stores(db, "accounts", c.account, row, "ok")

findAccount(db, c, now) == Answers(db, Found(db.accounts, c.account))

canTransitionAccountStatus(from, to) ==
  \/ from = "active" /\ to \in {"disabled", "deleted"}
  \/ from = "disabled" /\ to \in {"active", "deleted"}

updateAccountStatus(db, c, now) ==
  IF ~Has(db.accounts, c.account) THEN Answers(db, "ACCOUNT_NOT_FOUND")
  ELSE LET row == db.accounts[c.account] IN
       IF ~canTransitionAccountStatus(row.status, c.status) THEN Answers(db, "STORE_UNAVAILABLE")
       ELSE Stores(db, "accounts", c.account, [row EXCEPT !.status = c.status, !.updated = now], "ok")

-----------------------------------------------------------------------------
(* Identities: a record and the index of its subject                       *)

createIdentity(db, c, now) ==
  LET row == [account |-> c.account, subject |-> c.subject, verifiedAt |-> Never,
              created |-> now, updated |-> now] IN
  IF ~isIdentityRecord(row) THEN Answers(db, "STORE_UNAVAILABLE")
  ELSE IF ~Has(db.accounts, c.account) THEN Answers(db, "ACCOUNT_NOT_FOUND")
  ELSE IF Has(db.identities, c.identity) \/ Has(db.subjects, c.subject)
       THEN Answers(db, "IDENTITY_CONFLICT")
  ELSE StoresIndexed(db, "identities", c.identity, row, "subjects", c.subject)

findBySubject(db, c, now) == Answers(db, FoundBy(db.subjects, c.subject, db.identities))

markVerified(db, c, now) ==
  IF ~Has(db.identities, c.identity) THEN Answers(db, "IDENTITY_NOT_FOUND")
  ELSE Stores(db, "identities", c.identity,
              [db.identities[c.identity] EXCEPT !.verifiedAt = now, !.updated = now], "ok")

-----------------------------------------------------------------------------
(* Credentials: a record and the index of its identity                     *)

createCredential(db, c, now) ==
  LET row == [account |-> c.account, identity |-> c.identity, status |-> "active", version |-> 1,
              created |-> now, updated |-> now] IN
  IF ~isCredentialRecord(row) THEN Answers(db, "STORE_UNAVAILABLE")
  ELSE IF \/ ~Has(db.accounts, c.account)
          \/ ~Has(db.identities, c.identity)
          \/ db.identities[c.identity].account # c.account
          \/ Has(db.credentials, c.credential)
          \/ Has(db.byIdentity, c.identity)
  THEN Answers(db, "CREDENTIAL_CONFLICT")
  ELSE StoresIndexed(db, "credentials", c.credential, row, "byIdentity", c.identity)

findForIdentity(db, c, now) == Answers(db, FoundBy(db.byIdentity, c.identity, db.credentials))

\* A change of a credential the caller has read at c.version.
Versioned(db, c, now, new(_), allowed(_)) ==
  IF ~Has(db.credentials, c.credential) THEN Answers(db, "CREDENTIAL_NOT_FOUND")
  ELSE LET row == db.credentials[c.credential] IN
       IF row.version # c.version THEN Answers(db, "TRANSACTION_FAILED")
       ELSE IF ~allowed(row) THEN Answers(db, "STORE_UNAVAILABLE")
       ELSE Stores(db, "credentials", c.credential,
                   [new(row) EXCEPT !.version = @ + 1, !.updated = now], "ok")

replaceMaterial(db, c, now) ==
  Versioned(db, c, now, LAMBDA row : row, LAMBDA row : TRUE)

canTransitionCredentialStatus(from, to) == {from, to} = {"active", "disabled"}

updateCredentialStatus(db, c, now) ==
  Versioned(db, c, now, LAMBDA row : [row EXCEPT !.status = c.status],
            LAMBDA row : canTransitionCredentialStatus(row.status, c.status))

-----------------------------------------------------------------------------
(* Sessions: a record and the index of its token hash                      *)

createSession(db, c, now) ==
  LET row == [account |-> c.account, token |-> c.token, status |-> "active", issuedAt |-> now,
              expiresAt |-> c.expiresAt, revokedAt |-> Never, created |-> now, updated |-> now] IN
  IF ~isSessionRecord(row) THEN Answers(db, "STORE_UNAVAILABLE")
  ELSE IF ~Has(db.accounts, c.account) THEN Answers(db, "ACCOUNT_NOT_FOUND")
  ELSE IF Has(db.sessions, c.session) \/ Has(db.byToken, c.token)
       THEN Answers(db, "STORE_UNAVAILABLE")
  ELSE StoresIndexed(db, "sessions", c.session, row, "byToken", c.token)

findByTokenHash(db, c, now) == Answers(db, FoundBy(db.byToken, c.token, db.sessions))

revoke(db, c, now) ==
  IF ~Has(db.sessions, c.session) THEN Answers(db, None)
  ELSE LET row == db.sessions[c.session] IN
       IF row.status # "active" THEN Answers(db, row.status)
       ELSE Stores(db, "sessions", c.session,
              [row EXCEPT !.status = "revoked", !.revokedAt = now, !.updated = now], "revoked")

\* Both cleanups take the default limit of 1000, more rows than there are.
Expires(db, map, due, aged(_)) ==
  [db |-> [db EXCEPT ![map] = Over([k \in due |-> [aged(@[k]) EXCEPT !.status = "expired"]], @)],
   wrote |-> {<<map, k>> : k \in due},
   answer |-> Cardinality(due)]

cleanupExpiredSessions(db, c, now) ==
  Expires(db, "sessions",
    {s \in DOMAIN db.sessions : db.sessions[s].status = "active" /\ db.sessions[s].expiresAt <= now},
    LAMBDA row : [row EXCEPT !.updated = now])

-----------------------------------------------------------------------------
(* Challenges                                                              *)

createChallenge(db, c, now) ==
  LET row == [status |-> "pending", attempts |-> 0, version |-> 1, expiresAt |-> c.expiresAt,
              consumedAt |-> Never, created |-> now, updated |-> now] IN
  IF ~isChallengeRecord(row) \/ Has(db.challenges, c.challenge) THEN Answers(db, "STORE_UNAVAILABLE")
  ELSE Stores(db, "challenges", c.challenge, row, "ok")

findChallenge(db, c, now) == Answers(db, Found(db.challenges, c.challenge))

\* The version stays.
SlipAged(row, now) == [row EXCEPT !.updated = now]

Aged(row, now) == [row EXCEPT !.version = @ + 1, !.updated = now]

\* The challenge moves to a new version and is answered with the status a.
Moves(db, c, row, now, a) == Stores(db, "challenges", c.challenge, Aged(row, now), a)

recordFailedAttempt(db, c, now) ==
  IF ~Has(db.challenges, c.challenge) THEN Answers(db, "CHALLENGE_NOT_FOUND")
  ELSE LET row == db.challenges[c.challenge] IN
    IF row.version # c.version \/ row.status = "consumed" THEN Answers(db, "version-conflict")
    ELSE IF row.status = "failed" \/ row.attempts >= MaxAttempts THEN Answers(db, "attempts-exceeded")
    ELSE IF row.status = "expired" THEN Answers(db, "expired")
    ELSE IF row.expiresAt <= now THEN Moves(db, c, [row EXCEPT !.status = "expired"], now, "expired")
    ELSE IF row.attempts + 1 >= MaxAttempts
         THEN Moves(db, c, [row EXCEPT !.attempts = @ + 1, !.status = "failed"], now, "attempts-exceeded")
         ELSE Moves(db, c, [row EXCEPT !.attempts = @ + 1], now, "recorded")

consumePending(db, c, now) ==
  IF ~Has(db.challenges, c.challenge) THEN Answers(db, "CHALLENGE_NOT_FOUND")
  ELSE LET row == db.challenges[c.challenge] IN
    IF row.version # c.version THEN Answers(db, "version-conflict")
    ELSE IF row.status = "consumed" THEN Answers(db, "already-consumed")
    ELSE IF row.status = "expired" THEN Answers(db, "expired")
    ELSE IF row.expiresAt <= now THEN Moves(db, c, [row EXCEPT !.status = "expired"], now, "expired")
    ELSE IF row.status = "failed" \/ row.attempts >= MaxAttempts THEN Answers(db, "attempts-exceeded")
    ELSE Moves(db, c, [row EXCEPT !.status = "consumed", !.consumedAt = now], now, "consumed")

cleanupExpiredChallenges(db, c, now) ==
  Expires(db, "challenges",
    {h \in DOMAIN db.challenges :
       db.challenges[h].status = "pending" /\ db.challenges[h].expiresAt <= now},
    LAMBDA row : Aged(row, now))

-----------------------------------------------------------------------------
(* Outbox: enqueueBatch.  A batch is all or nothing; a message whose       *)
(* idempotency key is known is answered with the message that has it.  No  *)
(* acknowledgement at all stands for OUTBOX_ENQUEUE_FAILED.                *)

NoLease == [id |-> 0, worker |-> None, until |-> 0]

\* The keys, in the order of the batch, that occur more than once.
Repeats(batch, field(_)) ==
  {field(batch[j]) : j \in {j \in DOMAIN batch : \E i \in 1..(j - 1) : field(batch[i]) = field(batch[j])}}

Known(db, m) == m.key # None /\ Has(db.keys, m.key)

\* A known key does not save a message from the check of its identifier.
SlipRefused(db, batch) ==
  \/ Repeats(batch, LAMBDA m : m.id) # {}
  \/ \E i \in DOMAIN batch : ~Known(db, batch[i]) /\ Has(db.messages, batch[i].id)

Refused(db, batch) ==
  \/ Repeats(batch, LAMBDA m : m.id) # {}
  \/ Repeats(batch, LAMBDA m : m.key) \ {None} # {}
  \/ \E i \in DOMAIN batch : ~Known(db, batch[i]) /\ Has(db.messages, batch[i].id)
  \/ \E i \in DOMAIN batch : Known(db, batch[i]) /\ ~Has(db.messages, db.keys[batch[i].key])

\* What a message of a batch looks like when it is stored.
Pending(m, now) ==
  [key |-> m.key, policy |-> m.policy, content |-> m.content, expiresAt |-> m.expiresAt,
   status |-> "pending", attempts |-> 0, availableAt |-> now, updatedAt |-> now, lease |-> NoLease]

\* The answer for one message: the stored one, without its lease.
Acknowledgement(db, m, now) ==
  LET id == IF Known(db, m) THEN db.keys[m.key] ELSE m.id
      row == IF Known(db, m) THEN db.messages[id] ELSE Pending(m, now)
  IN [id |-> id, key |-> row.key, policy |-> row.policy, content |-> row.content,
      expiresAt |-> row.expiresAt, status |-> row.status, attempts |-> row.attempts,
      replayed |-> Known(db, m)]

enqueueBatch(db, c, now) ==
  IF Refused(db, c.batch) THEN Answers(db, <<>>)
  ELSE LET new == Only(c.batch, {m \in ToSet(c.batch) : ~Known(db, m)})
           At(id) == CHOOSE i \in DOMAIN new : new[i].id = id
           ids == {new[i].id : i \in DOMAIN new}
           keyed == {i \in DOMAIN new : new[i].key # None}
       IN [db |-> [db EXCEPT
                    !.messages = Over([id \in ids |-> Pending(new[At(id)], now)], @),
                    !.order = @ \o [i \in DOMAIN new |-> new[i].id],
                    !.keys = Over([k \in {new[i].key : i \in keyed} |->
                                     new[CHOOSE i \in keyed : new[i].key = k].id], @)],
           wrote |-> {<<"messages", id>> : id \in ids},
           answer |-> [i \in DOMAIN c.batch |-> Acknowledgement(db, c.batch[i], now)]]

-----------------------------------------------------------------------------
(* Outbox: claimBatch walks the messages in the order of their insertion   *)

Charged(row, status) == [row EXCEPT !.status = status, !.attempts = @ + 1, !.lease = NoLease]

\* What a claim does to a message before it may be leased.
Swept(row, now) ==
  LET abandoned == row.status = "claimed" /\ row.lease.until <= now IN
  IF row.expiresAt <= now THEN [row EXCEPT !.status = "dead", !.lease = NoLease, !.updatedAt = now]
  ELSE IF abandoned /\ row.attempts + 1 >= MaxAttempts
       THEN [Charged(row, "dead") EXCEPT !.updatedAt = now]
  ELSE IF abandoned
       THEN [Charged(row, "failed") EXCEPT !.updatedAt = now, !.availableAt = now]
  ELSE row

Leasable(row, now) ==
  row.status \in {"pending", "failed"} /\ row.availableAt <= now /\ row.attempts < MaxAttempts

Leased(row, worker, id, now) ==
  [row EXCEPT !.status = "claimed", !.updatedAt = now,
              !.lease = [id |-> id, worker |-> worker, until |-> Later(now, LeaseSeconds)]]

Eligible(row, now) == row.expiresAt > now /\ Leasable(Swept(row, now), now)

\* The walk takes eligible messages, sweeps every message it meets, and stops
\* at the last one it may take.
claimBatch(db, c, now) ==
  LET eligible == Only(db.order, {id \in DOMAIN db.messages : Eligible(db.messages[id], now)})
      taken == SubSeq(eligible, 1, Min({c.limit, Len(eligible)}))
      walked == {db.order[i] : i \in {i \in DOMAIN db.order :
                   Len(taken) = c.limit => \E j \in DOMAIN db.order : j >= i /\ db.order[j] = Last(taken)}}
      lease(id) == db.leaseSequence + CHOOSE n \in DOMAIN taken : taken[n] = id
      new == [id \in walked |->
                IF id \in ToSet(taken) THEN Leased(Swept(db.messages[id], now), c.worker, lease(id), now)
                ELSE Swept(db.messages[id], now)]
  IN [db |-> [db EXCEPT !.messages = Over(new, @), !.leaseSequence = @ + Len(taken)],
      wrote |-> {<<"messages", id>> : id \in {id \in walked :
                   new[id] # db.messages[id] \/ db.messages[id].expiresAt <= now}},
      answer |-> taken]

-----------------------------------------------------------------------------
(* Outbox: operations of the worker that holds a lease                     *)

validOutboxLease(db, c, now) ==
  /\ Has(db.messages, c.id)
  /\ LET row == db.messages[c.id] IN
     /\ row.status = "claimed"
     /\ row.lease.id = c.lease
     /\ row.lease.worker = c.worker
     /\ row.lease.until > now

UnderLease(db, c, now, new(_)) ==
  IF ~validOutboxLease(db, c, now) THEN Answers(db, "OUTBOX_LEASE_CONFLICT")
  ELSE Stores(db, "messages", c.id, [new(db.messages[c.id]) EXCEPT !.updatedAt = now], "ok")

renewLease(db, c, now) ==
  UnderLease(db, c, now, LAMBDA row : [row EXCEPT !.lease.until = Later(now, LeaseSeconds)])

markDispatched(db, c, now) ==
  UnderLease(db, c, now, LAMBDA row : [row EXCEPT !.status = "dispatched", !.lease = NoLease])

markFailed(db, c, now) ==
  UnderLease(db, c, now, LAMBDA row :
    [Charged(row, IF c.terminal \/ row.attempts + 1 >= MaxAttempts THEN "dead" ELSE "failed")
       EXCEPT !.availableAt = now])

\* The index entry of a deleted message stays.
SlipCleanupTerminal(db, c, now) ==
  LET old == {id \in DOMAIN db.messages :
                db.messages[id].status \in {"dispatched", "dead"} /\ db.messages[id].updatedAt <= now}
  IN [db |-> [db EXCEPT !.messages = Without(@, old),
                        !.order = Only(@, DOMAIN db.messages \ old)],
      wrote |-> {<<"messages", id>> : id \in old}, answer |-> "ok"]

\* The default limit, as for the other cleanups; retention is zero.
cleanupTerminal(db, c, now) ==
  LET old == {id \in DOMAIN db.messages :
                db.messages[id].status \in {"dispatched", "dead"} /\ db.messages[id].updatedAt <= now}
      freed == {k \in DOMAIN db.keys : \E id \in old : db.messages[id].key = k /\ db.keys[k] = id}
  IN [db |-> [db EXCEPT !.messages = Without(@, old),
                        !.order = Only(@, DOMAIN db.messages \ old),
                        !.keys = Without(@, freed)],
      wrote |-> {<<"messages", id>> : id \in old}, answer |-> "ok"]

=============================================================================
