# authmodules: TLA+ verification

A TLA+ description of the stateful core of authmodules (`src/`), checked by TLC
on small instances, and, for the four flows over PostgreSQL and the in-memory attempt
guard, proved by TLAPS for every instance. Paths below are relative to the repository; `core/`,
`store-postgres/` and so on are directories of `src/packages/`.

1. [What the system is](#1-what-the-system-is)
2. [The modules](#2-the-modules)
3. [The runs](#3-the-runs)
4. [Bounds](#4-bounds)
5. [Fairness](#5-fairness)
6. [The proofs](#6-the-proofs)
7. [Where code and documents disagree](#7-where-code-and-documents-disagree)
8. [What is abstracted and what is not modelled](#8-what-is-abstracted-and-what-is-not-modelled)
9. [Plan](#9-plan)

## 1. What the system is

authmodules is a library of plug-in authentication modules. An application builds
one `Auth` object from a core, a store, authentication methods, a policy, an
attempt guard, side-effect dispatchers and token and crypto providers. The core
keeps no state between calls. All durable state is in the store, PostgreSQL or, for
tests and demos, the in-memory stores of the testkit; the only other state in
memory is the guard's map.

| Component | State | Operations | Talks to |
|---|---|---|---|
| Challenge operations (`core/src/operations/challenge`) | none | `begin`, `complete` | guard, policy, method, challenge store, accounts, effects, transactions |
| Enrollment and account resolution (`core/src/operations/enroll.ts`, `core/src/accounts`) | none | `enroll`, `resolveAccount`, `createIdentityForClaim` | account, identity and credential stores, effects, sessions |
| `authenticate` (`core/src/operations/authenticate.ts`) | none | `authenticate` | credential and account stores, method, sessions |
| Sessions (`core/src/operations/session.ts`) | none | `createSession`, `getSession`, `revokeSession` | session and account stores, token format |
| Transactions (`core/src/execution`, `store-postgres/src/store/transaction.ts`) | one client per open transaction | `run` | database |
| PostgreSQL stores (`store-postgres/src/store`) | tables of accounts, identities, credentials, sessions, challenges, outbox | one SQL statement, or a select and an update, per method | database |
| Attempt guard (`guard-memory`) | map of failure times per key, binary heap of expirations | `beforeAttempt`, `afterAttempt` | clock |
| Outbox dispatcher (`effects-outbox`) | none | `dispatch`: seal, `enqueueBatch`, check the acknowledgements | outbox store, sealer |
| Synchronous dispatcher (`effects-sync-delivery`) | none | `dispatch`: send one by one | transport |
| In-memory stores (`testkit/src/stores`) | maps of rows, indexes, the queue of `run` calls | the store methods, `run` | the working copy of an open transaction |
| OTP and password methods (`method-otp`, `method-password`) | none | validate, run | crypto provider, hasher |
| Node crypto (`crypto-node`), opaque tokens (`token-opaque`) | none | hash, hmac, seal, hash a password, issue and identify | node |
| Plug-in boundary and validation (`core/src/method`, `core/src/validation`) | none | copy and judge what plug-ins and stores return | |
| Outbox worker (`outbox-worker`) | the claim it works on | `runOnce` | outbox store, sealer, transport |
| Carriers, adapters, transports | none | pure functions of their input, or one call out | |

How they interact. A call of the core is one asynchronous function. It checks its
input, asks the guard and the policy, runs the method, and then opens a
transaction in which it re-reads what it needs, writes rows, and has required
side effects enqueued. It commits, dispatches best-effort effects, emits events, and
tells the guard how the attempt ended. Between two awaits anything may happen: other
calls, in this or in another process, run on the same database, and the process may
die. The outbox is the only channel between a call and the worker that delivers its
message.

Behaviours that are hard here:

* *Optimistic reads, pessimistic writes.* `complete` and `authenticate` verify a proof
  against a row read outside any transaction, and decide later under a row
  lock whether it is still the same row.
* *READ COMMITTED.* A conditional `UPDATE` that waits for a lock re-evaluates its
  `WHERE` clause when it gets it; an `INSERT` waits for the transaction that inserted the
  same unique key; a plain `SELECT` waits for nobody.
* *Lost answers.* A provider may throw at commit although the database committed.
* *Leases.* An outbox claim lapses with time while its worker works on it.
* *Crashes* between any two steps, of calls and of workers.
* *Lazy structures.* The guard's heap holds stale entries on purpose.
* *Half-isolated transactions.* The in-memory runner gives a transaction a working copy
  of the maps it covers; direct calls, and calls on maps it does not cover, go past it.
* *Counters in series.* The core, a dispatcher, a store and the worker each bound the size of
  one message, each by counters of its own.
* *Upgrades.* Stored codes and passwords outlive the scheme or strength they were made with.

What must be true, per component:

* challenges: consumed at most once; each counted failure counted once; secret and
  challenge stored together; terminal statuses final; the guard told the truth;
* sessions: issued only for what is usable at the commit; ended sessions stay ended;
  no live answer for a session that was dead during the whole call;
* accounts: no account without an identity; answers name the owner of the
  subject; a binding never changes hands;
* outbox: at most `maxAttempts` sends of a message, one per lease; nobody
  marks another holder's claim; every message ends;
* guard: the decisions of a plain sliding window, in bounded memory;
* dispatchers: a required effect is stored or its operation fails; the report says what
  became of each other effect; whatever is stored can be delivered;
* in-memory stores: each commit is what the transaction's calls would have done to the
  maps of that moment; indexes agree with rows; the core accepts every row;
* methods and crypto: a code opens its own challenge only, a password survives upgrades,
  what a legal input makes is accepted downstream.

`PROJECT.json` lists every component with its status, and under `hazards` each place
in the code where one of these could break, with the properties that watch it.

## 2. The modules

| Module | Lines of code it stands for | Role |
|---|---|---|
| `ChallengeLifecycle` | status table of `docs/02-FLOWS.md` | abstract specification |
| `ChallengeFlow` | `begin.ts`, `complete.ts`, `persist-completion.ts`, `challenges.ts`, `transaction.ts`, `guard.ts` | begin and complete as processes over the store |
| `ChallengeFlowProofs` | | theorems about `ChallengeFlow` |
| `SessionFlow` | `authenticate.ts`, `session.ts`, `sessions.ts`, `credentials.ts`, `accounts.ts` | logins, session reads, revocations, administration |
| `SessionFlowProofs` | | theorems about `SessionFlow` |
| `AccountRegistry` | account resolution matrix of `docs/02-FLOWS.md` | abstract specification |
| `AccountFlow` | `resolve.ts`, `enroll.ts`, account side of `persist-completion.ts`, `identities.ts` | registration, linking and enrollment |
| `AccountFlowProofs` | | theorems about `AccountFlow` |
| `OutboxLifecycle` | outbox status table of `docs/02-FLOWS.md` | abstract specification |
| `OutboxStore` | `outbox.ts` | the SQL statements, as operators from a row to a row |
| `OutboxWorker` | `create-outbox-worker.ts`, `operations.ts` | workers over `OutboxStore` |
| `OutboxWorkerProofs` | | theorems about `OutboxWorker` |
| `Loops` | the loops and filters of the code | loops as recursive functions |
| `LoopsProofs` | | what such loops compute: lemmas for the proofs about them |
| `GuardMemory` | `create-memory-attempt-guard.ts` | the guard with its heap |
| `GuardMemoryProofs` | | theorems about `GuardMemory` |
| `MemoryStores` | `testkit/src/stores/*` | the in-memory stores, as operators from a database to an answer and a database |
| `MemoryTransaction` | `state.ts`, `transaction.ts` of the testkit | snapshot, working copy, conditional commit |
| `RecordRules` | `core/src/validation/store.ts`, `record-validation.ts` | what the core accepts as a row or as a transition |
| `DeliveryPipeline` | `side-effects.ts`, `effects-outbox`, `outbox-validation.ts`, `outbox-worker`, `delivery-email-smtp` | the checks a message meets from the core to the transport, its sizes and its address |
| `OutboxDispatch` | `core/src/effects`, `effects-outbox`, `effects-sync-delivery` | the two dispatchers and the core's judgement of their reports |
| `AuthStack` | `begin.ts` with the modules above | composition: transactions, direct calls and begins over the in-memory stores |
| `AuthStackProofs` | | theorems about `AuthStack`: its stores and transactions |
| `AuthEffectsProofs` | | theorems about `AuthStack`: `begin` and its side effects |
| `NodeCrypto` | `crypto-node` | framing, draws, hashers and sealer over ideal primitives |
| `MethodPlugins` | `method-otp`, `method-password`, `token-opaque` | the two methods and the token format |
| `MethodBoundary` | `core/src/method`, `core/src/validation/method-data.ts` | copying and judging plug-in results |
| `MethodCalls` | the method's part of `begin.ts`, `complete.ts`, `enroll.ts`, `authenticate.ts` | one call, from input to the output the core goes on with |
| `MethodClaims` | | inputs at and beside the limits, and the claims about the five modules above |
| `MC...` | | symmetry sets for TLC; the scenes of `AuthStack` |

In every flow module a call is a process. `pc[p]` names the await it has reached; one
action is the code from one await to the next. Per-call variables (`target`,
`seen`, `at`, `write`, `staged`, ...) are the local variables that survive an await;
`at` is the last value of `readNow`. The committed tables are variables of their own
and are changed only by a commit or an autocommit statement. Locks are explicit:
`owner` (row locked for update), `share`, `acctShare`, `credShare` (`FOR SHARE`).
Crashes drop the process and let the database roll back what it had open. Each
definition's lines are in the `map` of `PROJECT.json`.

**ChallengeFlow.** `BeginCall`, `BeginRun`, `BeginInsert`, `BeginEffects` and
`BeginClose` follow `begin`; `CompleteCall`, `CompleteRun`, `CompleteTx`,
`ConsumeSelect`, `ConsumeUpdate` and the persisting steps follow `complete`.
`RecordSelect` and `RecordUpdate` are `recordFailedAttempt`, which is a select and an
autocommit update of the version it selected. `recordFailedAttempt` and
`consumePending` both mark an overdue row `expired`; in the second case that write belongs
to the transaction and is undone when the refusal rolls it back. Each begin has one
required delivery effect, as the OTP method does. `counted` and `completed`
are history variables: which calls the row absorbed.

**SessionFlow.** An account stands for itself, its identity and its credential, since `authenticate`
handles one of each. `AuthCall`, `AuthRun`, `AuthTx` and the steps after them follow `authenticate`:
read credential, run the method, open a transaction, re-read credential and account `FOR SHARE`,
replace the material when the method asked for a rehash, insert the session, commit. `GetCall` and
its reads follow `getSession`, whose three reads share no transaction. `RevokeCall` follows
`revokeSession`, with the store's select-then-update. `DeadlockAbort` is the database's deadlock
detection: two logins that hold one credential `FOR SHARE` and both want to update it. `liveness` is
a history variable: what was usable at some moment of the call.

**AccountFlow.** The transaction of `enroll`, and the account part of the transaction of
`complete`, step by step: `ResolveIdentity`, `CheckAccount` or `CreateAccount`,
`InsertIdentity`, `KeepIdentity` or `MarkVerified`, `FindCredential`,
`InsertCredential`, the rest, and the end. The identity is read without a lock, so
only `Locked` (an insert waits for the open transaction that wrote the key) and the unique
constraint protect it. A call that creates an account also names it.

**OutboxStore and OutboxWorker.** Each store operator is one SQL statement. The worker's
loop expires and reclaims one overdue row each, claims one row, renews its lease,
unseals, checks the expiry, renews again, sends, and marks the row. Each statement uses
the clock reading taken before its await, so it may run with an old time; `offset` lets
the clocks of two workers differ. `Interrupt` ends an iteration at any step
(store error, lost answer, death) and is bounded. A worker that never steps again is
always possible in the safety run, which states no fairness.

**GuardMemory.** `beforeAttempt` and `afterAttempt` contain no await, so each is one action.
The heap is an array with the repository's sift operations; `pruneExpired`,
`ensureCapacity` and `rebuildExpirations` are operators used inside the actions.
A round of a loop is a function from states to states (`SiftUp`, `SiftDown`, the round of
`pruneExpired`), the loop is `Rounds` of it, and a round that has nothing to do stays where it
is, so that a loop that breaks is one that has come to rest. `log` is the history the promise is
stated with.

**AuthStack and what it composes.** Two clients make one call each: a transaction with a few store
calls (a script) or a `begin` with its side effects. `run` calls take turns (`queue`, `tx`), direct
store calls do not wait for them, so they fall between the steps of the transaction that has its
turn. `MemoryTransaction` keeps the snapshot a transaction began with and its working copy: a store
call inside it works on the copy, and is refused when the transaction does not cover its scopes; the
commit is refused when a covered map has changed meanwhile. `base` is the maps outside. A
`begin` stores its challenge, has the dispatcher prepare and enqueue its required effects inside the
transaction, commits, and dispatches best-effort effects after it; acknowledgements are judged
message by message at a clock reading of their own. With the synchronous dispatcher each send is a
step. `faults` bounds failing clocks and sends. A *scene* (chosen in the initial state) gives the
rows there are, what clients may ask and the dispatcher. A message's content is one of a few
*shapes*: the sizes the counters of `DeliveryPipeline` see, and an address. `RowsAcceptedByCore` applies the
rules of `RecordRules` to each row `base` ever holds and to the answer a failed attempt would get.

**Methods.** `NodeCrypto`, `MethodPlugins`, `MethodBoundary` and `MethodCalls` have no variables:
the code they model keeps no state. Primitives are ideal: an HMAC, a derived key or a seal is the
term of its inputs, equal to no other. A text is its length, or an identity where two must be told
apart. `MethodBoundary` keeps the core's recursive copy of a result, node by node, with its depth,
node and character budgets and its set of objects being visited; TLC shows the copy to succeed
exactly when the unfolded value is within the limits. (The visiting set is then not needed: the
depth limit alone stops on a cycle.) `MethodClaims` evaluates its claims for each combination of its
inputs; `MCAuthStack` checks their conjunction as `MethodsSound`, beside the stack those methods
plug into.

**Abstract specifications.** Three flows have one, and are shown to implement it through
`INSTANCE ... WITH`: `Lifecycle!Spec` in `ChallengeFlow` and `OutboxWorker`, `Registry!Spec` in
`AccountFlow`. For `MemoryTransaction` the abstraction is a property of each step, `CommitsReplay`:
a commit changes `base` as the transaction's calls, made at once, would. The lifecycles contain only
statuses (and attempt counters); the registry lets a call take effect in a single step.

**Definitions named `Slip...`** are deliberate small mistakes (a forgotten guard, an
off-by-one, a missing lock) kept beside the definition they distort. No
specification uses them. Put in place of the true definition, each makes the property
listed with it under `mutants` fail, which shows that the property depends on that
code.

## 3. The runs

Run one with `tlc -workers 2 -config <cfg> <module>` in this directory.

| Run | Module, configuration | What it shows |
|---|---|---|
| `challenge_safety` | `MCChallengeFlow`, `MCChallengeFlow.cfg` | three calls on one challenge: one completion, exact attempt counter, delivery message iff challenge, truthful reports, lock protects the snapshot, refinement of `ChallengeLifecycle`; every started call returns or crashes |
| `challenge_reports` | `MCChallengeReports.cfg` | *violation*: a completion whose consumption is refused ends without telling the guard (section 7) |
| `session_safety` | `MCSessionFlow`, `MCSessionFlow.cfg` | three calls: checks hold at the commit, login atomic, resolved sessions were live, revoked is gone, ended is final |
| `session_live` | `MCSessionLive.cfg` | two calls: no call waits for ever, rehash deadlocks included |
| `session_revoke_expired` | `MCSessionRevoke.cfg` | *violation*: revoking an expired session is answered with a failure (section 7) |
| `account_safety` | `MCAccountFlow`, `MCAccountFlow.cfg` | two calls in all account modes on one subject: no orphan account, answers name the owner, usable at commit, refinement of `AccountRegistry` |
| `account_link_conflict` | `MCAccountLink.cfg` | *violation*: refused links are not answered as the matrix says (section 7) |
| `outbox_safety` | `MCOutboxWorker`, `MCOutboxWorker.cfg` | two workers, skewed clocks: bounded sends, one send per lease, no foreign marks, attempts equal claims, refinement of `OutboxLifecycle` |
| `outbox_live` | `MCOutboxLive.cfg` | with an interruption at any step, every message is dispatched or dies |
| `guard_safety` | `MCGuardMemory`, `MCGuardMemory.cfg` | the guard decides as a sliding window, heap sound, evicts the quietest key, names the fewest seconds to wait that are enough |
| `stack_safety` | `MCAuthStack`, `MCAuthStack.cfg` | seven scenes of the in-memory stack: indexes agree, commits replay, effects accounted for, required effects behind each success, stored messages deliverable, rows acceptable; the claims about methods and crypto |
| `stack_terminal` | `MCAuthStack`, `MCAuthTerminal.cfg` | *violation*: a dispatched message turns dead (section 7) |

The properties a reader should know:

* `SingleCompletion`, `AttemptsAccounted` (ChallengeFlow) relate the row to the set of calls whose
  effect it absorbed. A lost update, a double count or a consumption outside the transaction breaks
  them only with two calls in flight.
* `ReportsMatchOutcome`: a success is reported only after the commit, and nothing else with it. It
  does not demand a report after a failure: the code does not keep that (section 7). It also allows
  two failure reports, which `complete` makes when a failure was reported inside the transaction and
  the rollback then fails as well.
* `CommitChecksHold` (SessionFlow): at the commit the account is active and the credential is the
  one verified, although the proof was checked against an older read. It needs the two `FOR SHARE`
  reads; either of them dropped breaks it.
* `ResolvedWasLive` says what `getSession` really guarantees: session and account were each usable
  at some moment of the call, and the expiry lay after the last clock reading. They need not have
  been usable at *one* moment: the session may be revoked before the account is enabled again.
* `NoOrphanAccount`, `AnswerNamesOwner`, `ImplementsRegistry` (AccountFlow): reads without locks are
  good enough because of the unique constraint and the rollback.
* `SendsBounded`, `ClaimsAreCharged` (OutboxWorker): a message is handed to the transport at most
  `maxAttempts` times, because each claim is charged exactly once, by a mark or when the lapsed
  lease is reclaimed. Delivery is at-least-once: a worker that died after the transport accepted the
  message causes another send.
* `SendHoldsLease` holds when the clocks agree, which is its premise; the skewed behaviours of the
  same run are there for the other properties.
* `DecisionMatchesWindow`, `HeapSound` (GuardMemory): duplicates and stale heap entries never change
  a decision. The second part of `DecisionMatchesWindow` says how far attempts that pass the check
  together overshoot: the window counts fewer failures than `maxFailures` plus those that run at once.
  The code sets no limit to the latter (`MaxInFlight` is a bound of the model).
* `RetryAfterExact` (GuardMemory): the clock is finer than a second (`Second` ticks), the answer is
  in whole seconds, at least one. A client that waits as told is let in, one second less would not
  do. Rounding down, as `SlipRetryAfter` does, sends the client back too early.
* `CommitsReplay` (AuthStack) is what a write skew would break: a transaction decides on its
  snapshot, and a direct call writes a map it covers before it commits. It holds because the commit
  compares each covered map with the snapshot.
* `EffectsAccounted`, `AuthWithRequired` (AuthStack): a successful begin has each required message
  in the store, not dead; its report names no index twice, and no message as stored or sent that is
  not. The report may name as failed a best-effort message that was stored: the clock or the
  acknowledgement failed after the batch was written. The property allows that, and nothing more.
* `OnlyAddressStopsPersisted` (AuthStack): the store's counters are stricter than the worker's and the
  transport's, so no message is stored that is too large for them. The address is another matter:
  only the SMTP transport asks for the channel `email` and refuses lists of addresses
  (`delivery-email-smtp/src/delivery/validation.ts:17-18`; its README means it to, line 58). A
  stored message for a telephone, or for `a@x,b@x`, is claimed, unsealed and refused at every retry
  until its row is dead. The property says that these messages, and no others, are refused for what
  they are: of those in the outbox, and of samples at each limit and one past it.
* `MethodsSound` (MCAuthStack) has one claim per concern. *Codes*: in either scheme of a stored
  code, a code opens the challenge of the tenant, method and key it was issued under, and no other;
  each wrong one counts. *Begin outcomes*: which of four answers a `begin` gets, exactly. A legal
  input with a usable target and room in the core's copies is begun; its message is storable and
  taken by the worker, its sealed code opens until it expires, and the SMTP transport's check
  accepts it if and only if the method's channel is `email` and the target is one address. Public
  data near the copy's limit of 1,000,000 characters passes the method's validation, but not in the
  result that carries it: then, and only then, a legal input is answered `INTERNAL`. *Passwords*: whatever the
  hasher was, its value signs the owner in, and one rehash is enough. *Copies*, *framing*, *draws*,
  *seals* and *tokens* are as their names say.

## 4. Bounds

* *Challenges, subjects, accounts.* Rows of different challenges, subjects or accounts do not
  influence each other: apart from the cleanup statements, which treat each row by itself, no
  statement of these flows reads or writes two of them. One row with several calls on it is where
  the conflicts are. `AccountFlow` has one subject and two existing accounts, so that a link can
  meet an identity of somebody else.
* *Calls.* Three calls on a challenge are one `begin` and two `complete`s: with `MaxAttempts = 2`
  they can be two failures, a failure and a success, or a race of the two for one row lock. (The
  theorems of section 6 are for any number.) Three calls in `SessionFlow` are two logins that
  deadlock and a reader, or a login, a revocation and a reader. Two calls in `AccountFlow` are all
  pairs of modes. A lost update or a unique conflict takes two calls.
* *Horizon.* Time is a counter; expiries lie in `1..Horizon`. Expiry needs one tick; a reading taken
  before it and used after it needs no more. In `outbox_safety` a lease of one tick must lapse twice
  and leave time for a third claim, which is refused, so the horizon is 3: with 2 the bound on sends
  could not be reached.
* *MaxVersion* (SessionFlow) stops administration of the credential after two changes (disable, then
  enable). Rehashes go on.
* *MaxEnqueues, MaxFailures* (OutboxWorker) bound rows created over time and interruptions. Two
  enqueues let a key be deleted by retention and used again while a worker still holds the old
  claim.
* *GuardMemory*: three keys at `maxKeys = 2` force evictions; `MaxFailures = 2` and a
  window of three ticks over five let failures leave it one by one. A second is two ticks, so the
  window is a second and a half (the code allows that) and remainders of one, two and three ticks
  occur: exact seconds, and both that are rounded. The heap factor, 4 in the code, is 2 so
  that rebuilds happen within the bound.
* *AuthStack*: two clients are a transaction and whatever waits for it; a direct call or two per
  scene (`limit`) change what it has read. `MaxAttempts = 2`, a lease of one tick and two ticks let
  a worker claim, lapse and reclaim a message while its acknowledgement is on the way. One fault is
  one clock or transport that fails at any reading. Scenes are separate worlds, so each has only the
  calls whose maps meet.
* *MethodClaims*: for each number the code compares with a limit, a value at the limit and one
  beyond; two tenants, challenges, keys and methods; hashers at the corners of what is allowed;
  values of up to two shared objects with two entries each for the copy, whose limits are scaled
  down (six nodes, depth two, three characters).
* *Symmetry* permutes calls, workers, keys or accounts, which no definition tells apart, in the
  safety runs only.

Deadlock is checked in both outbox runs, where idle workers can always run again, and in
`AuthStack`, whose finished behaviours are given a step of their own. The other systems
stop when all calls have returned and the clock has reached its horizon, so their
configurations say `CHECK_DEADLOCK FALSE`, and `EveryCallReturns` takes its place for the
challenge and session flows.

## 5. Fairness

* `ChallengeFlow!FairSpec`, `SessionFlow!FairSpec`: weak fairness of `Step(p)` for each call,
  that is, awaited promises settle and the event loop runs continuations. The code has
  no timeouts of its own, so a plug-in whose promise never settles would
  block its call: this is an assumption on plug-ins. Crashes, failing statements and the start of calls
  are not fair. `DeadlockAbort` is part of `Step`: PostgreSQL detects
  deadlocks.
* `OutboxWorker!FairSpec`: weak fairness of each worker's steps (`runOnce` is called again
  and again by the application's loop, its awaits settle) and of `Tick` (time
  passes). Producers, retention and interruptions are not fair.

## 6. The proofs

`ChallengeFlowProofs` proves, for every finite set of calls,
every set of challenges, every `MaxAttempts >= 1` and every `Horizon`:

| Theorem | Statement |
|---|---|
| `Invariance` | `Spec => []IInv` |
| `TypeCorrect` | `Spec => []TypeOK` |
| `OneCompletion` | `Spec => []SingleCompletion` |
| `AttemptsCounted` | `Spec => []AttemptsAccounted` |
| `LocksProtect` | `Spec => []LockedRowUnchanged` |
| `Refinement` | `Spec => ImplementsLifecycle` |
| `Delivered` | `Spec => []DeliveryIffChallenge` |
| `TruthfulReports` | `Spec => []ReportsMatchOutcome` |

The assumptions are those of the module: `MaxAttempts` is a positive natural, `Horizon` a natural,
`Ops` is finite, and `NoOp` and `NoChallenge` are no call and no challenge.

None of the safety properties is inductive. For `SingleCompletion`, take a call about to commit its
consumption: that the row is still pending follows only from the lock it holds and from what it
read before. The inductive invariant

    IInv == Structure /\ Locking /\ Histories /\ SingleCompletion /\ AttemptsAccounted

adds what is needed: `Structure`, which variables of a call are meaningful at which `pc` (its target
exists, an inserting call's challenge is still free, the row a `complete` holds is no newer than the
committed one, and equal to it if the versions are equal); `Locking`, that a row lock belongs to one
call in the consuming part of its transaction and that the committed row is its snapshot;
`Histories`, that a call counted or completed for a challenge has left the steps at which it could
be counted or completed again.

The key lemma is `StoreSteps`: every step changes the committed rows in one of five ways (nothing,
an insert, an expiry, a counted failure, a consumption). `SingleStep`, `AccountingStep`,
`HistoriesStep` and `RefinementStep` then reason about these five and not
about twenty actions. `Inductive` puts the parts together; the theorems are
consequences of `Invariance` by temporal reasoning.

The last two theorems need more than `IInv`. `Staging` says
when a call has its message staged: a transaction that is about to commit has one exactly if it
creates the challenge. So a commit brings both or neither, and no other step creates a challenge
(`StoreSteps`) or a message (`OtherSteps`). `Reporting` says that a call is silent up to its first
failure or its success and answers nothing before it returns, `Answering` what an answer says about
the histories. `StepKinds` sorts the steps of `Next` into four kinds of reports (none, a failure, an
answer alone, a success), and `Arrivals` says where a call comes from that is about to answer.

`OutboxWorkerProofs` proves all safety properties of `OutboxWorker`, for every set of messages and
of workers (infinite ones too), every `MaxAttempts >= 1`, lease, retry delay, horizon and skew:

| Theorem | Statement |
|---|---|
| `TypeCorrect` | `Spec => []TypeOK` |
| `ChargesExact` | `Spec => []ClaimsAreCharged` |
| `BoundedSends` | `Spec => []SendsBounded` |
| `OneSendPerLease` | `Spec => []LeaseSendsOnce` |
| `DispatchAcknowledged` | `Spec => []DispatchedWasAcked` |
| `SendsUnderLease` | `Spec => SendHoldsLease` |
| `Refinement` | `Spec => ImplementsLifecycle` |

Two lemmas sort the steps: `RowMoves` (a step moves at most one row: enqueued, taken, or settled by
deletion, expiry, charge or dispatch) and `WorkerMoves` (at most one worker: it scans, drops its claim,
takes one, or proceeds with it). Over them stand the parts of `IInv`. `Busy`: a worker has a message
exactly between its claim and its drop. `Charging`: a waiting or claimed row has an attempt left, so
there were never more than `MaxAttempts` claims of one row. `Leases`: each lease belongs to one worker,
was given by a claim, and sends at most once; so the sends of a row are among the claims of it, which
bounds them. `Held`: a claimed row has the last lease given, so a mark that compares leases settles the
attempt of its own worker. `Matching`, `Reading` and `Fenced` are for `SendHoldsLease`: without skew no
clock reading is from the future, so no statement takes a message from a worker whose lease and message
last by the true time, and the checks right before the send establish that they do.

`SessionFlowProofs` proves all safety properties of `SessionFlow` but the one the code violates, for every
set of accounts and of concurrent calls, every bound on versions and every horizon:

| Theorem | Statement |
|---|---|
| `TypeCorrect` | `Spec => []TypeOK` |
| `ChecksCarried` | `Spec => []CommitChecksHold` |
| `OneTransaction` | `Spec => []AtomicAuthentication` |
| `ResolvedLive` | `Spec => []ResolvedWasLive` |
| `RevocationEnds` | `Spec => []RevokedIsGone` |
| `EndedFinal` | `Spec => EndedSessionsFinal` |

The parts of its `IInv` are about different calls. `Locking` is for logins: what one has checked it
holds FOR SHARE, and a lock that was upgraded to replace the material is shared with nobody, so a
commit that replaces material changes it under no other login (`InstallLocks`). `Writing`: only a
call at or past its commit has a session or a replacement, and then both if its method asked for
both; a call that is about to commit therefore inserts a session that did not exist. From this
`SessionsKept` follows: no step, whoever takes it, changes the account or the expiry of a session,
or anything of one that has ended. `Getting` is for `getSession` and `revokeSession`, which hold no
lock: what they saw of a session when they saw it, the history has recorded, and `SessionsKept` says
how little can have changed since. `Owned`, that a session belongs to an account, is needed where
administration changes accounts under a `getSession`.

`AccountFlowProofs` proves all safety properties of `AccountFlow` but the one the code violates, and the
refinement, for every set of subjects, of existing accounts and of concurrent calls:

| Theorem | Statement |
|---|---|
| `TypeCorrect` | `Spec => []TypeOK` |
| `NoOrphans` | `Spec => []NoOrphanAccount` |
| `OwnerAnswered` | `Spec => []AnswerNamesOwner` |
| `CommitsUsable` | `Spec => []UsableAtCommit` |
| `Refinement` | `Spec => ImplementsRegistry` |

Its `IInv` says of each call (`Calls`) what it has read, resolved and staged where it stands, and of
two calls (`Exclusive`) that their open transactions have not inserted the same key. `Free`, that an
inserted key has no committed row, holds until the commit only because of `Exclusive`: this is where
the unique constraints are used. A step is then seen from two sides: for the call that moves there
is a lemma per group of actions (`ResolveCalls` to `InstallCalls`), and every other call is `Beside`
it: its variables stay, and the rows it relies on only grow (`OthersBeside`, `InstallBeside`).
`InstallResolves` maps a commit to one step of the registry; `RowMoves` says that all other steps
but administration stutter there.

`GuardMemoryProofs` proves all properties of `GuardMemory`, for every set of keys (infinite ones
too), every limit, window, capacity and heap factor of at least one, and every number of attempts in
flight:

| Theorem | Statement |
|---|---|
| `Invariance` | `Spec => []Inv` |
| `MemoryBounded` | `Spec => []TypeOK` |
| `HeapIsSound` | `Spec => []HeapSound` |
| `QuietestEvicted` | `Spec => []EvictsQuietest` |
| `DecidesAsWindow` | `Spec => []DecisionMatchesWindow` |
| `WaitIsExact` | `Spec => []RetryAfterExact` |

That the clock does not step back is an assumption of the model here too (section 8).

The difficulty is not in the steps but in the loops inside them. What a loop computes for every
input needs induction, and the library's induction theorems take an operator, which the provers
cannot instantiate. `LoopsProofs` therefore derives induction for a *set* of numbers (`Induction`)
from the theorem that a well-founded relation has minimal elements, and from it that functions
defined by recursion exist (`Recursion`). Three lemmas about loops follow, which are cited by name
with sets and functions only: `RoundsInvariant` (what every round keeps, the loop keeps),
`RoundsEnd` (a loop whose rounds lessen a measure until it rests has come to rest after as many
rounds as the measure says), `FoldedInvariant` (the same of a loop over a sequence). `OnlyFacts` says
what a filter keeps, and in which order.

With these, the operators of the guard are dealt with once each. `PushFacts` and `PopFacts`: the
sifting loops end, the array that comes out has the same entries but the one added or removed (a
shuffle, `Shuffled`), and is a heap. Their invariants, `UpOrder` and `DownOrder`, say that the array
is ordered everywhere but at the hole. `RootFirst`: the root of a heap is the minimum. `ReadPrunes`:
each round of `pruneExpired` lessens the number of due entries (`PopLessDue`; a renewed entry is not
due), so the loop ends within as many rounds as there are entries, and then nothing is due.
`RebuildFacts`, `CapacityFacts` and `AddFacts` are about the rest of `afterAttempt`.

The invariant has two sides. `Consistent` is the structure: the heap is ordered and has the
expiration of each tracked key's first failure (`HeapPart`; it may have more, stale ones); the times
of a key ascend and are not to come (`TimesPart`); the map lists each tracked key once, by latest
failure (`OrderPart`). `Remembers` relates it to the plain window `log`. The two are not equal: the
guard keeps times that have expired until something prunes them, and gives up all but the latest
`MaxFailures`. So it says that the guard's times *end* with the last `Needed(log[k])` failures of
the window, and that whatever precedes them has expired. `RemembersPruned`, `RemembersAdded` and
`RemembersTick` are the three ways in which this is kept, and after a pruning it becomes equality of
lengths, which decides (`ReadFacts`). For `WaitIsExact` the guard is read at a time to come:
`ConsistentLater` says it may be. `Quotient` and `CeilFacts` say of the rounding that the seconds,
in ticks, are at least what remains, and less than a second more.

`AuthStackProofs` proves of the in-memory stack, for any clients and any scenes whose calls the types
of the stores allow (`ScenesAssumption`), any `MaxAttempts >= 1`, `LeaseSeconds >= 1`, horizon and
bound on faults:

| Theorem | Statement |
|---|---|
| `Invariance` | `Spec => []Invariant` |
| `IndexesHold` | `Spec => []IndexesAgree` |
| `CommitIsSerial` | `Spec => CommitsReplay` |
| `RowsStayAcceptable` | `Spec => []RowsAcceptedByCore` |

`StackAssumption` says that `None` is neither a client nor an outcome of a call; only its
comparison with those matters.

The argument for `CommitIsSerial` has four steps. (1) *Locality* (`CallLocal`): on two databases that
agree on the maps of its scopes, a store call gives the same answer and makes the same changes, and
changes nothing else; the order of messages and the lease sequence count as maps of the outbox.
(2) By induction over the log, what a transaction has done to its copy it would do to *every*
database that agrees with its snapshot on the scopes it covers: this is the last conjunct of `Turn`,
and the reason why the invariant quantifies over databases. `CallTurn` keeps it when a call is made
inside. (3) Direct calls change `base` beside the transaction; what is kept of them is that each
replaced entry is in `touched`, and that the messages nobody replaced keep their order (`Beside`,
`TouchTurn`). (4) At a commit that is not refused, no covered entry was touched or differs
(`CommitFinds`), so `base` agrees with the snapshot there, and the entry-by-entry copy leaves the same
maps as the calls would (`CommitLeaves`: the order of messages is where this is not plain, since
`applyTransactionState` appends the new ones behind those a direct call has added or removed
meanwhile). (2) then gives the answers.

`Sound`, which `Invariance` carries for `base`, for the snapshot and for the copy, is what makes the
indexes agree: the fields each row has, each index the inverse of its map, every reference to a
row that is there, the order of messages a list of exactly the stored ones. `CallSound` shows every
operation to keep it; a commit keeps it because its outcome is that of a log of calls
(`HistorySound`), so nothing has to be said of commits themselves. `RowsStayAcceptable` follows the
same way with `Readable`: each row is one the core accepts, was last changed no later than now, and
a pending challenge has attempts left. Without the last two `RowsAcceptedByCore` is not inductive: the
next change of a row would put its dates out of order, or count past the limit.

Who may move when is in `Working`: a client that is inside its transaction owns the turn. `Effect`
lists all that a step can do to `base` and `tx`: nothing, a call outside, a call inside, a turn taken,
a commit, a turn given up. `StepIs`, with one lemma per action, maps every step to one of them, so
that the arguments above never mention the dispatcher.

`AuthEffectsProofs` goes on from `Invariant` with what `begin` and its dispatcher do:

| Theorem | Statement |
|---|---|
| `PersistedStoppedByAddress` | `Spec => []OnlyAddressStopsPersisted` |
| `ReportsTellTruth` | `Spec => []EffectsAccounted` |
| `ChallengeWithMessages` | `Spec => AuthWithRequired` |

The scenes are as general as before but for two assumptions of `IsScene` about the calls that are not
made by a `begin`, both of which the scenes of the runs satisfy. *Sealed*: what a script or a direct
call enqueues was made by a dispatcher, since the in-memory store relies on its callers for the size
of a message. *Foreign*: such a call does not use the identifiers of a client's `begin`, which the
application's generator makes for it. Foreign calls may use its idempotency *keys*, before, during
and after it; that is the case the acknowledgements are for. `ShapesAssumption` says that the numbers
of a shape are numbers.

`PersistableStoppedByAddress` is about `DeliveryPipeline` alone, for any number of values of any size and
nesting: what the core, the dispatcher and a store have let through keeps within the counters of the
worker and of the transport, so that the transport's check depends on the address alone. Its heart is `TotalLe`, that a sum grows with its terms; the counters
differ in which terms they add (keys, ciphertexts, characters), and the store's has the largest. The
invariant `Persisting` says that every message in `base`, in the working copy, in what a script still
has to call and in every dispatch is such a message.

A step of a client is described by `Does`: eleven kinds (it fails, waits, starts, asks its store,
settles, creates its challenge, rechecks, is answered, goes on, enqueues, sends), each with what it
changes of the client, of `base` and of `tx`. `StepDone` maps the actions to them; the invariants
below are then kept kind by kind, and the others' steps leave a client's part as it is
(`OthersTurn`).

`EffectsAccounted` speaks of calls that are over. The invariant `Told` says what each begin knows of
its effects on the way: its dispatch is about the effects of one policy, each of them still to do,
failed or sent and never two of these (`Dispatching`); an acknowledged batch is stored with the keys
and contents asked for (`Acked`); after the required effects each of them is in the working copy and
the report names these and no more (`RequiredDone`). "Stored" changes its meaning on the way:
before the commit it is the working copy or the history, after it the history alone (`Kept`), and
only the commit makes the one the other. `AnswerReports` says how the dispatcher's answer, which
counts within one policy, is turned into indexes of the begin's own list: the lists of original
indexes have none in common, so no index of the merged report occurs twice. A begin whose report
may name a stored message as failed (section 3) is covered: the theorem claims nothing
for `failed` but that only best-effort effects are in it.

`AuthWithRequired` is about a step, the commit, but what makes it true happens before. The invariant
`Together` relates each client to the turn. `Bound`: from the creation on the challenge is new in
the working copy; an acknowledged batch is there as acknowledged (`Confirms`, status included);
when the required effects are done each has a message in the copy that is not dead, its own or the
one that had taken its key. The last holds because `isMatchingAcknowledgement` refuses a row
with another content or policy and a dead one: without that check (the mutant of this property) the
invariant breaks at `Acknowledge`. `Owned` is the converse: whatever is new in the copy and bears a
client's name was put there by that client, which holds the turn and has created its challenge. At the
commit the copy's messages become those of `base` (`CommitStores`); no other step adds a challenge or
a required message of a client (`NextAdds`): best-effort batches and foreign calls have other
identifiers.

`Told`, `Together` and `Persisting` were checked by TLC on the seven scenes of `stack_safety` before
they were proved.

Only model-checked are the liveness properties, since fairness and `ENABLED` are outside the prover's
reach, and `MethodsSound`: `MethodBoundary`, `MethodClaims` and `MethodPlugins` use recursive
operators, which a module with theorems may not reach, and what their recursion computes for every
input needs induction over data. Every other property that a passing run checks is the statement of
a theorem.

## 7. Where code and documents disagree

Each of these is a run that TLC must find violated.

1. `challenge_reports`: `docs/02-FLOWS.md:70` says the guard hears exactly once of each
   attempted operation. `persistCompletion` returns early, without `afterAttempt`, when
   `consumePending` refuses (`persist-completion.ts:54`), and `complete` then reports only
   `TRANSACTION_FAILED`. The run asks for a report from each call answered `CHALLENGE_FAILED`
   there (`ConflictReported`). TLC answers with a completion that finds its challenge pending; the
   cleanup expires the challenge; the consumption is refused, and the call ends unreported. The
   loser of a race of two correct proofs ends in the same way, and so does a call whose store fails
   in `consumePending` (line 48), of which the property says nothing.
   The opposite also happens: a failure reported inside the transaction is
   reported again when the rollback fails.
2. `session_revoke_expired`: `docs/02-FLOWS.md:339` promises `ok` for revoking an
   expired session. When cleanup has marked the row `expired`, the store returns it as
   it is and the core takes it for an inconsistency.
3. `account_link_conflict`: `docs/02-FLOWS.md:367` promises `IDENTITY_CONFLICT` when the
   actor links an identity of another account. The preflight of `begin` answers so;
   `resolveAccount`, in `enroll` and `complete`, answers
   `ACCOUNT_LINKING_DENIED`, and `core/tests/account-resolution.test.ts:121` expects that.

4. `stack_terminal`: `docs/02-FLOWS.md:410` makes `dispatched` terminal, and line 414 names only pending,
   failed and claimed records as dying of expiry. `claimBatch` of the in-memory store
   (`testkit/src/stores/memory-outbox-store.ts:124`) makes each overdue message dead whatever it was, and
   touches `updatedAt` of a dead one at each claim, which puts off its retention. The PostgreSQL store
   does neither.

Noted without a run: `docs/02-FLOWS.md:362` says challenge flows map a missing identity to
`CHALLENGE_FAILED`, `resolveAccount` answers `AUTHENTICATION_FAILED` for both; the loser
of two racing `create-account-if-identity-missing` calls is answered
`IDENTITY_CONFLICT` and not given the account that now exists (line 364); the loser of two
logins that race for a rehash is answered a counted `AUTHENTICATION_FAILED` although its
password was right; public data close to the size limit passes a method's validation and makes its result
too large (`core/src/method/invoke.ts:346`); two hashers of crossed strengths (more iterations,
shorter keys) that serve one store rehash each other's values at each sign-in; a `run` of the
in-memory store made inside the callback of another waits for itself; `consumePending` of the
in-memory store marks an overdue *failed* challenge `expired`.

## 8. What is abstracted and what is not modelled

* *Data.* Names, tokens, hashes, messages and materials are values or
  absent altogether. Shape checks of records and of plug-in answers are one of the outcomes of the step that
  makes them (a rejection or a failure).
* *Guard inside the flows.* The flows record what they tell the guard (`reports`) and
  may be refused; `GuardMemory` is not composed with them. A guard is
  taken to be configured, and without a `retryAfterSeconds` of its own: with that option each denial
  names the same number, whatever remains.
* *Clocks.* Within a process time does not go back. The outbox model lets
  workers' clocks differ.
* *Isolation.* READ COMMITTED as PostgreSQL defines it, per row. `cleanupExpired`
  of challenges skips locked rows, as its SQL does.
* *Enrollment before its transaction* is like the other flows' (method run, guard, policy)
  and is not repeated. A call's method either verifies the identity (a challenge
  proof) or brings credential material (a password enrollment).

* *In-memory stack.* The clock of `AuthStack` only advances, and a refused clock reading is
  a fault. Sealing all effects of a dispatch is one step. Names, dates and the order of fields of a
  record are left out where no rule looks at them. Scripts are fixed sequences: what a callback
  computes from an answer is not modelled.
* *Methods and crypto.* Text patterns and locales are left out: they refuse an input before anything
  else happens. What a primitive hides is taken as given.

Not modelled: cookies and the Express adapter (stateless conversions), and of the SMTP transport all
but its check of a message (rendering, and one call out whose answer is a choice of the step that
makes it); row mapping and schema migration; the
type declarations; the policy (a question to the application) and configuration checks; the
testkit's compliance suites; the scripts that check packages. `PROJECT.json` gives a reason for
each. They hold no state a step of another component could meet, so a model of them would restate
them line by line.

## 9. Plan

Done so far: the flows over PostgreSQL, the guard, the in-memory stack with both
dispatchers, the methods with their crypto and the plug-in boundary; theorems about the flows,
the guard and the in-memory stack with its dispatchers. What is left:

1. Guard and challenge composed: what the guard's overshoot means for the attempts of one
   challenge; a guard whose clock steps back.
2. `MemoryStores` against the abstract lifecycles of the PostgreSQL stores, where they agree.
