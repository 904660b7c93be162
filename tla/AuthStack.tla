----------------------------- MODULE AuthStack -----------------------------
(***************************************************************************)
(* The in-memory stack a test suite or a demo runs: the transaction runner *)
(* and the stores of the testkit (MemoryTransaction), the core's begin     *)
(* operation with its side effects, and a dispatcher (OutboxDispatch).     *)
(* run() calls take turns; direct store calls do not wait for them, so     *)
(* they fall between the steps of the transaction that has its turn.       *)
(* A step is the code between two awaits.                                  *)
(*                                                                         *)
(* A client makes one call: a transaction of its own with a few store      *)
(* calls (a script), or begin.  A scene is the world it runs in: the rows  *)
(* there are, what the clients may ask, and the dispatcher configured.     *)
(***************************************************************************)
EXTENDS MemoryTransaction, OutboxDispatch

CONSTANTS
  Clients,
  Scenes,      \* a sequence of [seed, scripts, outputs, direct, limit, dispatcher];
               \* seed is the calls that fill the maps, limit bounds the direct
               \* store calls of the scene
  MaxFaults    \* bound on clock readings and sends that fail

\* Why a call ends without a commit.
Reasons == {"TRANSACTION_FAILED", "callback-failure", "refused", "CHALLENGE_EXPIRED",
            "STORE_UNAVAILABLE", "SIDE_EFFECT_FAILED", "OUTBOX_ENQUEUE_FAILED"}

ASSUME StackAssumption == MaxFaults \in Nat /\ None \notin Reasons \cup Clients \cup {"committed"}

IsList(s) == s \in Seq(ToSet(s))

\* A call the types of the stores and their checks of the input allow.
IsCall(c) ==
  /\ c.op \in StoreOps
  /\ c.op \in {"createSession", "createChallenge"} => c.expiresAt \in Time
  /\ c.op = "enqueueBatch" => IsList(c.batch)
  /\ c.op = "claimBatch" => c.limit \in Nat \ {0}

\* A message is made as a dispatcher makes it.
Sealed(c) ==
  c.op = "enqueueBatch" => \A k \in DOMAIN c.batch : c.batch[k].content \in PersistableContents

\* The identifiers of a begin are its own: they are generated for it.
Foreign(c) ==
  /\ c.op = "createChallenge" => c.challenge \notin Clients
  /\ c.op = "enqueueBatch" =>
       \A k \in DOMAIN c.batch : c.batch[k].id[1] \in Clients => c.batch[k].id[2] # "required"

\* The operations of a worker take no transaction.
IsScene(s) ==
  /\ IsList(s.seed) /\ \A k \in DOMAIN s.seed : IsCall(s.seed[k]) /\ Sealed(s.seed[k])
  /\ \A script \in s.scripts :
       /\ IsList(script.calls) /\ script.covers \subseteq Scopes
       /\ \A k \in DOMAIN script.calls :
            /\ IsCall(script.calls[k]) /\ Sealed(script.calls[k]) /\ Foreign(script.calls[k])
            /\ script.calls[k].op \notin WorkerOps
  /\ \A o \in s.outputs : IsList(o.effects) /\ o.expiresAt \in Time
  /\ \A c \in s.direct : IsCall(c) /\ Sealed(c) /\ Foreign(c)
  /\ s.limit \in Nat

ASSUME ScenesAssumption == Scenes # <<>> /\ \A s \in DOMAIN Scenes : IsScene(Scenes[s])

Core == INSTANCE RecordRules

VARIABLES
  scene,    \* the scene, chosen once
  base,     \* the maps outside any transaction
  now,
  queue,    \* the run() calls that have no answer yet, in order
  tx,       \* the transaction that has its turn, with its owner and the log of its calls
  proc,     \* what each client is doing
  direct,   \* direct calls made
  faults,   \* faults injected
  stored    \* every message base has ever held

vars == <<scene, base, now, queue, tx, proc, direct, faults, stored>>

\* The maps before and after each call of a log, the first call being made on db.
History(db, log) ==
  LET after[k \in 0..Len(log)] ==
        IF k = 0 THEN db ELSE Perform(after[k - 1], log[k].call, log[k].at).db
  IN after

\* The rows left by calls made one after the other at time 0.
Seed(calls) ==
  History(createEmptyState, [k \in DOMAIN calls |-> [call |-> calls[k], at |-> 0]])[Len(calls)]

\* It is nobody's turn.
NoTurn == [owner |-> None, covers |-> {}, log |-> <<>>, wrote |-> {}, touched |-> {},
           before |-> createEmptyState, working |-> createEmptyState]

Idle == [pc |-> "idle", kind |-> "none", covers |-> {}, calls |-> <<>>, effects |-> <<>>,
         expiresAt |-> Never, at |-> 0, dispatch |-> None, report |-> NoReport, sends |-> {},
         outcome |-> None]

Held(db) == {[key |-> db.messages[id].key, policy |-> db.messages[id].policy,
              content |-> db.messages[id].content] : id \in DOMAIN db.messages}

Init ==
  /\ scene \in DOMAIN Scenes
  /\ base = Seed(Scenes[scene].seed)
  /\ now = 0
  /\ queue = <<>>
  /\ tx = NoTurn
  /\ proc = [p \in Clients |-> Idle]
  /\ direct = 0
  /\ faults = 0
  /\ stored = Held(base)

dispatcher == Scenes[scene].dispatcher

\* The step ends with these maps.
Keeps(db) == base' = db /\ stored' = stored \cup Held(db)

At(p, pc) == proc[p].pc = pc

\* A call that is over keeps what its caller or an observer can know of it.
Failed(why) == [Idle EXCEPT !.pc = "done", !.outcome = why]

Done(p) ==
  [Idle EXCEPT !.pc = "done", !.outcome = "committed", !.kind = proc[p].kind,
               !.effects = proc[p].effects, !.report = proc[p].report, !.sends = proc[p].sends]

-----------------------------------------------------------------------------
(* The clock and the direct calls                                          *)

Tick ==
  /\ now < Horizon
  /\ now' = now + 1
  /\ UNCHANGED <<scene, base, queue, tx, proc, direct, faults, stored>>

\* A running transaction finds the entries replaced under it.
Touch(wrote) == IF tx.owner = None THEN tx ELSE [tx EXCEPT !.touched = @ \cup wrote]

DirectCall ==
  /\ direct < Scenes[scene].limit
  /\ \E c \in Scenes[scene].direct :
       LET r == Perform(base, c, now) IN
       /\ r.wrote # {}
       /\ Keeps(r.db)
       /\ tx' = Touch(r.wrote)
  /\ direct' = direct + 1
  /\ UNCHANGED <<scene, now, queue, proc, faults>>

-----------------------------------------------------------------------------
(* run(): a turn in the queue, and how it ends                             *)

\* A request without a scope is refused before it is queued.
isTransactionRequest(covers) == covers # {}

RefuseRequest(p) ==
  /\ At(p, "idle")
  /\ \E s \in Scenes[scene].scripts : ~isTransactionRequest(s.covers)
  /\ proc' = [proc EXCEPT ![p] = Failed("TRANSACTION_FAILED")]
  /\ UNCHANGED <<scene, base, now, queue, tx, direct, faults, stored>>

\* p waits for its turn with what it has to do.
Queues(p, work) == proc' = [proc EXCEPT ![p] = work] /\ queue' = Append(queue, p)

RunScript(p) ==
  /\ At(p, "idle")
  /\ \E s \in Scenes[scene].scripts :
       /\ isTransactionRequest(s.covers)
       /\ Queues(p, [Idle EXCEPT !.pc = "queued", !.kind = "script",
                                  !.covers = s.covers, !.calls = s.calls])
  /\ UNCHANGED <<scene, base, now, tx, direct, faults, stored>>

TakeTurn(p) ==
  /\ At(p, "queued")
  /\ tx.owner = None /\ Head(queue) = p
  /\ tx' = cloneState(p, base, proc[p].covers)
  /\ proc' = [proc EXCEPT ![p].pc = "run"]
  /\ UNCHANGED <<scene, base, now, queue, direct, faults, stored>>

\* The turn is over; the next call in the queue may have its own.
Release == tx' = NoTurn /\ queue' = Tail(queue)

\* Nothing of the transaction is kept.
RollsBack(p, why) ==
  /\ Release
  /\ proc' = [proc EXCEPT ![p] = Failed(why)]
  /\ UNCHANGED <<base, stored>>

canCommit == canCommitTransactionState(base, tx) /\ canCommitMemoryOutboxState(base, tx)

\* The callback answers with a success, which goes on as given when it commits.
Settles(p, committed) ==
  \/ /\ canCommit
     /\ Keeps(applyTransactionState(base, tx))
     /\ Release
     /\ proc' = [proc EXCEPT ![p] = committed]
  \/ /\ ~canCommit
     /\ RollsBack(p, "TRANSACTION_FAILED")

-----------------------------------------------------------------------------
(* Scripts                                                                 *)

\* A call inside the transaction; log keeps what it was told.
Calls(c) ==
  LET r == Within(tx, c, now) IN
  [r EXCEPT !.tx.log = IF Needs(c.op) \subseteq tx.covers
                       THEN Append(@, [call |-> c, at |-> now, answer |-> r.answer]) ELSE @]

CallStore(p) ==
  /\ At(p, "run") /\ proc[p].kind = "script"
  /\ proc[p].calls # <<>>
  /\ tx' = Calls(Head(proc[p].calls)).tx
  /\ proc' = [proc EXCEPT ![p].calls = Tail(@)]
  /\ UNCHANGED <<scene, base, now, queue, direct, faults, stored>>

Return(p) ==
  /\ At(p, "run") /\ proc[p].kind = "script"
  /\ proc[p].calls = <<>>
  /\ Settles(p, Done(p))
  /\ UNCHANGED <<scene, now, direct, faults>>

\* The callback answers with a failure of its own, or throws.
GiveUp(p) ==
  /\ At(p, "run") /\ proc[p].kind = "script"
  /\ RollsBack(p, "callback-failure")
  /\ UNCHANGED <<scene, now, direct, faults>>

-----------------------------------------------------------------------------
(* begin: the challenge and its side effects                               *)

AcceptsOutput(o) == o.expiresAt > now /\ isSideEffects(o.effects)

CanBegin(o) == AcceptsOutput(o) /\ requiredEffectsCanPersist(o.effects, dispatcher)

RefuseBegin(p) ==
  /\ At(p, "idle")
  /\ \E o \in Scenes[scene].outputs : ~CanBegin(o)
  /\ proc' = [proc EXCEPT ![p] = Failed("refused")]
  /\ UNCHANGED <<scene, base, now, queue, tx, direct, faults, stored>>

BeginChallenge(p) ==
  /\ At(p, "idle")
  /\ \E o \in Scenes[scene].outputs :
       /\ CanBegin(o)
       /\ Queues(p, [Idle EXCEPT !.pc = "queued", !.kind = "begin", !.effects = o.effects,
                                  !.expiresAt = o.expiresAt,
                                  !.covers = {"challenges"}
                                    \cup sideEffectScopes(o.effects, dispatcher)])
  /\ UNCHANGED <<scene, base, now, tx, direct, faults, stored>>

Originals(p, policy) == Selected(proc[p].effects, policy)

Effects(p, policy) ==
  [k \in DOMAIN Originals(p, policy) |-> proc[p].effects[Originals(p, policy)[k]]]

Dispatches(p, policy, at) ==
  Prepared(Dispatch(p, policy, Effects(p, policy), at))

CreateChallenge(p) ==
  /\ At(p, "run") /\ proc[p].kind = "begin"
  /\ LET r == Calls([op |-> "createChallenge", challenge |-> p, expiresAt |-> proc[p].expiresAt]) IN
     \/ /\ proc[p].expiresAt <= now
        /\ RollsBack(p, "CHALLENGE_EXPIRED")
     \/ /\ proc[p].expiresAt > now /\ r.answer # "ok"
        /\ RollsBack(p, r.answer)
     \/ /\ proc[p].expiresAt > now /\ r.answer = "ok"
        /\ tx' = r.tx
        /\ IF HasRequired(proc[p].effects)
           THEN proc' = [proc EXCEPT ![p].pc = "prepare",
                                     ![p].dispatch = Dispatches(p, "required", now)]
           ELSE proc' = [proc EXCEPT ![p].pc = "recheck"]
        /\ UNCHANGED <<base, queue, stored>>
  /\ UNCHANGED <<scene, now, direct, faults>>

\* The time is read again after the required effects.
Recheck(p) ==
  /\ At(p, "recheck")
  /\ \/ /\ proc[p].expiresAt <= now
        /\ RollsBack(p, "CHALLENGE_EXPIRED")
     \/ /\ proc[p].expiresAt > now
        /\ proc' = [proc EXCEPT ![p].pc = "commit", ![p].at = now]
        /\ UNCHANGED <<base, queue, tx, stored>>
  /\ UNCHANGED <<scene, now, direct, faults>>

\* A best-effort effect needs a dispatcher, or it is dropped without a word.
Commit(p) ==
  /\ At(p, "commit")
  /\ LET d == Dispatches(p, "best-effort", proc[p].at) IN
     Settles(p,
       IF Originals(p, "best-effort") = <<>> \/ dispatcher = "none" THEN Done(p)
       ELSE IF dispatcher = "outbox" THEN [proc[p] EXCEPT !.pc = "prepare", !.dispatch = d]
       ELSE [proc[p] EXCEPT !.pc = "send", !.dispatch = Drop(d, LAMBDA e : Undeliverable(e, d))])
  /\ UNCHANGED <<scene, now, direct, faults>>

-----------------------------------------------------------------------------
(* How begin goes on with the answer of the dispatcher                     *)

Answered(p, answer) ==
  LET policy == proc[p].dispatch.policy
      result == dispatchSelectedSideEffects(answer, proc[p].effects, Originals(p, policy))
      report == mergeSideEffectResults(proc[p].report, result.report)
  IN \/ /\ policy = "required" /\ result.ok
        /\ proc' = [proc EXCEPT ![p].pc = "recheck", ![p].report = report, ![p].dispatch = None]
        /\ UNCHANGED <<base, queue, tx, stored>>
     \/ /\ policy = "required" /\ ~result.ok
        /\ RollsBack(p, result.reason)
     \/ /\ policy = "best-effort"
        /\ proc' = [proc EXCEPT ![p] = [Done(p) EXCEPT !.report = report]]
        /\ UNCHANGED <<base, queue, tx, stored>>

\* The dispatch goes on at pc with d, or ends when nothing is left to do.
Continues(p, pc, d) ==
  \/ /\ d.prepared = <<>>
     /\ Answered(p, DispatchReport(d))
  \/ /\ d.prepared # <<>>
     /\ proc' = [proc EXCEPT ![p].pc = pc, ![p].dispatch = d]
     /\ UNCHANGED <<base, queue, tx, stored>>

PrepareEffects(p) ==
  /\ At(p, "prepare")
  /\ LET d == proc[p].dispatch
         fails(e) == Unusable(e, d, now)
     IN \/ Fatal(d, fails) /\ Answered(p, Failure("SIDE_EFFECT_FAILED"))
        \/ ~Fatal(d, fails) /\ Continues(p, "expire", Drop(d, fails))
  /\ UNCHANGED <<scene, now, direct, faults>>

\* The clock is read once more before the batch goes to the store.
ExpireEffects(p) ==
  /\ At(p, "expire")
  /\ LET d == proc[p].dispatch
         fails(e) == Gone(e, now)
     IN \/ Fatal(d, fails) /\ Answered(p, Failure("SIDE_EFFECT_FAILED"))
        \/ ~Fatal(d, fails) /\ Continues(p, "enqueue", Drop(d, fails))
  /\ UNCHANGED <<scene, now, direct, faults>>

EnqueueCall(d) == [op |-> "enqueueBatch", batch |-> Batch(d)]

\* Required messages go into the transaction, the others into the maps.
EnqueueEffects(p) ==
  /\ At(p, "enqueue")
  /\ LET d == proc[p].dispatch
         inside == Calls(EnqueueCall(d))
         outside == Perform(base, EnqueueCall(d), now)
         answer == IF ~StorableBatch(d) THEN <<>>
                   ELSE IF d.policy = "required" THEN inside.answer ELSE outside.answer
         why == safeEnqueueBatch(Batch(d), answer)
     IN \/ /\ why # None /\ d.policy = "required"
           /\ Answered(p, Failure(why))
        \/ /\ why # None /\ d.policy = "best-effort"
           /\ Answered(p, DispatchReport(AllFailed(d)))
        \/ /\ why = None
           /\ IF d.policy = "required" THEN tx' = inside.tx /\ UNCHANGED <<base, stored>>
              ELSE tx' = Touch(outside.wrote) /\ Keeps(outside.db)
           /\ proc' = [proc EXCEPT ![p].pc = "acknowledge", ![p].dispatch.batch = Batch(d),
                                   ![p].dispatch.answer = answer]
           /\ UNCHANGED queue
  /\ UNCHANGED <<scene, now, direct, faults>>

Acknowledge(p) ==
  /\ At(p, "acknowledge")
  /\ LET d == proc[p].dispatch
         verified == verifyEnqueueAcknowledgements(d, now)
     IN \/ verified /\ Answered(p, DispatchReport(d))
        \/ ~verified /\ d.policy = "required" /\ Answered(p, Failure("STORE_UNAVAILABLE"))
        \/ ~verified /\ d.policy = "best-effort" /\ Answered(p, DispatchReport(AllFailed(d)))
  /\ UNCHANGED <<scene, now, direct, faults>>

\* A reading of the dispatcher's clock fails, whatever has been stored or sent.
ClockFails(p) ==
  /\ faults < MaxFaults
  /\ proc[p].pc \in {"prepare", "expire", "acknowledge", "send"}
  /\ LET d == proc[p].dispatch
     IN \E k \in DOMAIN d.prepared : ~Undeliverable(d.effects[d.prepared[k]], d)
  /\ Answered(p, Failure("SIDE_EFFECT_FAILED"))
  /\ faults' = faults + 1
  /\ UNCHANGED <<scene, now, direct>>

\* The transport accepts the next message, or does not.
Send(p) ==
  /\ At(p, "send")
  /\ LET d == proc[p].dispatch
         i == NextToSend(d)
         late == Gone(d.effects[i], now)
     IN /\ d.prepared # <<>>
        /\ \E accepted \in BOOLEAN :
             /\ late => ~accepted
             /\ ~late /\ ~accepted => faults < MaxFaults
             /\ proc' = [proc EXCEPT
                           ![p].dispatch = AfterSend(d, accepted),
                           ![p].sends = IF accepted THEN @ \cup {Originals(p, d.policy)[i]} ELSE @]
             /\ faults' = IF ~late /\ ~accepted THEN faults + 1 ELSE faults
  /\ UNCHANGED <<scene, base, now, queue, tx, direct, stored>>

FinishSending(p) ==
  /\ At(p, "send")
  /\ proc[p].dispatch.prepared = <<>>
  /\ Answered(p, SyncReport(proc[p].dispatch))
  /\ UNCHANGED <<scene, now, direct, faults>>

-----------------------------------------------------------------------------
Finished ==
  /\ \A p \in Clients : At(p, "done")
  /\ UNCHANGED vars

Step(p) ==
  \/ RefuseRequest(p) \/ RunScript(p) \/ TakeTurn(p) \/ CallStore(p) \/ Return(p) \/ GiveUp(p)
  \/ RefuseBegin(p) \/ BeginChallenge(p) \/ CreateChallenge(p) \/ Recheck(p) \/ Commit(p)
  \/ PrepareEffects(p) \/ ExpireEffects(p) \/ EnqueueEffects(p) \/ Acknowledge(p)
  \/ ClockFails(p) \/ Send(p) \/ FinishSending(p)

Next == Tick \/ DirectCall \/ Finished \/ \E p \in Clients : Step(p)

Spec == Init /\ [][Next]_vars

-----------------------------------------------------------------------------
(* Properties                                                              *)

\* An index leads to the rows that have the indexed value, and back.
Inverts(index, map, field) ==
  /\ \A v \in DOMAIN index : index[v] \in DOMAIN map /\ map[index[v]][field] = v
  /\ \A k \in DOMAIN map : map[k][field] \in DOMAIN index /\ index[map[k][field]] = k

\* Only a message that has a key is in the index.
KeysInvert(db) ==
  /\ \A k \in DOMAIN db.keys : db.keys[k] \in DOMAIN db.messages /\ db.messages[db.keys[k]].key = k
  /\ \A id \in DOMAIN db.messages :
       LET key == db.messages[id].key IN key # None => key \in DOMAIN db.keys /\ db.keys[key] = id

OwnersExist(db) ==
  /\ \A i \in DOMAIN db.identities : db.identities[i].account \in DOMAIN db.accounts
  /\ \A k \in DOMAIN db.credentials :
       LET row == db.credentials[k] IN
       row.identity \in DOMAIN db.identities /\ db.identities[row.identity].account = row.account
  /\ \A s \in DOMAIN db.sessions : db.sessions[s].account \in DOMAIN db.accounts

Indexed(db) ==
  /\ Inverts(db.subjects, db.identities, "subject")
  /\ Inverts(db.byIdentity, db.credentials, "identity")
  /\ Inverts(db.byToken, db.sessions, "token")
  /\ KeysInvert(db)
  /\ OwnersExist(db)
  /\ IsInjective(db.order) /\ ToSet(db.order) = DOMAIN db.messages
  /\ db.leaseSequence \in Nat

\* Every index of the stores leads to the row that has the indexed value,
\* every such row is in its index, and every row a row refers to is there:
\* after commits, refused commits, direct writes and cleanups in any order
\* (applyTransactionState and the maps of MemoryState and MemoryOutboxState).
IndexesAgree == now \in Time /\ Indexed(base)

\* The calls of a log, made on db, give the answers of the log and leave result.
Replays(db, log, result) ==
  LET after == History(db, log) IN
  /\ after[Len(log)] = result
  /\ \A k \in 1..Len(log) :
       Perform(after[k - 1], log[k].call, log[k].at).answer = log[k].answer

Committing ==
  tx.owner # None /\ tx'.owner = None /\ proc'[tx.owner].outcome \in {None, "committed"}

\* A transaction that commits is as good as one that ran alone at its commit:
\* its calls, made then on the committed maps, give the answers the callback
\* was given and leave the maps the commit leaves (run, canCommitTransactionState
\* and applyTransactionState; direct calls do not wait for the queue).
CommitsReplay ==
  [][Committing => Replays(base, tx.log, base')]_vars

\* The effect has its message: the same content under its key or its own
\* identifier, and not given up.
Delivers(db, p, k) ==
  LET effect == Effects(p, "required")[k]
      ids == {id \in DOMAIN db.messages :
                \/ id = <<p, "required", k>>
                \/ effect.key # None /\ db.messages[id].key = effect.key}
  IN \E id \in ids : /\ db.messages[id].content = effect.content
                     /\ db.messages[id].policy = "required"
                     /\ db.messages[id].status # "dead"

\* A challenge appears together with a live message for each of its required
\* effects, and such a message never appears without its challenge (begin:
\* one transaction; the dispatcher's check of what the store acknowledged).
AuthWithRequired ==
  [][\A p \in Clients :
       /\ (p \in DOMAIN base'.challenges /\ p \notin DOMAIN base.challenges
             => \A k \in DOMAIN Effects(p, "required") : Delivers(base', p, k))
       /\ \A id \in DOMAIN base'.messages \ DOMAIN base.messages :
            id[1] = p /\ id[2] = "required" => p \in DOMAIN base'.challenges]_vars

IndexOccurs(report, i) == Cardinality({n \in DOMAIN Items(report) : Items(report)[n] = i})

\* The events and the report of a completed begin tell the truth: an effect
\* is named at most once and by its own index, every required one as deferred,
\* a deferred one was stored with its content and policy, one reported as
\* dispatched was accepted by the transport, and only a best-effort one is
\* reported as failed (dispatchSelectedSideEffects, mergeSideEffectResults).
EffectsAccounted ==
  \A p \in Clients :
    proc[p].kind = "begin" /\ proc[p].outcome = "committed" =>
      LET report == proc[p].report
          effects == proc[p].effects
      IN /\ ToSet(Items(report)) \subseteq DOMAIN effects
         /\ \A i \in DOMAIN effects : IndexOccurs(report, i) <= 1
         /\ ToSet(Originals(p, "required")) \subseteq ToSet(report.deferred)
         /\ ToSet(report.failed) \subseteq ToSet(Originals(p, "best-effort"))
         /\ \A i \in ToSet(report.deferred) :
              [key |-> effects[i].key, policy |-> effects[i].policy,
               content |-> effects[i].content] \in stored
         /\ ToSet(report.dispatched) \subseteq proc[p].sends

\* What a failed attempt on a pending challenge is answered is the transition
\* the core expects of the row it has read.
AttemptsAccepted(db, t) ==
  \A h \in DOMAIN db.challenges :
    LET row == db.challenges[h]
        call == [challenge |-> h, version |-> row.version]
        failed == recordFailedAttempt(db, call, t)
    IN /\ Core!isConsumePendingResult(consumePending(db, call, t).answer)
       /\ row.status = "pending" =>
            Core!isRecordFailedAttemptTransition(row, failed.answer, failed.db.challenges[h], t)

\* Whatever the in-memory stores have written can be read back by the core: no
\* row fails its checks, nor does what the stores answer about a challenge
\* (validation/store.ts against the stores of the testkit).
RowsAcceptedByCore ==
  /\ \A a \in DOMAIN base.accounts : Core!isAccountRecord(base.accounts[a])
  /\ \A i \in DOMAIN base.identities : Core!isIdentityRecord(base.identities[i])
  /\ \A k \in DOMAIN base.credentials : Core!isCredentialRecord(base.credentials[k])
  /\ \A s \in DOMAIN base.sessions : Core!isSessionRecord(base.sessions[s])
  /\ \A h \in DOMAIN base.challenges : Core!isChallengeRecord(base.challenges[h])
  /\ AttemptsAccepted(base, now)

SamplesDeliverable ==
  \A m \in Samples :
    /\ Pipeline!Persistable(m) => Pipeline!StoppedByAddressOnly(m)
    /\ Pipeline!isPersistableDeliveryMessage(m) <=> Pipeline!isPersistableOutboxMessage(m)

\* A message the core, the dispatcher and the in-memory store have let through is
\* one the worker and its unsealing let through, and the check of the SMTP transport
\* lets it through exactly when it is addressed to one mailbox: nothing waits in the
\* outbox that is too large, too deep or has too many parts for a later stage, and
\* what that check refuses, at every retry, is what is not addressed to it.  And the PostgreSQL
\* store judges every message as the in-memory store does (the seven validators
\* of delivery messages, each with its own counters).
OnlyAddressStopsPersisted ==
  /\ \A id \in DOMAIN base.messages : base.messages[id].content \in AddressBoundContents
  /\ SamplesDeliverable

\* "dispatched -> terminal, dead -> terminal": a message that has reached a
\* final status keeps it as long as it is there (claimBatch, markFailed and
\* markDispatched against the state machine of docs/02-FLOWS.md).
TerminalStaysTerminal ==
  [][\A id \in DOMAIN base.messages \cap DOMAIN base'.messages :
       base.messages[id].status \in {"dispatched", "dead"}
         => base'.messages[id].status = base.messages[id].status]_vars

=============================================================================
