--------------------------- MODULE OutboxDispatch ---------------------------
(***************************************************************************)
(* The side effects of an operation.  The core selects the effects of one  *)
(* policy, hands them to the configured dispatcher, checks its report and  *)
(* puts the original indexes back.  Two dispatchers: one stores messages   *)
(* in the outbox, one sends them at once.  Everything here is a function;  *)
(* AuthStack says between which steps other code runs.                     *)
(*                                                                         *)
(* An effect is [policy, key, content, expiresAt]; Shapes gives the        *)
(* message of a content, which the validators of DeliveryPipeline judge.   *)
(***************************************************************************)
EXTENDS MemoryStores

CONSTANTS
  Shapes,   \* the delivery message of each content
  Samples   \* other messages, on the edges of the limits

Pipeline == INSTANCE DeliveryPipeline

ASSUME ShapesAssumption ==
  /\ \A c \in DOMAIN Shapes : Pipeline!IsMessage(Shapes[c])
  /\ \A m \in Samples : Pipeline!IsMessage(m)

AcceptedByCore == {c \in DOMAIN Shapes : Pipeline!CoreAccepts(Shapes[c])}
AcceptedByDispatcher == {c \in DOMAIN Shapes : Pipeline!DispatcherAccepts(Shapes[c])}
AcceptedBySync == {c \in DOMAIN Shapes : Pipeline!isDeliveryEffect(Shapes[c])}
AcceptedByStore == {c \in DOMAIN Shapes : Pipeline!isPersistableDeliveryMessage(Shapes[c])}
AddressBoundContents == {c \in DOMAIN Shapes : Pipeline!StoppedByAddressOnly(Shapes[c])}

\* What every check on the way into the outbox lets through.
PersistableContents == {c \in DOMAIN Shapes : Pipeline!Persistable(Shapes[c])}

Policies == {"required", "best-effort"}

\* A report of a dispatcher: three lists of indexes.
Report(dispatched, deferred, failed) ==
  [dispatched |-> dispatched, deferred |-> deferred, failed |-> failed]

NoReport == Report(<<>>, <<>>, <<>>)

Success(report) == [ok |-> TRUE, report |-> report, reason |-> None]
Failure(reason) == [ok |-> FALSE, report |-> NoReport, reason |-> reason]

-----------------------------------------------------------------------------
(* The core                                                                *)

\* The indexes of the effects of one policy, in order.
Selected(effects, policy) ==
  Only([i \in DOMAIN effects |-> i], {i \in DOMAIN effects : effects[i].policy = policy})

HasRequired(effects) == Selected(effects, "required") # <<>>

\* A required effect needs a key.
isSideEffects(effects) ==
  \A i \in DOMAIN effects :
    /\ effects[i].policy \in Policies
    /\ effects[i].key = None => effects[i].policy = "best-effort"
    /\ effects[i].content \in AcceptedByCore

\* Only the outbox dispatcher declares a transaction scope.
sideEffectScopes(effects, dispatcher) ==
  IF HasRequired(effects) /\ dispatcher = "outbox" THEN {"outbox"} ELSE {}

\* For an operation that writes, with a store that has transactions.
requiredEffectsCanPersist(effects, dispatcher) ==
  HasRequired(effects) => sideEffectScopes(effects, dispatcher) # {}

Items(report) == report.dispatched \o report.deferred \o report.failed

isDispatchResult(report, effects) ==
  /\ ToSet(Items(report)) = DOMAIN effects
  /\ Len(Items(report)) = Len(effects)
  /\ \A k \in DOMAIN report.failed : effects[report.failed[k]].policy = "best-effort"

\* What the core makes of the dispatcher's answer for these effects.
dispatchSideEffects(answer, effects) ==
  LET result == IF answer.ok /\ ~isDispatchResult(answer.report, effects)
                THEN Failure("SIDE_EFFECT_FAILED") ELSE answer
  IN IF result.ok \/ HasRequired(effects) THEN result ELSE Success(NoReport)

remapItems(items, originals) == [k \in DOMAIN items |-> originals[items[k]]]

\* The indexes stay those of the selection.
SlipDispatchSelectedSideEffects(answer, effects, originals) ==
  dispatchSideEffects(answer, [k \in DOMAIN originals |-> effects[originals[k]]])

\* The report of one policy in terms of the effects of the operation.
dispatchSelectedSideEffects(answer, effects, originals) ==
  LET result == dispatchSideEffects(answer, [k \in DOMAIN originals |-> effects[originals[k]]])
  IN [result EXCEPT !.report = Report(remapItems(@.dispatched, originals),
                                      remapItems(@.deferred, originals),
                                      remapItems(@.failed, originals))]

mergeSideEffectResults(first, second) ==
  Report(first.dispatched \o second.dispatched, first.deferred \o second.deferred,
         first.failed \o second.failed)

-----------------------------------------------------------------------------
(* A dispatch in progress.  The core never mixes policies in one call, so  *)
(* policy is that of every effect.                                         *)

Dispatch(owner, policy, effects, at) ==
  [owner |-> owner, policy |-> policy, effects |-> effects, at |-> at,
   failed |-> <<>>, prepared |-> <<>>, sent |-> <<>>, batch |-> <<>>, answer |-> <<>>]

Gone(effect, t) == effect.expiresAt <= t

\* The prepared effects that fail a test: fatal when they are required.
Drop(d, fails(_)) ==
  LET out == {i \in DOMAIN d.effects : fails(d.effects[i])} IN
  [d EXCEPT !.failed = @ \o Only(d.prepared, out), !.prepared = Only(@, DOMAIN d.effects \ out)]

Fatal(d, fails(_)) ==
  d.policy = "required" /\ \E k \in DOMAIN d.prepared : fails(d.effects[d.prepared[k]])

AllFailed(d) == [d EXCEPT !.failed = @ \o d.prepared, !.prepared = <<>>]

-----------------------------------------------------------------------------
(* The outbox dispatcher.  t is a reading of its clock.                    *)

Prepared(d) == [d EXCEPT !.prepared = [i \in DOMAIN d.effects |-> i]]

\* The effect has no snapshot, no sealed message, or no time left.
Unusable(effect, d, t) ==
  effect.content \notin AcceptedByDispatcher \/ Gone(effect, d.at) \/ Gone(effect, t)

messageId(d, i) == <<d.owner, d.policy, i>>

outboxMessage(d, i) ==
  [id |-> messageId(d, i), key |-> d.effects[i].key, policy |-> d.policy,
   content |-> d.effects[i].content, expiresAt |-> d.effects[i].expiresAt]

\* A batch with one message the store refuses is refused as a whole.
StorableBatch(d) == \A k \in DOMAIN d.prepared :
  d.effects[d.prepared[k]].content \in AcceptedByStore

Batch(d) == [k \in DOMAIN d.prepared |-> outboxMessage(d, d.prepared[k])]

isConsistentStatusAttempt(ack) ==
  /\ ack.status = "pending" => ack.attempts = 0
  /\ ack.status = "failed" => ack.attempts \in 1..(MaxAttempts - 1)

\* What the dispatcher requires of every message in the store's answer.
snapshotAcknowledgedMessage(ack, m) ==
  /\ ack.key = m.key
  /\ ack.key = None => ack.id = m.id
  /\ ack.policy \in Policies
  /\ ack.attempts <= MaxAttempts
  /\ isConsistentStatusAttempt(ack)

\* Why the answer of the store cannot be used; None when it can.
safeEnqueueBatch(batch, answer) ==
  IF answer = <<>> THEN "OUTBOX_ENQUEUE_FAILED"
  ELSE IF /\ Len(answer) = Len(batch)
          /\ \A k \in DOMAIN batch : snapshotAcknowledgedMessage(answer[k], batch[k])
  THEN None ELSE "STORE_UNAVAILABLE"

\* A message that will never be delivered is accepted too.
SlipIsMatchingAcknowledgement(ack, m, t) ==
  /\ ack.policy = m.policy
  /\ ack.expiresAt = m.expiresAt
  /\ ack.expiresAt > t
  /\ ack.content = m.content
  /\ ack.id = m.id \/ m.key # None

\* A message under another identifier is accepted for its key.
isMatchingAcknowledgement(ack, m, t) ==
  /\ ack.status # "dead"
  /\ ack.policy = m.policy
  /\ ack.expiresAt = m.expiresAt
  /\ ack.expiresAt > t
  /\ ack.content = m.content
  /\ ack.id = m.id \/ m.key # None

verifyEnqueueAcknowledgements(d, t) ==
  \A k \in DOMAIN d.batch : isMatchingAcknowledgement(d.answer[k], d.batch[k], t)

\* The report: what is stored is deferred.
DispatchReport(d) == Success(Report(<<>>, d.prepared, d.failed))

-----------------------------------------------------------------------------
(* The synchronous dispatcher sends the effects one after the other        *)

\* The effect has no snapshot, or no time left when the dispatch begins.
Undeliverable(effect, d) == effect.content \notin AcceptedBySync \/ Gone(effect, d.at)

NextToSend(d) == d.prepared[1]

\* What becomes of the next effect: sent, or failed.
AfterSend(d, accepted) ==
  [d EXCEPT !.prepared = Tail(@),
            !.sent = IF accepted THEN Append(@, NextToSend(d)) ELSE @,
            !.failed = IF accepted THEN @ ELSE Append(@, NextToSend(d))]

SyncReport(d) == Success(Report(d.sent, <<>>, d.failed))

=============================================================================
