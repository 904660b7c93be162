---------------------------- MODULE ChallengeFlow ----------------------------
(***************************************************************************)
(* begin() and complete() of the core running concurrently over the        *)
(* PostgreSQL challenge store.  Each call is a process whose steps are the *)
(* stretches of code between two awaits that touch shared state.  The      *)
(* database is READ COMMITTED: a select reads committed rows, a            *)
(* conditional update waits for the row lock and then re-evaluates its     *)
(* WHERE clause, and a transaction installs its row and its staged         *)
(* delivery message when it commits.                                       *)
(***************************************************************************)
EXTENDS Naturals, Sequences, FiniteSets

CONSTANTS
  Challenges,   \* challenge identifiers the core can generate
  Ops,          \* calls of begin and complete
  NoOp,         \* no call: the row is not locked
  NoChallenge,  \* the call has no challenge yet
  MaxAttempts,  \* MethodBeginResult.maxAttempts
  Horizon       \* the clock stops here; expiries lie in 1..Horizon

ASSUME MaxAttemptsAssumption == MaxAttempts \in Nat \ {0}
ASSUME HorizonAssumption == Horizon \in Nat
ASSUME NoOpAssumption == NoOp \notin Ops
ASSUME NoChallengeAssumption == NoChallenge \notin Challenges
ASSUME OpsAssumption == IsFiniteSet(Ops)

VARIABLES
  clock,      \* what readNow() returns
  chal,       \* committed challenge rows
  owner,      \* the call whose open transaction has the row locked
  outbox,     \* challenges whose delivery message is committed
  counted,    \* history: calls whose failed attempt the row absorbed
  completed,  \* history: calls whose consumption of the row committed
  pc,         \* where each call is
  target,     \* the challenge each call works on
  seen,       \* the row a call holds: begin's new row, or complete's snapshot
  at,         \* the clock reading a call holds
  write,      \* the row an open transaction would install
  staged,     \* whether an open transaction enqueued the delivery message
  reports,    \* outcomes passed to guard.afterAttempt, in order
  result      \* what the call returned

store == <<chal, owner, outbox, counted, completed>>
txn == <<write, staged>>
vars == <<clock, store, pc, target, seen, at, txn, reports, result>>

-----------------------------------------------------------------------------
(* Rows                                                                    *)

Status == {"none", "pending", "consumed", "expired", "failed"}

Row == [status : Status, attempts : 0..MaxAttempts, version : Nat, expiresAt : 0..Horizon]

NoRow == [status |-> "none", attempts |-> 0, version |-> 0, expiresAt |-> 0]

NewRow(e) == [status |-> "pending", attempts |-> 0, version |-> 1, expiresAt |-> e]

Expired(row) == [row EXCEPT !.status = "expired", !.version = @ + 1]

Consumed(row) == [row EXCEPT !.status = "consumed", !.version = @ + 1]

\* The attempts and the status are computed from the row that was selected.
Failed(row, selected) ==
  [row EXCEPT !.attempts = selected.attempts + 1,
              !.status = IF selected.attempts + 1 >= MaxAttempts THEN "failed" ELSE "pending",
              !.version = @ + 1]

\* Definitions named Slip... are plausible coding slips.  No specification uses
\* them: each shows, put in place of the definition after it, that a property
\* of this module notices the slip.

\* The WHERE clause forgets the version: a lost update.
SlipMatches(row, expected) == row.status = "pending"

\* WHERE version = expected AND status = 'pending'
Matches(row, expected) == row.version = expected.version /\ row.status = "pending"

-----------------------------------------------------------------------------
(* Calls                                                                   *)

BeginPhase == {"b_ready", "b_tx", "b_effects", "b_close"}
CompletePhase == {"c_ready", "c_failed", "c_record", "c_proved",
                  "c_consume", "c_update", "c_persist", "c_close"}
Active == BeginPhase \cup CompletePhase \cup {"commit", "rollback", "refused", "report"}
Phase == Active \cup {"idle", "returned", "crashed"}

Reports == {"success", "counted", "uncounted"}
Results == {"none", "success", "rejected", "failed", "conflict", "transaction-failed"}

Goto(p, phase) == pc' = [pc EXCEPT ![p] = phase]

\* The clock is rounded up.
SlipReadClock(p) == at' = [at EXCEPT ![p] = clock + 1]

ReadClock(p) == at' = [at EXCEPT ![p] = clock]

Report(p, outcome) == reports' = [reports EXCEPT ![p] = Append(@, outcome)]

Return(p, outcome) ==
  /\ Goto(p, "returned")
  /\ result' = [result EXCEPT ![p] = outcome]

\* The client keeps its row lock after the transaction ended.
SlipEndTx(p) ==
  /\ write' = [write EXCEPT ![p] = NoRow]
  /\ staged' = [staged EXCEPT ![p] = FALSE]
  /\ UNCHANGED owner

\* The transaction of p ends: its row lock is released and its writes are gone.
EndTx(p) ==
  /\ owner' = [c \in Challenges |-> IF owner[c] = p THEN NoOp ELSE owner[c]]
  /\ write' = [write EXCEPT ![p] = NoRow]
  /\ staged' = [staged EXCEPT ![p] = FALSE]

Init ==
  /\ clock = 0
  /\ chal = [c \in Challenges |-> NoRow]
  /\ owner = [c \in Challenges |-> NoOp]
  /\ outbox = {}
  /\ counted = [c \in Challenges |-> {}]
  /\ completed = [c \in Challenges |-> {}]
  /\ pc = [p \in Ops |-> "idle"]
  /\ target = [p \in Ops |-> NoChallenge]
  /\ seen = [p \in Ops |-> NoRow]
  /\ at = [p \in Ops |-> 0]
  /\ write = [p \in Ops |-> NoRow]
  /\ staged = [p \in Ops |-> FALSE]
  /\ reports = [p \in Ops |-> <<>>]
  /\ result = [p \in Ops |-> "none"]

-----------------------------------------------------------------------------
(* begin()                                                                 *)

\* The identifier is fresh: the id generator never returns one twice.
BeginCall(p, c) ==
  /\ pc[p] = "idle"
  /\ chal[c] = NoRow
  /\ \A q \in Ops : target[q] = c => pc[q] \notin Active
  /\ Goto(p, "b_ready")
  /\ target' = [target EXCEPT ![p] = c]
  /\ ReadClock(p)
  /\ UNCHANGED <<clock, store, seen, txn, reports, result>>

\* Validation, preflight, guard, policy, id generation, method.run or the
\* checks of its output fail: one report, and nothing is persisted.
BeginRejected(p) ==
  /\ pc[p] = "b_ready"
  /\ \E outcome \in {"counted", "uncounted"} : Report(p, outcome)
  /\ Return(p, "failed")
  /\ UNCHANGED <<clock, store, target, seen, at, txn>>

\* method.run returns material that expires after the reading begin started from.
BeginRun(p) ==
  /\ pc[p] = "b_ready"
  /\ \E e \in (at[p] + 1)..Horizon : seen' = [seen EXCEPT ![p] = NewRow(e)]
  /\ Goto(p, "b_tx")
  /\ UNCHANGED <<clock, store, target, at, txn, reports, result>>

\* The transaction opens, re-reads the clock and inserts the row.
BeginInsert(p) ==
  /\ pc[p] = "b_tx"
  /\ ReadClock(p)
  /\ \/ /\ seen[p].expiresAt > clock
        /\ write' = [write EXCEPT ![p] = seen[p]]
        /\ Goto(p, "b_effects")
        /\ UNCHANGED reports
     \/ /\ Report(p, "uncounted")   \* expired already, or the store failed
        /\ Goto(p, "rollback")
        /\ UNCHANGED write
  /\ UNCHANGED <<clock, store, target, seen, staged, result>>

\* The message is enqueued on a connection of its own.
SlipBeginEffects(p) ==
  /\ pc[p] = "b_effects"
  /\ outbox' = outbox \cup {target[p]}
  /\ Goto(p, "b_close")
  /\ UNCHANGED <<clock, chal, owner, counted, completed, target, seen, at, txn, reports, result>>

\* Required side effects are enqueued through the same transaction.
BeginEffects(p) ==
  /\ pc[p] = "b_effects"
  /\ \/ /\ staged' = [staged EXCEPT ![p] = TRUE]
        /\ Goto(p, "b_close")
        /\ UNCHANGED reports
     \/ /\ Report(p, "uncounted")
        /\ Goto(p, "rollback")
        /\ UNCHANGED staged
  /\ UNCHANGED <<clock, store, target, seen, at, write, result>>

\* The last clock reading of the transaction callback.
Close(p, phase) ==
  /\ pc[p] = phase
  /\ ReadClock(p)
  /\ IF seen[p].expiresAt <= clock
     THEN Report(p, "uncounted") /\ Goto(p, "rollback")
     ELSE Goto(p, "commit") /\ UNCHANGED reports
  /\ UNCHANGED <<clock, store, target, seen, txn, result>>

BeginClose(p) == Close(p, "b_close")

-----------------------------------------------------------------------------
(* complete()                                                              *)

Usable(row, now) ==
  /\ row.status = "pending"
  /\ row.attempts < MaxAttempts
  /\ row.expiresAt > now

\* readNow, findById outside a transaction, and the precheck.  A missing or
\* unusable challenge, another actor, an unconfigured method or a store failure
\* is answered before the attempt counts as started, and is not reported.
CompleteCall(p, c) ==
  /\ pc[p] = "idle"
  /\ target' = [target EXCEPT ![p] = c]
  /\ ReadClock(p)
  /\ \/ /\ Usable(chal[c], clock)
        /\ seen' = [seen EXCEPT ![p] = chal[c]]
        /\ Goto(p, "c_ready")
        /\ UNCHANGED result
     \/ /\ Return(p, "rejected")
        /\ UNCHANGED seen
  /\ UNCHANGED <<clock, store, txn, reports>>

\* Validation, lookup binding, guard, policy, an uncounted method failure or
\* the checks of the method's output: one report, nothing is written.
CompleteRejected(p) ==
  /\ pc[p] = "c_ready"
  /\ \E outcome \in {"counted", "uncounted"} : Report(p, outcome)
  /\ Return(p, "failed")
  /\ UNCHANGED <<clock, store, target, seen, at, txn>>

\* The method ran on the snapshot: the proof is wrong and counts, or it is right.
CompleteRun(p) ==
  /\ pc[p] = "c_ready"
  /\ Goto(p, "c_failed") \/ Goto(p, "c_proved")
  /\ UNCHANGED <<clock, store, target, seen, at, txn, reports, result>>

\* What recordFailedAttempt decides from the row it selects.
RecordDecision(row, expected) ==
  IF row.version # expected.version \/ row.status = "consumed" THEN "conflict"
  ELSE IF row.status = "failed" \/ row.attempts >= MaxAttempts THEN "exceeded"
  ELSE IF row.status = "expired" THEN "expired"
  ELSE "update"

\* An "exceeded" or "expired" answer that wrote nothing is no legal transition
\* of the snapshot, so the core treats it as an internal failure.
RecordSelect(p) ==
  /\ pc[p] = "c_failed"
  /\ ReadClock(p)
  /\ LET row == chal[target[p]]
         decision == RecordDecision(row, seen[p])
     IN  IF decision = "update"
         THEN /\ seen' = [seen EXCEPT ![p] = row]
              /\ Goto(p, "c_record")
              /\ UNCHANGED <<reports, result>>
         ELSE /\ Report(p, IF decision = "conflict" THEN "counted" ELSE "uncounted")
              /\ Return(p, IF decision = "conflict" THEN "conflict" ELSE "failed")
              /\ UNCHANGED seen
  /\ UNCHANGED <<clock, store, target, txn>>

\* The conditional update: it waits for the row lock, then tests version and
\* status again.  Past expiry it marks the row expired instead of counting.
ApplyFailure(p, c) ==
  IF at[p] >= seen[p].expiresAt
  THEN /\ chal' = [chal EXCEPT ![c] = Expired(@)]
       /\ UNCHANGED counted
  ELSE /\ chal' = [chal EXCEPT ![c] = Failed(@, seen[p])]
       /\ counted' = [counted EXCEPT ![c] = @ \cup {p}]

RecordUpdate(p) ==
  LET c == target[p] IN
  /\ pc[p] = "c_record"
  /\ owner[c] = NoOp
  /\ IF Matches(chal[c], seen[p])
     THEN /\ ApplyFailure(p, c)
          /\ Return(p, "failed")
     ELSE /\ Return(p, "conflict")
          /\ UNCHANGED <<chal, counted>>
  /\ Report(p, "counted")
  /\ UNCHANGED <<clock, owner, outbox, completed, target, seen, at, txn>>

\* The store fails.  Its answer may be lost after the update was applied.
RecordStoreFailure(p) ==
  LET c == target[p] IN
  /\ \/ pc[p] = "c_failed" /\ UNCHANGED <<chal, counted>>
     \/ pc[p] = "c_record" /\ UNCHANGED <<chal, counted>>
     \/ /\ pc[p] = "c_record"
        /\ owner[c] = NoOp
        /\ Matches(chal[c], seen[p])
        /\ ApplyFailure(p, c)
  /\ Report(p, "uncounted")
  /\ Return(p, "failed")
  /\ UNCHANGED <<clock, owner, outbox, completed, target, seen, at, txn>>

\* The transaction opens: the clock is read again and the expiry checked again.
CompleteTx(p) ==
  /\ pc[p] = "c_proved"
  /\ ReadClock(p)
  /\ \/ /\ seen[p].expiresAt > clock
        /\ Goto(p, "c_consume")
        /\ UNCHANGED reports
     \/ /\ Report(p, "uncounted")
        /\ Goto(p, "rollback")
  /\ UNCHANGED <<clock, store, target, seen, txn, result>>

ConsumeDecision(row, expected, now) ==
  IF row.version = expected.version /\ Usable(row, now) THEN "update" ELSE "refused"

\* consumePending selects the row, and may refuse it.  A refusal is a failure of
\* the challenge; when the store fails (the select or the update after it, whose
\* lock and write go with the transaction) the call fails.  Neither is reported.
ConsumeSelect(p) ==
  /\ pc[p] = "c_consume"
  /\ \/ Goto(p, "rollback")
     \/ /\ ConsumeDecision(chal[target[p]], seen[p], at[p]) = "update"
        /\ Goto(p, "c_update")
     \/ /\ ConsumeDecision(chal[target[p]], seen[p], at[p]) = "refused"
        /\ Goto(p, "refused")
  /\ UNCHANGED <<clock, store, target, seen, at, txn, reports, result>>

\* The update is keyed by the challenge alone.
SlipConsumeUpdate(p) ==
  LET c == target[p] IN
  /\ pc[p] = "c_update"
  /\ owner[c] = NoOp
  /\ owner' = [owner EXCEPT ![c] = p]
  /\ write' = [write EXCEPT ![p] = Consumed(chal[c])]
  /\ Goto(p, "c_persist")
  /\ UNCHANGED <<clock, chal, outbox, counted, completed, target, seen, at, staged, reports, result>>

\* The conditional update of consumePending takes the row lock.
ConsumeUpdate(p) ==
  LET c == target[p] IN
  /\ pc[p] = "c_update"
  /\ owner[c] = NoOp
  /\ IF Matches(chal[c], seen[p])
     THEN /\ owner' = [owner EXCEPT ![c] = p]
          /\ write' = [write EXCEPT ![p] = Consumed(chal[c])]
          /\ Goto(p, "c_persist")
     ELSE /\ Goto(p, "refused")
          /\ UNCHANGED <<owner, write>>
  /\ UNCHANGED <<clock, chal, outbox, counted, completed, target, seen, at, staged, reports, result>>

\* Account resolution, identity, required effects and session, each of which
\* reports its own failure once.
PersistCompletion(p) ==
  /\ pc[p] = "c_persist"
  /\ \/ Goto(p, "c_close") /\ UNCHANGED reports
     \/ /\ \E outcome \in {"counted", "uncounted"} : Report(p, outcome)
        /\ Goto(p, "rollback")
  /\ UNCHANGED <<clock, store, target, seen, at, txn, result>>

CompleteClose(p) == Close(p, "c_close")

-----------------------------------------------------------------------------
(* The end of a transaction and of a call                                  *)

\* A failed callback still commits the row.
SlipRollback(p) ==
  /\ pc[p] \in {"rollback", "refused"}
  /\ EndTx(p)
  /\ chal' = IF write[p] = NoRow THEN chal ELSE [chal EXCEPT ![target[p]] = write[p]]
  /\ Return(p, IF pc[p] = "refused" THEN "conflict" ELSE "failed")
  /\ UNCHANGED <<clock, outbox, counted, completed, target, seen, at, reports>>

\* The rollback is acknowledged, or the provider throws and the core reports
\* TRANSACTION_FAILED in place of the callback's failure.
Rollback(p) ==
  /\ pc[p] \in {"rollback", "refused"}
  /\ EndTx(p)
  /\ \/ /\ Return(p, IF pc[p] = "refused" THEN "conflict" ELSE "failed")
        /\ UNCHANGED reports
     \/ /\ Report(p, "uncounted")
        /\ Return(p, "transaction-failed")
  /\ UNCHANGED <<clock, chal, outbox, counted, completed, target, seen, at>>

\* The writes of p's transaction become visible.
Install(p) ==
  LET c == target[p] IN
  /\ chal' = [chal EXCEPT ![c] = write[p]]
  /\ outbox' = IF staged[p] THEN outbox \cup {c} ELSE outbox
  /\ completed' = [completed EXCEPT ![c] =
        IF write[p].status = "consumed" THEN @ \cup {p} ELSE @]
  /\ EndTx(p)
  /\ UNCHANGED counted

Commit(p) ==
  /\ pc[p] = "commit"
  /\ Install(p)
  /\ Goto(p, "report")
  /\ UNCHANGED <<clock, target, seen, at, reports, result>>

\* The provider's error is swallowed.
SlipCommitFails(p) ==
  /\ pc[p] = "commit"
  /\ EndTx(p)
  /\ Goto(p, "report")
  /\ UNCHANGED <<clock, chal, outbox, counted, completed, target, seen, at, reports, result>>

\* The provider throws: the commit was applied, or it was not.
CommitFails(p) ==
  /\ pc[p] = "commit"
  /\ Install(p) \/ (EndTx(p) /\ UNCHANGED <<chal, outbox, counted, completed>>)
  /\ Report(p, "uncounted")
  /\ Return(p, "transaction-failed")
  /\ UNCHANGED <<clock, target, seen, at>>

\* Best-effort effects, whose failure is ignored, then the success report.
Succeed(p) ==
  /\ pc[p] = "report"
  /\ Report(p, "success")
  /\ Return(p, "success")
  /\ UNCHANGED <<clock, store, target, seen, at, txn>>

\* The process running p dies: the database rolls its transaction back.
Crash(p) ==
  /\ pc[p] \in Active
  /\ EndTx(p)
  /\ Goto(p, "crashed")
  /\ UNCHANGED <<clock, chal, outbox, counted, completed, target, seen, at, reports, result>>

-----------------------------------------------------------------------------
(* Environment                                                             *)

\* Cleanup does not skip locked rows.
SlipCleanupExpired(c) ==
  /\ chal[c].status = "pending"
  /\ chal[c].expiresAt <= clock
  /\ chal' = [chal EXCEPT ![c] = Expired(@)]
  /\ UNCHANGED <<clock, owner, outbox, counted, completed, pc, target, seen, at, txn, reports, result>>

\* cleanupExpired, one row of its batch: locked rows are skipped.
CleanupExpired(c) ==
  /\ chal[c].status = "pending"
  /\ chal[c].expiresAt <= clock
  /\ owner[c] = NoOp
  /\ chal' = [chal EXCEPT ![c] = Expired(@)]
  /\ UNCHANGED <<clock, owner, outbox, counted, completed, pc, target, seen, at, txn, reports, result>>

Tick ==
  /\ clock < Horizon
  /\ clock' = clock + 1
  /\ UNCHANGED <<store, pc, target, seen, at, txn, reports, result>>

BeginStep(p) ==
  BeginRejected(p) \/ BeginRun(p) \/ BeginInsert(p) \/ BeginEffects(p) \/ BeginClose(p)

CompleteStep(p) ==
  \/ CompleteRejected(p) \/ CompleteRun(p)
  \/ RecordSelect(p) \/ RecordUpdate(p)
  \/ CompleteTx(p) \/ ConsumeSelect(p) \/ ConsumeUpdate(p)
  \/ PersistCompletion(p) \/ CompleteClose(p)

EndStep(p) == Rollback(p) \/ Commit(p) \/ CommitFails(p) \/ Succeed(p)

\* What the code does by itself once a call has started, if no statement fails.
Step(p) == BeginStep(p) \/ CompleteStep(p) \/ EndStep(p)

Next ==
  \/ \E p \in Ops, c \in Challenges : BeginCall(p, c) \/ CompleteCall(p, c)
  \/ \E p \in Ops : Step(p) \/ RecordStoreFailure(p) \/ Crash(p)
  \/ \E c \in Challenges : CleanupExpired(c)
  \/ Tick

Spec == Init /\ [][Next]_vars

\* Awaited promises settle, so a started call keeps taking steps.
FairSpec == Spec /\ \A p \in Ops : WF_vars(Step(p))


-----------------------------------------------------------------------------
(* Properties                                                              *)

\* Every variable keeps its type.
TypeOK ==
  /\ clock \in 0..Horizon
  /\ chal \in [Challenges -> Row]
  /\ owner \in [Challenges -> Ops \cup {NoOp}]
  /\ outbox \subseteq Challenges
  /\ counted \in [Challenges -> SUBSET Ops]
  /\ completed \in [Challenges -> SUBSET Ops]
  /\ pc \in [Ops -> Phase]
  /\ target \in [Ops -> Challenges \cup {NoChallenge}]
  /\ seen \in [Ops -> Row]
  /\ at \in [Ops -> 0..Horizon]
  /\ write \in [Ops -> Row]
  /\ staged \in [Ops -> BOOLEAN]
  /\ reports \in [Ops -> Seq(Reports)]
  /\ result \in [Ops -> Results]

\* However many complete() calls race on a challenge, at most one of them
\* commits (and with it at most one session), and the row is consumed exactly
\* when one did: a rolled back or crashed completion leaves it usable.
SingleCompletion ==
  \A c \in Challenges :
    /\ chal[c].status = "consumed" <=> completed[c] # {}
    /\ \A p, q \in completed[c] : p = q

\* No counted failure is lost to a concurrent one and none is counted twice:
\* the row's counter is the number of calls whose wrong proof it absorbed, and
\* the row is "failed" exactly when that number reaches MaxAttempts.
AttemptsAccounted ==
  \A c \in Challenges :
    /\ chal[c].attempts = Cardinality(counted[c])
    /\ chal[c].status = "failed" <=> Cardinality(counted[c]) = MaxAttempts
    /\ counted[c] \cap completed[c] = {}

\* A challenge and the message that delivers its secret are committed together
\* or not at all, whatever fails or crashes inside begin().
DeliveryIffChallenge ==
  \A c \in Challenges : c \in outbox <=> chal[c].status # "none"

\* The guard hears of a success only from a call whose writes committed, and
\* hears nothing else from it; a call that returned a failure committed
\* nothing, unless the provider lost the answer to its commit.
ReportsMatchOutcome ==
  \A p \in Ops :
    /\ \A i \in DOMAIN reports[p] : reports[p][i] = "success" =>
          /\ reports[p] = <<"success">>
          /\ result[p] = "success"
    /\ result[p] = "success" =>
          /\ reports[p] = <<"success">>
          /\ chal[target[p]].status # "none"
    /\ (\E c \in Challenges : p \in completed[c]) =>
          \/ result[p] \in {"success", "transaction-failed"}
          \/ pc[p] \in {"report", "crashed"}
    /\ (\E c \in Challenges : p \in counted[c]) => result[p] = "failed"

\* While the transaction of p holds the row lock, the committed row is still
\* the one p read before its method ran.
LockedRowUnchanged ==
  \A p \in Ops, c \in Challenges :
    owner[c] = p => chal[c] = seen[p] /\ write[p] = Consumed(seen[p])

\* docs/02-FLOWS.md:70 promises a guard.afterAttempt for each attempted operation
\* outcome: no completion whose challenge another call, a counted failure or the
\* cleanup changed under it is answered a failed challenge without a report.
ConflictReported ==
  \A p \in Ops : result[p] = "conflict" => reports[p] # <<>>

\* Versions, row locks, clocks and transactions together implement the
\* lifecycle promised in docs/02-FLOWS.md: the terminal statuses are final.
Lifecycle == INSTANCE ChallengeLifecycle
               WITH status <- [c \in Challenges |-> chal[c].status]

ImplementsLifecycle == Lifecycle!Spec

\* No call waits for ever on a row lock: every started call returns, unless its
\* process dies.
EveryCallReturns ==
  \A p \in Ops : pc[p] \in Active ~> pc[p] \in {"returned", "crashed"}

=============================================================================
