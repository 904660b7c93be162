------------------------- MODULE ChallengeFlowProofs -------------------------
(***************************************************************************)
(* For any challenges, any finite set of concurrent calls and any bounds:  *)
(* the types, the single completion of a challenge, the accounting of      *)
(* failed attempts and the row a lock protects are invariants of           *)
(* ChallengeFlow; a challenge is stored exactly with the message that      *)
(* carries its secret; what a call reports and answers is what became of   *)
(* its writes; and ChallengeFlow implements ChallengeLifecycle.            *)
(***************************************************************************)
EXTENDS ChallengeFlow, FiniteSetTheorems, TLAPS

-----------------------------------------------------------------------------
(* The inductive invariant                                                 *)

\* p is in begin(), or about to commit the row begin() inserted.
Beginning(p) ==
  pc[p] \in BeginPhase \/ (pc[p] = "commit" /\ write[p].status = "pending")

\* p has consumed its challenge in an open transaction that may still commit.
Consuming(p) ==
  \/ pc[p] \in {"c_persist", "c_close"}
  \/ pc[p] = "commit" /\ write[p].status # "pending"

\* A call that started has a challenge.
Targets == \A p \in Ops : pc[p] # "idle" => target[p] \in Challenges

\* The challenge of a begin() does not exist yet, and no other begin() makes it.
Starting ==
  \A p \in Ops : Beginning(p) =>
    /\ chal[target[p]] = NoRow
    /\ \A q \in Ops : Beginning(q) /\ target[q] = target[p] => q = p

\* A begin() holds, and then inserts, a pending row that counts no attempt.
Inserting ==
  \A p \in Ops :
    /\ pc[p] \in {"b_tx", "b_effects", "b_close"} =>
          seen[p].status = "pending" /\ seen[p].attempts = 0
    /\ pc[p] \in {"b_effects", "b_close"} => write[p] = seen[p]
    /\ pc[p] = "commit" /\ write[p].status = "pending" => write[p].attempts = 0

\* A complete() holds a usable snapshot of an existing row.  The row moves on
\* from it by raising its version, so an equal version means an equal row.
Pinned ==
  \A p \in Ops : pc[p] \in CompletePhase =>
    /\ seen[p].status = "pending"
    /\ seen[p].attempts < MaxAttempts
    /\ chal[target[p]].status # "none"
    /\ seen[p].version <= chal[target[p]].version
    /\ seen[p].version = chal[target[p]].version => chal[target[p]] = seen[p]

\* Only the transaction of a completion that consumed the row has it locked.
Owning ==
  \A p \in Ops, c \in Challenges : owner[c] = p =>
    /\ target[p] = c
    /\ pc[p] \in {"c_persist", "c_close", "commit", "rollback"}
    /\ seen[p].status = "pending"

Consumer ==
  \A p \in Ops : Consuming(p) => owner[target[p]] = p

\* The histories name calls that are past the step they record.
Histories ==
  \A p \in Ops, c \in Challenges :
    /\ p \in counted[c] => pc[p] = "returned"
    /\ p \in completed[c] => pc[p] \in {"report", "returned", "crashed"}

Structure == TypeOK /\ Targets /\ Starting /\ Inserting /\ Pinned
Locking == Owning /\ Consumer /\ LockedRowUnchanged
IInv == Structure /\ Locking /\ Histories /\ SingleCompletion /\ AttemptsAccounted

-----------------------------------------------------------------------------
(* Types                                                                   *)

USE MaxAttemptsAssumption, HorizonAssumption, NoOpAssumption, NoChallengeAssumption

\* The row begin() inserts is a row.
LEMMA NewRowType == ASSUME NEW e \in 0..Horizon PROVE NewRow(e) \in Row
  BY DEF NewRow, Row, Status

\* The row of a challenge that does not exist is a row.
LEMMA NoRowType == NoRow \in Row
  BY DEF NoRow, Row, Status

\* Marking a row expired yields a row.
LEMMA ExpiredType == ASSUME NEW row \in Row PROVE Expired(row) \in Row
  <1> DEFINE marked == [row EXCEPT !.status = "expired"]
  <1>1. marked \in Row
    BY DEF Row, Status
  <1>2. row.version + 1 \in Nat
    BY DEF Row
  <1>3. [marked EXCEPT !.version = row.version + 1] \in Row
    <2> HIDE DEF marked
    <2> QED BY <1>1, <1>2 DEF Row
  <1> QED BY <1>3 DEF Expired

\* Consuming a row yields a row.
LEMMA ConsumedType == ASSUME NEW row \in Row PROVE Consumed(row) \in Row
  <1> DEFINE marked == [row EXCEPT !.status = "consumed"]
  <1>1. marked \in Row
    BY DEF Row, Status
  <1>2. row.version + 1 \in Nat
    BY DEF Row
  <1>3. [marked EXCEPT !.version = row.version + 1] \in Row
    <2> HIDE DEF marked
    <2> QED BY <1>1, <1>2 DEF Row
  <1> QED BY <1>3 DEF Consumed

\* Counting one more failure yields a row, if attempts were left.
LEMMA FailedType ==
  ASSUME NEW row \in Row, NEW selected \in Row, selected.attempts < MaxAttempts
  PROVE  Failed(row, selected) \in Row
  <1> DEFINE status == IF selected.attempts + 1 >= MaxAttempts THEN "failed" ELSE "pending"
             counting == [row EXCEPT !.attempts = selected.attempts + 1]
             marked == [counting EXCEPT !.status = status]
  <1>1. counting \in Row
    BY DEF Row
  <1>2. marked \in Row
    <2> status \in Status
      BY DEF Status
    <2> HIDE DEF counting, status
    <2> QED BY <1>1 DEF Row
  <1>3. row.version + 1 \in Nat
    BY DEF Row
  <1>4. [marked EXCEPT !.version = row.version + 1] \in Row
    <2> HIDE DEF marked
    <2> QED BY <1>2, <1>3 DEF Row
  <1> QED BY <1>4 DEF Failed

\* What the three updates of a row do to its fields.
LEMMA RowFields ==
  ASSUME NEW row \in Row, NEW selected \in Row
  PROVE  /\ Expired(row).status = "expired"
         /\ Expired(row).attempts = row.attempts
         /\ Expired(row).version = row.version + 1
         /\ Consumed(row).status = "consumed"
         /\ Consumed(row).attempts = row.attempts
         /\ Consumed(row).version = row.version + 1
         /\ Failed(row, selected).attempts = selected.attempts + 1
         /\ Failed(row, selected).version = row.version + 1
         /\ Failed(row, selected).status =
              IF selected.attempts + 1 >= MaxAttempts THEN "failed" ELSE "pending"
  BY DEF Row, Expired, Consumed, Failed

\* A report extends the list of a call.
LEMMA ReportType ==
  ASSUME TypeOK, NEW p \in Ops, NEW outcome \in Reports, Report(p, outcome)
  PROVE  reports' \in [Ops -> Seq(Reports)]
  <1> Append(reports[p], outcome) \in Seq(Reports)
    BY DEF TypeOK
  <1> QED BY DEF Report, TypeOK

\* The end of a transaction keeps the types of locks and staged writes.
LEMMA EndTxType ==
  ASSUME TypeOK, NEW p \in Ops, EndTx(p)
  PROVE  /\ owner' \in [Challenges -> Ops \cup {NoOp}]
         /\ write' \in [Ops -> Row]
         /\ staged' \in [Ops -> BOOLEAN]
  BY NoRowType DEF EndTx, TypeOK

\* recordFailedAttempt keeps the type of the rows.
LEMMA ApplyFailureType ==
  ASSUME TypeOK, NEW p \in Ops, NEW c \in Challenges, ApplyFailure(p, c),
         seen[p].attempts < MaxAttempts
  PROVE  chal' \in [Challenges -> Row] /\ counted' \in [Challenges -> SUBSET Ops]
  <1> chal[c] \in Row /\ seen[p] \in Row
    BY DEF TypeOK
  <1> Expired(chal[c]) \in Row /\ Failed(chal[c], seen[p]) \in Row
    BY ExpiredType, FailedType
  <1>1. chal' \in [Challenges -> Row]
    BY DEF ApplyFailure, TypeOK
  <1>2. counted' \in [Challenges -> SUBSET Ops]
    <2> counted[c] \cup {p} \in SUBSET Ops
      BY DEF TypeOK
    <2> QED BY DEF ApplyFailure, TypeOK
  <1> QED BY <1>1, <1>2

\* A call moves between phases.
LEMMA GotoType ==
  ASSUME TypeOK, NEW p \in Ops, NEW phase \in Phase, Goto(p, phase)
  PROVE  pc' \in [Ops -> Phase]
  BY DEF Goto, TypeOK

\* A call returns with a result.
LEMMA ReturnType ==
  ASSUME TypeOK, NEW p \in Ops, NEW outcome \in Results, Return(p, outcome)
  PROVE  pc' \in [Ops -> Phase] /\ result' \in [Ops -> Results]
  BY DEF Return, Goto, TypeOK, Phase

\* A commit keeps the type of the store.
LEMMA InstallType ==
  ASSUME TypeOK, Targets, NEW p \in Ops, pc[p] # "idle", Install(p)
  PROVE  /\ chal' \in [Challenges -> Row]
         /\ outbox' \subseteq Challenges
         /\ completed' \in [Challenges -> SUBSET Ops]
  BY DEF Install, Targets, TypeOK

\* A step of one call that leaves the store alone: it goes on or returns, may
\* read the clock, and may report.
Proceeds(p) ==
  /\ UNCHANGED <<clock, store, target>>
  /\ UNCHANGED at \/ ReadClock(p)
  /\ UNCHANGED reports \/ \E o \in Reports : Report(p, o)
  /\ \/ UNCHANGED result /\ \E ph \in Phase : Goto(p, ph)
     \/ \E o \in Results : Return(p, o)

\* The names steps go by.
LEMMA Names ==
  /\ {"b_tx", "b_effects", "b_close", "c_failed", "c_proved", "c_record", "c_consume", "c_update",
      "c_persist", "c_close", "commit", "rollback", "refused", "report", "returned"} \subseteq Phase
  /\ {"failed", "conflict", "success", "rejected", "transaction-failed"} \subseteq Results
  /\ {"counted", "uncounted", "success"} \subseteq Reports
  BY DEF Phase, Active, BeginPhase, CompletePhase, Results, Reports

\* Such a step keeps the types, if what it stages and remembers is typed.
LEMMA ProceedsType ==
  ASSUME TypeOK, NEW p \in Ops, Proceeds(p),
         seen' \in [Ops -> Row], write' \in [Ops -> Row], staged' \in [Ops -> BOOLEAN]
  PROVE  TypeOK'
  <1>1. pc' \in [Ops -> Phase] /\ result' \in [Ops -> Results]
    <2>1. CASE UNCHANGED result /\ \E ph \in Phase : Goto(p, ph)
      BY <2>1, GotoType DEF TypeOK
    <2>2. CASE \E o \in Results : Return(p, o)
      BY <2>2, ReturnType
    <2> QED BY <2>1, <2>2 DEF Proceeds
  <1>2. at' \in [Ops -> 0..Horizon]
    BY DEF Proceeds, ReadClock, TypeOK
  <1>3. reports' \in [Ops -> Seq(Reports)]
    <2>1. CASE UNCHANGED reports
      BY <2>1 DEF TypeOK
    <2>2. CASE \E o \in Reports : Report(p, o)
      BY <2>2, ReportType
    <2> QED BY <2>1, <2>2 DEF Proceeds
  <1> QED BY <1>1, <1>2, <1>3 DEF Proceeds, TypeOK, store

\* Every step keeps the types.
LEMMA TypeStep == TypeOK /\ Targets /\ Inserting /\ Pinned /\ Next => TypeOK'
  <1> SUFFICES ASSUME TypeOK, Targets, Inserting, Pinned, Next PROVE TypeOK'
    OBVIOUS
  <1>1. ASSUME NEW p \in Ops, NEW c \in Challenges, BeginCall(p, c) PROVE TypeOK'
    BY <1>1 DEF BeginCall, ReadClock, Goto, TypeOK, Phase, Active, BeginPhase, store, txn
  <1>2. ASSUME NEW p \in Ops, NEW c \in Challenges, CompleteCall(p, c) PROVE TypeOK'
    <2>3. pc' \in [Ops -> Phase] /\ result' \in [Ops -> Results]
      BY <1>2, GotoType, ReturnType DEF CompleteCall, TypeOK, Phase, Active, CompletePhase, Results
    <2> QED BY <1>2, <2>3 DEF CompleteCall, TypeOK, ReadClock, store, txn
  <1>3. ASSUME NEW p \in Ops, BeginRejected(p) PROVE TypeOK'
    <2>1. Proceeds(p)
      BY <1>3, Names DEF Proceeds, BeginRejected
    <2>2. UNCHANGED <<seen, txn>>
      BY <1>3 DEF BeginRejected, txn
    <2> QED BY <2>1, <2>2, ProceedsType DEF TypeOK, txn
  <1>4. ASSUME NEW p \in Ops, BeginRun(p) PROVE TypeOK'
    <2>1. Proceeds(p)
      BY <1>4, Names DEF Proceeds, BeginRun
    <2>2. seen' \in [Ops -> Row]
      BY <1>4, NewRowType DEF BeginRun, TypeOK
    <2>3. UNCHANGED <<write, staged>>
      BY <1>4 DEF BeginRun, txn
    <2> QED BY <2>1, <2>2, <2>3, ProceedsType DEF TypeOK
  <1>5. ASSUME NEW p \in Ops, BeginInsert(p) PROVE TypeOK'
    <2>1. Proceeds(p)
      BY <1>5, Names DEF Proceeds, BeginInsert
    <2>2. write' \in [Ops -> Row]
      BY <1>5 DEF BeginInsert, TypeOK
    <2>3. UNCHANGED <<seen, staged>>
      BY <1>5 DEF BeginInsert, txn
    <2> QED BY <2>1, <2>2, <2>3, ProceedsType DEF TypeOK
  <1>6. ASSUME NEW p \in Ops, BeginEffects(p) PROVE TypeOK'
    <2>1. Proceeds(p)
      BY <1>6, Names DEF Proceeds, BeginEffects
    <2>2. staged' \in [Ops -> BOOLEAN]
      BY <1>6 DEF BeginEffects, TypeOK
    <2>3. UNCHANGED <<seen, write>>
      BY <1>6 DEF BeginEffects, txn
    <2> QED BY <2>1, <2>2, <2>3, ProceedsType DEF TypeOK
  <1>7. ASSUME NEW p \in Ops, BeginClose(p) PROVE TypeOK'
    <2>1. Proceeds(p)
      BY <1>7, Names DEF Proceeds, BeginClose, Close
    <2>2. UNCHANGED <<seen, txn>>
      BY <1>7 DEF BeginClose, Close, txn
    <2> QED BY <2>1, <2>2, ProceedsType DEF TypeOK, txn
  <1>8. ASSUME NEW p \in Ops, CompleteRejected(p) PROVE TypeOK'
    <2>1. Proceeds(p)
      BY <1>8, Names DEF Proceeds, CompleteRejected
    <2>2. UNCHANGED <<seen, txn>>
      BY <1>8 DEF CompleteRejected, txn
    <2> QED BY <2>1, <2>2, ProceedsType DEF TypeOK, txn
  <1>9. ASSUME NEW p \in Ops, CompleteRun(p) PROVE TypeOK'
    <2>1. Proceeds(p)
      BY <1>9, Names DEF Proceeds, CompleteRun
    <2>2. UNCHANGED <<seen, txn>>
      BY <1>9 DEF CompleteRun, txn
    <2> QED BY <2>1, <2>2, ProceedsType DEF TypeOK, txn
  <1>10. ASSUME NEW p \in Ops, RecordSelect(p) PROVE TypeOK'
    <2>1. target[p] \in Challenges
      BY <1>10 DEF RecordSelect, Targets
    <2>2. Proceeds(p)
      <3> DEFINE decision == RecordDecision(chal[target[p]], seen[p])
      <3> HIDE DEF decision
      <3>1. UNCHANGED reports \/ \E o \in Reports : Report(p, o)
        BY <1>10, Names DEF RecordSelect, decision
      <3>2. \/ UNCHANGED result /\ \E ph \in Phase : Goto(p, ph)
            \/ \E o \in Results : Return(p, o)
        BY <1>10, Names DEF RecordSelect, decision
      <3> QED BY <1>10, <3>1, <3>2 DEF Proceeds, RecordSelect
    <2>3. seen' \in [Ops -> Row]
      <3>1. UNCHANGED seen \/ seen' = [seen EXCEPT ![p] = chal[target[p]]]
        BY <1>10 DEF RecordSelect
      <3> QED BY <2>1, <3>1 DEF TypeOK
    <2>4. UNCHANGED txn
      BY <1>10 DEF RecordSelect
    <2> QED BY <2>2, <2>3, <2>4, ProceedsType DEF TypeOK, txn
  <1>11. ASSUME NEW p \in Ops, RecordUpdate(p) \/ RecordStoreFailure(p) PROVE TypeOK'
    <2>0. target[p] \in Challenges /\ (pc[p] = "c_record" => seen[p].attempts < MaxAttempts)
       BY <1>11 DEF RecordUpdate, RecordStoreFailure, Targets, Pinned, CompletePhase
    <2>1. chal' \in [Challenges -> Row] /\ counted' \in [Challenges -> SUBSET Ops]
      BY <1>11, <2>0, ApplyFailureType DEF RecordUpdate, RecordStoreFailure, TypeOK
    <2>2. reports' \in [Ops -> Seq(Reports)]
      BY <1>11, ReportType DEF RecordUpdate, RecordStoreFailure, Reports
    <2>3. pc' \in [Ops -> Phase] /\ result' \in [Ops -> Results]
      BY <1>11, ReturnType DEF RecordUpdate, RecordStoreFailure, Results
    <2> QED BY <1>11, <2>1, <2>2, <2>3 DEF RecordUpdate, RecordStoreFailure, TypeOK, txn
  <1>12. ASSUME NEW p \in Ops, CompleteTx(p) PROVE TypeOK'
    <2>1. Proceeds(p)
      BY <1>12, Names DEF Proceeds, CompleteTx
    <2>2. UNCHANGED <<seen, txn>>
      BY <1>12 DEF CompleteTx, txn
    <2> QED BY <2>1, <2>2, ProceedsType DEF TypeOK, txn
  <1>13. ASSUME NEW p \in Ops, ConsumeSelect(p) PROVE TypeOK'
    <2>1. Proceeds(p)
      BY <1>13, Names DEF Proceeds, ConsumeSelect
    <2>2. UNCHANGED <<seen, txn>>
      BY <1>13 DEF ConsumeSelect, txn
    <2> QED BY <2>1, <2>2, ProceedsType DEF TypeOK, txn
  <1>14. ASSUME NEW p \in Ops, ConsumeUpdate(p) PROVE TypeOK'
    <2>1. target[p] \in Challenges /\ Consumed(chal[target[p]]) \in Row
      BY <1>14, ConsumedType DEF ConsumeUpdate, Targets, TypeOK
    <2>2. owner' \in [Challenges -> Ops \cup {NoOp}]
      <3>1. owner' = [owner EXCEPT ![target[p]] = p] \/ owner' = owner
        BY <1>14 DEF ConsumeUpdate
      <3>2. CASE owner' = [owner EXCEPT ![target[p]] = p]
        BY <3>2 DEF TypeOK
      <3>3. CASE owner' = owner
        BY <3>3 DEF TypeOK
      <3> QED BY <3>1, <3>2, <3>3
    <2>3. write' \in [Ops -> Row]
      <3>1. write' = [write EXCEPT ![p] = Consumed(chal[target[p]])] \/ write' = write
        BY <1>14 DEF ConsumeUpdate
      <3>2. CASE write' = [write EXCEPT ![p] = Consumed(chal[target[p]])]
        BY <2>1, <3>2 DEF TypeOK
      <3>3. CASE write' = write
        BY <3>3 DEF TypeOK
      <3> QED BY <3>1, <3>2, <3>3
    <2>4. pc' \in [Ops -> Phase]
      BY <1>14, GotoType DEF ConsumeUpdate, Phase, Active, CompletePhase
    <2> QED BY <1>14, <2>2, <2>3, <2>4 DEF ConsumeUpdate, TypeOK
  <1>15. ASSUME NEW p \in Ops, PersistCompletion(p) PROVE TypeOK'
    <2>1. Proceeds(p)
      BY <1>15, Names DEF Proceeds, PersistCompletion
    <2>2. UNCHANGED <<seen, txn>>
      BY <1>15 DEF PersistCompletion, txn
    <2> QED BY <2>1, <2>2, ProceedsType DEF TypeOK, txn
  <1>16. ASSUME NEW p \in Ops, CompleteClose(p) PROVE TypeOK'
    <2>1. Proceeds(p)
      BY <1>16, Names DEF Proceeds, CompleteClose, Close
    <2>2. UNCHANGED <<seen, txn>>
      BY <1>16 DEF CompleteClose, Close, txn
    <2> QED BY <2>1, <2>2, ProceedsType DEF TypeOK, txn
  <1>17. ASSUME NEW p \in Ops, Rollback(p) PROVE TypeOK'
    <2>2. reports' \in [Ops -> Seq(Reports)]
      BY <1>17, ReportType DEF Rollback, Reports, TypeOK
    <2>3. pc' \in [Ops -> Phase] /\ result' \in [Ops -> Results]
      <3>1. \E o \in Results : Return(p, o)
        BY <1>17 DEF Rollback, Results
      <3> QED BY <3>1, ReturnType
    <2> QED BY <1>17, EndTxType, <2>2, <2>3 DEF Rollback, TypeOK
  <1>18. ASSUME NEW p \in Ops, Commit(p) PROVE TypeOK'
    <2>1. EndTx(p) /\ counted' = counted
      BY <1>18 DEF Commit, Install
    <2>2. pc' \in [Ops -> Phase]
      BY <1>18, GotoType DEF Commit, Phase, Active
    <2> QED BY <1>18, <2>1, <2>2, InstallType, EndTxType DEF Commit, TypeOK
  <1>19. ASSUME NEW p \in Ops, CommitFails(p) PROVE TypeOK'
    <2>1. /\ chal' \in [Challenges -> Row]
          /\ outbox' \subseteq Challenges
          /\ completed' \in [Challenges -> SUBSET Ops]
          /\ counted' = counted
      BY <1>19, InstallType DEF CommitFails, Install, TypeOK
    <2>2. EndTx(p)
      BY <1>19 DEF CommitFails, Install
    <2>3. pc' \in [Ops -> Phase] /\ result' \in [Ops -> Results]
      BY <1>19, ReturnType DEF CommitFails, Results
    <2>4. reports' \in [Ops -> Seq(Reports)]
      BY <1>19, ReportType DEF CommitFails, Reports
    <2> QED BY <1>19, <2>1, <2>2, <2>3, <2>4, EndTxType DEF CommitFails, TypeOK
  <1>20. ASSUME NEW p \in Ops, Succeed(p) PROVE TypeOK'
    <2>1. Proceeds(p)
      BY <1>20, Names DEF Proceeds, Succeed
    <2>2. UNCHANGED <<seen, txn>>
      BY <1>20 DEF Succeed, txn
    <2> QED BY <2>1, <2>2, ProceedsType DEF TypeOK, txn
  <1>21. ASSUME NEW p \in Ops, Crash(p) PROVE TypeOK'
    BY <1>21, NoRowType DEF Crash, EndTx, Goto, TypeOK, Phase
  <1>22. ASSUME NEW c \in Challenges, CleanupExpired(c) PROVE TypeOK'
    BY <1>22, ExpiredType DEF CleanupExpired, TypeOK, txn
  <1>23. CASE Tick
    BY <1>23 DEF Tick, TypeOK, store, txn
  <1> QED
    BY <1>1, <1>2, <1>3, <1>4, <1>5, <1>6, <1>7, <1>8, <1>9, <1>10, <1>11, <1>12, <1>13, <1>14, <1>15, <1>16, <1>17, <1>18, <1>19, <1>20, <1>21, <1>22, <1>23 DEF Next, Step, BeginStep, CompleteStep, EndStep

-----------------------------------------------------------------------------
(* The calls                                       *)

\* Every step keeps Targets.
LEMMA TargetsStep == TypeOK /\ Targets /\ Next => Targets'
  <1> SUFFICES ASSUME TypeOK, Targets, Next PROVE Targets'
    OBVIOUS
  <1> USE DEF Targets, TypeOK, Goto, Return
  <1>1. ASSUME NEW p \in Ops, NEW c \in Challenges, BeginCall(p, c) \/ CompleteCall(p, c)
        PROVE  Targets'
    BY <1>1 DEF BeginCall, CompleteCall
  <1>2. ASSUME NEW p \in Ops, BeginStep(p) PROVE Targets'
    BY <1>2 DEF BeginStep, BeginRejected, BeginRun, BeginInsert, BeginEffects, BeginClose, Close
  <1>3. ASSUME NEW p \in Ops, CompleteStep(p) \/ RecordStoreFailure(p) PROVE Targets'
    BY <1>3 DEF CompleteStep, CompleteRejected, CompleteRun, RecordSelect, RecordUpdate,
                RecordStoreFailure, CompleteTx, ConsumeSelect, ConsumeUpdate, PersistCompletion,
                CompleteClose, Close
  <1>4. ASSUME NEW p \in Ops, EndStep(p) \/ Crash(p) PROVE Targets'
    BY <1>4 DEF EndStep, Rollback, Commit, CommitFails, Succeed, Crash, Active, BeginPhase,
                CompletePhase
  <1>5. ASSUME NEW c \in Challenges, CleanupExpired(c) PROVE Targets'
    BY <1>5 DEF CleanupExpired
  <1>6. CASE Tick
    BY <1>6 DEF Tick
  <1> QED BY <1>1, <1>2, <1>3, <1>4, <1>5, <1>6 DEF Next, Step

\* The row that a completion is about to commit.
LEMMA ConsumerFacts ==
  ASSUME TypeOK, Targets, Consumer, LockedRowUnchanged, NEW p \in Ops, Consuming(p)
  PROVE  /\ target[p] \in Challenges
         /\ owner[target[p]] = p
         /\ chal[target[p]] = seen[p]
         /\ write[p] = Consumed(seen[p])
         /\ write[p].status = "consumed"
         /\ write[p].attempts = seen[p].attempts
         /\ write[p].version = seen[p].version + 1
  <1>1. target[p] \in Challenges
    BY DEF Consuming, Targets
  <1>2. owner[target[p]] = p
    BY DEF Consumer
  <1>3. chal[target[p]] = seen[p] /\ write[p] = Consumed(seen[p])
    BY <1>1, <1>2 DEF LockedRowUnchanged
  <1>4. seen[p] \in Row
    BY DEF TypeOK
  <1> QED BY <1>1, <1>2, <1>3, <1>4, RowFields

\* Every step keeps Inserting.
LEMMA InsertingStep ==
  TypeOK /\ Targets /\ Inserting /\ Consumer /\ LockedRowUnchanged /\ Next => Inserting'
  <1> SUFFICES ASSUME TypeOK, Targets, Inserting, Consumer, LockedRowUnchanged, Next
               PROVE  Inserting'
    OBVIOUS
  <1> USE DEF Inserting, TypeOK, Goto, Return
  <1>1. ASSUME NEW p \in Ops, NEW c \in Challenges, BeginCall(p, c) \/ CompleteCall(p, c)
        PROVE  Inserting'
    BY <1>1 DEF BeginCall, CompleteCall, txn
  <1>2. ASSUME NEW p \in Ops, BeginRun(p) PROVE Inserting'
    BY <1>2 DEF BeginRun, NewRow, txn
  <1>3. ASSUME NEW p \in Ops, BeginInsert(p) PROVE Inserting'
    <2>1. CASE write' = [write EXCEPT ![p] = seen[p]]
      BY <1>3, <2>1 DEF BeginInsert
    <2>2. CASE write' = write
      BY <1>3, <2>2 DEF BeginInsert
    <2> QED BY <1>3, <2>1, <2>2 DEF BeginInsert
  <1>4. ASSUME NEW p \in Ops, BeginRejected(p) \/ BeginEffects(p) PROVE Inserting'
    BY <1>4 DEF BeginRejected, BeginEffects, txn
  <1>5. ASSUME NEW p \in Ops, BeginClose(p) PROVE Inserting'
    BY <1>5 DEF BeginClose, Close, txn
  <1>6. ASSUME NEW p \in Ops, CompleteClose(p) PROVE Inserting'
    <2>1. write[p].status = "consumed"
      BY <1>6, ConsumerFacts DEF CompleteClose, Close, Consuming
    <2> QED BY <1>6, <2>1 DEF CompleteClose, Close, txn
  <1>7. ASSUME NEW p \in Ops, CompleteStep(p) \/ RecordStoreFailure(p), ~CompleteClose(p)
        PROVE  Inserting'
    BY <1>7 DEF CompleteStep, CompleteRejected, CompleteRun, RecordSelect, RecordUpdate,
                RecordStoreFailure, CompleteTx, ConsumeSelect, ConsumeUpdate,
                PersistCompletion, txn
  <1>8. ASSUME NEW p \in Ops, EndStep(p) \/ Crash(p) PROVE Inserting'
    BY <1>8 DEF EndStep, Rollback, Commit, CommitFails, Install, Succeed, Crash, EndTx, txn
  <1>9. ASSUME NEW c \in Challenges, CleanupExpired(c) PROVE Inserting'
    BY <1>9 DEF CleanupExpired, txn
  <1>10. CASE Tick
    BY <1>10 DEF Tick, txn
  <1> QED BY <1>1, <1>2, <1>3, <1>4, <1>5, <1>6, <1>7, <1>8, <1>9, <1>10 DEF Next, Step, BeginStep

\* What an update of the row finds: nobody has it locked, and it is still the
\* row that was selected.
LEMMA MatchedFacts ==
  ASSUME TypeOK, Targets, Pinned, NEW p \in Ops, pc[p] \in {"c_record", "c_update"},
         Matches(chal[target[p]], seen[p])
  PROVE  /\ target[p] \in Challenges
         /\ chal[target[p]] = seen[p]
         /\ seen[p].status = "pending"
         /\ seen[p].attempts < MaxAttempts
  BY DEF Targets, Pinned, CompletePhase, Matches

-----------------------------------------------------------------------------
(* What a step can do to a row, given the invariant                        *)

Untouched(c) ==
  chal'[c] = chal[c] /\ counted'[c] = counted[c] /\ completed'[c] = completed[c]

CreatedBy(p, c) ==
  /\ pc[p] = "commit" /\ write[p].status = "pending" /\ target[p] = c
  /\ pc'[p] \in {"report", "returned"}
  /\ chal[c] = NoRow
  /\ chal'[c] = write[p]
  /\ counted'[c] = counted[c] /\ completed'[c] = completed[c]

CountedBy(p, c) ==
  /\ pc[p] = "c_record" /\ target[p] = c
  /\ pc'[p] = "returned"
  /\ owner[c] = NoOp /\ owner' = owner
  /\ chal[c].status = "pending" /\ chal[c].attempts < MaxAttempts
  /\ chal'[c] = Failed(chal[c], chal[c])
  /\ counted'[c] = counted[c] \cup {p} /\ completed'[c] = completed[c]

Lapsed(c) ==
  /\ owner[c] = NoOp /\ owner' = owner
  /\ chal[c].status = "pending"
  /\ chal'[c] = Expired(chal[c])
  /\ counted'[c] = counted[c] /\ completed'[c] = completed[c]

ConsumedBy(p, c) ==
  /\ pc[p] = "commit" /\ target[p] = c
  /\ pc'[p] \in {"report", "returned"}
  /\ owner[c] = p /\ owner'[c] = NoOp
  /\ chal[c].status = "pending"
  /\ chal'[c] = Consumed(chal[c])
  /\ counted'[c] = counted[c] /\ completed'[c] = completed[c] \cup {p}

RowStep(c) ==
  \/ Lapsed(c)
  \/ \E p \in Ops : CreatedBy(p, c) \/ CountedBy(p, c) \/ ConsumedBy(p, c)

StoreStep ==
  \/ \A c \in Challenges : Untouched(c)
  \/ \E c \in Challenges : RowStep(c) /\ \A d \in Challenges \ {c} : Untouched(d)

\* A commit creates or consumes exactly the row its call works on.
LEMMA InstallStep ==
  ASSUME TypeOK, Targets, Starting, Owning, Consumer, LockedRowUnchanged,
         NEW p \in Ops, pc[p] = "commit", Install(p), pc'[p] \in {"report", "returned"}
  PROVE  StoreStep
  <1> DEFINE c == target[p]
  <1>1. c \in Challenges
    BY DEF Targets
  <1>2. \A d \in Challenges \ {c} : Untouched(d)
    BY <1>1 DEF Install, Untouched, TypeOK
  <1>3. CASE write[p].status = "pending"
    <2>1. chal[c] = NoRow
      BY <1>3 DEF Starting, Beginning
    <2>2. CreatedBy(p, c)
      BY <1>1, <1>3, <2>1 DEF CreatedBy, Install, TypeOK
    <2> QED BY <1>1, <1>2, <2>2 DEF StoreStep, RowStep
  <1>4. CASE write[p].status # "pending"
    <2>1. Consuming(p)
      BY <1>4 DEF Consuming
    <2>2. owner[c] = p /\ chal[c] = seen[p] /\ write[p] = Consumed(chal[c])
          /\ write[p].status = "consumed" /\ chal[c].status = "pending"
      BY <1>1, <2>1, ConsumerFacts DEF Owning
    <2>3. ConsumedBy(p, c)
      BY <1>1, <2>2 DEF ConsumedBy, Install, EndTx, TypeOK
    <2> QED BY <1>1, <1>2, <2>3 DEF StoreStep, RowStep
  <1> QED BY <1>3, <1>4

\* A failed attempt is counted on, or expires, the row its call works on.
LEMMA FailureStep ==
  ASSUME TypeOK, Targets, Pinned, NEW p \in Ops, pc[p] = "c_record", owner[target[p]] = NoOp,
         Matches(chal[target[p]], seen[p]), ApplyFailure(p, target[p]),
         owner' = owner, completed' = completed, pc'[p] = "returned"
  PROVE  StoreStep
  <1> DEFINE c == target[p]
  <1>1. /\ c \in Challenges /\ chal[c] = seen[p]
        /\ chal[c].status = "pending" /\ chal[c].attempts < MaxAttempts
    BY MatchedFacts
  <1>2. \A d \in Challenges \ {c} : Untouched(d)
    BY <1>1 DEF ApplyFailure, Untouched, TypeOK
  <1>3. CASE at[p] >= seen[p].expiresAt
    BY <1>1, <1>2, <1>3 DEF ApplyFailure, TypeOK, Lapsed, StoreStep, RowStep
  <1>4. CASE ~(at[p] >= seen[p].expiresAt)
    <2>1. CountedBy(p, c)
      BY <1>1, <1>4 DEF ApplyFailure, TypeOK, CountedBy
    <2> QED BY <1>1, <1>2, <2>1 DEF StoreStep, RowStep
  <1> QED BY <1>3, <1>4

\* No step does anything else to a row than what StoreStep allows.
LEMMA StoreSteps ==
  ASSUME TypeOK, Targets, Starting, Pinned, Owning, Consumer, LockedRowUnchanged, Next
  PROVE  StoreStep
  <1>1. ASSUME UNCHANGED <<chal, counted, completed>> PROVE StoreStep
    BY <1>1 DEF StoreStep, Untouched
  <1>2. ASSUME NEW p \in Ops, NEW c \in Challenges, BeginCall(p, c) \/ CompleteCall(p, c)
        PROVE  StoreStep
    BY <1>1, <1>2 DEF BeginCall, CompleteCall, store
  <1>3. ASSUME NEW p \in Ops, BeginStep(p) PROVE StoreStep
    BY <1>1, <1>3 DEF BeginStep, BeginRejected, BeginRun, BeginInsert, BeginEffects, BeginClose,
                      Close, store
  <1>4. ASSUME NEW p \in Ops, RecordUpdate(p) \/ RecordStoreFailure(p) PROVE StoreStep
    <2>1. pc'[p] = "returned" /\ owner' = owner /\ completed' = completed
      BY <1>4 DEF RecordUpdate, RecordStoreFailure, Return, Goto, TypeOK
    <2> QED BY <1>1, <1>4, <2>1, FailureStep DEF RecordUpdate, RecordStoreFailure
  <1>5. ASSUME NEW p \in Ops, CompleteStep(p), ~RecordUpdate(p) PROVE StoreStep
    BY <1>1, <1>5 DEF CompleteStep, CompleteRejected, CompleteRun, RecordSelect, CompleteTx,
                      ConsumeSelect, ConsumeUpdate, PersistCompletion, CompleteClose, Close, store
  <1>6. ASSUME NEW p \in Ops, Commit(p) \/ CommitFails(p) PROVE StoreStep
    <2>1. pc[p] = "commit" /\ pc'[p] \in {"report", "returned"}
      BY <1>6 DEF Commit, CommitFails, Return, Goto, TypeOK
    <2> QED BY <1>1, <1>6, <2>1, InstallStep DEF Commit, CommitFails
  <1>7. ASSUME NEW p \in Ops, Rollback(p) \/ Succeed(p) \/ Crash(p) PROVE StoreStep
    BY <1>1, <1>7 DEF Rollback, Succeed, Crash, store
  <1>8. ASSUME NEW c \in Challenges, CleanupExpired(c) PROVE StoreStep
    <2>1. Lapsed(c) /\ \A d \in Challenges \ {c} : Untouched(d)
      BY <1>8 DEF CleanupExpired, Lapsed, Untouched, TypeOK
    <2> QED BY <2>1 DEF StoreStep, RowStep
  <1>9. CASE Tick
    BY <1>1, <1>9 DEF Tick, store
  <1> QED
    BY <1>2, <1>3, <1>4, <1>5, <1>6, <1>7, <1>8, <1>9 DEF Next, Step, EndStep

\* Every change of an existing row raises its version.
LEMMA RowMoves ==
  ASSUME TypeOK, StoreStep, NEW c \in Challenges
  PROVE  \/ chal'[c] = chal[c]
         \/ \E p \in Ops : CreatedBy(p, c)
         \/ /\ chal[c].status = "pending"
            /\ chal'[c].status \in {"pending", "failed", "expired", "consumed"}
            /\ chal'[c].version = chal[c].version + 1
            /\ \/ owner[c] = NoOp /\ owner' = owner
               \/ owner'[c] = NoOp
  <1>1. chal[c] \in Row
    BY DEF TypeOK
  <1>2. Untouched(c) \/ RowStep(c)
    BY DEF StoreStep
  <1> QED
    BY <1>1, <1>2, RowFields DEF Untouched, RowStep, Lapsed, CountedBy, ConsumedBy

\* recordFailedAttempt goes on to its update only for a usable row.
LEMMA UpdateDecision ==
  ASSUME NEW row \in Row, NEW expected \in Row, row.status # "none",
         RecordDecision(row, expected) = "update"
  PROVE  row.status = "pending" /\ row.attempts < MaxAttempts
  <1>1. /\ row.status \notin {"consumed", "failed", "expired"}
        /\ ~(row.attempts >= MaxAttempts)
    BY DEF RecordDecision
  <1>2. row.status \in Status /\ row.attempts \in 0..MaxAttempts
    BY DEF Row
  <1>3. row.attempts < MaxAttempts
    BY <1>1, <1>2
  <1> QED BY <1>1, <1>2, <1>3 DEF Status

\* A call enters complete() with the row it reads, and keeps or re-reads it.
LEMMA Snapshots ==
  ASSUME TypeOK, Targets, Pinned, Next, NEW p \in Ops, pc'[p] \in CompletePhase
  PROVE  /\ target'[p] \in Challenges
         /\ \/ /\ pc[p] \in CompletePhase
               /\ target'[p] = target[p] /\ seen'[p] = seen[p]
            \/ /\ chal' = chal
               /\ seen'[p] = chal[target'[p]]
               /\ seen'[p].status = "pending" /\ seen'[p].attempts < MaxAttempts
  <1> DEFINE Kept == /\ pc[p] \in CompletePhase
                     /\ target'[p] = target[p] /\ seen'[p] = seen[p]
             Taken == /\ chal' = chal
                      /\ seen'[p] = chal[target'[p]] /\ target'[p] \in Challenges
                      /\ seen'[p].status = "pending" /\ seen'[p].attempts < MaxAttempts
  <1> USE DEF CompletePhase, TypeOK, Goto, Return
  <1>1. ASSUME NEW q \in Ops, NEW c \in Challenges, BeginCall(q, c)
        PROVE  Kept
    BY <1>1 DEF BeginCall
  <1>2. ASSUME NEW q \in Ops, NEW c \in Challenges, CompleteCall(q, c), p # q
        PROVE  Kept
    BY <1>2 DEF CompleteCall
  <1>3. ASSUME NEW c \in Challenges, CompleteCall(p, c)
        PROVE  Taken
    BY <1>3 DEF CompleteCall, Usable, store
  <1>4. ASSUME NEW q \in Ops, BeginStep(q)
        PROVE  Kept
    BY <1>4 DEF BeginStep, BeginRejected, BeginRun, BeginInsert, BeginEffects, BeginClose, Close
  <1>5. ASSUME RecordSelect(p)
        PROVE  Taken
    <2> DEFINE row == chal[target[p]]
    <2>1. target[p] \in Challenges /\ row \in Row /\ seen[p] \in Row
      BY <1>5 DEF RecordSelect, Targets
    <2>2. row.status # "none"
      BY <1>5 DEF RecordSelect, Pinned
    <2>3. RecordDecision(row, seen[p]) = "update"
      BY <1>5 DEF RecordSelect
    <2>4. row.status = "pending" /\ row.attempts < MaxAttempts
      BY <2>1, <2>2, <2>3, UpdateDecision
    <2> QED BY <1>5, <2>1, <2>3, <2>4 DEF RecordSelect, store
  <1>6. ASSUME NEW q \in Ops, RecordSelect(q), p # q
        PROVE  Kept
    BY <1>6 DEF RecordSelect
  <1>7. ASSUME NEW q \in Ops, CompleteStep(q) \/ RecordStoreFailure(q), ~RecordSelect(q)
        PROVE  Kept
    BY <1>7 DEF CompleteStep, CompleteRejected, CompleteRun, RecordUpdate, RecordStoreFailure,
                CompleteTx, ConsumeSelect, ConsumeUpdate, PersistCompletion, CompleteClose, Close
  <1>8. ASSUME NEW q \in Ops, EndStep(q) \/ Crash(q)
        PROVE  Kept
    BY <1>8 DEF EndStep, Rollback, Commit, CommitFails, Succeed, Crash
  <1>9. ASSUME Tick \/ \E c \in Challenges : CleanupExpired(c)
        PROVE  Kept
    BY <1>9 DEF Tick, CleanupExpired
  <1>10. Kept => target[p] \in Challenges
    BY DEF Targets
  <1>11. Kept \/ Taken
    <2> HIDE DEF Kept, Taken
    <2> QED BY <1>1, <1>2, <1>3, <1>4, <1>5, <1>6, <1>7, <1>8, <1>9 DEF Next, Step
  <1> QED BY <1>10, <1>11

\* Every step keeps Pinned.
LEMMA PinnedStep ==
  TypeOK /\ Targets /\ Starting /\ Pinned /\ Next /\ StoreStep => Pinned'
  <1> SUFFICES ASSUME TypeOK, Targets, Pinned, Next, StoreStep,
                      NEW p \in Ops, pc'[p] \in CompletePhase
               PROVE  /\ seen'[p].status = "pending"
                      /\ seen'[p].attempts < MaxAttempts
                      /\ chal'[target'[p]].status # "none"
                      /\ seen'[p].version <= chal'[target'[p]].version
                      /\ seen'[p].version = chal'[target'[p]].version => chal'[target'[p]] = seen'[p]
    BY DEF Pinned
  <1>1. CASE /\ pc[p] \in CompletePhase
             /\ target'[p] = target[p] /\ seen'[p] = seen[p]
    <2> DEFINE c == target[p]
    <2>1. c \in Challenges /\ seen[p].version \in Nat /\ chal[c].version \in Nat
      BY <1>1, Snapshots DEF TypeOK, Row
    <2>2. /\ seen[p].status = "pending" /\ seen[p].attempts < MaxAttempts
          /\ chal[c].status # "none" /\ seen[p].version <= chal[c].version
          /\ seen[p].version = chal[c].version => chal[c] = seen[p]
      BY <1>1 DEF Pinned
    <2>3. ~ \E q \in Ops : CreatedBy(q, c)
      BY <2>2 DEF CreatedBy, NoRow
    <2> QED BY <1>1, <2>1, <2>2, <2>3, RowMoves
  <1>2. CASE /\ chal' = chal
             /\ seen'[p] = chal[target'[p]]
             /\ seen'[p].status = "pending" /\ seen'[p].attempts < MaxAttempts
    <2> chal[target'[p]].version \in Nat
      BY Snapshots DEF TypeOK, Row
    <2> QED BY <1>2
  <1> QED BY <1>1, <1>2, Snapshots

\* A call enters begin() with a challenge that does not exist and that no other
\* call works on, and keeps it.
LEMMA Starts ==
  ASSUME TypeOK, Targets, Inserting, Consumer, LockedRowUnchanged, Next,
         NEW p \in Ops, Beginning(p)'
  PROVE  \/ Beginning(p) /\ target'[p] = target[p]
         \/ /\ chal' = chal /\ chal[target'[p]] = NoRow
            /\ \A q \in Ops \ {p} : pc'[q] = pc[q] /\ target'[q] = target[q] /\ write'[q] = write[q]
            /\ \A q \in Ops : target[q] = target'[p] => pc[q] \notin Active
  <1> USE DEF BeginPhase, TypeOK, Goto, Return, Beginning
  <1>1. ASSUME NEW q \in Ops, NEW c \in Challenges, BeginCall(q, c), p # q
        PROVE  Beginning(p) /\ target'[p] = target[p]
    BY <1>1 DEF BeginCall, txn
  <1>2. ASSUME NEW c \in Challenges, BeginCall(p, c)
        PROVE  /\ chal' = chal /\ chal[target'[p]] = NoRow
               /\ \A q \in Ops \ {p} : pc'[q] = pc[q] /\ target'[q] = target[q] /\ write'[q] = write[q]
               /\ \A q \in Ops : target[q] = target'[p] => pc[q] \notin Active
    BY <1>2 DEF BeginCall, txn, store
  <1>3. ASSUME NEW q \in Ops, NEW c \in Challenges, CompleteCall(q, c)
        PROVE  Beginning(p) /\ target'[p] = target[p]
    BY <1>3 DEF CompleteCall, txn
  <1>4. ASSUME NEW q \in Ops, BeginStep(q)
        PROVE  Beginning(p) /\ target'[p] = target[p]
    BY <1>4 DEF BeginStep, BeginRejected, BeginRun, BeginInsert, BeginEffects, BeginClose, Close, txn
  <1>5. ASSUME NEW q \in Ops, CompleteClose(q)
        PROVE  Beginning(p) /\ target'[p] = target[p]
    <2>1. write[q].status = "consumed"
      BY <1>5, ConsumerFacts DEF CompleteClose, Close, Consuming
    <2> QED BY <1>5, <2>1 DEF CompleteClose, Close, txn
  <1>6. ASSUME NEW q \in Ops, CompleteStep(q) \/ RecordStoreFailure(q), ~CompleteClose(q)
        PROVE  Beginning(p) /\ target'[p] = target[p]
    BY <1>6 DEF CompleteStep, CompleteRejected, CompleteRun, RecordSelect, RecordUpdate,
                RecordStoreFailure, CompleteTx, ConsumeSelect, ConsumeUpdate, PersistCompletion, txn
  <1>7. ASSUME NEW q \in Ops, EndStep(q) \/ Crash(q)
        PROVE  Beginning(p) /\ target'[p] = target[p]
    BY <1>7 DEF EndStep, Rollback, Commit, CommitFails, Install, Succeed, Crash, EndTx, txn
  <1>8. ASSUME Tick \/ \E c \in Challenges : CleanupExpired(c)
        PROVE  Beginning(p) /\ target'[p] = target[p]
    BY <1>8 DEF Tick, CleanupExpired, txn
  <1> QED BY <1>1, <1>2, <1>3, <1>4, <1>5, <1>6, <1>7, <1>8 DEF Next, Step

\* Every step keeps Starting.
LEMMA StartingStep ==
  /\ TypeOK /\ Targets /\ Starting /\ Inserting /\ Consumer /\ LockedRowUnchanged
  /\ Next /\ StoreStep
  => Starting'
  <1> SUFFICES ASSUME TypeOK, Targets, Starting, Inserting, Consumer, LockedRowUnchanged,
                      Next, StoreStep, NEW p \in Ops, Beginning(p)'
               PROVE  /\ chal'[target'[p]] = NoRow
                      /\ \A q \in Ops : Beginning(q)' /\ target'[q] = target'[p] => q = p
    BY DEF Starting
  <1>1. CASE Beginning(p) /\ target'[p] = target[p]
    <2> DEFINE c == target[p]
    <2>1. c \in Challenges
      BY <1>1 DEF Beginning, BeginPhase, Targets
    <2>2. chal[c] = NoRow /\ \A q \in Ops : Beginning(q) /\ target[q] = c => q = p
      BY <1>1 DEF Starting
    <2>3. ASSUME NEW q \in Ops, CreatedBy(q, c) PROVE FALSE
      BY <2>2, <2>3, <1>1 DEF CreatedBy, Beginning, BeginPhase
    <2>4. chal'[c] = NoRow
      BY <2>1, <2>2, <2>3, RowMoves DEF NoRow
    <2>5. ASSUME NEW q \in Ops, Beginning(q)', target'[q] = c PROVE q = p
      BY <1>1, <2>1, <2>2, <2>5, Starts DEF Beginning, Active
    <2> QED BY <1>1, <2>4, <2>5
  <1>2. CASE /\ chal' = chal /\ chal[target'[p]] = NoRow
             /\ \A q \in Ops \ {p} : pc'[q] = pc[q] /\ target'[q] = target[q] /\ write'[q] = write[q]
             /\ \A q \in Ops : target[q] = target'[p] => pc[q] \notin Active
    BY <1>2 DEF Beginning, Active
  <1> QED BY <1>1, <1>2, Starts

\* A lock is kept by a call that does not move, or taken on the row it selected.
LEMMA Owners ==
  ASSUME TypeOK, Targets, Pinned, Owning, Next,
         NEW p \in Ops, NEW c \in Challenges, owner'[c] = p
  PROVE  \/ /\ owner[c] = p
            /\ target'[p] = target[p] /\ seen'[p] = seen[p] /\ write'[p] = write[p]
            /\ pc'[p] \in {"c_persist", "c_close", "commit", "rollback"}
         \/ /\ chal' = chal /\ chal[c] = seen[p]
            /\ target'[p] = c /\ pc'[p] = "c_persist"
            /\ seen'[p] = seen[p] /\ seen[p].status = "pending"
            /\ write'[p] = Consumed(seen[p])
  <1> DEFINE Kept == /\ owner[c] = p
                     /\ target'[p] = target[p] /\ seen'[p] = seen[p] /\ write'[p] = write[p]
                     /\ pc'[p] \in {"c_persist", "c_close", "commit", "rollback"}
             Taken == /\ chal' = chal /\ chal[c] = seen[p]
                      /\ target'[p] = c /\ pc'[p] = "c_persist"
                      /\ seen'[p] = seen[p] /\ seen[p].status = "pending"
                      /\ write'[p] = Consumed(seen[p])
  <1>0. owner[c] = p => target[p] = c /\ pc[p] \in {"c_persist", "c_close", "commit", "rollback"}
    BY DEF Owning
  <1> USE DEF TypeOK, Goto, Return
  <1>1. ASSUME NEW q \in Ops, NEW d \in Challenges, BeginCall(q, d) \/ CompleteCall(q, d)
        PROVE  Kept
    BY <1>0, <1>1 DEF BeginCall, CompleteCall, store, txn
  <1>2. ASSUME NEW q \in Ops, BeginStep(q) PROVE Kept
    BY <1>0, <1>2 DEF BeginStep, BeginRejected, BeginRun, BeginInsert, BeginEffects, BeginClose,
                      Close, store, txn
  <1>3. ASSUME ConsumeUpdate(p), ~Kept PROVE Taken
    <2>1. Matches(chal[target[p]], seen[p]) /\ target[p] = c
      BY <1>0, <1>3, MatchedFacts DEF ConsumeUpdate, Targets
    <2>2. chal[c] = seen[p] /\ seen[p].status = "pending"
      BY <1>3, <2>1, MatchedFacts DEF ConsumeUpdate
    <2> QED BY <1>3, <2>1, <2>2 DEF ConsumeUpdate
  <1>4. ASSUME NEW q \in Ops, ConsumeUpdate(q), p # q PROVE Kept
    <2>1. target[q] \in Challenges
      BY <1>4 DEF ConsumeUpdate, Targets
    <2> QED BY <1>0, <1>4, <2>1 DEF ConsumeUpdate
  <1>5. ASSUME NEW q \in Ops, CompleteStep(q) \/ RecordStoreFailure(q), ~ConsumeUpdate(q)
        PROVE  Kept
    BY <1>0, <1>5 DEF CompleteStep, CompleteRejected, CompleteRun, RecordSelect, RecordUpdate,
                      RecordStoreFailure, CompleteTx, ConsumeSelect, PersistCompletion,
                      CompleteClose, Close, store, txn
  <1>6. ASSUME NEW q \in Ops, EndStep(q) \/ Crash(q) PROVE Kept
    BY <1>0, <1>6 DEF EndStep, Rollback, Commit, CommitFails, Install, Succeed, Crash, EndTx,
                      store, txn
  <1>7. ASSUME Tick \/ \E d \in Challenges : CleanupExpired(d) PROVE Kept
    BY <1>0, <1>7 DEF Tick, CleanupExpired, store, txn
  <1>8. Kept \/ Taken
    <2> HIDE DEF Kept, Taken
    <2> QED BY <1>1, <1>2, <1>3, <1>4, <1>5, <1>6, <1>7 DEF Next, Step
  <1> QED BY <1>8

\* Every step keeps Owning and LockedRowUnchanged.
LEMMA OwningStep ==
  /\ TypeOK /\ Targets /\ Pinned /\ Owning /\ LockedRowUnchanged /\ Next /\ StoreStep
  => Owning' /\ LockedRowUnchanged'
  <1> SUFFICES ASSUME TypeOK, Targets, Pinned, Owning, LockedRowUnchanged, Next, StoreStep,
                      NEW p \in Ops, NEW c \in Challenges, owner'[c] = p
               PROVE  /\ target'[p] = c
                      /\ pc'[p] \in {"c_persist", "c_close", "commit", "rollback"}
                      /\ seen'[p].status = "pending"
                      /\ chal'[c] = seen'[p] /\ write'[p] = Consumed(seen'[p])
    BY DEF Owning, LockedRowUnchanged
  <1>1. ASSUME owner[c] = p
        PROVE  /\ chal'[c] = chal[c] /\ chal[c] = seen[p] /\ write[p] = Consumed(seen[p])
               /\ target[p] = c /\ seen[p].status = "pending"
    <2>1. /\ target[p] = c /\ seen[p].status = "pending"
          /\ chal[c] = seen[p] /\ write[p] = Consumed(seen[p])
      BY <1>1 DEF Owning, LockedRowUnchanged
    <2>2. ~ \E q \in Ops : CreatedBy(q, c)
      BY <2>1 DEF CreatedBy, NoRow
    <2> QED BY <1>1, <2>1, <2>2, RowMoves
  <1> QED BY <1>1, Owners

\* Every step keeps Consumer.
LEMMA ConsumerStep ==
  TypeOK /\ Targets /\ Inserting /\ Consumer /\ Next => Consumer'
  <1> SUFFICES ASSUME TypeOK, Targets, Inserting, Consumer, Next,
                      NEW p \in Ops, Consuming(p)'
               PROVE  owner'[target'[p]] = p
    BY DEF Consumer
  <1>0. Consuming(p) => target[p] \in Challenges /\ owner[target[p]] = p
    BY DEF Consumer, Consuming, Targets
  <1> USE DEF TypeOK, Goto, Return, Consuming
  <1>1. ASSUME NEW q \in Ops, NEW d \in Challenges, BeginCall(q, d) \/ CompleteCall(q, d)
        PROVE  owner'[target'[p]] = p
    BY <1>0, <1>1 DEF BeginCall, CompleteCall, store, txn
  <1>2. ASSUME NEW q \in Ops, BeginStep(q), ~BeginClose(q) PROVE owner'[target'[p]] = p
    BY <1>0, <1>2 DEF BeginStep, BeginRejected, BeginRun, BeginInsert, BeginEffects, store, txn
  <1>3. ASSUME NEW q \in Ops, BeginClose(q) PROVE owner'[target'[p]] = p
    <2>1. write[q].status = "pending"
      BY <1>3 DEF BeginClose, Close, Inserting
    <2> QED BY <1>0, <1>3, <2>1 DEF BeginClose, Close, store, txn
  <1>4. ASSUME NEW q \in Ops, ConsumeUpdate(q) PROVE owner'[target'[p]] = p
    <2>1. target[q] \in Challenges
      BY <1>4 DEF ConsumeUpdate, Targets
    <2> QED BY <1>0, <1>4, <2>1 DEF ConsumeUpdate
  <1>5. ASSUME NEW q \in Ops, CompleteStep(q) \/ RecordStoreFailure(q), ~ConsumeUpdate(q)
        PROVE  owner'[target'[p]] = p
    BY <1>0, <1>5 DEF CompleteStep, CompleteRejected, CompleteRun, RecordSelect, RecordUpdate,
                      RecordStoreFailure, CompleteTx, ConsumeSelect, PersistCompletion,
                      CompleteClose, Close, store, txn
  <1>6. ASSUME NEW q \in Ops, EndStep(q) \/ Crash(q) PROVE owner'[target'[p]] = p
    BY <1>0, <1>6 DEF EndStep, Rollback, Commit, CommitFails, Install, Succeed, Crash, EndTx,
                      store, txn
  <1>7. ASSUME Tick \/ \E d \in Challenges : CleanupExpired(d) PROVE owner'[target'[p]] = p
    BY <1>0, <1>7 DEF Tick, CleanupExpired, store, txn
  <1> QED BY <1>1, <1>2, <1>3, <1>4, <1>5, <1>6, <1>7 DEF Next, Step

\* A call that returned or crashed stays where it is, and one that is about to
\* report can only return or crash.
LEMMA Ends ==
  ASSUME TypeOK, Next, NEW p \in Ops
  PROVE  /\ pc[p] = "returned" => pc'[p] = "returned"
         /\ pc[p] \in {"report", "returned", "crashed"} => pc'[p] \in {"report", "returned", "crashed"}
  <1> USE DEF TypeOK, Goto, Return
  <1>1. ASSUME NEW q \in Ops, NEW d \in Challenges, BeginCall(q, d) \/ CompleteCall(q, d)
        PROVE  pc[p] \in {"report", "returned", "crashed"} => pc'[p] = pc[p]
    BY <1>1 DEF BeginCall, CompleteCall
  <1>2. ASSUME NEW q \in Ops, BeginStep(q)
        PROVE  pc[p] \in {"report", "returned", "crashed"} => pc'[p] = pc[p]
    BY <1>2 DEF BeginStep, BeginRejected, BeginRun, BeginInsert, BeginEffects, BeginClose, Close
  <1>3. ASSUME NEW q \in Ops, CompleteStep(q) \/ RecordStoreFailure(q)
        PROVE  pc[p] \in {"report", "returned", "crashed"} => pc'[p] = pc[p]
    BY <1>3 DEF CompleteStep, CompleteRejected, CompleteRun, RecordSelect, RecordUpdate,
                RecordStoreFailure, CompleteTx, ConsumeSelect, ConsumeUpdate, PersistCompletion,
                CompleteClose, Close
  <1>4. ASSUME NEW q \in Ops, EndStep(q) \/ Crash(q)
        PROVE  /\ pc[p] = "returned" => pc'[p] = "returned"
               /\ pc[p] \in {"report", "returned", "crashed"} => pc'[p] \in {"report", "returned", "crashed"}
    BY <1>4 DEF EndStep, Rollback, Commit, CommitFails, Succeed, Crash, Active, BeginPhase,
                CompletePhase
  <1>5. ASSUME Tick \/ \E d \in Challenges : CleanupExpired(d) PROVE pc' = pc
    BY <1>5 DEF Tick, CleanupExpired
  <1> QED BY <1>1, <1>2, <1>3, <1>4, <1>5 DEF Next, Step

\* Every step keeps Histories.
LEMMA HistoriesStep == TypeOK /\ Histories /\ Next /\ StoreStep => Histories'
  <1> SUFFICES ASSUME TypeOK, Histories, Next, StoreStep, NEW p \in Ops, NEW c \in Challenges
               PROVE  /\ p \in counted'[c] => pc'[p] = "returned"
                      /\ p \in completed'[c] => pc'[p] \in {"report", "returned", "crashed"}
    BY DEF Histories
  <1>1. CASE p \in counted[c] /\ p \in counted'[c]
    BY <1>1, Ends DEF Histories
  <1>2. p \in counted'[c] /\ p \notin counted[c] => pc'[p] = "returned"
    BY DEF StoreStep, RowStep, Untouched, Lapsed, CreatedBy, CountedBy, ConsumedBy
  <1>3. p \in completed[c] => pc'[p] \in {"report", "returned", "crashed"}
    BY Ends DEF Histories
  <1>4. p \in completed'[c] /\ p \notin completed[c] => pc'[p] \in {"report", "returned", "crashed"}
    BY DEF StoreStep, RowStep, Untouched, Lapsed, CreatedBy, CountedBy, ConsumedBy
  <1>5. p \in counted[c] => pc'[p] = "returned"
    BY Ends DEF Histories
  <1> QED BY <1>2, <1>3, <1>4, <1>5

\* Every step keeps SingleCompletion.
LEMMA SingleStep ==
  TypeOK /\ Inserting /\ SingleCompletion /\ StoreStep => SingleCompletion'
  <1> SUFFICES ASSUME TypeOK, Inserting, SingleCompletion, StoreStep, NEW c \in Challenges
               PROVE  /\ chal'[c].status = "consumed" <=> completed'[c] # {}
                      /\ \A p, q \in completed'[c] : p = q
    BY DEF SingleCompletion
  <1>0. chal[c] \in Row
    BY DEF TypeOK
  <1>1. /\ chal[c].status = "consumed" <=> completed[c] # {}
        /\ \A p, q \in completed[c] : p = q
    BY DEF SingleCompletion
  <1>2. CASE Untouched(c)
    BY <1>1, <1>2 DEF Untouched
  <1>3. ASSUME NEW p \in Ops, CreatedBy(p, c)
        PROVE  chal'[c].status = "pending" /\ completed'[c] = {}
    BY <1>1, <1>3 DEF CreatedBy, NoRow
  <1>4. ASSUME Lapsed(c) \/ \E p \in Ops : CountedBy(p, c)
        PROVE  chal'[c].status # "consumed" /\ completed'[c] = {}
    BY <1>0, <1>1, <1>4, RowFields DEF Lapsed, CountedBy
  <1>5. ASSUME NEW p \in Ops, ConsumedBy(p, c)
        PROVE  chal'[c].status = "consumed" /\ completed'[c] = {p}
    BY <1>0, <1>1, <1>5, RowFields DEF ConsumedBy
  <1> QED BY <1>2, <1>3, <1>4, <1>5 DEF StoreStep, RowStep

\* Every step keeps AttemptsAccounted.
LEMMA AccountingStep ==
  TypeOK /\ Inserting /\ Histories /\ SingleCompletion /\ AttemptsAccounted /\ StoreStep
  => AttemptsAccounted'
  <1> SUFFICES ASSUME TypeOK, Inserting, Histories, SingleCompletion, AttemptsAccounted,
                      StoreStep, NEW c \in Challenges
               PROVE  /\ chal'[c].attempts = Cardinality(counted'[c])
                      /\ chal'[c].status = "failed" <=> Cardinality(counted'[c]) = MaxAttempts
                      /\ counted'[c] \cap completed'[c] = {}
    BY DEF AttemptsAccounted
  <1>1. chal[c] \in Row /\ chal[c].attempts \in 0..MaxAttempts
    BY DEF TypeOK, Row
  <1>2. /\ chal[c].attempts = Cardinality(counted[c])
        /\ chal[c].status = "failed" <=> Cardinality(counted[c]) = MaxAttempts
        /\ counted[c] \cap completed[c] = {}
    BY DEF AttemptsAccounted
  <1>3. IsFiniteSet(counted[c])
    BY OpsAssumption, FS_Subset DEF TypeOK
  <1>4. chal[c].status = "pending" => completed[c] = {}
    BY DEF SingleCompletion
  <1>5. CASE Untouched(c)
    BY <1>2, <1>5 DEF Untouched
  <1>6. CASE \E p \in Ops : CreatedBy(p, c)
    BY <1>2, <1>6 DEF CreatedBy, NoRow, Inserting
  <1>7. CASE Lapsed(c)
    BY <1>1, <1>2, <1>7, RowFields DEF Lapsed
  <1>8. ASSUME NEW p \in Ops, CountedBy(p, c)
        PROVE  /\ chal'[c].attempts = Cardinality(counted'[c])
               /\ chal'[c].status = "failed" <=> Cardinality(counted'[c]) = MaxAttempts
               /\ counted'[c] \cap completed'[c] = {}
    <2>1. p \notin counted[c]
      BY <1>8 DEF CountedBy, Histories
    <2>2. Cardinality(counted'[c]) = chal[c].attempts + 1
      <3>1. Cardinality(counted[c] \cup {p}) = Cardinality(counted[c]) + 1
        BY <1>3, <2>1, FS_AddElement
      <3> QED BY <1>2, <1>8, <3>1 DEF CountedBy
    <2>3. /\ chal'[c].attempts = chal[c].attempts + 1
          /\ chal'[c].status = "failed" <=> chal[c].attempts + 1 >= MaxAttempts
      BY <1>1, <1>8, RowFields DEF CountedBy
    <2>4. chal[c].attempts + 1 >= MaxAttempts <=> chal[c].attempts + 1 = MaxAttempts
      BY <1>1, <1>8 DEF CountedBy
    <2> QED BY <1>4, <1>8, <2>2, <2>3, <2>4 DEF CountedBy
  <1>9. ASSUME NEW p \in Ops, ConsumedBy(p, c)
        PROVE  /\ chal'[c].attempts = Cardinality(counted'[c])
               /\ chal'[c].status = "failed" <=> Cardinality(counted'[c]) = MaxAttempts
               /\ counted'[c] \cap completed'[c] = {}
    <2>1. p \notin counted[c]
      BY <1>9 DEF ConsumedBy, Histories
    <2> QED BY <1>1, <1>2, <1>4, <1>9, <2>1, RowFields DEF ConsumedBy
  <1> QED BY <1>5, <1>6, <1>7, <1>8, <1>9 DEF StoreStep, RowStep

\* The initial states satisfy the inductive invariant.
LEMMA Initially == Init => IInv
  <1> SUFFICES ASSUME Init PROVE IInv
    OBVIOUS
  <1>1. TypeOK
    BY NoRowType DEF Init, TypeOK, Phase, Results
  <1>2. Targets /\ Starting /\ Inserting /\ Pinned /\ Consumer /\ Histories
    BY DEF Init, Targets, Starting, Inserting, Pinned, Consumer, Histories, Beginning,
           Consuming, BeginPhase, CompletePhase
  <1>3. Owning /\ LockedRowUnchanged
    BY DEF Init, Owning, LockedRowUnchanged
  <1>4. SingleCompletion
    BY DEF Init, SingleCompletion, NoRow
  <1>5. AttemptsAccounted
    BY FS_EmptySet DEF Init, AttemptsAccounted, NoRow
  <1> QED BY <1>1, <1>2, <1>3, <1>4, <1>5 DEF IInv, Structure, Locking

\* Every step keeps the inductive invariant.
LEMMA Inductive == IInv /\ [Next]_vars => IInv'
  <1> USE DEF IInv, Structure, Locking
  <1>1. CASE IInv /\ Next
    <2>1. StoreStep
      BY <1>1, StoreSteps
    <2>2. TypeOK' /\ Targets' /\ Inserting'
      BY <1>1, TypeStep, TargetsStep, InsertingStep
    <2>3. Starting' /\ Pinned'
      BY <1>1, <2>1, StartingStep, PinnedStep
    <2>4. Owning' /\ LockedRowUnchanged' /\ Consumer'
      BY <1>1, <2>1, OwningStep, ConsumerStep
    <2>5. Histories' /\ SingleCompletion' /\ AttemptsAccounted'
      BY <1>1, <2>1, HistoriesStep, SingleStep, AccountingStep
    <2> QED BY <2>2, <2>3, <2>4, <2>5
  <1>2. CASE IInv /\ UNCHANGED vars
    BY <1>2 DEF TypeOK, Targets, Starting, Inserting, Pinned, Owning, Consumer,
                LockedRowUnchanged, Histories, SingleCompletion, AttemptsAccounted, Beginning,
                Consuming, vars, store, txn
  <1> QED BY <1>1, <1>2

\* The inductive invariant holds in every behaviour of begin(), complete() and the
\* challenge store.
THEOREM Invariance == Spec => []IInv
  BY Initially, Inductive, PTL DEF Spec

\* Every variable keeps its type.
THEOREM TypeCorrect == Spec => []TypeOK
  BY Invariance, PTL DEF IInv, Structure

\* At most one of any number of racing complete() calls commits on a challenge.
THEOREM OneCompletion == Spec => []SingleCompletion
  BY Invariance, PTL DEF IInv

\* No counted failure is lost or counted twice, whatever races.
THEOREM AttemptsCounted == Spec => []AttemptsAccounted
  BY Invariance, PTL DEF IInv

\* The row a completion has locked is the one its method ran on.
THEOREM LocksProtect == Spec => []LockedRowUnchanged
  BY Invariance, PTL DEF IInv, Locking

-----------------------------------------------------------------------------
(* The refinement                                                          *)

\* The abstract module has the library's cardinality under a name of its own.
LEMMA SameCardinality == ASSUME NEW S PROVE Cardinality(S) = Lifecycle!Cardinality(S)
  BY Zenon DEF Cardinality, Lifecycle!Cardinality

\* No challenge exists initially.
LEMMA RefinementInit == Init => Lifecycle!Init
  BY DEF Init, Lifecycle!Init, NoRow

\* A step that treats the rows as StoreStep says is a step of the lifecycle, or
\* leaves it alone.
LEMMA RefinementStep ==
  ASSUME IInv, IInv', StoreStep
  PROVE  [Lifecycle!Next]_(Lifecycle!vars)
  <1> DEFINE status == [c \in Challenges |-> chal[c].status]
  <1> USE DEF IInv, Structure
  <1>1. \A c \in Challenges : chal[c] \in Row /\ chal'[c].status = status'[c]
    BY DEF TypeOK
  <1>2. ASSUME \A c \in Challenges : Untouched(c) PROVE UNCHANGED Lifecycle!vars
    <2>1. counted' = counted /\ completed' = completed
      BY <1>2 DEF TypeOK, Untouched
    <2>2. status' = status
      BY <1>2 DEF Untouched
    <2> QED BY <2>1, <2>2 DEF Lifecycle!vars
  <1>3. ASSUME NEW c \in Challenges, RowStep(c), \A d \in Challenges \ {c} : Untouched(d)
        PROVE  Lifecycle!Next
    <2>1. /\ status' = [status EXCEPT ![c] = chal'[c].status]
          /\ counted' = [counted EXCEPT ![c] = counted'[c]]
          /\ completed' = [completed EXCEPT ![c] = completed'[c]]
      <3>1. /\ DOMAIN counted = Challenges /\ DOMAIN counted' = Challenges
            /\ DOMAIN completed = Challenges /\ DOMAIN completed' = Challenges
            /\ counted = [d \in Challenges |-> counted[d]]
            /\ counted' = [d \in Challenges |-> counted'[d]]
            /\ completed = [d \in Challenges |-> completed[d]]
            /\ completed' = [d \in Challenges |-> completed'[d]]
        BY DEF TypeOK
      <3>2. \A d \in Challenges \ {c} :
               /\ chal'[d].status = chal[d].status
               /\ counted'[d] = counted[d] /\ completed'[d] = completed[d]
        BY <1>3 DEF Untouched
      <3>3. status' = [status EXCEPT ![c] = chal'[c].status]
        BY <3>2
      <3>4. counted' = [counted EXCEPT ![c] = counted'[c]]
        BY <3>1, <3>2
      <3>5. completed' = [completed EXCEPT ![c] = completed'[c]]
        BY <3>1, <3>2
      <3> QED BY <3>3, <3>4, <3>5
    <2>2. /\ counted'[c] = counted[c] => counted' = counted
          /\ completed'[c] = completed[c] => completed' = completed
      <3>1. counted'[c] = counted[c] => counted' = counted
        BY <2>1 DEF TypeOK
      <3>2. completed'[c] = completed[c] => completed' = completed
        BY <2>1 DEF TypeOK
      <3> QED BY <3>1, <3>2
    <2>3. CASE Lapsed(c)
      <3>1. Lifecycle!Expire(c)
        <4>1. chal[c].status = "pending" /\ counted'[c] = counted[c] /\ completed'[c] = completed[c]
          BY <2>3 DEF Lapsed
        <4>2. chal'[c].status = "expired"
          BY <1>1, <2>3, RowFields DEF Lapsed
        <4>3. status[c] = "pending" /\ UNCHANGED <<counted, completed>>
          BY <2>2, <4>1
        <4>4. status' = [status EXCEPT ![c] = "expired"]
          BY <2>1, <4>2
        <4> QED BY <4>3, <4>4 DEF Lifecycle!Expire
      <3> QED BY <3>1 DEF Lifecycle!Next
    <2>4. ASSUME NEW p \in Ops, CreatedBy(p, c) PROVE Lifecycle!Create(c)
      <3>1. status[c] = "none" /\ chal'[c].status = "pending"
        BY <2>4 DEF CreatedBy, NoRow
      <3>2. status' = [status EXCEPT ![c] = "pending"]
        BY <2>1, <3>1
      <3>3. UNCHANGED <<counted, completed>>
        BY <2>2, <2>4 DEF CreatedBy
      <3> QED BY <3>1, <3>2, <3>3 DEF Lifecycle!Create
    <2>5. ASSUME NEW p \in Ops, CountedBy(p, c) PROVE Lifecycle!FailAttempt(c, p)
      <3>1. p \notin counted[c] /\ Cardinality(counted[c]) = chal[c].attempts
        BY <2>5 DEF CountedBy, Histories, AttemptsAccounted
      <3>2. chal'[c].status = IF chal[c].attempts + 1 = MaxAttempts THEN "failed" ELSE "pending"
        <4>1. chal'[c].status = IF chal[c].attempts + 1 >= MaxAttempts THEN "failed" ELSE "pending"
          BY <1>1, <2>5, RowFields DEF CountedBy
        <4>2. chal[c].attempts \in Nat /\ chal[c].attempts < MaxAttempts
          BY <1>1, <2>5 DEF CountedBy, Row
        <4> QED BY <4>1, <4>2
      <3>3. status[c] = "pending" /\ UNCHANGED completed
        BY <2>2, <2>5 DEF CountedBy
      <3>4. status' = [status EXCEPT ![c] =
              IF Cardinality(counted[c]) + 1 = MaxAttempts THEN "failed" ELSE "pending"]
        BY <2>1, <3>1, <3>2
      <3>5. counted' = [counted EXCEPT ![c] = @ \cup {p}]
        BY <2>1, <2>5 DEF CountedBy
      <3>6. Cardinality(counted[c]) = Lifecycle!Cardinality(counted[c])
        BY SameCardinality
      <3> QED BY <3>1, <3>3, <3>4, <3>5, <3>6 DEF Lifecycle!FailAttempt
    <2>6. ASSUME NEW p \in Ops, ConsumedBy(p, c) PROVE Lifecycle!Consume(c, p)
      <3>1. p \notin counted[c] /\ completed[c] = {}
        BY <2>6 DEF ConsumedBy, Histories, SingleCompletion
      <3>2. chal'[c].status = "consumed" /\ completed'[c] = {p}
        BY <1>1, <2>6, <3>1, RowFields DEF ConsumedBy
      <3> QED
        BY <2>1, <2>2, <2>6, <3>1, <3>2 DEF ConsumedBy, Lifecycle!Consume
    <2> QED BY <1>3, <2>3, <2>4, <2>5, <2>6 DEF RowStep, Lifecycle!Next
  <1> QED BY <1>2, <1>3 DEF StoreStep

\* Versions, row locks and transactions implement the challenge lifecycle: one
\* creation, at most MaxAttempts counted failures, terminal statuses for good.
THEOREM Refinement == Spec => ImplementsLifecycle
  <1>1. ASSUME IInv, IInv', [Next]_vars PROVE [Lifecycle!Next]_(Lifecycle!vars)
    <2>1. CASE Next
      <3>1. StoreStep
        BY <1>1, <2>1, StoreSteps DEF IInv, Structure, Locking
      <3> QED BY <1>1, <3>1, RefinementStep
    <2>2. CASE UNCHANGED vars
      <3>1. StoreStep
        BY <2>2 DEF StoreStep, Untouched, vars, store
      <3> QED BY <1>1, <3>1, RefinementStep
    <2> QED BY <1>1, <2>1, <2>2
  <1> QED BY <1>1, RefinementInit, Invariance, PTL DEF Spec, ImplementsLifecycle, Lifecycle!Spec

-----------------------------------------------------------------------------
(* The message and its challenge                                           *)

\* A call has staged its message from the enqueueing to the end of its
\* transaction, and a commit of a new challenge brings its message along.
Staging ==
  \A p \in Ops :
    /\ staged[p] => pc[p] \in {"b_close", "commit", "rollback"}
    /\ pc[p] = "b_close" => staged[p]
    /\ pc[p] = "commit" => (staged[p] <=> write[p].status = "pending")

\* Every step keeps Staging.
LEMMA StagingStep ==
  ASSUME TypeOK, Targets, Inserting, Consumer, LockedRowUnchanged, Staging, Next
  PROVE  Staging'
  <1> SUFFICES ASSUME NEW p \in Ops
      PROVE  /\ staged'[p] => pc'[p] \in {"b_close", "commit", "rollback"}
             /\ pc'[p] = "b_close" => staged'[p]
             /\ pc'[p] = "commit" => (staged'[p] <=> write'[p].status = "pending")
    BY DEF Staging
  <1>0. /\ staged[p] => pc[p] \in {"b_close", "commit", "rollback"}
        /\ pc[p] = "b_close" => staged[p]
        /\ pc[p] = "commit" => (staged[p] <=> write[p].status = "pending")
    BY DEF Staging
  <1> USE DEF TypeOK, Goto, Return
  <1>1. ASSUME NEW q \in Ops, NEW d \in Challenges, BeginCall(q, d) \/ CompleteCall(q, d)
        PROVE  Staging'
    BY <1>1 DEF Staging, BeginCall, CompleteCall, txn
  <1>2. ASSUME NEW q \in Ops, BeginStep(q), ~BeginClose(q) PROVE Staging'
    BY <1>2 DEF Staging, BeginStep, BeginRejected, BeginRun, BeginInsert, BeginEffects, txn
  <1>3. ASSUME NEW q \in Ops, BeginClose(q) PROVE Staging'
    <2>1. write[q] = seen[q] /\ seen[q].status = "pending"
      BY <1>3 DEF BeginClose, Close, Inserting
    <2> QED BY <1>3, <2>1 DEF Staging, BeginClose, Close, txn
  <1>4. ASSUME NEW q \in Ops, CompleteStep(q) \/ RecordStoreFailure(q), ~CompleteClose(q)
        PROVE  Staging'
    BY <1>4 DEF Staging, CompleteStep, CompleteRejected, CompleteRun, RecordSelect, RecordUpdate,
                RecordStoreFailure, CompleteTx, ConsumeSelect, ConsumeUpdate, PersistCompletion, txn
  <1>5. ASSUME NEW q \in Ops, CompleteClose(q) PROVE Staging'
    <2>1. write[q].status = "consumed"
      BY <1>5, ConsumerFacts DEF CompleteClose, Close, Consuming
    <2> QED BY <1>5, <2>1 DEF Staging, CompleteClose, Close, txn
  <1>6. ASSUME NEW q \in Ops, EndStep(q) \/ Crash(q) PROVE Staging'
    BY <1>6 DEF Staging, EndStep, Rollback, Commit, CommitFails, Succeed, Crash, Install, EndTx, txn
  <1>7. ASSUME Tick \/ \E d \in Challenges : CleanupExpired(d) PROVE Staging'
    BY <1>7 DEF Staging, Tick, CleanupExpired, txn
  <1> QED
    BY <1>1, <1>2, <1>3, <1>4, <1>5, <1>6, <1>7 DEF Next, Step, Staging

\* Only a commit adds a message, and only it takes a call past its commit alive.
LEMMA OtherSteps ==
  ASSUME TypeOK, Next, \A q \in Ops : ~Commit(q) /\ ~CommitFails(q)
  PROVE  /\ outbox' = outbox
         /\ \A p \in Ops : pc[p] = "commit" => pc'[p] \in {"commit", "crashed"}
  <1> USE DEF TypeOK, Goto, Return
  <1>1. ASSUME NEW q \in Ops, NEW d \in Challenges, BeginCall(q, d) \/ CompleteCall(q, d)
        PROVE  outbox' = outbox /\ \A p \in Ops : pc[p] = "commit" => pc'[p] = pc[p]
    BY <1>1 DEF BeginCall, CompleteCall, store
  <1>2. ASSUME NEW q \in Ops, BeginStep(q)
        PROVE  outbox' = outbox /\ \A p \in Ops : pc[p] = "commit" => pc'[p] = pc[p]
    BY <1>2 DEF BeginStep, BeginRejected, BeginRun, BeginInsert, BeginEffects, BeginClose, Close,
                store
  <1>3. ASSUME NEW q \in Ops, CompleteStep(q) \/ RecordStoreFailure(q)
        PROVE  outbox' = outbox /\ \A p \in Ops : pc[p] = "commit" => pc'[p] = pc[p]
    BY <1>3 DEF CompleteStep, CompleteRejected, CompleteRun, RecordSelect, RecordUpdate,
                RecordStoreFailure, CompleteTx, ConsumeSelect, ConsumeUpdate, PersistCompletion,
                CompleteClose, Close, store
  <1>4. ASSUME NEW q \in Ops, Rollback(q) \/ Succeed(q) \/ Crash(q)
        PROVE  outbox' = outbox /\ \A p \in Ops : pc[p] = "commit" => pc'[p] \in {"commit", "crashed"}
    BY <1>4 DEF Rollback, Succeed, Crash, store
  <1>5. ASSUME Tick \/ \E d \in Challenges : CleanupExpired(d)
        PROVE  outbox' = outbox /\ pc' = pc
    BY <1>5 DEF Tick, CleanupExpired, store
  <1> QED
    BY <1>1, <1>2, <1>3, <1>4, <1>5 DEF Next, Step, EndStep

\* A commit installs a challenge with its message, or changes one that has its message.
LEMMA InstallDelivers ==
  ASSUME TypeOK, Targets, Owning, Consumer, LockedRowUnchanged, Staging, DeliveryIffChallenge,
         NEW p \in Ops, pc[p] = "commit", Install(p)
  PROVE  DeliveryIffChallenge'
  <1> DEFINE c == target[p]
  <1>1. c \in Challenges
    BY DEF Targets
  <1>2. chal'[c] = write[p] /\ \A d \in Challenges \ {c} : chal'[d] = chal[d]
    BY <1>1 DEF Install, TypeOK
  <1>3. CASE write[p].status = "pending"
    <2>1. outbox' = outbox \cup {c}
      BY <1>3 DEF Staging, Install
    <2> QED BY <1>1, <1>2, <1>3, <2>1 DEF DeliveryIffChallenge
  <1>4. CASE write[p].status # "pending"
    <2>1. Consuming(p)
      BY <1>4 DEF Consuming
    <2>2. chal[c].status = "pending" /\ write[p].status = "consumed"
      BY <1>1, <2>1, ConsumerFacts DEF Owning
    <2>3. outbox' = outbox
      BY <1>4 DEF Staging, Install, TypeOK
    <2> QED BY <1>1, <1>2, <2>2, <2>3 DEF DeliveryIffChallenge
  <1> QED BY <1>3, <1>4

\* Every step keeps DeliveryIffChallenge.
LEMMA DeliveryStep ==
  ASSUME IInv, Staging, DeliveryIffChallenge, Next
  PROVE  DeliveryIffChallenge'
  <1> USE DEF IInv, Structure, Locking
  <1>1. ASSUME NEW p \in Ops, Commit(p) \/ CommitFails(p) PROVE DeliveryIffChallenge'
    <2>1. CASE Install(p)
      BY <1>1, <2>1, InstallDelivers DEF Commit, CommitFails
    <2>2. CASE UNCHANGED <<chal, outbox>>
      BY <2>2 DEF DeliveryIffChallenge
    <2> QED BY <1>1, <2>1, <2>2 DEF Commit, CommitFails
  <1>2. CASE \A q \in Ops : ~Commit(q) /\ ~CommitFails(q)
    <2>1. /\ outbox' = outbox
          /\ \A p \in Ops : pc[p] = "commit" => pc'[p] \in {"commit", "crashed"}
      BY <1>2, OtherSteps
    <2>2. StoreStep
      BY StoreSteps
    <2>3. ASSUME NEW c \in Challenges PROVE chal'[c].status = "none" <=> chal[c].status = "none"
      <3>1. ~\E p \in Ops : CreatedBy(p, c)
        BY <2>1 DEF CreatedBy
      <3> QED BY <2>2, <3>1, RowMoves
    <2> QED BY <2>1, <2>3 DEF DeliveryIffChallenge
  <1> QED BY <1>1, <1>2

\* A challenge exists exactly if the message that carries its secret does
\* (begin: one transaction for the row and the required side effects).
THEOREM Delivered == Spec => []DeliveryIffChallenge
  <1> DEFINE Inv == Staging /\ DeliveryIffChallenge
  <1>1. Init => Inv
    BY DEF Init, Staging, DeliveryIffChallenge, NoRow
  <1>2. IInv /\ Inv /\ [Next]_vars => Inv'
    <2>1. ASSUME IInv, Inv, Next PROVE Inv'
      BY <2>1, StagingStep, DeliveryStep DEF IInv, Structure, Locking
    <2>2. ASSUME Inv, UNCHANGED vars PROVE Inv'
      BY <2>2 DEF Staging, DeliveryIffChallenge, vars, store, txn
    <2> QED BY <2>1, <2>2
  <1>3. Inv => DeliveryIffChallenge
    OBVIOUS
  <1> HIDE DEF Inv
  <1> QED BY <1>1, <1>2, <1>3, Invariance, PTL DEF Spec

-----------------------------------------------------------------------------
(* Reports and answers                                                     *)

NoSuccess(list) == \A i \in DOMAIN list : list[i] # "success"

Silent == {"idle"} \cup (Active \ {"rollback"})

\* No call reports before it fails or succeeds, none answers before it returns,
\* and a success is the only report of its call.
Reporting ==
  \A p \in Ops :
    /\ pc[p] \in Silent => reports[p] = <<>>
    /\ pc[p] # "returned" => result[p] = "none"
    /\ result[p] = "success" => reports[p] = <<"success">>
    /\ result[p] # "success" => NoSuccess(reports[p])

\* A call that is about to report success has its challenge stored, and a call
\* in a history is about to answer, has crashed, or answers accordingly.
Answering ==
  \A p \in Ops :
    /\ pc[p] = "report" \/ result[p] = "success" => chal[target[p]].status # "none"
    /\ \A c \in Challenges : p \in completed[c] =>
          \/ result[p] \in {"success", "transaction-failed"}
          \/ pc[p] \in {"report", "crashed"}
    /\ \A c \in Challenges : p \in counted[c] => result[p] = "failed"

\* What a call can do with its reports and its answer: move on silently or
\* crash, report a failure, answer without a report, or succeed.
MovesOn(p) ==
  /\ pc[p] \in Active \cup {"idle"}
  /\ \E phase \in Active \cup {"crashed"} :
        Goto(p, phase) /\ (phase # "crashed" => pc[p] \in Silent)
  /\ UNCHANGED <<reports, result>>

Fails(p) ==
  /\ pc[p] \in {"idle"} \cup (Active \ {"report"})
  /\ \/ Goto(p, "rollback") /\ UNCHANGED result
     \/ \E answer \in Results \ {"success"} : Return(p, answer)
  /\ UNCHANGED reports \/ \E outcome \in Reports \ {"success"} : Report(p, outcome)

Kinds ==
  \/ UNCHANGED <<pc, reports, result>>
  \/ \E p \in Ops : MovesOn(p) \/ Fails(p) \/ Succeed(p)

\* Every step is of one of these kinds.
LEMMA StepKinds == Next => Kinds
  <1> USE DEF Silent, Active, BeginPhase, CompletePhase, Reports, Results
  <1>1. ASSUME NEW p \in Ops, NEW c \in Challenges, BeginCall(p, c) \/ CompleteCall(p, c)
        PROVE  MovesOn(p) \/ Fails(p)
    BY <1>1 DEF BeginCall, CompleteCall, MovesOn, Fails
  <1>2. ASSUME NEW p \in Ops, BeginRejected(p) \/ BeginRun(p) PROVE MovesOn(p) \/ Fails(p)
    BY <1>2 DEF BeginRejected, BeginRun, MovesOn, Fails
  <1>3. ASSUME NEW p \in Ops, BeginInsert(p) \/ BeginEffects(p) PROVE MovesOn(p) \/ Fails(p)
    BY <1>3 DEF BeginInsert, BeginEffects, MovesOn, Fails
  <1>4. ASSUME NEW p \in Ops, BeginClose(p) \/ CompleteClose(p) PROVE MovesOn(p) \/ Fails(p)
    BY <1>4 DEF BeginClose, CompleteClose, Close, MovesOn, Fails
  <1>5. ASSUME NEW p \in Ops, CompleteRejected(p) \/ CompleteRun(p) \/ CompleteTx(p)
        PROVE  MovesOn(p) \/ Fails(p)
    BY <1>5 DEF CompleteRejected, CompleteRun, CompleteTx, MovesOn, Fails
  <1>6. ASSUME NEW p \in Ops, RecordSelect(p) PROVE MovesOn(p) \/ Fails(p)
    BY <1>6 DEF RecordSelect, MovesOn, Fails
  <1>7. ASSUME NEW p \in Ops, RecordUpdate(p) \/ RecordStoreFailure(p) PROVE Fails(p)
    BY <1>7 DEF RecordUpdate, RecordStoreFailure, Fails
  <1>8. ASSUME NEW p \in Ops, ConsumeSelect(p) \/ ConsumeUpdate(p) \/ PersistCompletion(p)
        PROVE  MovesOn(p) \/ Fails(p)
    BY <1>8 DEF ConsumeSelect, ConsumeUpdate, PersistCompletion, MovesOn, Fails
  <1>9. ASSUME NEW p \in Ops, Rollback(p) \/ CommitFails(p) PROVE Fails(p)
    BY <1>9 DEF Rollback, CommitFails, Fails
  <1>10. ASSUME NEW p \in Ops, Commit(p) \/ Crash(p) PROVE MovesOn(p)
    BY <1>10 DEF Commit, Crash, MovesOn
  <1>11. ASSUME Tick \/ \E c \in Challenges : CleanupExpired(c)
         PROVE  UNCHANGED <<pc, reports, result>>
    BY <1>11 DEF Tick, CleanupExpired
  <1> QED
    BY <1>1, <1>2, <1>3, <1>4, <1>5, <1>6, <1>7, <1>8, <1>9, <1>10, <1>11
       DEF Next, Step, BeginStep, CompleteStep, EndStep, Kinds

\* What a report does to the list of its call.
LEMMA Reported ==
  ASSUME TypeOK, NEW p \in Ops, NEW outcome \in Reports, Report(p, outcome)
  PROVE  /\ \A q \in Ops \ {p} : reports'[q] = reports[q]
         /\ reports[p] = <<>> => reports'[p] = <<outcome>>
         /\ outcome # "success" /\ NoSuccess(reports[p]) => NoSuccess(reports'[p])
  <1>1. reports[p] \in Seq(Reports) /\ reports'[p] = Append(reports[p], outcome)
    BY DEF TypeOK, Report
  <1>2. \A q \in Ops \ {p} : reports'[q] = reports[q]
    BY DEF TypeOK, Report
  <1>3. reports[p] = <<>> => reports'[p] = <<outcome>>
    BY <1>1
  <1>4. ASSUME outcome # "success", NoSuccess(reports[p]) PROVE NoSuccess(reports'[p])
    BY <1>1, <1>4 DEF NoSuccess
  <1> QED BY <1>2, <1>3, <1>4

\* Every step keeps Reporting.
LEMMA ReportingStep ==
  ASSUME TypeOK, Reporting, Kinds
  PROVE  Reporting'
  <1> USE DEF TypeOK, Goto, Return
  <1>1. CASE UNCHANGED <<pc, reports, result>>
    BY <1>1 DEF Reporting
  <1>2. ASSUME NEW p \in Ops, MovesOn(p) PROVE Reporting'
    BY <1>2 DEF Reporting, MovesOn, Silent, Active, BeginPhase, CompletePhase
  <1>3. ASSUME NEW p \in Ops, Fails(p) PROVE Reporting'
    <2>1. /\ \A q \in Ops \ {p} : pc'[q] = pc[q] /\ result'[q] = result[q]
          /\ pc'[p] \in {"rollback", "returned"} /\ result'[p] # "success"
          /\ pc'[p] = "rollback" => result'[p] = "none"
      BY <1>3 DEF Fails, Reporting, Active, BeginPhase, CompletePhase
    <2>2. NoSuccess(reports[p])
      BY <1>3 DEF Fails, Reporting, Active, BeginPhase, CompletePhase
    <2>3. /\ \A q \in Ops \ {p} : reports'[q] = reports[q]
          /\ NoSuccess(reports'[p])
      BY <1>3, <2>2, Reported DEF Fails
    <2> QED BY <2>1, <2>3 DEF Reporting, Silent, Active, BeginPhase, CompletePhase
  <1>4. ASSUME NEW p \in Ops, Succeed(p) PROVE Reporting'
    <2>1. reports[p] = <<>>
      BY <1>4 DEF Succeed, Reporting, Silent, Active
    <2>2. reports'[p] = <<"success">> /\ \A q \in Ops \ {p} : reports'[q] = reports[q]
      BY <1>4, <2>1, Reported DEF Succeed, Reports
    <2> QED BY <1>4, <2>2 DEF Succeed, Reporting, Results, Silent, Active,
                               BeginPhase, CompletePhase
  <1> QED BY <1>1, <1>2, <1>3, <1>4 DEF Kinds

\* A challenge that is stored stays stored.
LEMMA StaysStored ==
  ASSUME TypeOK, StoreStep, NEW c \in Challenges, chal[c].status # "none"
  PROVE  chal'[c].status # "none"
  BY RowMoves, RowFields DEF CreatedBy, NoRow

\* Where a call comes from that arrives at an answer.
LEMMA Arrivals ==
  ASSUME TypeOK, Next, NEW p \in Ops
  PROVE  /\ pc[p] # "idle" => target'[p] = target[p]
         /\ pc'[p] = "report" => pc[p] = "report" \/ Commit(p)
         /\ result'[p] = "success" => result[p] = "success" \/ pc[p] = "report"
         /\ pc[p] = "commit" => \/ pc'[p] \in {"commit", "report", "crashed"}
                                \/ result'[p] = "transaction-failed"
         /\ pc[p] = "c_record" /\ pc'[p] = "returned" =>
              counted' = counted \/ result'[p] = "failed"
  <1> USE DEF TypeOK, Goto, Return
  <1>1. CASE \E q \in Ops, d \in Challenges : BeginCall(q, d)
    BY <1>1 DEF BeginCall
  <1>2. CASE \E q \in Ops, d \in Challenges : CompleteCall(q, d)
    BY <1>2 DEF CompleteCall
  <1>10. ASSUME NEW q \in Ops, BeginRejected(q)
         PROVE  /\ pc' = [pc EXCEPT ![q] = "returned"] /\ result' = [result EXCEPT ![q] = "failed"]
                /\ UNCHANGED target /\ pc[q] = "b_ready"
    BY <1>10 DEF BeginRejected
  <1>23. CASE \E q \in Ops : BeginRejected(q)
    BY <1>10, <1>23
  <1>11. CASE \E q \in Ops : BeginRun(q)
    BY <1>11 DEF BeginRun
  <1>12. CASE \E q \in Ops : BeginInsert(q)
    BY <1>12 DEF BeginInsert
  <1>13. CASE \E q \in Ops : BeginEffects(q)
    BY <1>13 DEF BeginEffects
  <1>14. CASE \E q \in Ops : BeginClose(q)
    BY <1>14 DEF BeginClose, Close
  <1>15. CASE \E q \in Ops : CompleteRejected(q)
    BY <1>15 DEF CompleteRejected
  <1>16. CASE \E q \in Ops : CompleteRun(q)
    BY <1>16 DEF CompleteRun
  <1>17. CASE \E q \in Ops : RecordSelect(q)
    BY <1>17 DEF RecordSelect
  <1>18. CASE \E q \in Ops : CompleteTx(q)
    BY <1>18 DEF CompleteTx
  <1>19. CASE \E q \in Ops : ConsumeSelect(q)
    BY <1>19 DEF ConsumeSelect
  <1>20. CASE \E q \in Ops : ConsumeUpdate(q)
    BY <1>20 DEF ConsumeUpdate
  <1>21. CASE \E q \in Ops : PersistCompletion(q)
    BY <1>21 DEF PersistCompletion
  <1>22. CASE \E q \in Ops : CompleteClose(q)
    BY <1>22 DEF CompleteClose, Close
  <1>5. CASE \E q \in Ops : RecordUpdate(q) \/ RecordStoreFailure(q)
    BY <1>5 DEF RecordUpdate, RecordStoreFailure
  <1>6. CASE \E q \in Ops : Commit(q)
    BY <1>6 DEF Commit
  <1>7. CASE \E q \in Ops : Rollback(q) \/ CommitFails(q) \/ Succeed(q) \/ Crash(q)
    BY <1>7 DEF Rollback, CommitFails, Succeed, Crash
  <1>8. CASE Tick \/ \E d \in Challenges : CleanupExpired(d)
    BY <1>8 DEF Tick, CleanupExpired
  <1> QED
    BY <1>1, <1>2, <1>5, <1>6, <1>7, <1>8, <1>23, <1>11, <1>12, <1>13, <1>14, <1>15, <1>16,
       <1>17, <1>18, <1>19, <1>20, <1>21, <1>22
      DEF Next, Step, BeginStep, CompleteStep, EndStep

\* A call that has answered, or crashed, changes neither its place nor its answer.
LEMMA Settled ==
  ASSUME TypeOK, Kinds, NEW p \in Ops, pc[p] \in {"returned", "crashed"}
  PROVE  pc'[p] = pc[p] /\ result'[p] = result[p]
  BY DEF TypeOK, Kinds, MovesOn, Fails, Succeed, Goto, Return, Active, BeginPhase, CompletePhase

\* What becomes of a call that is about to report.
LEMMA AboutToReport ==
  ASSUME TypeOK, Kinds, Next, NEW p \in Ops, pc[p] = "report"
  PROVE  pc'[p] \in {"report", "crashed"} \/ result'[p] = "success"
  <1>1. pc'[p] \in {"report", "returned", "crashed"}
    BY Ends
  <1> QED BY <1>1 DEF TypeOK, Kinds, MovesOn, Fails, Succeed, Goto, Return, Active, BeginPhase,
                      CompletePhase, Results

\* Every step keeps Answering.
LEMMA AnsweringStep ==
  ASSUME IInv, Reporting, Answering, Next
  PROVE  Answering'
  <1> USE DEF IInv, Structure, Locking
  <1>1. StoreStep /\ Kinds
    BY StoreSteps, StepKinds
  <1>2. ASSUME NEW p \in Ops, pc'[p] = "report" \/ result'[p] = "success"
        PROVE  chal'[target'[p]].status # "none"
    <2>1. CASE pc[p] = "report" \/ result[p] = "success"
      <3>1. pc[p] # "idle" /\ target[p] \in Challenges
        BY <2>1 DEF Reporting, Targets
      <3>2. target'[p] = target[p]
        BY <3>1, Arrivals
      <3> QED BY <1>1, <2>1, <3>1, <3>2, StaysStored DEF Answering
    <2>2. CASE Commit(p)
      <3>1. target[p] \in Challenges /\ pc[p] = "commit"
        BY <2>2 DEF Commit, Targets
      <3>2. target'[p] = target[p] /\ chal'[target[p]] = write[p]
        BY <2>2, <3>1 DEF Commit, Install, TypeOK
      <3>3. write[p].status # "none"
        BY <3>1, ConsumerFacts DEF Consuming
      <3> QED BY <3>2, <3>3
    <2> QED BY <1>2, <2>1, <2>2, Arrivals
  <1>3. ASSUME NEW p \in Ops, NEW c \in Challenges, p \in completed'[c]
        PROVE  \/ result'[p] \in {"success", "transaction-failed"}
               \/ pc'[p] \in {"report", "crashed"}
    <2>1. CASE p \in completed[c]
      <3>1. pc[p] \in {"report", "returned", "crashed"}
        BY <2>1 DEF Histories
      <3>2. CASE pc[p] = "report"
        BY <1>1, <3>2, AboutToReport
      <3>3. CASE pc[p] \in {"returned", "crashed"}
        BY <1>1, <2>1, <3>3, Settled DEF Answering
      <3> QED BY <3>1, <3>2, <3>3
    <2>2. CASE p \notin completed[c]
      <3>1. pc[p] = "commit" /\ pc'[p] \in {"report", "returned"}
        BY <1>1, <1>3, <2>2 DEF StoreStep, RowStep, Untouched, Lapsed, CreatedBy, CountedBy, ConsumedBy
      <3> QED BY <3>1, Arrivals
    <2> QED BY <2>1, <2>2
  <1>4. ASSUME NEW p \in Ops, NEW c \in Challenges, p \in counted'[c]
        PROVE  result'[p] = "failed"
    <2>1. CASE p \in counted[c]
      <3>1. pc[p] = "returned" /\ result[p] = "failed"
        BY <2>1 DEF Histories, Answering
      <3> QED BY <1>1, <3>1, Settled
    <2>2. CASE p \notin counted[c]
      <3>1. pc[p] = "c_record" /\ pc'[p] = "returned"
        BY <1>1, <1>4, <2>2 DEF StoreStep, RowStep, Untouched, Lapsed, CreatedBy, CountedBy, ConsumedBy
      <3> QED BY <1>4, <2>2, <3>1, Arrivals
    <2> QED BY <2>1, <2>2
  <1> QED BY <1>2, <1>3, <1>4 DEF Answering

\* What a call reports to the guard and answers to its caller is what became of
\* its writes (afterAttempt and the returns of begin and complete).
THEOREM TruthfulReports == Spec => []ReportsMatchOutcome
  <1> DEFINE Inv == Reporting /\ Answering
  <1>1. Init => Inv
    BY DEF Init, Reporting, Answering, NoSuccess
  <1>2. IInv /\ Inv /\ [Next]_vars => Inv'
    <2>1. ASSUME IInv, Inv, Next PROVE Inv'
      BY <2>1, StepKinds, ReportingStep, AnsweringStep DEF IInv, Structure
    <2>2. ASSUME Inv, UNCHANGED vars PROVE Inv'
      BY <2>2 DEF Reporting, Answering, vars, store, txn
    <2> QED BY <2>1, <2>2
  <1>3. TypeOK /\ Inv => ReportsMatchOutcome
    <2> SUFFICES ASSUME TypeOK, Inv, NEW p \in Ops
                 PROVE  \A i \in DOMAIN reports[p] : reports[p][i] = "success" =>
                           reports[p] = <<"success">> /\ result[p] = "success"
      BY DEF ReportsMatchOutcome, Reporting, Answering
    <2> QED BY DEF Reporting, NoSuccess
  <1> HIDE DEF Inv
  <1> QED BY <1>1, <1>2, <1>3, Invariance, TypeCorrect, PTL DEF Spec

=============================================================================
