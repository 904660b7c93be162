------------------------- MODULE OutboxWorkerProofs -------------------------
(***************************************************************************)
(* For any messages, workers, clock skew and bounds: what OutboxWorker     *)
(* promises of sends, leases and charges, and that it implements the       *)
(* status table of OutboxLifecycle.                                        *)
(***************************************************************************)
EXTENDS OutboxWorker, FiniteSetTheorems, TLAPS

USE MaxAttemptsAssumption, LeaseAssumption, RetryAssumption, HorizonAssumption,
    SkewAssumption, BoundsAssumption, NoMessageAssumption

-----------------------------------------------------------------------------
(* What the statements do to a row                                         *)

\* A delayed time is a time.
LEMMA LaterTime == ASSUME NEW now \in Time, NEW delay \in Nat PROVE Later(now, delay) \in Time
  BY DEF Later, Time

\* Without a delay it is the same time.
LEMMA LaterZero == ASSUME NEW now \in Time PROVE Later(now, 0) = now
  BY DEF Later, Time

\* A missing record is a row.
LEMMA NoRowType == NoRow \in Row
  BY DEF NoRow, Row, Status, Time, Never, NoLease

\* An enqueued message waits, uncharged.
LEMMA NewRowFields ==
  ASSUME NEW now \in Time, NEW e \in Time \cup {Never}
  PROVE  /\ NewRow(now, e) \in Row
         /\ NewRow(now, e).status = "pending"
         /\ NewRow(now, e).attempts = 0
  <1>1. NoRow.attempts = 0
    BY DEF NoRow
  <1>2. ASSUME NEW r \in Row, r.attempts = 0
        PROVE  LET n == [r EXCEPT !.status = "pending", !.availableAt = now, !.expiresAt = e]
               IN  n \in Row /\ n.status = "pending" /\ n.attempts = 0
    BY <1>2 DEF Row, Status
  <1> QED BY <1>1, <1>2, NoRowType DEF NewRow

\* A row that gives up its lease keeps its charge.
LEMMA UnleasedFields ==
  ASSUME NEW r \in Row, NEW s \in Status
  PROVE  /\ Unleased(r, s) \in Row
         /\ Unleased(r, s).status = s
         /\ Unleased(r, s).attempts = r.attempts
  <1>1. 0 \in Time /\ NoLease \in Nat
    BY DEF Time, NoLease
  <1> QED BY <1>1 DEF Unleased, Row

\* An expired row is dead and keeps its charge.
LEMMA ExpiredFields ==
  ASSUME NEW r \in Row
  PROVE  Expired(r) \in Row /\ Expired(r).status = "dead" /\ Expired(r).attempts = r.attempts
  BY UnleasedFields DEF Expired, Status

\* A dispatched row keeps its charge.
LEMMA DispatchedFields ==
  ASSUME NEW r \in Row
  PROVE  /\ Dispatched(r) \in Row
         /\ Dispatched(r).status = "dispatched"
         /\ Dispatched(r).attempts = r.attempts
  BY UnleasedFields DEF Dispatched, Status

\* What charging makes of a row: one more attempt, and the last one kills.
IsCharged(old, new) ==
  /\ new \in Row
  /\ new.attempts = old.attempts + 1
  /\ \/ new.status = "dead"
     \/ new.status = "failed" /\ old.attempts + 1 < MaxAttempts

\* Giving up the lease for one more attempt.
LEMMA ChargedFields ==
  ASSUME NEW r \in Row, NEW s \in {"dead", "failed"}, NEW t \in Time,
         s = "failed" => r.attempts + 1 < MaxAttempts
  PROVE  IsCharged(r, [[Unleased(r, s) EXCEPT !.attempts = @ + 1] EXCEPT !.availableAt = t])
  <1>1. s \in Status
    BY DEF Status
  <1>2. r.attempts \in Nat
    BY DEF Row
  <1>3. ASSUME NEW u \in Row, u.status = s, u.attempts = r.attempts
        PROVE  IsCharged(r, [[u EXCEPT !.attempts = u.attempts + 1] EXCEPT !.availableAt = t])
    <2> DEFINE c == [u EXCEPT !.attempts = u.attempts + 1]
    <2>1. c \in Row /\ c.status = s /\ c.attempts = r.attempts + 1
      BY <1>2, <1>3 DEF Row
    <2> HIDE DEF c
    <2>2. /\ [c EXCEPT !.availableAt = t] \in Row
          /\ [c EXCEPT !.availableAt = t].status = s
          /\ [c EXCEPT !.availableAt = t].attempts = r.attempts + 1
      BY <2>1 DEF Row
    <2>3. IsCharged(r, [c EXCEPT !.availableAt = t])
      BY <2>2 DEF IsCharged
    <2> QED BY <2>3 DEF c
  <1> DEFINE u == Unleased(r, s)
  <1>4. u \in Row /\ u.status = s /\ u.attempts = r.attempts
    BY <1>1, UnleasedFields
  <1> HIDE DEF u
  <1>5. IsCharged(r, [[u EXCEPT !.attempts = u.attempts + 1] EXCEPT !.availableAt = t])
    BY <1>3, <1>4
  <1> QED BY <1>5 DEF u

\* A reclaimed row is charged.
LEMMA ReclaimedFields ==
  ASSUME NEW r \in Row, NEW now \in Time
  PROVE  IsCharged(r, Reclaimed(r, now))
  <1> DEFINE s == IF r.attempts + 1 >= MaxAttempts THEN "dead" ELSE "failed"
  <1>1. s \in {"dead", "failed"} /\ (s = "failed" => r.attempts + 1 < MaxAttempts)
    BY DEF Row
  <1>2. Reclaimed(r, now) = [[Unleased(r, s) EXCEPT !.attempts = @ + 1] EXCEPT !.availableAt = now]
    BY DEF Reclaimed, Charged
  <1> HIDE DEF s
  <1>3. IsCharged(r, [[Unleased(r, s) EXCEPT !.attempts = @ + 1] EXCEPT !.availableAt = now])
    BY ONLY <1>1, ChargedFields, r \in Row, now \in Time
  <1> QED BY <1>2, <1>3

\* So is one whose delivery failed, for good or not.
LEMMA MarkedFailedFields ==
  ASSUME NEW r \in Row, NEW now \in Time
  PROVE  IsCharged(r, MarkedFailed(r, now, FALSE)) /\ IsCharged(r, MarkedFailed(r, now, TRUE))
  <1>1. IsCharged(r, MarkedFailed(r, now, FALSE))
    <2> DEFINE s == IF r.attempts + 1 >= MaxAttempts THEN "dead" ELSE "failed"
               t == Later(now, RetryDelay)
    <2>1. s \in {"dead", "failed"} /\ (s = "failed" => r.attempts + 1 < MaxAttempts)
      BY DEF Row
    <2>2. t \in Time
      BY LaterTime
    <2>3. MarkedFailed(r, now, FALSE)
            = [[Unleased(r, s) EXCEPT !.attempts = @ + 1] EXCEPT !.availableAt = t]
      BY DEF MarkedFailed, Charged
    <2> HIDE DEF s, t
    <2> QED BY <2>1, <2>2, <2>3, ChargedFields
  <1>2. IsCharged(r, MarkedFailed(r, now, TRUE))
    <2>1. MarkedFailed(r, now, TRUE)
            = [[Unleased(r, "dead") EXCEPT !.attempts = @ + 1] EXCEPT !.availableAt = now]
      BY DEF MarkedFailed, Charged
    <2> QED BY <2>1, ChargedFields
  <1> QED BY <1>1, <1>2

\* A claimed row keeps its charge and expiry and has the lease it was given.
LEMMA ClaimedFields ==
  ASSUME NEW r \in Row, NEW l \in Nat, NEW now \in Time
  PROVE  /\ Claimed(r, l, now) \in Row
         /\ Claimed(r, l, now).status = "claimed"
         /\ Claimed(r, l, now).attempts = r.attempts
         /\ Claimed(r, l, now).lease = l
         /\ Claimed(r, l, now).leaseUntil = Later(now, LeaseSeconds)
         /\ Claimed(r, l, now).expiresAt = r.expiresAt
  BY LaterTime DEF Claimed, Row, Status

\* Renewal only moves the end of the lease.
LEMMA RenewedFields ==
  ASSUME NEW r \in Row, NEW now \in Time
  PROVE  /\ Renewed(r, now) \in Row
         /\ Renewed(r, now).status = r.status
         /\ Renewed(r, now).attempts = r.attempts
         /\ Renewed(r, now).lease = r.lease
         /\ Renewed(r, now).leaseUntil = Later(now, LeaseSeconds)
         /\ Renewed(r, now).expiresAt = r.expiresAt
  BY LaterTime DEF Renewed, Row

-----------------------------------------------------------------------------
(* Types                                                                   *)

\* What a worker does with its claim keeps the types of its state.
LEMMA DropType ==
  ASSUME TypeOK, NEW w \in Workers, Drop(w)
  PROVE  /\ pc' \in [Workers -> Phase]
         /\ job' \in [Workers -> Job]
         /\ at' \in [Workers -> Time]
  <1>1. NoJob \in Job /\ "idle" \in Phase /\ 0 \in Time
    BY DEF NoJob, Job, Phase, Time, Never, NoLease
  <1> QED BY <1>1 DEF Drop, Goto, TypeOK

\* A worker's clock shows a time.
LEMMA NowType == ASSUME TypeOK, NEW w \in Workers PROVE Now(w) \in Time
  BY LaterTime DEF Now, TypeOK

\* Going on keeps them too.
LEMMA ContinueType ==
  ASSUME TypeOK, NEW w \in Workers, NEW phase \in Phase, Continue(w, phase)
  PROVE  /\ pc' \in [Workers -> Phase]
         /\ job' \in [Workers -> Job]
         /\ at' \in [Workers -> Time]
  BY NowType DEF Continue, Goto, ReadClock, TypeOK

\* And so does an await.
LEMMA AwaitType ==
  ASSUME TypeOK, NEW w \in Workers, NEW phase \in Phase, Await(w, phase)
  PROVE  /\ pc' \in [Workers -> Phase]
         /\ at' \in [Workers -> Time]
  <1>1. 0 \in Time
    BY DEF Time
  <1> QED BY <1>1 DEF Await, Goto, TypeOK

\* The claim a statement leaves with its worker is a job.
LEMMA TakenType ==
  ASSUME TypeOK, NEW w \in Workers, NEW m \in Messages
  PROVE  [msg |-> m, lease |-> claims[m] + 1, until |-> Later(at[w], LeaseSeconds),
          expiresAt |-> row[m].expiresAt] \in Job
  <1>1. claims[m] + 1 \in Nat /\ row[m].expiresAt \in Time \cup {Never}
    BY DEF TypeOK, Row
  <1>2. Later(at[w], LeaseSeconds) \in Time
    BY LaterTime DEF TypeOK
  <1> QED BY <1>1, <1>2 DEF Job

\* A worker past its claim works on a message.
Working(w) == pc[w] \notin {"idle", "expire", "reclaim", "claim"}

\* A worker has a message exactly when it works on one.
Busy ==
  \A w \in Workers :
    /\ Working(w) => job[w].msg \in Messages
    /\ ~Working(w) => job[w] = NoJob

\* A mark changes the row of a lease that holds, or nothing: the row is
\* dispatched or charged.
LEMMA MarkEffect ==
  ASSUME TypeOK, NEW w \in Workers, job[w].msg \in Messages,
         MarkDispatched(w) \/ MarkFailed(w) \/ MarkDead(w)
  PROVE  LET m == job[w].msg IN
         \/ UNCHANGED row
         \/ /\ Holds(row[m], job[w].lease, at[w])
            /\ \E new : /\ row' = [row EXCEPT ![m] = new]
                        /\ \/ pc[w] = "mark_dispatched" /\ new = Dispatched(row[m])
                           \/ IsCharged(row[m], new)
  <1> DEFINE m == job[w].msg
  <1>1. row[m] \in Row /\ at[w] \in Time
    BY DEF TypeOK
  <1>2. CASE MarkDispatched(w)
    <2>1. pc[w] = "mark_dispatched" /\ row' = IF Holds(row[m], job[w].lease, at[w])
                THEN [row EXCEPT ![m] = Dispatched(row[m])] ELSE row
      BY <1>2 DEF MarkDispatched, Mark
    <2> QED BY <2>1
  <1>3. CASE MarkFailed(w)
    <2> DEFINE new == MarkedFailed(row[m], at[w], FALSE)
    <2>1. row' = IF Holds(row[m], job[w].lease, at[w]) THEN [row EXCEPT ![m] = new] ELSE row
      BY <1>3 DEF MarkFailed, Mark
    <2>2. IsCharged(row[m], new)
      BY <1>1, MarkedFailedFields
    <2> HIDE DEF new
    <2> QED BY <2>1, <2>2
  <1>4. CASE MarkDead(w)
    <2> DEFINE new == MarkedFailed(row[m], at[w], TRUE)
    <2>1. row' = IF Holds(row[m], job[w].lease, at[w]) THEN [row EXCEPT ![m] = new] ELSE row
      BY <1>4 DEF MarkDead, Mark
    <2>2. IsCharged(row[m], new)
      BY <1>1, MarkedFailedFields
    <2> HIDE DEF new
    <2> QED BY <2>1, <2>2
  <1> QED BY <1>2, <1>3, <1>4

\* Every step keeps the types.
LEMMA TypeStep ==
  ASSUME TypeOK, Busy, Next
  PROVE  TypeOK'
  <1>1. ASSUME NEW m \in Messages, Enqueue(m) PROVE TypeOK'
    <2>1. PICK e \in (clock + 1)..Never : row' = [row EXCEPT ![m] = NewRow(clock, e)]
      BY <1>1 DEF Enqueue
    <2>2. NewRow(clock, e) \in Row
      <3>1. clock \in Time /\ e \in Time \cup {Never}
        BY DEF TypeOK, Time, Never
      <3> QED BY <3>1, NewRowFields
    <2> QED BY <1>1, <2>1, <2>2 DEF Enqueue, TypeOK, history
  <1>2. ASSUME NEW m \in Messages, CleanupTerminal(m) PROVE TypeOK'
    BY <1>2, NoRowType DEF CleanupTerminal, TypeOK, history, bounds
  <1>3. ASSUME NEW w \in Workers, Start(w) PROVE TypeOK'
    BY <1>3, NowType DEF Start, ReadClock, Goto, Phase, TypeOK, table, history, bounds
  <1>4. ASSUME NEW w \in Workers, ExpireOne(w) PROVE TypeOK'
    <2>1. row' \in [Messages -> Row]
      BY <1>4, ExpiredFields DEF ExpireOne, First, TypeOK
    <2> QED BY <1>4, <2>1 DEF ExpireOne, Goto, Phase, TypeOK, history, bounds
  <1>5. ASSUME NEW w \in Workers, ReclaimOne(w) PROVE TypeOK'
    <2>1. row' \in [Messages -> Row]
      <3>1. ASSUME NEW m \in Messages PROVE Reclaimed(row[m], at[w]) \in Row
        BY ReclaimedFields DEF IsCharged, TypeOK
      <3> QED BY <1>5, <3>1 DEF ReclaimOne, First, TypeOK
    <2> QED BY <1>5, <2>1 DEF ReclaimOne, Goto, Phase, TypeOK, history, bounds
  <1>6. ASSUME NEW w \in Workers, ClaimOne(w) PROVE TypeOK'
    <2>1. CASE Drop(w) /\ UNCHANGED table
      BY <1>6, <2>1, DropType DEF ClaimOne, TypeOK, table, history, bounds
    <2>2. ASSUME NEW m \in Messages,
                 claims' = [claims EXCEPT ![m] = @ + 1],
                 row' = [row EXCEPT ![m] = Claimed(@, claims[m] + 1, at[w])],
                 job' = [job EXCEPT ![w] =
                   [msg |-> m, lease |-> claims[m] + 1, until |-> Later(at[w], LeaseSeconds),
                    expiresAt |-> row[m].expiresAt]],
                 Await(w, "claimed"),
                 UNCHANGED base
          PROVE  TypeOK'
      <3>1. Claimed(row[m], claims[m] + 1, at[w]) \in Row
        BY ClaimedFields DEF TypeOK
      <3>2. job' \in [Workers -> Job]
        <4> DEFINE taken == [msg |-> m, lease |-> claims[m] + 1,
                             until |-> Later(at[w], LeaseSeconds), expiresAt |-> row[m].expiresAt]
        <4>1. taken \in Job
          BY TakenType
        <4>2. job' = [job EXCEPT ![w] = taken]
          BY <2>2
        <4> HIDE DEF taken
        <4> QED BY <4>1, <4>2 DEF TypeOK
      <3>3. pc' \in [Workers -> Phase] /\ at' \in [Workers -> Time]
        <4>1. "claimed" \in Phase
          BY DEF Phase
        <4> QED BY <4>1, <2>2, AwaitType
      <3> QED BY <1>6, <2>2, <3>1, <3>2, <3>3 DEF ClaimOne, TypeOK, history, bounds
    <2> QED BY <1>6, <2>1, <2>2 DEF ClaimOne, First
  <1>7. ASSUME NEW w \in Workers, CheckClaim(w) PROVE TypeOK'
    BY <1>7, DropType, ContinueType
    DEF CheckClaim, Phase, TypeOK, table, history, bounds
  <1>8. ASSUME NEW w \in Workers, NEW from \in Phase, NEW to \in Phase,
               Renew(w, from, to), job[w].msg \in Messages
        PROVE  TypeOK'
    <2> DEFINE m == job[w].msg
    <2>1. CASE Holds(row[m], job[w].lease, at[w])
      <3>1. Renewed(row[m], at[w]) \in Row
        BY <1>8, RenewedFields DEF TypeOK
      <3>2. job' \in [Workers -> Job]
        <4>1. job' = [job EXCEPT ![w].until = Later(at[w], LeaseSeconds)]
          BY <1>8, <2>1 DEF Renew
        <4>2. Later(at[w], LeaseSeconds) \in Time
          BY LaterTime DEF TypeOK
        <4>3. ASSUME NEW j \in Job, NEW t \in Time PROVE [j EXCEPT !.until = t] \in Job
          BY DEF Job
        <4>4. job[w] \in Job /\ job \in [Workers -> Job]
          BY DEF TypeOK
        <4>5. [job[w] EXCEPT !.until = Later(at[w], LeaseSeconds)] \in Job
          BY <4>2, <4>3, <4>4
        <4> QED BY <4>1, <4>4, <4>5
      <3>3. Await(w, to)
        BY <1>8, <2>1 DEF Renew
      <3> QED BY <1>8, <2>1, <3>1, <3>2, <3>3, AwaitType DEF Renew, TypeOK, history, bounds
    <2>2. CASE ~Holds(row[m], job[w].lease, at[w])
      BY <1>8, <2>2, DropType DEF Renew, TypeOK, history, bounds
    <2> QED BY <2>1, <2>2
  <1>9. ASSUME NEW w \in Workers, Unseal(w) PROVE TypeOK'
    BY <1>9, DropType, ContinueType, AwaitType
    DEF Unseal, Phase, TypeOK, table, history, bounds
  <1>10. ASSUME NEW w \in Workers, UnsealFailed(w) \/ Deliver(w) PROVE TypeOK'
    BY <1>10, ContinueType DEF UnsealFailed, Deliver, Phase, TypeOK, table, history, bounds
  <1>11. ASSUME NEW w \in Workers, Send(w) PROVE TypeOK'
    <2>1. sent' \in [Messages -> SUBSET Nat]
      BY <1>11 DEF Send, StartSend, TypeOK, Job
    <2> QED BY <1>11, <2>1, DropType, ContinueType, AwaitType
        DEF Send, StartSend, Phase, TypeOK, table, bounds
  <1>12. ASSUME NEW w \in Workers, SendReturns(w) PROVE TypeOK'
    <2>1. acked' \in [Messages -> SUBSET Nat]
      BY <1>12 DEF SendReturns, TypeOK, Job
    <2> QED BY <1>12, <2>1, ContinueType DEF SendReturns, Phase, TypeOK, table, bounds
  <1>13. ASSUME NEW w \in Workers, MarkDispatched(w) \/ MarkFailed(w) \/ MarkDead(w)
         PROVE  TypeOK'
    <2>1. row' \in [Messages -> Row]
      <3>1. Working(w)
        BY <1>13 DEF MarkDispatched, MarkFailed, MarkDead, Mark, Working
      <3>2. job[w].msg \in Messages
        BY <3>1 DEF Busy
      <3> QED BY <1>13, <3>2, MarkEffect, DispatchedFields DEF IsCharged, TypeOK
    <2>2. Drop(w) /\ UNCHANGED <<clock, offset, claims, base, history, bounds>>
      BY <1>13 DEF MarkDispatched, MarkFailed, MarkDead, Mark
    <2> QED BY <2>1, <2>2, DropType DEF TypeOK, history, bounds
  <1>14. ASSUME NEW w \in Workers, Interrupt(w) PROVE TypeOK'
    BY <1>14, DropType DEF Interrupt, TypeOK, table, history
  <1>15. CASE Tick
    BY <1>15 DEF Tick, TypeOK, Time, table, history, bounds
  <1>16. ASSUME NEW w \in Workers, RenewProcessing(w) \/ RenewDelivery(w) PROVE TypeOK'
    <2>1. Working(w)
      BY <1>16 DEF RenewProcessing, RenewDelivery, Renew, Working
    <2> QED BY <1>8, <1>16, <2>1 DEF RenewProcessing, RenewDelivery, Phase, Busy
  <1> QED BY <1>1, <1>2, <1>3, <1>4, <1>5, <1>6, <1>7, <1>9, <1>10, <1>11, <1>12, <1>13,
             <1>14, <1>15, <1>16 DEF Next, WorkerStep

-----------------------------------------------------------------------------
(* What a step does to the table                                           *)

Waiting(r) == r.status \in {"pending", "failed"}

\* No row changes but for the end of a lease.
Still ==
  /\ UNCHANGED <<claims, base>>
  /\ \A m \in Messages :
       /\ row'[m].status = row[m].status
       /\ row'[m].attempts = row[m].attempts
       /\ row'[m].lease = row[m].lease

\* The moves of the row of m.
Enqueued(m, new) ==
  /\ row[m].status = "none"
  /\ new.status = "pending" /\ new.attempts = 0
  /\ base' = [base EXCEPT ![m] = claims[m]]
  /\ UNCHANGED claims

Taken(m, new) ==
  /\ Waiting(row[m]) /\ row[m].attempts < MaxAttempts
  /\ new.status = "claimed" /\ new.attempts = row[m].attempts /\ new.lease = claims[m] + 1
  /\ claims' = [claims EXCEPT ![m] = @ + 1]
  /\ UNCHANGED base

Settled(m, new) ==
  /\ UNCHANGED <<claims, base>>
  /\ \/ Deletable(row[m]) /\ new = NoRow
     \/ /\ row[m].status \in {"pending", "failed", "claimed"}
        /\ new.status = "dead" /\ new.attempts = row[m].attempts
     \/ row[m].status = "claimed" /\ IsCharged(row[m], new)
     \/ /\ \E w \in Workers : /\ pc[w] = "mark_dispatched"
                             /\ job[w].msg = m /\ job[w].lease = row[m].lease
        /\ row[m].status = "claimed"
        /\ new.status = "dispatched" /\ new.attempts = row[m].attempts

Moves(m, new) ==
  /\ row' = [row EXCEPT ![m] = new]
  /\ Enqueued(m, new) \/ Taken(m, new) \/ Settled(m, new)

Moved(m) == \E new \in Row : Moves(m, new)

\* One step moves at most one row.
LEMMA RowMoves ==
  ASSUME TypeOK, Busy, Next
  PROVE  Still \/ \E m \in Messages : Moved(m)
  <1>1. ASSUME UNCHANGED table PROVE Still
    BY <1>1 DEF Still, table
  <1>2. ASSUME NEW m \in Messages, Enqueue(m) PROVE Moved(m)
    <2>1. PICK e \in (clock + 1)..Never : row' = [row EXCEPT ![m] = NewRow(clock, e)]
      BY <1>2 DEF Enqueue
    <2>2. /\ NewRow(clock, e) \in Row
          /\ NewRow(clock, e).status = "pending" /\ NewRow(clock, e).attempts = 0
      <3>1. clock \in Time /\ e \in Time \cup {Never}
        BY DEF TypeOK, Time, Never
      <3> QED BY <3>1, NewRowFields
    <2>3. row[m].status = "none"
      BY <1>2 DEF Enqueue, NoRow
    <2> QED BY <1>2, <2>1, <2>2, <2>3 DEF Moved, Moves, Enqueued, Enqueue
  <1>3. ASSUME NEW m \in Messages, CleanupTerminal(m) PROVE Moved(m)
    BY <1>3, NoRowType DEF CleanupTerminal, Moved, Moves, Settled
  <1>4. ASSUME NEW w \in Workers, ExpireOne(w) PROVE Still \/ \E m \in Messages : Moved(m)
    <2>1. CASE UNCHANGED row
      BY <1>4, <2>1, <1>1 DEF ExpireOne, table
    <2>2. CASE \E m \in Messages : Expirable(row[m], at[w]) /\ row' = [row EXCEPT ![m] = Expired(@)]
      <3>1. PICK m \in Messages : Expirable(row[m], at[w]) /\ row' = [row EXCEPT ![m] = Expired(@)]
        BY <2>2
      <3>2. row[m] \in Row
        BY DEF TypeOK
      <3>3. Settled(m, Expired(row[m]))
        BY <1>4, <3>1, <3>2, ExpiredFields DEF ExpireOne, Settled, Expirable
      <3> QED BY <3>1, <3>2, <3>3, ExpiredFields DEF Moved, Moves
    <2> QED BY <1>4, <2>1, <2>2 DEF ExpireOne, First
  <1>5. ASSUME NEW w \in Workers, ReclaimOne(w) PROVE Still \/ \E m \in Messages : Moved(m)
    <2>1. CASE UNCHANGED row
      BY <1>5, <2>1, <1>1 DEF ReclaimOne, table
    <2>2. CASE \E m \in Messages : Abandoned(row[m], at[w]) /\ row' = [row EXCEPT ![m] = Reclaimed(@, at[w])]
      <3>1. PICK m \in Messages : Abandoned(row[m], at[w]) /\ row' = [row EXCEPT ![m] = Reclaimed(@, at[w])]
        BY <2>2
      <3>2. IsCharged(row[m], Reclaimed(row[m], at[w]))
        BY ReclaimedFields DEF TypeOK
      <3>3. Settled(m, Reclaimed(row[m], at[w]))
        BY <1>5, <3>1, <3>2 DEF ReclaimOne, Settled, Abandoned
      <3> QED BY <3>1, <3>2, <3>3 DEF Moved, Moves, IsCharged
    <2> QED BY <1>5, <2>1, <2>2 DEF ReclaimOne, First
  <1>6. ASSUME NEW w \in Workers, ClaimOne(w) PROVE Still \/ \E m \in Messages : Moved(m)
    <2>1. CASE UNCHANGED table
      BY <2>1, <1>1
    <2>2. CASE \E m \in Messages : /\ Claimable(row[m], at[w])
                                 /\ claims' = [claims EXCEPT ![m] = @ + 1]
                                 /\ row' = [row EXCEPT ![m] = Claimed(@, claims[m] + 1, at[w])]
                                 /\ UNCHANGED base
      <3>1. PICK m \in Messages : /\ Claimable(row[m], at[w])
                                 /\ claims' = [claims EXCEPT ![m] = @ + 1]
                                 /\ row' = [row EXCEPT ![m] = Claimed(@, claims[m] + 1, at[w])]
                                 /\ UNCHANGED base
        BY <2>2
      <3> DEFINE new == Claimed(row[m], claims[m] + 1, at[w])
      <3>2. /\ new \in Row /\ new.status = "claimed" /\ new.attempts = row[m].attempts
            /\ new.lease = claims[m] + 1
        <4>1. row[m] \in Row /\ claims[m] + 1 \in Nat /\ at[w] \in Time
          BY DEF TypeOK
        <4> QED BY <4>1, ClaimedFields
      <3>3. row' = [row EXCEPT ![m] = new]
        BY <3>1
      <3> HIDE DEF new
      <3>4. Taken(m, new)
        BY <3>1, <3>2 DEF Taken, Claimable, Waiting
      <3> QED BY <3>2, <3>3, <3>4 DEF Moved, Moves
    <2> QED BY <1>6, <2>1, <2>2 DEF ClaimOne, First
  <1>7. ASSUME NEW w \in Workers, RenewProcessing(w) \/ RenewDelivery(w) PROVE Still
    <2> DEFINE m == job[w].msg
    <2>1. UNCHANGED <<claims, base>>
      BY <1>7 DEF RenewProcessing, RenewDelivery, Renew
    <2>2. UNCHANGED row \/ row' = [row EXCEPT ![m] = Renewed(@, at[w])]
      BY <1>7 DEF RenewProcessing, RenewDelivery, Renew
    <2>3. m \in Messages
      BY <1>7 DEF RenewProcessing, RenewDelivery, Renew, Working, Busy
    <2>4. CASE row' = [row EXCEPT ![m] = Renewed(@, at[w])]
      <3>1. /\ Renewed(row[m], at[w]).status = row[m].status
            /\ Renewed(row[m], at[w]).attempts = row[m].attempts
            /\ Renewed(row[m], at[w]).lease = row[m].lease
        BY <2>3, RenewedFields DEF TypeOK
      <3> HIDE DEF m
      <3>2. \A n \in Messages : row'[n] = IF n = m THEN Renewed(row[m], at[w]) ELSE row[n]
        BY <2>3, <2>4 DEF TypeOK
      <3> QED BY <2>1, <3>1, <3>2 DEF Still
    <2> QED BY <1>1, <2>1, <2>2, <2>4 DEF table
  <1>8. ASSUME NEW w \in Workers, MarkDispatched(w) \/ MarkFailed(w) \/ MarkDead(w)
        PROVE  Still \/ \E m \in Messages : Moved(m)
    <2> DEFINE m == job[w].msg
    <2>1. UNCHANGED <<claims, base>>
      BY <1>8 DEF MarkDispatched, MarkFailed, MarkDead, Mark
    <2>2. m \in Messages
      BY <1>8 DEF MarkDispatched, MarkFailed, MarkDead, Mark, Working, Busy
    <2>3. CASE UNCHANGED row
      BY <1>1, <2>1, <2>3 DEF table
    <2>4. ASSUME NEW new, Holds(row[m], job[w].lease, at[w]), row' = [row EXCEPT ![m] = new],
                 \/ pc[w] = "mark_dispatched" /\ new = Dispatched(row[m])
                 \/ IsCharged(row[m], new)
          PROVE  Moved(m)
      <3>1. row[m].status = "claimed" /\ job[w].lease = row[m].lease
        BY <2>4 DEF Holds
      <3>2. CASE IsCharged(row[m], new)
        BY <2>1, <2>2, <2>4, <3>1, <3>2 DEF Moved, Moves, Settled, IsCharged
      <3>3. CASE pc[w] = "mark_dispatched" /\ new = Dispatched(row[m])
        <4>1. new \in Row /\ new.status = "dispatched" /\ new.attempts = row[m].attempts
          BY <2>2, <3>3, DispatchedFields DEF TypeOK
        <4> QED BY <2>1, <2>2, <2>4, <3>1, <3>3, <4>1 DEF Moved, Moves, Settled
      <3> QED BY <2>4, <3>2, <3>3
    <2> HIDE DEF m
    <2>5. \/ UNCHANGED row
          \/ /\ Holds(row[m], job[w].lease, at[w])
             /\ \E new : /\ row' = [row EXCEPT ![m] = new]
                         /\ \/ pc[w] = "mark_dispatched" /\ new = Dispatched(row[m])
                            \/ IsCharged(row[m], new)
      BY <1>8, <2>2, MarkEffect DEF m
    <2> QED BY <2>2, <2>3, <2>4, <2>5
  <1>9. ASSUME NEW w \in Workers, \/ Start(w) \/ CheckClaim(w) \/ Unseal(w) \/ UnsealFailed(w)
                                 \/ Deliver(w) \/ Send(w) \/ SendReturns(w) \/ Interrupt(w)
        PROVE  Still
    BY <1>1, <1>9
    DEF Start, CheckClaim, Unseal, UnsealFailed, Deliver, Send, SendReturns, Interrupt
  <1>10. CASE Tick
    BY <1>1, <1>10 DEF Tick
  <1> QED BY <1>2, <1>3, <1>4, <1>5, <1>6, <1>7, <1>8, <1>9, <1>10 DEF Next, WorkerStep

-----------------------------------------------------------------------------
(* Charges                                                                 *)

\* Each claim of the present row is one attempt, counted or under way.
Charging ==
  \A m \in Messages :
    /\ base[m] <= claims[m]
    /\ claims[m] - base[m] <= MaxAttempts
    /\ row[m].status \in {"pending", "failed", "claimed"} => row[m].attempts < MaxAttempts

\* Every step keeps the charges.
LEMMA ChargingStep ==
  ASSUME TypeOK, TypeOK', Busy, Charging, ClaimsAreCharged, Next
  PROVE  Charging' /\ ClaimsAreCharged'
  <1>1. CASE Still
    BY <1>1 DEF Still, Charging, ClaimsAreCharged
  <1>2. ASSUME NEW m \in Messages, Moved(m) PROVE Charging' /\ ClaimsAreCharged'
    <2>1. PICK new \in Row : Moves(m, new)
      BY <1>2 DEF Moved
    <2>a. row' = [row EXCEPT ![m] = new]
      BY <2>1 DEF Moves
    <2>b. Enqueued(m, new) \/ Taken(m, new) \/ Settled(m, new)
      BY <2>1 DEF Moves
    <2> DEFINE Fine(r, n) ==
          /\ n \in Nat /\ n <= MaxAttempts
          /\ r.status \in {"pending", "failed", "claimed"} => r.attempts < MaxAttempts
          /\ r.status \in {"pending", "failed"} => n = r.attempts
          /\ r.status \in {"claimed", "dispatched"} => n = r.attempts + 1
          /\ r.status = "dead" => n \in {r.attempts, r.attempts + 1}
    <2>2. \A n \in Messages : claims[n] \in Nat /\ base[n] \in Nat /\ claims'[n] \in Nat
                             /\ base'[n] \in Nat /\ row[n] \in Row
      BY DEF TypeOK
    <2>3. \A n \in Messages : Fine(row[n], claims[n] - base[n])
      BY <2>2 DEF Charging, ClaimsAreCharged
    <2>4. \A n \in Messages \ {m} : /\ row'[n] = row[n]
                                   /\ claims'[n] = claims[n] /\ base'[n] = base[n]
      <3>1. /\ row \in [Messages -> Row]
            /\ claims \in [Messages -> Nat] /\ base \in [Messages -> Nat]
        BY DEF TypeOK
      <3> QED BY <2>a, <2>b, <3>1 DEF Enqueued, Taken, Settled
    <2>5. row'[m] = new
      <3>1. row \in [Messages -> Row]
        BY DEF TypeOK
      <3> QED BY <2>a, <3>1
    <2>6. Fine(new, claims'[m] - base'[m])
      <3>1. row[m].attempts \in Nat /\ new.attempts \in Nat
        BY <2>2 DEF Row
      <3>2. CASE Enqueued(m, new)
        BY <2>2, <3>2 DEF Enqueued, TypeOK
      <3>3. CASE Taken(m, new)
        <4>1. claims'[m] = claims[m] + 1 /\ base'[m] = base[m]
          BY <3>3 DEF Taken, TypeOK
        <4> QED BY <2>2, <2>3, <3>1, <3>3, <4>1 DEF Taken, Waiting
      <3>4. CASE Settled(m, new)
        <4>1. claims'[m] = claims[m] /\ base'[m] = base[m]
          BY <3>4 DEF Settled
        <4>2. NoRow.status = "none"
          BY DEF NoRow
        <4> QED BY <2>2, <2>3, <3>1, <3>4, <4>1, <4>2 DEF Settled, IsCharged, Deletable
      <3> QED BY <2>b, <3>2, <3>3, <3>4
    <2>7. \A n \in Messages : Fine(row'[n], claims'[n] - base'[n])
      BY <2>3, <2>4, <2>5, <2>6
    <2> QED BY <2>2, <2>7 DEF Charging, ClaimsAreCharged
  <1> QED BY <1>1, <1>2, RowMoves

-----------------------------------------------------------------------------
(* The status table                                                        *)

statuses == [m \in Messages |-> row[m].status]
counters == [m \in Messages |-> row[m].attempts]

\* A step follows the status table or moves nothing in it.
LEMMA LifecycleStep ==
  ASSUME TypeOK, Busy, Next
  PROVE  Lifecycle!Next \/ UNCHANGED Lifecycle!vars
  <1>1. CASE Still
    <2>1. statuses' = statuses /\ counters' = counters
      BY <1>1 DEF Still, statuses, counters
    <2> QED BY <2>1 DEF Lifecycle!vars, statuses, counters
  <1>2. ASSUME NEW m \in Messages, Moved(m) PROVE Lifecycle!Next
    <2>1. PICK new \in Row : Moves(m, new)
      BY <1>2 DEF Moved
    <2>a. row' = [row EXCEPT ![m] = new]
      BY <2>1 DEF Moves
    <2>b. Enqueued(m, new) \/ Taken(m, new) \/ Settled(m, new)
      BY <2>1 DEF Moves
    <2>2. /\ statuses' = [statuses EXCEPT ![m] = new.status]
          /\ counters' = [counters EXCEPT ![m] = new.attempts]
      <3>1. row \in [Messages -> Row]
        BY DEF TypeOK
      <3>2. \A n \in Messages : row'[n] = IF n = m THEN new ELSE row[n]
        BY <2>a, <3>1
      <3> QED BY <3>2 DEF statuses, counters
    <2>3. statuses[m] = row[m].status /\ counters[m] = row[m].attempts
      BY DEF statuses, counters
    <2>4. new.attempts = row[m].attempts => counters' = counters
      BY <2>2, <2>3 DEF counters
    <2>5. NoRow.status = "none" /\ NoRow.attempts = 0
      BY DEF NoRow
    <2>6. CASE Enqueued(m, new)
      <3>1. Lifecycle!Enqueue(m)
        BY <2>2, <2>3, <2>6 DEF Enqueued, Lifecycle!Enqueue, Lifecycle!Move, statuses, counters
      <3> QED BY <3>1 DEF Lifecycle!Next
    <2>7. CASE Taken(m, new)
      <3>1. Lifecycle!Claim(m)
        BY <2>2, <2>3, <2>4, <2>7
        DEF Taken, Waiting, Lifecycle!Claim, Lifecycle!Move, statuses, counters
      <3> QED BY <3>1 DEF Lifecycle!Next
    <2>8. CASE Settled(m, new)
      <3>1. CASE Deletable(row[m]) /\ new = NoRow
        <4>1. Lifecycle!Delete(m)
          BY <2>2, <2>3, <2>5, <3>1
          DEF Deletable, Lifecycle!Delete, Lifecycle!Move, statuses, counters
        <4> QED BY <4>1 DEF Lifecycle!Next
      <3>2. CASE /\ row[m].status \in {"pending", "failed", "claimed"}
                 /\ new.status = "dead" /\ new.attempts = row[m].attempts
        <4>1. Lifecycle!Expire(m)
          BY <2>2, <2>3, <2>4, <3>2 DEF Lifecycle!Expire, Lifecycle!Move, statuses, counters
        <4> QED BY <4>1 DEF Lifecycle!Next
      <3>3. CASE row[m].status = "claimed" /\ IsCharged(row[m], new)
        <4>1. Lifecycle!Fail(m)
          BY <2>2, <2>3, <3>3
          DEF IsCharged, Lifecycle!Fail, Lifecycle!Move, statuses, counters
        <4> QED BY <4>1 DEF Lifecycle!Next
      <3>4. CASE /\ row[m].status = "claimed" /\ new.status = "dispatched"
                 /\ new.attempts = row[m].attempts
        <4>1. Lifecycle!Dispatch(m)
          BY <2>2, <2>3, <2>4, <3>4 DEF Lifecycle!Dispatch, Lifecycle!Move, statuses, counters
        <4> QED BY <4>1 DEF Lifecycle!Next
      <3> QED BY <2>8, <3>1, <3>2, <3>3, <3>4 DEF Settled
    <2> QED BY <2>b, <2>6, <2>7, <2>8
  <1> QED BY <1>1, <1>2, RowMoves

-----------------------------------------------------------------------------
(* What a step does to the workers                                         *)

\* No worker moves.
Rests == UNCHANGED <<pc, job, claims, history>>

\* The moves of worker w: it looks for a message, ...
Scans(w) ==
  /\ ~Working(w)
  /\ \E p \in {"expire", "reclaim", "claim"} : pc' = [pc EXCEPT ![w] = p]
  /\ UNCHANGED <<job, claims, history>>

\* ... gives up what it has, ...
Drops(w) ==
  /\ pc' = [pc EXCEPT ![w] = "idle"]
  /\ job' = [job EXCEPT ![w] = NoJob]
  /\ UNCHANGED <<claims, history>>

\* ... takes a message, under a lease nobody ever had, ...
Takes(w, m) ==
  /\ pc' = [pc EXCEPT ![w] = "claimed"]
  /\ \E j : /\ job' = [job EXCEPT ![w] = j]
           /\ j.msg = m /\ j.lease = claims[m] + 1
  /\ claims' = [claims EXCEPT ![m] = @ + 1]
  /\ UNCHANGED history

\* ... or goes on with it, perhaps to send it or to hear of its success.
Proceeds(w, p) ==
  /\ Working(w)
  /\ p \notin {"idle", "expire", "reclaim", "claim"}
  /\ pc' = [pc EXCEPT ![w] = p]
  /\ p \in PreSend => pc[w] \in PreSend
  /\ job' = job \/ \E t : job' = [job EXCEPT ![w].until = t]
  /\ UNCHANGED claims
  /\ \/ UNCHANGED sent
     \/ p = "sending" /\ sent' = [sent EXCEPT ![job[w].msg] = @ \cup {job[w].lease}]
  /\ \/ UNCHANGED acked /\ p # "mark_dispatched"
     \/ acked' = [acked EXCEPT ![job[w].msg] = @ \cup {job[w].lease}]

\* One step moves at most one worker.
LEMMA WorkerMoves ==
  ASSUME Next
  PROVE  Rests \/ \E w \in Workers : \/ Scans(w) \/ Drops(w)
                                     \/ \E m \in Messages : Takes(w, m)
                                     \/ \E p : Proceeds(w, p)
  <1>1. ASSUME NEW m \in Messages, Enqueue(m) \/ CleanupTerminal(m) PROVE Rests
    BY <1>1 DEF Enqueue, CleanupTerminal, Rests
  <1>2. ASSUME NEW w \in Workers, Start(w) \/ ExpireOne(w) \/ ReclaimOne(w) PROVE Scans(w)
    BY <1>2 DEF Start, ExpireOne, ReclaimOne, Goto, Scans, Working, table
  <1>3. ASSUME NEW w \in Workers, ClaimOne(w) PROVE Drops(w) \/ \E m \in Messages : Takes(w, m)
    <2>1. CASE Drop(w) /\ UNCHANGED table
      BY <1>3, <2>1 DEF ClaimOne, Drop, Goto, Drops, table
    <2>2. ASSUME NEW m \in Messages, NEW j, claims' = [claims EXCEPT ![m] = @ + 1],
                 j.msg = m, j.lease = claims[m] + 1,
                 job' = [job EXCEPT ![w] = j], Await(w, "claimed")
          PROVE  Takes(w, m)
      BY <1>3, <2>2 DEF ClaimOne, Await, Goto, Takes
    <2>3. CASE \E m \in Messages :
                 /\ claims' = [claims EXCEPT ![m] = @ + 1]
                 /\ job' = [job EXCEPT ![w] =
                      [msg |-> m, lease |-> claims[m] + 1, until |-> Later(at[w], LeaseSeconds),
                       expiresAt |-> row[m].expiresAt]]
                 /\ Await(w, "claimed")
      <3>1. PICK m \in Messages :
                 /\ claims' = [claims EXCEPT ![m] = @ + 1]
                 /\ job' = [job EXCEPT ![w] =
                      [msg |-> m, lease |-> claims[m] + 1, until |-> Later(at[w], LeaseSeconds),
                       expiresAt |-> row[m].expiresAt]]
                 /\ Await(w, "claimed")
        BY <2>3
      <3> DEFINE j == [msg |-> m, lease |-> claims[m] + 1,
                       until |-> Later(at[w], LeaseSeconds), expiresAt |-> row[m].expiresAt]
      <3>2. j.msg = m /\ j.lease = claims[m] + 1
        OBVIOUS
      <3>3. job' = [job EXCEPT ![w] = j]
        BY <3>1
      <3> HIDE DEF j
      <3> QED BY <2>2, <3>1, <3>2, <3>3
    <2> QED BY <1>3, <2>1, <2>3 DEF ClaimOne, First
  <1>4. ASSUME NEW w \in Workers, Interrupt(w) PROVE Drops(w)
    BY <1>4 DEF Interrupt, Drop, Goto, Drops, table
  <1>5. ASSUME NEW w \in Workers, NEW p, Working(w), pc' = [pc EXCEPT ![w] = p],
               p \notin {"idle", "expire", "reclaim", "claim", "mark_dispatched"},
               p \in PreSend => pc[w] \in PreSend,
               job' = job \/ \E t : job' = [job EXCEPT ![w].until = t],
               UNCHANGED <<claims, history>>
        PROVE  \E q : Proceeds(w, q)
    BY <1>5 DEF Proceeds, history
  <1>6. ASSUME NEW w \in Workers, CheckClaim(w) PROVE Drops(w) \/ \E p : Proceeds(w, p)
    BY <1>5, <1>6
    DEF CheckClaim, Continue, Drop, Goto, Drops, Working, PreSend, table
  <1>7. ASSUME NEW w \in Workers, RenewProcessing(w)
        PROVE  Drops(w) \/ \E p : Proceeds(w, p)
    BY <1>5, <1>7 DEF RenewProcessing, Renew, Await, Drop, Goto, Drops, Working, PreSend
  <1>8. ASSUME NEW w \in Workers, RenewDelivery(w)
        PROVE  Drops(w) \/ \E p : Proceeds(w, p)
    BY <1>5, <1>8 DEF RenewDelivery, Renew, Await, Drop, Goto, Drops, Working, PreSend
  <1>9. ASSUME NEW w \in Workers, Unseal(w) PROVE Drops(w) \/ \E p : Proceeds(w, p)
    BY <1>5, <1>9
    DEF Unseal, Continue, Await, Drop, Goto, Drops, Working, PreSend, table
  <1>10. ASSUME NEW w \in Workers, UnsealFailed(w) \/ Deliver(w) PROVE \E p : Proceeds(w, p)
    BY <1>5, <1>10 DEF UnsealFailed, Deliver, Continue, Goto, Working, PreSend, table
  <1>11. ASSUME NEW w \in Workers, Send(w) PROVE Drops(w) \/ \E p : Proceeds(w, p)
    <2>1. CASE StartSend(w)
      <3>1. Proceeds(w, "sending")
        BY <1>11, <2>1 DEF Send, StartSend, Await, Goto, Proceeds, Working, PreSend, table
      <3> QED BY <3>1
    <2>2. CASE Drop(w) /\ UNCHANGED sent
      BY <1>11, <2>2 DEF Send, Drop, Goto, Drops, history, table
    <2>3. CASE Continue(w, "mark_dead") /\ UNCHANGED sent
      BY <1>5, <1>11, <2>3 DEF Send, Continue, Goto, Working, PreSend, history, table
    <2> QED BY <1>11, <2>1, <2>2, <2>3 DEF Send
  <1>12. ASSUME NEW w \in Workers, SendReturns(w) PROVE \E p : Proceeds(w, p)
    <2>1. ASSUME acked' = [acked EXCEPT ![job[w].msg] = @ \cup {job[w].lease}],
                 Continue(w, "mark_dispatched")
          PROVE  Proceeds(w, "mark_dispatched")
      BY <1>12, <2>1 DEF SendReturns, Continue, Goto, Proceeds, Working, PreSend, table
    <2>2. CASE Continue(w, "mark_failed") /\ UNCHANGED acked
      BY <1>5, <1>12, <2>2 DEF SendReturns, Continue, Goto, Working, PreSend, history, table
    <2> QED BY <1>12, <2>1, <2>2 DEF SendReturns
  <1>13. ASSUME NEW w \in Workers, MarkDispatched(w) \/ MarkFailed(w) \/ MarkDead(w)
         PROVE  Drops(w)
    BY <1>13 DEF MarkDispatched, MarkFailed, MarkDead, Mark, Drop, Goto, Drops
  <1>14. CASE Tick
    BY <1>14 DEF Tick, Rests, table
  <1> QED BY <1>1, <1>2, <1>3, <1>4, <1>6, <1>7, <1>8, <1>9, <1>10, <1>11, <1>12, <1>13,
             <1>14 DEF Next, WorkerStep

-----------------------------------------------------------------------------
(* Leases                                                                  *)

\* What a worker holds was given to it, and nobody else.
Granted ==
  /\ \A w \in Workers : Working(w) => job[w].lease \in 1..claims[job[w].msg]
  /\ \A w, v \in Workers :
       w # v /\ Working(w) /\ Working(v) /\ job[w].msg = job[v].msg
         => job[w].lease # job[v].lease

\* Only leases that were given send, and not before their worker says so.
Sending ==
  /\ \A m \in Messages : sent[m] \subseteq 1..claims[m]
  /\ \A w \in Workers : pc[w] \in PreSend => job[w].lease \notin sent[job[w].msg]
  /\ \A w \in Workers : pc[w] = "mark_dispatched" => job[w].lease \in acked[job[w].msg]

Leases == Granted /\ Sending

\* The facts of TypeOK about the workers.
WorkersTyped ==
  /\ pc \in [Workers -> Phase] /\ job \in [Workers -> Job]
  /\ claims \in [Messages -> Nat]
  /\ sent \in [Messages -> SUBSET Nat] /\ acked \in [Messages -> SUBSET Nat]

\* Every step keeps what workers hold.
LEMMA BusyStep ==
  ASSUME TypeOK, Busy, Next
  PROVE  Busy'
  <1> WorkersTyped
    BY DEF TypeOK, WorkersTyped
  <1>1. CASE Rests
    BY <1>1 DEF Rests, Busy, Working
  <1>2. ASSUME NEW w \in Workers, Scans(w) \/ Drops(w) PROVE Busy'
    BY <1>2 DEF Scans, Drops, Busy, Working, WorkersTyped
  <1>3. ASSUME NEW w \in Workers, NEW m \in Messages, Takes(w, m) PROVE Busy'
    BY <1>3 DEF Takes, Busy, Working, WorkersTyped
  <1>4. ASSUME NEW w \in Workers, NEW p, Proceeds(w, p) PROVE Busy'
    <2>1. \A v \in Workers : job'[v].msg = job[v].msg
      BY <1>4 DEF Proceeds, WorkersTyped, Job
    <2>2. \A v \in Workers \ {w} : job'[v] = job[v]
      BY <1>4 DEF Proceeds, WorkersTyped
    <2> QED BY <1>4, <2>1, <2>2 DEF Proceeds, Busy, Working, WorkersTyped
  <1> QED BY <1>1, <1>2, <1>3, <1>4, WorkerMoves

\* Every step keeps the leases apart.
LEMMA LeasesStep ==
  ASSUME TypeOK, Busy, Leases, Next
  PROVE  Leases'
  <1> WorkersTyped
    BY DEF TypeOK, WorkersTyped
  <1>1. CASE Rests
    BY <1>1 DEF Rests, Leases, Granted, Sending, Working, history
  <1>2. ASSUME NEW w \in Workers, Scans(w) \/ Drops(w) PROVE Leases'
    <2>1. ~Working(w)' /\ pc'[w] \notin PreSend /\ pc'[w] # "mark_dispatched"
      BY <1>2 DEF Scans, Drops, Working, PreSend, WorkersTyped
    <2>2. \A v \in Workers \ {w} : pc'[v] = pc[v] /\ job'[v] = job[v]
      BY <1>2 DEF Scans, Drops, WorkersTyped
    <2>3. UNCHANGED <<claims, sent, acked>>
      BY <1>2 DEF Scans, Drops, history
    <2> QED BY <2>1, <2>2, <2>3 DEF Leases, Granted, Sending, Working
  <1>3. ASSUME NEW w \in Workers, NEW m \in Messages, Takes(w, m) PROVE Leases'
    <2>1. pc'[w] = "claimed" /\ job'[w].msg = m /\ job'[w].lease = claims[m] + 1
      BY <1>3 DEF Takes, WorkersTyped
    <2>2. \A v \in Workers \ {w} : pc'[v] = pc[v] /\ job'[v] = job[v]
      BY <1>3 DEF Takes, WorkersTyped
    <2>3. /\ UNCHANGED <<sent, acked>>
          /\ claims'[m] = claims[m] + 1 /\ claims[m] \in Nat
          /\ \A n \in Messages : claims[n] \in Nat /\ claims'[n] \in Nat /\ claims[n] <= claims'[n]
      BY <1>3 DEF Takes, WorkersTyped, history
    <2>4. \A v \in Workers : Working(v) => job[v].msg \in Messages /\ job[v].lease \in Nat
      BY DEF Busy, WorkersTyped, Job
    <2>5. Granted'
      BY <2>1, <2>2, <2>3, <2>4 DEF Leases, Granted, Working
    <2>6. Sending'
      <3>1. \A n \in Messages : sent'[n] \subseteq 1..claims'[n]
        BY <2>3 DEF Leases, Sending
      <3>2. claims[m] + 1 \notin sent[m]
        BY <2>3 DEF Leases, Sending
      <3> QED BY <2>1, <2>2, <2>3, <3>1, <3>2 DEF Leases, Sending
    <2> QED BY <2>5, <2>6 DEF Leases
  <1>4. ASSUME NEW w \in Workers, NEW p, Proceeds(w, p) PROVE Leases'
    <2> DEFINE m == job[w].msg
               l == job[w].lease
    <2>1. \A v \in Workers : job'[v].msg = job[v].msg /\ job'[v].lease = job[v].lease
      BY <1>4 DEF Proceeds, WorkersTyped, Job
    <2>2. /\ pc'[w] = p /\ Working(w) /\ Working(w)'
          /\ p \in PreSend => pc[w] \in PreSend
          /\ \A v \in Workers \ {w} : pc'[v] = pc[v]
          /\ UNCHANGED claims
      BY <1>4 DEF Proceeds, Working, WorkersTyped
    <2>3. m \in Messages /\ l \in 1..claims[m]
      BY <2>2 DEF Busy, Leases, Granted
    <2>4. Granted'
      BY <2>1, <2>2 DEF Leases, Granted, Working
    <2>5. /\ UNCHANGED sent
             \/ (p = "sending" /\ sent' = [sent EXCEPT ![m] = @ \cup {l}])
          /\ (UNCHANGED acked /\ p # "mark_dispatched")
             \/ acked' = [acked EXCEPT ![m] = @ \cup {l}]
      BY <1>4 DEF Proceeds
    <2>6. \A n \in Messages : sent'[n] \subseteq 1..claims'[n]
      BY <2>2, <2>3, <2>5 DEF Leases, Sending, WorkersTyped
    <2>7. ASSUME NEW v \in Workers, pc'[v] \in PreSend PROVE job'[v].lease \notin sent'[job'[v].msg]
      <3>1. pc[v] \in PreSend /\ job[v].lease \notin sent[job[v].msg] /\ Working(v)
        BY <2>2, <2>7 DEF Leases, Sending, Working, PreSend
      <3>2. CASE UNCHANGED sent
        BY <2>1, <3>1, <3>2
      <3>3. CASE p = "sending" /\ sent' = [sent EXCEPT ![m] = @ \cup {l}]
        <4>1. v # w
          BY <2>2, <2>7, <3>3 DEF PreSend
        <4>2. job[v].msg = m => job[v].lease # l
          BY <2>2, <3>1, <4>1 DEF Leases, Granted
        <4>3. job[v].msg \in Messages
          BY <3>1 DEF Busy
        <4> HIDE DEF m, l
        <4> QED BY <2>1, <2>3, <3>1, <3>3, <4>2, <4>3 DEF WorkersTyped
      <3> QED BY <2>5, <3>2, <3>3
    <2>8. ASSUME NEW v \in Workers, pc'[v] = "mark_dispatched"
          PROVE  job'[v].lease \in acked'[job'[v].msg]
      <3>1. \A n \in Messages : acked[n] \subseteq acked'[n]
        BY <2>3, <2>5 DEF WorkersTyped
      <3>2. CASE v = w
        <4>1. acked' = [acked EXCEPT ![m] = @ \cup {l}]
          BY <2>2, <2>5, <2>8, <3>2
        <4>2. l \in acked'[m]
          BY <2>3, <4>1 DEF WorkersTyped
        <4> QED BY <2>1, <3>2, <4>2
      <3>3. CASE v # w
        <4>1. pc[v] = "mark_dispatched" /\ job[v].lease \in acked[job[v].msg]
          BY <2>2, <2>8, <3>3 DEF Leases, Sending
        <4>2. job[v].msg \in Messages
          BY <4>1 DEF Busy, Working
        <4> QED BY <2>1, <3>1, <4>1, <4>2
      <3> QED BY <3>2, <3>3
    <2> QED BY <2>4, <2>6, <2>7, <2>8 DEF Leases, Sending
  <1> QED BY <1>1, <1>2, <1>3, <1>4, WorkerMoves

-----------------------------------------------------------------------------
(* The lease in the row                                                    *)

\* A claimed row has the last lease that was given.
Held == \A m \in Messages : row[m].status = "claimed" => row[m].lease = claims[m]

\* Every step keeps it, and what is dispatched was acknowledged.
LEMMA HeldStep ==
  ASSUME TypeOK, Busy, Leases, Held, DispatchedWasAcked, Next
  PROVE  Held' /\ DispatchedWasAcked'
  <1>1. \A n \in Messages : acked[n] \subseteq acked'[n]
    <2> WorkersTyped
      BY DEF TypeOK, WorkersTyped
    <2> QED BY WorkerMoves
        DEF Rests, Scans, Drops, Takes, Proceeds, history, WorkersTyped
  <1>2. CASE Still
    BY <1>1, <1>2 DEF Still, Held, DispatchedWasAcked
  <1>3. ASSUME NEW m \in Messages, Moved(m) PROVE Held' /\ DispatchedWasAcked'
    <2>1. PICK new \in Row : Moves(m, new)
      BY <1>3 DEF Moved
    <2>2. row' = [row EXCEPT ![m] = new]
      BY <2>1 DEF Moves
    <2>3. row \in [Messages -> Row] /\ claims \in [Messages -> Nat] /\ NoRow.status = "none"
      BY DEF TypeOK, NoRow
    <2>4. row'[m] = new /\ \A n \in Messages \ {m} : row'[n] = row[n]
      BY <2>2, <2>3
    <2>5. CASE Enqueued(m, new)
      BY <1>1, <2>4, <2>5 DEF Enqueued, Held, DispatchedWasAcked
    <2>6. CASE Taken(m, new)
      <3>1. claims'[m] = claims[m] + 1 /\ \A n \in Messages \ {m} : claims'[n] = claims[n]
        BY <2>3, <2>6 DEF Taken
      <3> QED BY <1>1, <2>4, <2>6, <3>1 DEF Taken, Held, DispatchedWasAcked
    <2>7. CASE Settled(m, new)
      <3>1. UNCHANGED claims /\ new.status # "claimed"
        BY <2>3, <2>7 DEF Settled, IsCharged
      <3>2. ASSUME new.status = "dispatched" PROVE claims[m] \in acked[m]
        <4>1. PICK w \in Workers : /\ pc[w] = "mark_dispatched" /\ job[w].msg = m
                                  /\ job[w].lease = row[m].lease /\ row[m].status = "claimed"
          BY <2>3, <2>7, <3>2 DEF Settled, IsCharged
        <4> QED BY <4>1 DEF Held, Leases, Sending
      <3> QED BY <1>1, <2>4, <3>1, <3>2 DEF Held, DispatchedWasAcked
    <2> QED BY <2>1, <2>5, <2>6, <2>7 DEF Moves
  <1> QED BY <1>2, <1>3, RowMoves

\* A claim that is in its row knows how long it lasts.
Matching ==
  \A w \in Workers :
    LET r == row[job[w].msg] IN
    Working(w) /\ r.status = "claimed" /\ r.lease = job[w].lease =>
      r.leaseUntil = job[w].until /\ r.expiresAt = job[w].expiresAt

\* Every step keeps that.
LEMMA MatchingStep ==
  ASSUME TypeOK, TypeOK', Busy, Busy', Leases, Matching, Next
  PROVE  Matching'
  <1> DEFINE In(w) == LET r == row[job[w].msg] IN
                      Working(w) /\ r.status = "claimed" /\ r.lease = job[w].lease
             Match(w) == LET r == row[job[w].msg] IN
                         r.leaseUntil = job[w].until /\ r.expiresAt = job[w].expiresAt
  <1> SUFFICES ASSUME NEW w \in Workers, In(w)' PROVE Match(w)'
    BY DEF Matching
  <1> DEFINE m == job[w].msg
  <1>1. ASSUME job'[w] = job[w] PROVE Working(w) /\ m \in Messages
    BY <1>1 DEF Busy, NoJob
  <1>2. ASSUME job'[w] = job[w], row'[m] = row[m] PROVE Match(w)'
    BY <1>1, <1>2 DEF Matching
  <1>3. ASSUME NEW n \in Messages, NEW r, row' = [row EXCEPT ![n] = r], r.status # "claimed",
               job'[w] = job[w]
        PROVE  Match(w)'
    <2>1. row'[n] = r /\ \A k \in Messages \ {n} : row'[k] = row[k]
      BY <1>3 DEF TypeOK
    <2>2. n # m
      BY <1>3, <2>1
    <2> QED BY <1>1, <1>2, <1>3, <2>1, <2>2
  <1>4. ASSUME NEW v \in Workers, Drop(v) PROVE v # w /\ job'[w] = job[w]
    BY <1>4 DEF Drop, Goto, Working, TypeOK
  <1>5. ASSUME NEW n \in Messages, Enqueue(n) PROVE Match(w)'
    <2>1. PICK e \in (clock + 1)..Never : row' = [row EXCEPT ![n] = NewRow(clock, e)]
      BY <1>5 DEF Enqueue
    <2>2. NewRow(clock, e).status = "pending"
      <3>1. clock \in Time /\ e \in Time \cup {Never}
        BY DEF TypeOK, Time, Never
      <3> QED BY <3>1, NewRowFields
    <2>3. job'[w] = job[w]
      BY <1>5 DEF Enqueue
    <2> QED BY <1>3, <2>1, <2>2, <2>3
  <1>6. ASSUME NEW n \in Messages, CleanupTerminal(n) PROVE Match(w)'
    <2>1. row' = [row EXCEPT ![n] = NoRow] /\ UNCHANGED job /\ NoRow.status = "none"
      BY <1>6 DEF CleanupTerminal, NoRow
    <2> QED BY <1>3, <2>1
  <1>7. ASSUME UNCHANGED <<job, row>> PROVE Match(w)'
    BY <1>2, <1>7
  <1>8. ASSUME NEW v \in Workers, ExpireOne(v) \/ ReclaimOne(v) PROVE Match(w)'
    <2>1. UNCHANGED job
      BY <1>8 DEF ExpireOne, ReclaimOne
    <2>2. \A n \in Messages : /\ Expired(row[n]).status # "claimed"
                             /\ Reclaimed(row[n], at[v]).status # "claimed"
      <3>1. at[v] \in Time /\ \A n \in Messages : row[n] \in Row
        BY DEF TypeOK
      <3> QED BY <3>1, ExpiredFields, ReclaimedFields DEF IsCharged
    <2>3. UNCHANGED row \/ \E n \in Messages : \/ row' = [row EXCEPT ![n] = Expired(@)]
                                              \/ row' = [row EXCEPT ![n] = Reclaimed(@, at[v])]
      BY <1>8 DEF ExpireOne, ReclaimOne, First
    <2> QED BY <1>3, <1>7, <2>1, <2>2, <2>3
  <1>9. ASSUME NEW v \in Workers, ClaimOne(v) PROVE Match(w)'
    <2>1. CASE Drop(v) /\ UNCHANGED table
      BY <1>2, <1>4, <2>1 DEF table
    <2>2. ASSUME NEW n \in Messages, NEW r, NEW j,
                 row' = [row EXCEPT ![n] = r], job' = [job EXCEPT ![v] = j],
                 r.lease = claims[n] + 1, j.msg = n,
                 r.leaseUntil = j.until, r.expiresAt = j.expiresAt
          PROVE  Match(w)'
      <3>1. row'[n] = r /\ job'[v] = j /\ \A k \in Messages \ {n} : row'[k] = row[k]
        BY <2>2 DEF TypeOK
      <3>2. CASE v = w
        BY <2>2, <3>1, <3>2
      <3>3. CASE v # w
        <4>1. job'[w] = job[w]
          BY <2>2, <3>3 DEF TypeOK
        <4>2. job[w].lease \in 1..claims[m] /\ claims[m] \in Nat
          BY <1>1, <4>1 DEF Leases, Granted, TypeOK
        <4>3. n # m
          BY <2>2, <3>1, <4>1, <4>2
        <4> QED BY <1>1, <1>2, <3>1, <4>1, <4>3
      <3> QED BY <3>2, <3>3
    <2>3. CASE \E n \in Messages :
                 /\ row' = [row EXCEPT ![n] = Claimed(@, claims[n] + 1, at[v])]
                 /\ job' = [job EXCEPT ![v] =
                      [msg |-> n, lease |-> claims[n] + 1, until |-> Later(at[v], LeaseSeconds),
                       expiresAt |-> row[n].expiresAt]]
      <3>1. PICK n \in Messages :
                 /\ row' = [row EXCEPT ![n] = Claimed(@, claims[n] + 1, at[v])]
                 /\ job' = [job EXCEPT ![v] =
                      [msg |-> n, lease |-> claims[n] + 1, until |-> Later(at[v], LeaseSeconds),
                       expiresAt |-> row[n].expiresAt]]
        BY <2>3
      <3> DEFINE r == Claimed(row[n], claims[n] + 1, at[v])
                 j == [msg |-> n, lease |-> claims[n] + 1,
                       until |-> Later(at[v], LeaseSeconds), expiresAt |-> row[n].expiresAt]
      <3>2. /\ r.lease = claims[n] + 1
            /\ r.leaseUntil = Later(at[v], LeaseSeconds) /\ r.expiresAt = row[n].expiresAt
        <4>1. row[n] \in Row /\ claims[n] + 1 \in Nat /\ at[v] \in Time
          BY DEF TypeOK
        <4> QED BY <4>1, ClaimedFields
      <3>3. /\ j.msg = n /\ j.until = Later(at[v], LeaseSeconds)
            /\ j.expiresAt = row[n].expiresAt
        OBVIOUS
      <3>4. row' = [row EXCEPT ![n] = r] /\ job' = [job EXCEPT ![v] = j]
        BY <3>1
      <3> HIDE DEF r, j
      <3> QED BY <2>2, <3>2, <3>3, <3>4
    <2> QED BY <1>9, <2>1, <2>3 DEF ClaimOne, First
  <1>10. ASSUME NEW v \in Workers, \/ Start(v) \/ CheckClaim(v) \/ Unseal(v) \/ UnsealFailed(v)
                                  \/ Deliver(v) \/ Send(v) \/ SendReturns(v) \/ Interrupt(v)
         PROVE  Match(w)'
    BY <1>2, <1>4, <1>7, <1>10
    DEF Start, CheckClaim, Unseal, UnsealFailed, Deliver, Send, StartSend, SendReturns, Interrupt,
        Continue, table
  <1>11. ASSUME NEW v \in Workers, Renew(v, "renew1", "unseal") \/ Renew(v, "renew2", "send")
         PROVE  Match(w)'
    <2> DEFINE n == job[v].msg
    <2>1. Working(v) /\ n \in Messages
      BY <1>11 DEF Renew, Working, Busy
    <2>2. CASE Drop(v) /\ UNCHANGED row
      BY <1>2, <1>4, <2>2
    <2>3. CASE /\ Holds(row[n], job[v].lease, at[v])
               /\ row' = [row EXCEPT ![n] = Renewed(@, at[v])]
               /\ job' = [job EXCEPT ![v].until = Later(at[v], LeaseSeconds)]
      <3> DEFINE r == Renewed(row[n], at[v])
      <3>1. /\ r.status = row[n].status /\ r.lease = row[n].lease
            /\ r.leaseUntil = Later(at[v], LeaseSeconds) /\ r.expiresAt = row[n].expiresAt
        <4>1. row[n] \in Row /\ at[v] \in Time
          BY <2>1 DEF TypeOK
        <4> QED BY <4>1, RenewedFields
      <3>2. row' = [row EXCEPT ![n] = r]
        BY <2>3
      <3> HIDE DEF r
      <3>3. row'[n] = r /\ \A k \in Messages \ {n} : row'[k] = row[k]
        BY <2>1, <3>2 DEF TypeOK
      <3>4. row[n].status = "claimed" /\ row[n].lease = job[v].lease
        BY <2>3 DEF Holds
      <3>5. CASE v = w
        <4>1. /\ job'[w].msg = n /\ job'[w].until = Later(at[v], LeaseSeconds)
              /\ job'[w].expiresAt = job[w].expiresAt
          BY <2>3, <3>5 DEF TypeOK, Job
        <4>2. row[n].expiresAt = job[w].expiresAt
          BY <2>1, <3>4, <3>5 DEF Matching
        <4> QED BY <3>1, <3>3, <4>1, <4>2
      <3>6. CASE v # w
        <4>1. job'[w] = job[w]
          BY <2>3, <3>6 DEF TypeOK
        <4>2. n # m
          <5>1. Working(w)
            BY <1>1, <4>1
          <5>2. n = m => job[w].lease # job[v].lease
            BY <2>1, <3>6, <5>1 DEF Leases, Granted
          <5> QED BY <3>1, <3>3, <3>4, <4>1, <5>2
        <4> QED BY <1>1, <1>2, <3>3, <4>1, <4>2
      <3> QED BY <3>5, <3>6
    <2> QED BY <1>11, <2>2, <2>3 DEF Renew
  <1>12. ASSUME NEW v \in Workers, MarkDispatched(v) \/ MarkFailed(v) \/ MarkDead(v)
         PROVE  Match(w)'
    <2> DEFINE n == job[v].msg
    <2>1. Drop(v) /\ Working(v)
      BY <1>12 DEF MarkDispatched, MarkFailed, MarkDead, Mark, Working
    <2>2. n \in Messages /\ row[n] \in Row
      BY <2>1 DEF Busy, TypeOK
    <2>3. UNCHANGED row \/ \E new : row' = [row EXCEPT ![n] = new] /\ new.status # "claimed"
      BY <1>12, <2>2, MarkEffect, DispatchedFields DEF IsCharged
    <2> QED BY <1>2, <1>3, <1>4, <2>1, <2>2, <2>3
  <1>13. CASE Tick
    BY <1>7, <1>13 DEF Tick, table
  <1> QED BY <1>5, <1>6, <1>8, <1>9, <1>10, <1>11, <1>12, <1>13
      DEF Next, WorkerStep, RenewProcessing, RenewDelivery

-----------------------------------------------------------------------------
(* Synchronized clocks                                                     *)

Synchronized == \A w \in Workers : offset[w] = 0

\* No worker holds a reading from the future.
Reading == Synchronized => \A w \in Workers : at[w] <= clock

\* While its lease and its message last, a worker's claim is in the row.
Fenced ==
  Synchronized =>
    \A w \in Workers :
      Working(w) /\ job[w].until > clock /\ job[w].expiresAt > clock =>
        LET r == row[job[w].msg] IN
          /\ r.status = "claimed" /\ r.lease = job[w].lease
          /\ r.leaseUntil = job[w].until /\ r.expiresAt = job[w].expiresAt

\* The clocks tell the time.
LEMMA NowIsClock == ASSUME TypeOK, Synchronized, NEW w \in Workers PROVE Now(w) = clock
  BY LaterZero DEF Now, Synchronized, TypeOK

\* A step lets time pass or moves one worker's reading.
LEMMA ReadingStep ==
  ASSUME TypeOK, Reading, Next
  PROVE  Reading' /\ UNCHANGED offset
  <1> DEFINE Sets(w, t) == /\ at' = [at EXCEPT ![w] = t]
                           /\ t \in {0, at[w], Now(w)} /\ UNCHANGED <<clock, offset>>
  <1>1. ASSUME UNCHANGED at, UNCHANGED offset, clock' \in Nat, clock <= clock'
        PROVE  Reading'
    BY <1>1 DEF Reading, Synchronized, TypeOK, Time
  <1>2. ASSUME NEW w \in Workers, NEW t, Sets(w, t) PROVE Reading' /\ UNCHANGED offset
    <2>1. Synchronized => t <= clock
      BY <1>2, NowIsClock DEF Reading, TypeOK, Time
    <2> QED BY <1>2, <2>1 DEF Reading, Synchronized, TypeOK
  <1>3. clock \in Nat
    BY DEF TypeOK, Time
  <1>4. ASSUME NEW m \in Messages, Enqueue(m) \/ CleanupTerminal(m)
        PROVE  Reading' /\ UNCHANGED offset
    BY <1>1, <1>3, <1>4 DEF Enqueue, CleanupTerminal
  <1>5. ASSUME NEW w \in Workers, WorkerStep(w) \/ Interrupt(w)
        PROVE  UNCHANGED <<clock, offset>> /\ (UNCHANGED at \/ \E t : Sets(w, t))
    <2>1. CASE Start(w)
      BY <2>1 DEF Start, ReadClock
    <2>2. CASE ExpireOne(w) \/ ReclaimOne(w)
      BY <2>2 DEF ExpireOne, ReclaimOne
    <2>3. CASE ClaimOne(w)
      BY <2>3 DEF ClaimOne, Drop, Await
    <2>4. CASE CheckClaim(w) \/ Unseal(w) \/ UnsealFailed(w) \/ Deliver(w)
      BY <2>4 DEF CheckClaim, Unseal, UnsealFailed, Deliver, Drop, Await, Continue, ReadClock
    <2>5. CASE RenewProcessing(w) \/ RenewDelivery(w)
      BY <2>5 DEF RenewProcessing, RenewDelivery, Renew, Drop, Await
    <2>6. CASE Send(w) \/ SendReturns(w)
      BY <2>6 DEF Send, SendReturns, StartSend, Drop, Await, Continue, ReadClock
    <2>7. CASE MarkDispatched(w) \/ MarkFailed(w) \/ MarkDead(w)
      BY <2>7 DEF MarkDispatched, MarkFailed, MarkDead, Mark, Drop
    <2>8. CASE Interrupt(w)
      BY <2>8 DEF Interrupt, Drop
    <2> QED BY <1>5, <2>1, <2>2, <2>3, <2>4, <2>5, <2>6, <2>7, <2>8 DEF WorkerStep
  <1>6. CASE Tick
    BY <1>1, <1>3, <1>6 DEF Tick
  <1> QED BY <1>1, <1>2, <1>3, <1>4, <1>5, <1>6 DEF Next

Guarded(w) == Working(w) /\ job[w].until > clock /\ job[w].expiresAt > clock

InRow(w) ==
  /\ row[job[w].msg].status = "claimed"
  /\ row[job[w].msg].lease = job[w].lease
  /\ row[job[w].msg].leaseUntil = job[w].until
  /\ row[job[w].msg].expiresAt = job[w].expiresAt

\* Every step keeps the fence.
LEMMA FencedStep ==
  ASSUME TypeOK, TypeOK', Busy, Busy', Leases, Matching, Reading, Fenced, Next
  PROVE  Fenced'
  <1> SUFFICES ASSUME Synchronized', NEW w \in Workers, Guarded(w)' PROVE InRow(w)'
    BY DEF Fenced, Guarded, InRow
  <1> DEFINE m == job[w].msg
  <1>1. Synchronized
    BY ReadingStep DEF Synchronized
  <1>2. clock \in Nat /\ clock' \in Nat /\ clock <= clock'
    <2>1. clock \in Nat /\ clock' \in Nat
      BY DEF TypeOK, Time
    <2>2. clock' = clock \/ clock' = clock + 1
      BY DEF Next, WorkerStep, Enqueue, CleanupTerminal, Start, ExpireOne, ReclaimOne, ClaimOne,
             CheckClaim, RenewProcessing, RenewDelivery, Renew, Unseal, UnsealFailed, Deliver,
             Send, SendReturns, MarkDispatched, MarkFailed, MarkDead, Mark, Interrupt, Tick
    <2> QED BY <2>1, <2>2
  <1>3. ASSUME job'[w] = job[w] PROVE Working(w) /\ m \in Messages /\ Guarded(w) /\ InRow(w)
    <2>1. Working(w) /\ m \in Messages
      BY <1>3 DEF Guarded, Busy, NoJob
    <2>2. job[w].until \in Nat /\ job[w].expiresAt \in Nat
      BY DEF TypeOK, Job, Time, Never
    <2>3. Guarded(w)
      BY <1>2, <1>3, <2>1, <2>2 DEF Guarded
    <2> QED BY <1>1, <2>1, <2>3 DEF Fenced, Guarded, InRow
  <1>4. ASSUME job'[w] = job[w], row'[m] = row[m] PROVE InRow(w)'
    BY <1>3, <1>4 DEF InRow
  <1>5. ASSUME NEW n \in Messages, Enqueue(n) \/ CleanupTerminal(n) PROVE InRow(w)'
    <2>1. UNCHANGED job /\ row[n].status # "claimed" /\ \A k \in Messages \ {n} : row'[k] = row[k]
      BY <1>5 DEF Enqueue, CleanupTerminal, Deletable, NoRow, TypeOK
    <2> QED BY <1>3, <1>4, <2>1 DEF InRow
  <1>6. ASSUME UNCHANGED <<job, row>> PROVE InRow(w)'
    BY <1>4, <1>6
  <1>7. ASSUME NEW v \in Workers, Drop(v), v = w PROVE FALSE
    BY <1>7 DEF Drop, Goto, Guarded, Working, TypeOK
  <1>8. ASSUME NEW v \in Workers, Drop(v), UNCHANGED row PROVE InRow(w)'
    <2>1. v # w => job'[w] = job[w]
      BY <1>8 DEF Drop, TypeOK
    <2> QED BY <1>4, <1>7, <1>8, <2>1
  <1>9. ASSUME NEW v \in Workers, Start(v) PROVE InRow(w)'
    BY <1>6, <1>9 DEF Start, table
  <1>10. ASSUME NEW v \in Workers, ExpireOne(v) \/ ReclaimOne(v) PROVE InRow(w)'
    <2>1. job'[w] = job[w]
      BY <1>10 DEF ExpireOne, ReclaimOne
    <2>2. ~Expirable(row[m], at[v]) /\ ~Abandoned(row[m], at[v])
      <3>1. at[v] <= clock /\ at[v] \in Nat
        BY <1>1 DEF Reading, TypeOK, Time
      <3>2. row[m].leaseUntil > clock /\ row[m].expiresAt > clock
        BY <1>3, <2>1 DEF Guarded, InRow
      <3>3. row[m].leaseUntil \in Nat /\ row[m].expiresAt \in Nat
        BY <1>3, <2>1 DEF TypeOK, Row, Time, Never
      <3> QED BY <1>2, <3>1, <3>2, <3>3 DEF Expirable, Abandoned
    <2>3. row'[m] = row[m]
      <3> m \in Messages
        BY <1>3, <2>1
      <3>1. CASE UNCHANGED row
        BY <3>1
      <3>2. ASSUME NEW n \in Messages, NEW r, n # m, row' = [row EXCEPT ![n] = r]
            PROVE  row'[m] = row[m]
        BY <3>2 DEF TypeOK
      <3> HIDE DEF m
      <3> QED BY <1>10, <2>2, <3>1, <3>2 DEF ExpireOne, ReclaimOne, First
    <2> QED BY <1>4, <2>1, <2>3
  <1>11. ASSUME NEW v \in Workers, ClaimOne(v) PROVE InRow(w)'
    <2>1. CASE Drop(v) /\ UNCHANGED table
      BY <1>8, <2>1 DEF table
    <2>2. ASSUME NEW n \in Messages, Claimable(row[n], at[v]),
                 row' = [row EXCEPT ![n] = Claimed(@, claims[n] + 1, at[v])],
                 job' = [job EXCEPT ![v] =
                   [msg |-> n, lease |-> claims[n] + 1, until |-> Later(at[v], LeaseSeconds),
                    expiresAt |-> row[n].expiresAt]]
          PROVE  InRow(w)'
      <3>1. CASE v # w
        <4>1. job'[w] = job[w]
          BY <2>2, <3>1 DEF TypeOK
        <4>2. n # m
          BY <1>3, <2>2, <4>1 DEF InRow, Claimable
        <4>3. row'[m] = row[m]
          BY <1>3, <2>2, <4>1, <4>2 DEF TypeOK
        <4> QED BY <1>4, <4>1, <4>3
      <3>2. CASE v = w
        <4> DEFINE r == Claimed(row[n], claims[n] + 1, at[v])
                   j == [msg |-> n, lease |-> claims[n] + 1,
                         until |-> Later(at[v], LeaseSeconds), expiresAt |-> row[n].expiresAt]
        <4>1. /\ r.status = "claimed" /\ r.lease = claims[n] + 1
              /\ r.leaseUntil = Later(at[v], LeaseSeconds) /\ r.expiresAt = row[n].expiresAt
          <5>1. row[n] \in Row /\ claims[n] + 1 \in Nat /\ at[v] \in Time
            BY DEF TypeOK
          <5> QED BY <5>1, ClaimedFields
        <4>2. /\ j.msg = n /\ j.lease = claims[n] + 1
              /\ j.until = Later(at[v], LeaseSeconds) /\ j.expiresAt = row[n].expiresAt
          OBVIOUS
        <4>3. row' = [row EXCEPT ![n] = r] /\ job' = [job EXCEPT ![v] = j]
          BY <2>2
        <4> HIDE DEF r, j
        <4>4. row'[n] = r /\ job'[w] = j
          BY <3>2, <4>3 DEF TypeOK
        <4> QED BY <4>1, <4>2, <4>4 DEF InRow
      <3> QED BY <3>1, <3>2
    <2> QED BY <1>11, <2>1, <2>2 DEF ClaimOne, First
  <1>12. ASSUME NEW v \in Workers, \/ CheckClaim(v) \/ Unseal(v) \/ UnsealFailed(v) \/ Deliver(v)
                                  \/ Send(v) \/ SendReturns(v) \/ Interrupt(v)
         PROVE  InRow(w)'
    BY <1>6, <1>8, <1>12
    DEF CheckClaim, Unseal, UnsealFailed, Deliver, Send, StartSend, SendReturns, Interrupt,
        Continue, table
  <1>13. ASSUME NEW v \in Workers, v # w, job'[w] = job[w], Working(v),
                Holds(row[job[v].msg], job[v].lease, at[v])
         PROVE  job[v].msg # m
    BY <1>3, <1>13 DEF Holds, InRow, Leases, Granted
  <1>14. ASSUME NEW v \in Workers, NEW from, NEW to, Renew(v, from, to), Working(v) PROVE InRow(w)'
    <2> DEFINE n == job[v].msg
    <2> n \in Messages
      BY <1>14 DEF Busy
    <2>1. CASE Drop(v) /\ UNCHANGED row
      BY <1>8, <2>1
    <2>2. CASE /\ Holds(row[n], job[v].lease, at[v])
               /\ row' = [row EXCEPT ![n] = Renewed(@, at[v])]
               /\ job' = [job EXCEPT ![v].until = Later(at[v], LeaseSeconds)]
      <3>1. CASE v # w
        <4>1. job'[w] = job[w]
          BY <2>2, <3>1 DEF TypeOK
        <4>2. row'[m] = row[m]
          BY <1>3, <1>13, <1>14, <2>2, <3>1, <4>1 DEF TypeOK
        <4> QED BY <1>4, <4>1, <4>2
      <3>2. CASE v = w
        <4>1. /\ job'[w].msg = n /\ job'[w].lease = job[w].lease
              /\ job'[w].until = Later(at[v], LeaseSeconds) /\ job'[w].expiresAt = job[w].expiresAt
          BY <2>2, <3>2 DEF TypeOK, Job
        <4> DEFINE r == Renewed(row[n], at[v])
        <4>2. /\ r.status = row[n].status /\ r.lease = row[n].lease
              /\ r.leaseUntil = Later(at[v], LeaseSeconds) /\ r.expiresAt = row[n].expiresAt
          <5>1. row[n] \in Row /\ at[v] \in Time
            BY DEF TypeOK
          <5> QED BY <5>1, RenewedFields
        <4> HIDE DEF r
        <4>3. row'[n] = r
          BY <2>2 DEF TypeOK, r
        <4>4. row[n].expiresAt = job[w].expiresAt
          BY <1>14, <2>2, <3>2 DEF Matching, Holds
        <4> QED BY <2>2, <3>2, <4>1, <4>2, <4>3, <4>4 DEF Holds, InRow
      <3> QED BY <3>1, <3>2
    <2> QED BY <1>14, <2>1, <2>2 DEF Renew
  <1>15. ASSUME NEW v \in Workers, MarkDispatched(v) \/ MarkFailed(v) \/ MarkDead(v)
         PROVE  InRow(w)'
    <2> DEFINE n == job[v].msg
    <2>1. Drop(v) /\ Working(v)
      BY <1>15 DEF MarkDispatched, MarkFailed, MarkDead, Mark, Working
    <2>2. n \in Messages /\ v # w /\ job'[w] = job[w]
      BY <1>7, <2>1 DEF Drop, Busy, TypeOK
    <2>3. UNCHANGED row \/ (/\ Holds(row[n], job[v].lease, at[v])
                            /\ \E new : row' = [row EXCEPT ![n] = new])
      BY <1>15, <2>2, MarkEffect
    <2>4. row'[m] = row[m]
      BY <1>3, <1>13, <2>1, <2>2, <2>3 DEF TypeOK
    <2> QED BY <1>4, <2>2, <2>4
  <1>16. CASE Tick
    BY <1>6, <1>16 DEF Tick, table
  <1>17. ASSUME NEW v \in Workers, RenewProcessing(v) \/ RenewDelivery(v) PROVE InRow(w)'
    BY <1>14, <1>17 DEF RenewProcessing, RenewDelivery, Renew, Working
  <1> QED BY <1>5, <1>9, <1>10, <1>11, <1>12, <1>15, <1>16, <1>17 DEF Next, WorkerStep

-----------------------------------------------------------------------------
(* The invariant                                                           *)

\* What every reachable state satisfies: the properties and what they rest on.
IInv ==
  /\ TypeOK /\ Busy
  /\ Charging /\ ClaimsAreCharged
  /\ Leases /\ Held /\ DispatchedWasAcked
  /\ Matching /\ Reading /\ Fenced

\* It holds before anything is enqueued, with all workers idle.
LEMMA Initially == Init => IInv
  <1> SUFFICES ASSUME Init PROVE IInv
    OBVIOUS
  <1>1. TypeOK
    <2>1. NoJob \in Job /\ "idle" \in Phase /\ 0 \in Time
      BY DEF NoJob, Job, Phase, Time, Never, NoLease
    <2> QED BY <2>1, NoRowType DEF Init, TypeOK
  <1>2. \A w \in Workers : ~Working(w) /\ pc[w] = "idle" /\ job[w] = NoJob /\ at[w] = 0
    BY DEF Init, Working
  <1>3. \A m \in Messages : /\ row[m].status = "none"
                           /\ claims[m] = 0 /\ base[m] = 0 /\ sent[m] = {}
    BY DEF Init, NoRow
  <1>4. Busy /\ Leases /\ Matching /\ Fenced
    BY <1>2, <1>3 DEF Busy, Leases, Granted, Sending, Matching, Fenced, PreSend
  <1>5. Charging /\ ClaimsAreCharged /\ Held /\ DispatchedWasAcked
    BY <1>3 DEF Charging, ClaimsAreCharged, Held, DispatchedWasAcked
  <1>6. Reading
    BY <1>2 DEF Init, Reading
  <1> QED BY <1>1, <1>4, <1>5, <1>6 DEF IInv

\* Every step of a worker, a producer, retention or the clock keeps it.
LEMMA Inductive == IInv /\ [Next]_vars => IInv'
  <1> SUFFICES ASSUME IInv, [Next]_vars PROVE IInv'
    OBVIOUS
  <1>1. CASE Next
    <2>1. TypeOK' /\ Busy'
      BY <1>1, TypeStep, BusyStep DEF IInv
    <2>2. Charging' /\ ClaimsAreCharged'
      BY <1>1, <2>1, ChargingStep DEF IInv
    <2>3. Leases' /\ Held' /\ DispatchedWasAcked'
      BY <1>1, LeasesStep, HeldStep DEF IInv
    <2>4. Matching' /\ Reading' /\ Fenced'
      BY <1>1, <2>1, MatchingStep, ReadingStep, FencedStep DEF IInv
    <2> QED BY <2>1, <2>2, <2>3, <2>4 DEF IInv
  <1>2. CASE UNCHANGED vars
    BY <1>2
    DEF vars, table, history, bounds, IInv, TypeOK, Busy, Working, Charging, ClaimsAreCharged,
        Leases, Granted, Sending, Held, DispatchedWasAcked, Matching, Reading, Fenced, Synchronized
  <1> QED BY <1>1, <1>2

\* The inductive invariant holds in every behaviour of workers, producers and
\* retention.
THEOREM Invariance == Spec => []IInv
  BY Initially, Inductive, PTL DEF Spec

\* Every variable keeps its type.
THEOREM TypeCorrect == Spec => []TypeOK
  BY Invariance, PTL DEF IInv

\* Each attempt in a row's counter is one claim, under way or counted once.
THEOREM ChargesExact == Spec => []ClaimsAreCharged
  BY Invariance, PTL DEF IInv

\* A dispatched row was acknowledged under the last lease it was given.
THEOREM DispatchAcknowledged == Spec => []DispatchedWasAcked
  BY Invariance, PTL DEF IInv

\* However many workers race and die, a message is handed to the transport at
\* most MaxAttempts times.
THEOREM BoundedSends == Spec => []SendsBounded
  <1>1. ASSUME IInv PROVE SendsBounded
    <2> SUFFICES ASSUME NEW m \in Messages PROVE Cardinality(Sends(m)) <= MaxAttempts
      BY DEF SendsBounded
    <2>1. /\ claims[m] \in Nat /\ base[m] \in Nat /\ sent[m] \subseteq 1..claims[m]
          /\ base[m] <= claims[m] /\ claims[m] - base[m] <= MaxAttempts
      BY <1>1 DEF IInv, TypeOK, Charging, Leases, Sending
    <2>2. Sends(m) \subseteq (base[m] + 1)..claims[m]
      BY <2>1 DEF Sends
    <2>3. /\ IsFiniteSet((base[m] + 1)..claims[m])
          /\ Cardinality((base[m] + 1)..claims[m]) <= MaxAttempts
      <3>1. base[m] + 1 \in Int /\ claims[m] \in Int
        BY <2>1
      <3> DEFINE a == base[m] + 1
      <3>2. /\ IsFiniteSet(a..claims[m])
            /\ Cardinality(a..claims[m]) = IF a > claims[m] THEN 0 ELSE claims[m] - a + 1
        <4> HIDE DEF a
        <4> QED BY <3>1, FS_Interval DEF a
      <3>3. (IF a > claims[m] THEN 0 ELSE claims[m] - a + 1) <= MaxAttempts
        BY <2>1
      <3> QED BY <3>2, <3>3
    <2>4. /\ IsFiniteSet(Sends(m))
          /\ Cardinality(Sends(m)) <= Cardinality((base[m] + 1)..claims[m])
      BY <2>2, <2>3, FS_Subset
    <2>5. Cardinality(Sends(m)) \in Nat /\ Cardinality((base[m] + 1)..claims[m]) \in Nat
      BY <2>3, <2>4, FS_CardinalityType
    <2> QED BY <2>3, <2>4, <2>5
  <1> QED BY <1>1, Invariance, PTL

\* No two workers act under one lease, and no lease sends twice.
THEOREM OneSendPerLease == Spec => []LeaseSendsOnce
  <1>1. ASSUME IInv PROVE LeaseSendsOnce
    <2> SUFFICES ASSUME NEW w \in Workers, pc[w] \in PreSend, NEW v \in Workers \ {w},
                        job[v].msg = job[w].msg
                 PROVE  job[v].lease # job[w].lease
      BY <1>1 DEF IInv, Leases, Sending, LeaseSendsOnce
    <2>1. Working(w) /\ job[w].msg \in Messages
      BY <1>1 DEF IInv, Busy, Working, PreSend
    <2>2. Working(v)
      BY <1>1, <2>1 DEF IInv, Busy, NoJob
    <2> QED BY <1>1, <2>1, <2>2 DEF IInv, Leases, Granted
  <1> QED BY <1>1, Invariance, PTL

\* Only Send starts a send.
LEMMA SendStarts ==
  ASSUME TypeOK, Next, NEW w \in Workers, pc[w] = "send", pc'[w] = "sending"
  PROVE  ~Late(w) /\ ~Lapsed(w)
  <1>1. ASSUME NEW v \in Workers, NEW p, pc' = [pc EXCEPT ![v] = p] PROVE v = w /\ p = "sending"
    BY <1>1 DEF TypeOK
  <1>2. ~UNCHANGED pc
    OBVIOUS
  <1>3. PICK v \in Workers : WorkerStep(v) \/ Interrupt(v)
    BY <1>2 DEF Next, Enqueue, CleanupTerminal, Tick
  <1>4. CASE Send(v)
    <2>1. CASE Continue(v, "mark_dead")
      BY <1>1, <2>1 DEF Continue, Goto
    <2>2. CASE Drop(v)
      BY <1>1, <2>2 DEF Drop, Goto
    <2>3. CASE ~Late(v) /\ ~Lapsed(v) /\ StartSend(v)
      BY <1>1, <2>3 DEF StartSend, Await, Goto
    <2> QED BY <1>4, <2>1, <2>2, <2>3 DEF Send
  <1>5. ASSUME Drop(v) PROVE FALSE
    BY <1>1, <1>5 DEF Drop, Goto
  <1>6. ASSUME NEW p, Goto(v, p), p # "sending" PROVE FALSE
    BY <1>1, <1>6 DEF Goto
  <1>7. ~Interrupt(v) /\ ~MarkDispatched(v) /\ ~MarkFailed(v) /\ ~MarkDead(v)
    BY <1>5 DEF Interrupt, MarkDispatched, MarkFailed, MarkDead, Mark
  <1>8. ~Start(v) /\ ~ExpireOne(v) /\ ~ReclaimOne(v) /\ ~SendReturns(v)
    BY <1>6 DEF Start, ExpireOne, ReclaimOne, SendReturns, Continue
  <1>9. ~ClaimOne(v) /\ ~CheckClaim(v) /\ ~RenewProcessing(v) /\ ~RenewDelivery(v)
    BY <1>5, <1>6
    DEF ClaimOne, CheckClaim, RenewProcessing, RenewDelivery, Renew, Continue, Await
  <1>10. ~Unseal(v) /\ ~UnsealFailed(v) /\ ~Deliver(v)
    BY <1>5, <1>6 DEF Unseal, UnsealFailed, Deliver, Continue, Await
  <1> QED BY <1>3, <1>4, <1>7, <1>8, <1>9, <1>10 DEF WorkerStep

\* With synchronized clocks a send starts under a lease the store still records.
THEOREM SendsUnderLease == Spec => SendHoldsLease
  <1>1. ASSUME IInv, [Next]_vars
        PROVE  [(\A w \in Workers : offset[w] = 0) =>
                  \A w \in Workers : pc[w] = "send" /\ pc'[w] = "sending" =>
                    /\ row[job[w].msg].status = "claimed"
                    /\ row[job[w].msg].lease = job[w].lease]_vars
    <2> SUFFICES ASSUME Next, Synchronized, NEW w \in Workers,
                        pc[w] = "send", pc'[w] = "sending"
                 PROVE  /\ row[job[w].msg].status = "claimed"
                        /\ row[job[w].msg].lease = job[w].lease
      BY <1>1 DEF Synchronized
    <2>1. ~Late(w) /\ ~Lapsed(w) /\ Now(w) = clock
      BY <1>1, SendStarts, NowIsClock DEF IInv
    <2>2. job[w].until \in Nat /\ job[w].expiresAt \in Nat /\ clock \in Nat
      BY <1>1 DEF IInv, TypeOK, Job, Time, Never
    <2>3. Working(w) /\ job[w].until > clock /\ job[w].expiresAt > clock
      BY <2>1, <2>2 DEF Late, Lapsed, Working
    <2> QED BY <1>1, <2>3 DEF IInv, Fenced
  <1> QED BY <1>1, Invariance, PTL DEF Spec, SendHoldsLease

\* The store and any number of workers implement the documented status table.
THEOREM Refinement == Spec => ImplementsLifecycle
  <1>1. Init => Lifecycle!Init
    BY DEF Init, Lifecycle!Init, NoRow
  <1>2. ASSUME IInv, [Next]_vars PROVE [Lifecycle!Next]_(Lifecycle!vars)
    <2>1. CASE Next
      BY <1>2, <2>1, LifecycleStep DEF IInv
    <2>2. CASE UNCHANGED vars
      BY <2>2 DEF vars, table, Lifecycle!vars
    <2> QED BY <1>2, <2>1, <2>2
  <1> QED BY <1>1, <1>2, Invariance, PTL DEF Spec, ImplementsLifecycle, Lifecycle!Spec

=============================================================================
