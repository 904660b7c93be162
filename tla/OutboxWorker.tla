---------------------------- MODULE OutboxWorker ----------------------------
(***************************************************************************)
(* Outbox workers delivering messages from the shared PostgreSQL outbox.   *)
(* Each worker runs the loop of runOnce; its steps are the stretches of    *)
(* code between two awaits, so a clock reading is used by a statement that *)
(* may execute later.  Statements are single autocommit updates.  Workers  *)
(* read their own clocks, which may run ahead of each other.               *)
(***************************************************************************)
EXTENDS OutboxStore, FiniteSets

CONSTANTS
  Messages,      \* idempotency keys of the messages producers enqueue
  Workers,
  NoMessage,
  MaxSkew,       \* how far a worker's clock may run ahead
  MaxEnqueues,   \* bound on rows created over time
  MaxFailures    \* bound on interrupted iterations

ASSUME SkewAssumption == MaxSkew \in Nat
ASSUME BoundsAssumption == MaxEnqueues \in Nat /\ MaxFailures \in Nat
ASSUME NoMessageAssumption == NoMessage \notin Messages

VARIABLES
  clock,      \* true time
  offset,     \* what each worker's clock adds to it
  row,        \* the outbox table, by idempotency key
  claims,     \* per key: how many claims there have been, the last lease id
  base,       \* history: claims when the present row was enqueued
  sent,       \* history: leases under which a send was started
  acked,      \* history: leases whose send returned ok
  pc, job, at,  \* per worker: where it is, its claim, the clock reading it holds
  enqueues, failures   \* bounds

table == <<row, claims, base>>
history == <<sent, acked>>
bounds == <<enqueues, failures>>
vars == <<clock, offset, table, history, pc, job, at, bounds>>

Phase == {"idle", "expire", "reclaim", "claim", "claimed", "renew1", "unseal",
          "unseal_failed", "deliver", "renew2", "send", "sending",
          "mark_dispatched", "mark_failed", "mark_dead"}

Job == [msg : Messages \cup {NoMessage}, lease : Nat, until : Time,
        expiresAt : Time \cup {Never}]

NoJob == [msg |-> NoMessage, lease |-> NoLease, until |-> 0, expiresAt |-> Never]

Now(w) == Later(clock, offset[w])

Goto(w, phase) == pc' = [pc EXCEPT ![w] = phase]

\* Definitions named Slip..., here and in OutboxStore, are plausible coding slips
\* of the definition after them; no specification uses them.

\* The clock is rounded up.
SlipReadClock(w) == at' = [at EXCEPT ![w] = Now(w) + 1]

ReadClock(w) == at' = [at EXCEPT ![w] = Now(w)]

\* The worker is done with its claim, whatever became of it.
Drop(w) ==
  /\ Goto(w, "idle")
  /\ job' = [job EXCEPT ![w] = NoJob]
  /\ at' = [at EXCEPT ![w] = 0]

\* The worker goes on with its claim, holding the clock reading it takes now.
Continue(w, phase) ==
  /\ Goto(w, phase)
  /\ ReadClock(w)
  /\ UNCHANGED job

\* The worker goes on with its claim and reads the clock again when it resumes.
Await(w, phase) ==
  /\ Goto(w, phase)
  /\ at' = [at EXCEPT ![w] = 0]

\* The claimed message has expired by the clock read in this step.
Late(w) == job[w].expiresAt <= Now(w)

Lapsed(w) == job[w].until <= Now(w)

-----------------------------------------------------------------------------

Init ==
  /\ clock = 0
  /\ offset \in [Workers -> 0..MaxSkew]
  /\ row = [m \in Messages |-> NoRow]
  /\ claims = [m \in Messages |-> 0]
  /\ base = [m \in Messages |-> 0]
  /\ sent = [m \in Messages |-> {}]
  /\ acked = [m \in Messages |-> {}]
  /\ pc = [w \in Workers |-> "idle"]
  /\ job = [w \in Workers |-> NoJob]
  /\ at = [w \in Workers |-> 0]
  /\ enqueues = 0
  /\ failures = 0

-----------------------------------------------------------------------------
(* Producers and retention                                                 *)

\* enqueueBatch of one message, committed with its producer's transaction.  An
\* existing row with the same idempotency key is returned unchanged.
Enqueue(m) ==
  /\ row[m] = NoRow
  /\ enqueues < MaxEnqueues
  /\ \E e \in (clock + 1)..Never : row' = [row EXCEPT ![m] = NewRow(clock, e)]
  /\ base' = [base EXCEPT ![m] = claims[m]]
  /\ enqueues' = enqueues + 1
  /\ UNCHANGED <<clock, offset, claims, history, pc, job, at, failures>>

\* Retention deletes every row, not only terminal ones.
SlipCleanupTerminal(m) ==
  /\ row[m] # NoRow
  /\ row' = [row EXCEPT ![m] = NoRow]
  /\ UNCHANGED <<clock, offset, claims, base, history, pc, job, at, bounds>>

\* The operator chooses the retention cut-off.
CleanupTerminal(m) ==
  /\ Deletable(row[m])
  /\ row' = [row EXCEPT ![m] = NoRow]
  /\ UNCHANGED <<clock, offset, claims, base, history, pc, job, at, bounds>>

-----------------------------------------------------------------------------
(* One iteration of the loop: claimBatch with limit 1                      *)

Start(w) ==
  /\ pc[w] = "idle"
  /\ ReadClock(w)
  /\ Goto(w, "expire")
  /\ UNCHANGED <<clock, offset, table, history, job, bounds>>

\* The rows of S that come first in the order by key; ties are open.
First(S, key(_)) == {m \in S : \A n \in S : key(m) <= key(n)}

ExpireOne(w) ==
  LET due == {m \in Messages : Expirable(row[m], at[w])}
      key(m) == row[m].expiresAt
  IN
  /\ pc[w] = "expire"
  /\ \/ due = {} /\ UNCHANGED row
     \/ \E m \in First(due, key) : row' = [row EXCEPT ![m] = Expired(@)]
  /\ Goto(w, "reclaim")
  /\ UNCHANGED <<clock, offset, claims, base, history, job, at, bounds>>

ReclaimOne(w) ==
  LET due == {m \in Messages : Abandoned(row[m], at[w])}
      key(m) == row[m].leaseUntil
  IN
  /\ pc[w] = "reclaim"
  /\ \/ due = {} /\ UNCHANGED row
     \/ \E m \in First(due, key) : row' = [row EXCEPT ![m] = Reclaimed(@, at[w])]
  /\ Goto(w, "claim")
  /\ UNCHANGED <<clock, offset, claims, base, history, job, at, bounds>>

\* Without a claimable row the run ends.
ClaimOne(w) ==
  LET due == {m \in Messages : Claimable(row[m], at[w])}
      key(m) == row[m].availableAt
  IN
  /\ pc[w] = "claim"
  /\ \/ /\ due = {}
        /\ Drop(w)
        /\ UNCHANGED table
     \/ \E m \in First(due, key) :
          /\ claims' = [claims EXCEPT ![m] = @ + 1]
          /\ row' = [row EXCEPT ![m] = Claimed(@, claims[m] + 1, at[w])]
          /\ job' = [job EXCEPT ![w] =
                [msg |-> m, lease |-> claims[m] + 1, until |-> Later(at[w], LeaseSeconds),
                 expiresAt |-> row[m].expiresAt]]
          /\ Await(w, "claimed")
          /\ UNCHANGED base
  /\ UNCHANGED <<clock, offset, history, bounds>>

-----------------------------------------------------------------------------
(* Processing the claimed message                                          *)

CheckClaim(w) ==
  /\ pc[w] = "claimed"
  /\ IF Lapsed(w) THEN Drop(w) ELSE Continue(w, "renew1")
  /\ UNCHANGED <<clock, offset, table, history, bounds>>

\* renewLease at the clock read before; a lost lease drops the message.
Renew(w, from, to) ==
  LET m == job[w].msg IN
  /\ pc[w] = from
  /\ IF Holds(row[m], job[w].lease, at[w])
     THEN /\ row' = [row EXCEPT ![m] = Renewed(@, at[w])]
          /\ job' = [job EXCEPT ![w].until = Later(at[w], LeaseSeconds)]
          /\ Await(w, to)
     ELSE /\ Drop(w)
          /\ UNCHANGED row
  /\ UNCHANGED <<clock, offset, claims, base, history, bounds>>

RenewProcessing(w) == Renew(w, "renew1", "unseal")

RenewDelivery(w) == Renew(w, "renew2", "send")

\* Expiry first, then the lease, then unsealing, which may fail.
Unseal(w) ==
  /\ pc[w] = "unseal"
  /\ IF Late(w) THEN Continue(w, "mark_dead")
     ELSE IF Lapsed(w) THEN Drop(w)
     ELSE (Await(w, "deliver") \/ Await(w, "unseal_failed")) /\ UNCHANGED job
  /\ UNCHANGED <<clock, offset, table, history, bounds>>

UnsealFailed(w) ==
  /\ pc[w] = "unseal_failed"
  /\ Continue(w, IF Late(w) THEN "mark_dead" ELSE "mark_failed")
  /\ UNCHANGED <<clock, offset, table, history, bounds>>

Deliver(w) ==
  /\ pc[w] = "deliver"
  /\ Continue(w, IF Late(w) THEN "mark_dead" ELSE "renew2")
  /\ UNCHANGED <<clock, offset, table, history, bounds>>

StartSend(w) ==
  /\ sent' = [sent EXCEPT ![job[w].msg] = @ \cup {job[w].lease}]
  /\ Await(w, "sending")
  /\ UNCHANGED job

\* The lease is not checked again before the send.
SlipSend(w) ==
  /\ pc[w] = "send"
  /\ IF Late(w) THEN Continue(w, "mark_dead") /\ UNCHANGED sent
     ELSE StartSend(w)
  /\ UNCHANGED <<clock, offset, table, acked, bounds>>

\* The last checks, and the call of the transport.
Send(w) ==
  /\ pc[w] = "send"
  /\ IF Late(w) THEN Continue(w, "mark_dead") /\ UNCHANGED sent
     ELSE IF Lapsed(w) THEN Drop(w) /\ UNCHANGED sent
     ELSE StartSend(w)
  /\ UNCHANGED <<clock, offset, table, acked, bounds>>

\* A failed send is tried again on the spot.
SlipSendReturns(w) ==
  /\ pc[w] = "sending"
  /\ \/ /\ acked' = [acked EXCEPT ![job[w].msg] = @ \cup {job[w].lease}]
        /\ Continue(w, "mark_dispatched")
     \/ /\ Await(w, "send")
        /\ UNCHANGED <<job, acked>>
  /\ UNCHANGED <<clock, offset, table, sent, bounds>>

\* The transport answers, or throws, any time later.
SendReturns(w) ==
  /\ pc[w] = "sending"
  /\ \/ /\ acked' = [acked EXCEPT ![job[w].msg] = @ \cup {job[w].lease}]
        /\ Continue(w, "mark_dispatched")
     \/ /\ Continue(w, "mark_failed")
        /\ UNCHANGED acked
  /\ UNCHANGED <<clock, offset, table, sent, bounds>>

\* markDispatched and markFailed: nothing happens when the lease is lost.
Mark(w, from, marked(_)) ==
  LET m == job[w].msg IN
  /\ pc[w] = from
  /\ row' = IF Holds(row[m], job[w].lease, at[w])
            THEN [row EXCEPT ![m] = marked(@)] ELSE row
  /\ Drop(w)
  /\ UNCHANGED <<clock, offset, claims, base, history, bounds>>

MarkDispatched(w) == Mark(w, "mark_dispatched", Dispatched)

MarkFailed(w) ==
  LET marked(r) == MarkedFailed(r, at[w], FALSE) IN Mark(w, "mark_failed", marked)

MarkDead(w) ==
  LET marked(r) == MarkedFailed(r, at[w], TRUE) IN Mark(w, "mark_dead", marked)

WorkerStep(w) ==
  \/ Start(w) \/ ExpireOne(w) \/ ReclaimOne(w) \/ ClaimOne(w) \/ CheckClaim(w)
  \/ RenewProcessing(w) \/ Unseal(w) \/ UnsealFailed(w) \/ Deliver(w) \/ RenewDelivery(w)
  \/ Send(w) \/ SendReturns(w) \/ MarkDispatched(w) \/ MarkFailed(w) \/ MarkDead(w)

\* A store call fails, its answer is lost, or the process dies and is started
\* again: the iteration ends with no mark.
Interrupt(w) ==
  /\ pc[w] # "idle"
  /\ failures < MaxFailures
  /\ failures' = failures + 1
  /\ Drop(w)
  /\ UNCHANGED <<clock, offset, table, history, enqueues>>

Tick ==
  /\ clock < Horizon
  /\ clock' = clock + 1
  /\ UNCHANGED <<offset, table, history, pc, job, at, bounds>>

Next ==
  \/ \E m \in Messages : Enqueue(m) \/ CleanupTerminal(m)
  \/ \E w \in Workers : WorkerStep(w) \/ Interrupt(w)
  \/ Tick

Spec == Init /\ [][Next]_vars

\* Every worker's runOnce is called again and again, its awaits settle, and
\* time passes.
FairSpec == Spec /\ WF_vars(Tick) /\ \A w \in Workers : WF_vars(WorkerStep(w))

-----------------------------------------------------------------------------
(* Properties                                                              *)

\* Every variable keeps its type; clocks, leases and expiries stay in Time.
TypeOK ==
  /\ clock \in Time
  /\ offset \in [Workers -> 0..MaxSkew]
  /\ row \in [Messages -> Row]
  /\ claims \in [Messages -> Nat]
  /\ base \in [Messages -> Nat]
  /\ sent \in [Messages -> SUBSET Nat]
  /\ acked \in [Messages -> SUBSET Nat]
  /\ pc \in [Workers -> Phase]
  /\ job \in [Workers -> Job]
  /\ at \in [Workers -> Time]
  /\ enqueues \in Nat /\ failures \in Nat

\* The leases of the present row under which a send was started.
Sends(m) == {l \in sent[m] : l > base[m]}

\* However leases lapse, workers die and clocks differ, one enqueued message is
\* handed to the transport at most maxAttempts times.
SendsBounded == \A m \in Messages : Cardinality(Sends(m)) <= MaxAttempts

PreSend == {"claimed", "renew1", "unseal", "unseal_failed", "deliver", "renew2", "send"}

\* A claim is acted on by one worker and sends at most once: two workers never
\* work under the same lease, and no lease that has sent is about to send.
LeaseSendsOnce ==
  \A w \in Workers : pc[w] \in PreSend =>
    /\ job[w].lease \notin sent[job[w].msg]
    /\ \A v \in Workers \ {w} :
         job[v].msg = job[w].msg => job[v].lease # job[w].lease

\* A worker whose lease was lost cannot mark the message of a later holder: a
\* dispatched row was sent, with success, under the last lease it was given.
DispatchedWasAcked ==
  \A m \in Messages : row[m].status = "dispatched" => claims[m] \in acked[m]

\* Each attempt in the counter is one claim, so a message that still waits has
\* been claimed exactly as often as it was charged.
ClaimsAreCharged ==
  \A m \in Messages : LET n == claims[m] - base[m] IN
    /\ row[m].status \in {"pending", "failed"} => n = row[m].attempts
    /\ row[m].status \in {"claimed", "dispatched"} => n = row[m].attempts + 1
    /\ row[m].status = "dead" => n \in {row[m].attempts, row[m].attempts + 1}

\* With synchronized clocks a send only starts while the store still records
\* the sender's lease: no other worker holds the message at that moment.
SendHoldsLease ==
  [][(\A w \in Workers : offset[w] = 0) =>
       \A w \in Workers : pc[w] = "send" /\ pc'[w] = "sending" =>
         /\ row[job[w].msg].status = "claimed"
         /\ row[job[w].msg].lease = job[w].lease]_vars

\* The store and its workers implement the status table of docs/02-FLOWS.md.
Lifecycle == INSTANCE OutboxLifecycle
               WITH status <- [m \in Messages |-> row[m].status],
                    attempts <- [m \in Messages |-> row[m].attempts]

ImplementsLifecycle == Lifecycle!Spec

\* No message is stuck: every enqueued message is dispatched or dies, although
\* workers are interrupted and answers are lost.
EventuallyTerminal ==
  \A m \in Messages :
    row[m].status \in {"pending", "claimed", "failed"}
      ~> row[m].status \in {"dispatched", "dead"}

=============================================================================
