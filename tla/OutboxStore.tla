----------------------------- MODULE OutboxStore -----------------------------
(***************************************************************************)
(* The rows of authmodules_outbox and what each statement of the           *)
(* PostgreSQL outbox store does to one of them.  A lease id is the number  *)
(* of the claim that produced it, which makes it as fresh as               *)
(* gen_random_uuid() and implies the worker_id the statements also compare.*)
(***************************************************************************)
EXTENDS Naturals

CONSTANTS
  MaxAttempts,    \* OutboxMessage.maxAttempts
  LeaseSeconds,   \* length of a lease
  RetryDelay,     \* retryDelaySeconds of the worker
  Horizon         \* clocks stop here; later times are capped, so all is due

ASSUME MaxAttemptsAssumption == MaxAttempts \in Nat \ {0}
ASSUME LeaseAssumption == LeaseSeconds \in Nat \ {0}
ASSUME RetryAssumption == RetryDelay \in Nat
ASSUME HorizonAssumption == Horizon \in Nat

Time == 0..Horizon

Never == Horizon + 1   \* expires_at is null

Status == {"none", "pending", "claimed", "failed", "dispatched", "dead"}

NoLease == 0

Row == [status : Status, attempts : Nat, availableAt : Time,
        expiresAt : Time \cup {Never}, lease : Nat, leaseUntil : Time]

NoRow == [status |-> "none", attempts |-> 0, availableAt |-> 0,
          expiresAt |-> Never, lease |-> NoLease, leaseUntil |-> 0]

Later(now, delay) == IF now + delay <= Horizon THEN now + delay ELSE Horizon

-----------------------------------------------------------------------------
(* enqueueBatch                                                            *)

NewRow(now, expiresAt) ==
  [NoRow EXCEPT !.status = "pending", !.availableAt = now, !.expiresAt = expiresAt]

-----------------------------------------------------------------------------
(* claimBatch: three statements                                            *)

Unleased(row, status) ==
  [row EXCEPT !.status = status, !.lease = NoLease, !.leaseUntil = 0]

\* One more attempt is used up; the last one is terminal.
Charged(row, terminal) ==
  [Unleased(row, IF terminal \/ row.attempts + 1 >= MaxAttempts THEN "dead" ELSE "failed")
     EXCEPT !.attempts = @ + 1]

Expirable(row, now) ==
  row.status \in {"pending", "failed", "claimed"} /\ row.expiresAt <= now

\* Expiry uses up an attempt.
SlipExpired(row) == Charged(row, TRUE)

Expired(row) == Unleased(row, "dead")

\* The last attempt is not taken back from a worker that died.
SlipAbandoned(row, now) ==
  row.status = "claimed" /\ row.leaseUntil <= now /\ row.attempts + 1 < MaxAttempts

Abandoned(row, now) == row.status = "claimed" /\ row.leaseUntil <= now

\* The attempt of an abandoned lease is not charged.
SlipReclaimed(row, now) == [Unleased(row, "failed") EXCEPT !.availableAt = now]

Reclaimed(row, now) == [Charged(row, FALSE) EXCEPT !.availableAt = now]

Claimable(row, now) ==
  /\ row.status \in {"pending", "failed"}
  /\ row.expiresAt > now
  /\ row.availableAt <= now
  /\ row.attempts < MaxAttempts

Claimed(row, lease, now) ==
  [row EXCEPT !.status = "claimed", !.lease = lease, !.leaseUntil = Later(now, LeaseSeconds)]

-----------------------------------------------------------------------------
(* renewLease, markDispatched, markFailed                                  *)

\* The lease id is not compared.
SlipHolds(row, lease, now) == row.status = "claimed" /\ row.leaseUntil > now

Holds(row, lease, now) ==
  /\ row.status = "claimed"
  /\ row.lease = lease
  /\ row.leaseUntil > now

Renewed(row, now) == [row EXCEPT !.leaseUntil = Later(now, LeaseSeconds)]

Dispatched(row) == Unleased(row, "dispatched")

\* retryAt is missing when the failure is terminal.
MarkedFailed(row, now, terminal) ==
  [Charged(row, terminal) EXCEPT !.availableAt =
     IF terminal THEN now ELSE Later(now, RetryDelay)]

-----------------------------------------------------------------------------
(* cleanupTerminal                                                         *)

Deletable(row) == row.status \in {"dispatched", "dead"}

=============================================================================
