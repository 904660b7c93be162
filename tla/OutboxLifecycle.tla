-------------------------- MODULE OutboxLifecycle ---------------------------
(***************************************************************************)
(* The outbox record lifecycle promised in docs/02-FLOWS.md: which status  *)
(* may follow which, with every delivery attempt paid for by the record's  *)
(* attempt counter and terminal records only ever deleted.                 *)
(***************************************************************************)
EXTENDS Naturals

CONSTANTS
  Messages,     \* idempotency keys of the messages
  MaxAttempts   \* OutboxMessage.maxAttempts

VARIABLES
  status,       \* [Messages -> Status], "none" when there is no record
  attempts      \* [Messages -> 0..MaxAttempts]

vars == <<status, attempts>>

Init ==
  /\ status = [m \in Messages |-> "none"]
  /\ attempts = [m \in Messages |-> 0]

Move(m, from, to) ==
  /\ status[m] \in from
  /\ \E s \in to : status' = [status EXCEPT ![m] = s]

Enqueue(m) ==
  /\ Move(m, {"none"}, {"pending"})
  /\ attempts' = [attempts EXCEPT ![m] = 0]

Claim(m) ==
  /\ attempts[m] < MaxAttempts
  /\ Move(m, {"pending", "failed"}, {"claimed"})
  /\ UNCHANGED attempts

Dispatch(m) == Move(m, {"claimed"}, {"dispatched"}) /\ UNCHANGED attempts

\* A failed attempt: the last one is terminal.
Fail(m) ==
  /\ attempts' = [attempts EXCEPT ![m] = @ + 1]
  /\ Move(m, {"claimed"}, IF attempts[m] + 1 < MaxAttempts THEN {"failed", "dead"} ELSE {"dead"})

Expire(m) == Move(m, {"pending", "failed", "claimed"}, {"dead"}) /\ UNCHANGED attempts

Delete(m) ==
  /\ Move(m, {"dispatched", "dead"}, {"none"})
  /\ attempts' = [attempts EXCEPT ![m] = 0]

Next ==
  \E m \in Messages :
    Enqueue(m) \/ Claim(m) \/ Dispatch(m) \/ Fail(m) \/ Expire(m) \/ Delete(m)

Spec == Init /\ [][Next]_vars

=============================================================================
