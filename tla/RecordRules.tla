---------------------------- MODULE RecordRules ----------------------------
(***************************************************************************)
(* What the core requires of a record or an answer it gets from a store    *)
(* before it uses it.  Anything else is treated as a failure of the store. *)
(***************************************************************************)
EXTENDS Naturals

CONSTANTS
  MaxAttempts,   \* maxAttempts of a challenge
  Horizon        \* Horizon + 1 stands for a time that is not set

isValidDate(t) == t \in 0..Horizon
isOptionalDate(t) == t \in 0..(Horizon + 1)
isPositiveInteger(n) == n \in Nat \ {0}
isNonNegativeInteger(n) == n \in Nat

isDateOrder(row) ==
  isValidDate(row.created) /\ isValidDate(row.updated) /\ row.created <= row.updated

isAccountRecord(row) ==
  row.status \in {"active", "disabled", "deleted"} /\ isDateOrder(row)

isIdentityRecord(row) == isOptionalDate(row.verifiedAt) /\ isDateOrder(row)

isCredentialRecord(row) ==
  row.status \in {"active", "disabled"} /\ isPositiveInteger(row.version) /\ isDateOrder(row)

isSessionRecord(row) ==
  /\ row.status \in {"active", "revoked", "expired"}
  /\ isValidDate(row.issuedAt) /\ isValidDate(row.expiresAt)
  /\ row.issuedAt <= row.expiresAt
  /\ isOptionalDate(row.revokedAt)
  /\ isDateOrder(row)

isChallengeRecord(row) ==
  /\ row.status \in {"pending", "consumed", "expired", "failed"}
  /\ isNonNegativeInteger(row.attempts) /\ row.attempts <= MaxAttempts
  /\ isPositiveInteger(row.version)
  /\ isValidDate(row.expiresAt)
  /\ isOptionalDate(row.consumedAt)
  /\ isDateOrder(row)

\* The fields an attempt may not change.
sameChallengePayload(left, right) ==
  /\ left.expiresAt = right.expiresAt
  /\ left.created = right.created
  /\ left.consumedAt = right.consumedAt

isConsumePendingResult(status) ==
  status \in {"consumed", "already-consumed", "attempts-exceeded", "expired", "version-conflict"}

isRecordFailedAttemptResult(status, row) ==
  \/ status = "version-conflict"
  \/ status \in {"recorded", "attempts-exceeded", "expired"} /\ isChallengeRecord(row)

\* The answer follows from the challenge the core had read.
isRecordFailedAttemptTransition(previous, status, row, now) ==
  /\ isRecordFailedAttemptResult(status, row)
  /\ \/ status = "version-conflict"
     \/ /\ sameChallengePayload(previous, row)
        /\ row.updated = now
        /\ row.version = previous.version + 1
        /\ \/ /\ status = "recorded"
              /\ row.status = "pending"
              /\ row.attempts = previous.attempts + 1
              /\ row.attempts < MaxAttempts
           \/ /\ status = "attempts-exceeded"
              /\ row.status = "failed"
              /\ row.attempts = previous.attempts + 1
              /\ row.attempts = MaxAttempts
           \/ /\ status = "expired"
              /\ row.status = "expired"
              /\ previous.expiresAt <= now
              /\ row.attempts = previous.attempts

=============================================================================
