------------------------- MODULE ChallengeLifecycle -------------------------
(***************************************************************************)
(* What the challenge store and the challenge operations promise together, *)
(* without versions, locks, transactions or clocks: a challenge is created *)
(* once, absorbs at most MaxAttempts counted failures, one per call, and   *)
(* leaves "pending" for good when it is consumed by one single call, when  *)
(* its last attempt fails, or when it expires.                             *)
(***************************************************************************)
EXTENDS Naturals, FiniteSets

CONSTANTS
  Challenges,   \* challenge identifiers
  Ops,          \* calls of begin and complete
  MaxAttempts   \* MethodBeginResult.maxAttempts

VARIABLES
  status,       \* [Challenges -> Status]
  counted,      \* [Challenges -> SUBSET Ops]: calls whose failure was recorded
  completed     \* [Challenges -> SUBSET Ops]: calls that consumed the challenge

vars == <<status, counted, completed>>

Init ==
  /\ status = [c \in Challenges |-> "none"]
  /\ counted = [c \in Challenges |-> {}]
  /\ completed = [c \in Challenges |-> {}]

Create(c) ==
  /\ status[c] = "none"
  /\ status' = [status EXCEPT ![c] = "pending"]
  /\ UNCHANGED <<counted, completed>>

FailAttempt(c, p) ==
  /\ status[c] = "pending"
  /\ p \notin counted[c]
  /\ counted' = [counted EXCEPT ![c] = @ \cup {p}]
  /\ status' = [status EXCEPT ![c] =
        IF Cardinality(counted[c]) + 1 = MaxAttempts THEN "failed" ELSE "pending"]
  /\ UNCHANGED completed

Consume(c, p) ==
  /\ status[c] = "pending"
  /\ p \notin counted[c]
  /\ completed[c] = {}
  /\ status' = [status EXCEPT ![c] = "consumed"]
  /\ completed' = [completed EXCEPT ![c] = {p}]
  /\ UNCHANGED counted

Expire(c) ==
  /\ status[c] = "pending"
  /\ status' = [status EXCEPT ![c] = "expired"]
  /\ UNCHANGED <<counted, completed>>

Next ==
  \E c \in Challenges :
    \/ Create(c)
    \/ Expire(c)
    \/ \E p \in Ops : FailAttempt(c, p) \/ Consume(c, p)

Spec == Init /\ [][Next]_vars

=============================================================================
