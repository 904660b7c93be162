SPECIFICATION FairSpec
CONSTANTS
  Challenges = {c1}
  Ops = {p1, p2, p3}
  NoOp = NoOp
  NoChallenge = NoChallenge
  MaxAttempts = 2
  Horizon = 2
CHECK_DEADLOCK FALSE
INVARIANTS
  TypeOK
  SingleCompletion
  AttemptsAccounted
  DeliveryIffChallenge
  ReportsMatchOutcome
  LockedRowUnchanged
PROPERTIES
  ImplementsLifecycle
  EveryCallReturns
