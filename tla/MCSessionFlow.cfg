SPECIFICATION Spec
CONSTANTS
  Accounts = {a1}
  Ops = {p1, p2, p3}
  NoOp = NoOp
  NoTarget = NoTarget
  MaxVersion = 3
  Horizon = 1
SYMMETRY Symmetry
CHECK_DEADLOCK FALSE
INVARIANTS
  TypeOK
  CommitChecksHold
  AtomicAuthentication
  ResolvedWasLive
  RevokedIsGone
PROPERTY EndedSessionsFinal
