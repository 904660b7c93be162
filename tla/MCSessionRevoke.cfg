SPECIFICATION Spec
CONSTANTS
  Accounts = {a1}
  Ops = {p1, p2}
  NoOp = NoOp
  NoTarget = NoTarget
  MaxVersion = 3
  Horizon = 1
CHECK_DEADLOCK FALSE
INVARIANT RevokingExpiredSucceeds
