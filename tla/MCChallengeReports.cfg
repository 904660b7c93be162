SPECIFICATION Spec
CONSTANTS
  Challenges = {c1}
  Ops = {p1, p2, p3, p4}
  NoOp = NoOp
  NoChallenge = NoChallenge
  MaxAttempts = 2
  Horizon = 2
SYMMETRY Symmetry
CHECK_DEADLOCK FALSE
INVARIANT ConflictReported
