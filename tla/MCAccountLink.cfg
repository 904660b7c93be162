SPECIFICATION Spec
CONSTANTS
  Subjects = {s1}
  Existing = {a1, a2}
  Ops = {p1, p2}
  NoAccount = NoAccount
CHECK_DEADLOCK FALSE
INVARIANT LinkConflictAnswered
