SPECIFICATION Spec
CONSTANTS
  Subjects = {s1}
  Existing = {a1, a2}
  Ops = {p1, p2}
  NoAccount = NoAccount
SYMMETRY Symmetry
CHECK_DEADLOCK FALSE
INVARIANTS
  TypeOK
  NoOrphanAccount
  AnswerNamesOwner
  UsableAtCommit
PROPERTY ImplementsRegistry
