SPECIFICATION Spec
CONSTANTS
  Keys = {k1, k2, k3}
  MaxFailures = 2
  Window = 3
  Second = 2
  MaxKeys = 2
  HeapFactor = 2
  MaxInFlight = 2
  Horizon = 5
SYMMETRY Symmetry
CHECK_DEADLOCK FALSE
INVARIANTS
  TypeOK
  DecisionMatchesWindow
  HeapSound
  EvictsQuietest
  RetryAfterExact
