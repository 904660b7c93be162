SPECIFICATION Spec
CONSTANTS
  Messages = {m1}
  Workers = {w1, w2}
  NoMessage = NoMessage
  MaxAttempts = 2
  LeaseSeconds = 1
  RetryDelay = 1
  Horizon = 3
  MaxSkew = 1
  MaxEnqueues = 2
  MaxFailures = 0
SYMMETRY Symmetry
INVARIANTS
  TypeOK
  SendsBounded
  LeaseSendsOnce
  DispatchedWasAcked
  ClaimsAreCharged
PROPERTIES
  SendHoldsLease
  ImplementsLifecycle
