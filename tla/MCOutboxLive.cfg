SPECIFICATION FairSpec
CONSTANTS
  Messages = {m1, m2}
  Workers = {w1}
  NoMessage = NoMessage
  MaxAttempts = 2
  LeaseSeconds = 1
  RetryDelay = 1
  Horizon = 2
  MaxSkew = 0
  MaxEnqueues = 2
  MaxFailures = 1
PROPERTY EventuallyTerminal
