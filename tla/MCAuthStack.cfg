SPECIFICATION Spec
CONSTANTS
  MaxAttempts = 2
  LeaseSeconds = 1
  Horizon = 2
  None = None
  Clients = {"p1", "p2"}
  Shapes <- MCShapes
  Samples <- MCSamples
  Scenes <- MCScenes
  MaxFaults = 1
INVARIANTS
  IndexesAgree
  EffectsAccounted
  RowsAcceptedByCore
  OnlyAddressStopsPersisted
  MethodsSound
PROPERTIES
  CommitsReplay
  AuthWithRequired
