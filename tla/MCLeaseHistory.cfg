\* The lease, its log, recovery and retention under every wall jump.
SPECIFICATION HistorySpec
CONSTANTS
  IssuedWall = 2
  IssuedMono = 1
  IssuedGeneration = 1
  InitialTtl = 2
  SignedMaxTtl = 2
  SignedMaxSession = 4
  SignedExpires = 6
  AckTimeout = 1
  MaxFencing = 3
  PinnedDigests = {}
  Digests <- MCDigests
  Samples <- MCSamples
  Policies <- MCPolicies
  Controls <- MCControls
  ReasonInputs <- MCReasonInputs
  NotBefore = 2
  Retention = 2
  PruneWalls = {4, 6, 8}
  MaxGeneration = 2
  MaxPrunes = 2
INVARIANTS
  HistoryLoads
PROPERTIES
  VersionNamesState
  ForgottenIsSpent
\* The bounds on generations and prunings end the run.
CHECK_DEADLOCK FALSE
