\* The whole lease domain under every wall jump, late sample and policy.
SPECIFICATION Spec
CONSTANTS
  IssuedWall = 2
  IssuedMono = 1
  IssuedGeneration = 1
  InitialTtl = 2
  SignedMaxTtl = 3
  SignedMaxSession = 6
  SignedExpires = 7
  AckTimeout = 1
  MaxFencing = 3
  PinnedDigests = {}
  Digests <- MCDigests
  Samples <- MCSamples
  Policies <- MCPolicies
  Controls <- MCControls
  ReasonInputs <- MCReasonInputs
INVARIANTS
  TypeOK
  RestoreAccepts
  LaunchCeiling
  LaunchAcknowledged
PROPERTIES
  LaunchesFenced
  TerminalImmutable
  RenewalNarrows
