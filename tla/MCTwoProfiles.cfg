\* Two profiles that share a host: one profile's trouble and the other's leases.
SPECIFICATION Spec
CONSTANTS
  u1 = u1
  u2 = u2
  q1 = q1
  q2 = q2
  q3 = q3
  Requests = {q1, q3}
  Profiles = {u1, u2}
  Policies = {"solo", "pair"}
  Dims = {"profile", "host"}
  ProfileOf <- MCProfileOf
  Key <- MCKey
  Limit <- MCLimit
  ModeOf <- MCModeOf
  LegacyRequests = {q1}
  MaxGeneration = 2
INVARIANTS
  NoLeakedFence
PROPERTIES
  GrantsUndeferred
  ImplementsAuthority
