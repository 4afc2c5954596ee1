\* Two leases of one profile, either of them possibly older than the markers.
SPECIFICATION Spec
CONSTANTS
  u1 = u1
  u2 = u2
  q1 = q1
  q2 = q2
  q3 = q3
  Requests = {q1, q2}
  Profiles = {u1}
  Policies = {"solo", "pair"}
  Dims = {"profile", "host"}
  ProfileOf <- MCProfileOf
  Key <- MCKey
  Limit <- MCLimit
  ModeOf <- MCModeOf
  LegacyRequests = {q1}
  MaxGeneration = 3
INVARIANTS
  BlockersMarked
  LiveGuarded
  ReadyResolved
PROPERTIES
  ImplementsAuthority
