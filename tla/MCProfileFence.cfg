\* One process at a time against the service: every command, every failure.
SPECIFICATION Spec
CONSTANTS
  u1 = u1
  u2 = u2
  r1 = r1
  r2 = r2
  p1 = p1
  p2 = p2
  a1 = a1
  a2 = a2
  Service = service
  Procs = {p1}
  Aliases = {a1, a2}
  Uids = {u1, u2}
  Revisions = {r1}
  Commands = {"run", "env", "edit", "rename", "remove", "add"}
  InitConfig <- MCInitConfig
INVARIANTS
  BlockersFenced
  NoOverlap
  BlockersCurrent
  NoOrphanMet
PROPERTIES
  FencedFrozen
