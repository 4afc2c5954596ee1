\* Two ordinary processes racing each other while no service is running.
SPECIFICATION Spec
CONSTANTS
  u1 = u1
  u2 = u2
  r1 = r1
  r2 = r2
  p1 = p1
  p2 = p2
  a1 = a1
  a2 = a2
  Service = service
  Procs = {p1, p2}
  Aliases = {a1, a2}
  Uids = {u1, u2}
  Revisions = {r1, r2}
  Commands = {"run", "login", "env", "doctor", "edit", "rename", "remove", "add"}
  InitConfig <- MCInitConfig
INVARIANTS
  UseFrozen
  RollbackPossible
CONSTRAINT ServiceDown
SYMMETRY Processes
