CONSTANTS
    p1 = p1
    p2 = p2
    i1 = i1
    i2 = i2
    Procs = {p1, p2}
    Providers = {"claude"}
    ProfileNames = {"a", "b"}
    Names = {1, 2}
    Paths <- MCPaths
    Metas = {"m1", "m2"}
    Installations = {i1, i2}
    Dirs = {1, 2, 3}
    MaxCommands = 3
    Stores <- MCStores
SPECIFICATION Spec
SYMMETRY Perms
INVARIANTS Loadable IdentityPersisted
PROPERTIES SelectionConfirmed
CHECK_DEADLOCK FALSE
