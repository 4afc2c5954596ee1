CONSTANTS
    Procs = {p1, p2}
    Secrets = {s1, s2}
    MaxKills = 1
SPECIFICATION FairSpec
INVARIANTS
    MainHasStored
    ChildrenReaped
    ResultsTrue
PROPERTIES
    ReplacementConsented
    PreflightsEnd
    SignalEndsWait
