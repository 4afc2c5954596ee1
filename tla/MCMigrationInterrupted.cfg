SPECIFICATION FairSpec
CONSTANTS
    N = 2
    ConfigAnchor = 1
    VendorAnchor = 2
    MaxTx = 1
    MaxChanges = 0
    MaxForeign = 0
    MaxFaults = 0
    MaxCrashes = 1
PROPERTIES
    InterruptionIsRecoverable
CHECK_DEADLOCK FALSE
