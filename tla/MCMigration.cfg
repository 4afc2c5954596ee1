SPECIFICATION FairSpec
CONSTANTS
    N = 3
    ConfigAnchor = 1
    VendorAnchor = 2
    MaxTx = 2
    MaxChanges = 1
    MaxForeign = 1
    MaxFaults = 1
    MaxCrashes = 2
INVARIANTS
    JournalMatchesDisk
PROPERTIES
    ImplementsContract
    ForeignUntouched
    IntactIsResolved
CHECK_DEADLOCK FALSE
