SPECIFICATION FairSpec
CONSTANTS
    Dumped = {db}
    Moved = {vol}
    Claimed = {}
    Measured = {}
    Unclassified = {vol}
    MaxSlot = 3
    Names = {1, 3}
    MaxDumps = 2
    MaxFaults = 1
INVARIANTS
    UsefulIsRestorable
PROPERTIES
    HealthSettles
    WindowServed
    BackupsEnd
    SucceededIsRestorable
    AutoRestoreHasBackup
    RestoreComes
    CopierFollowsFlag
