SPECIFICATION TransfersSpec
CHECK_DEADLOCK FALSE
CONSTANTS
    Reqs = {1, 2}
    Asks <- AskedOrNot
    MaxSize = 2
    MaxReplaced = 1
    MaxSwitches = 1
    Jobs = {j1, j2, j3}
    Concurrency = 2
    Length <- ThreeThenTwo
    NoFile = NoFile
    UserFile = UserFile
    MaxNames = 3
    MaxFaults = 1
    MaxUntold = 1
    MaxChanges = 1
    MaxUserFiles = 1
    MaxRevivals = 1
    MaxRecancels = 1
    MaxPauses = 2
    MaxCrashes = 1
    MaxTroubles = 2
SYMMETRY JobSymmetry
INVARIANTS
    DownloadsHold
    NoneWaitsInVain
    AccessHolds
    BytesHold
PROPERTIES
    FetchedIsKept
