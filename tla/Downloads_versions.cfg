SPECIFICATION Spec
CHECK_DEADLOCK FALSE
CONSTANTS
    Jobs = {j1}
    Concurrency = 1
    Length <- ThreeThenTwo
    NoFile = NoFile
    UserFile = UserFile
    MaxNames = 1
    MaxFaults = 1
    MaxUntold = 0
    MaxChanges = 1
    MaxUserFiles = 0
    MaxRevivals = 0
    MaxRecancels = 0
    MaxPauses = 1
    MaxCrashes = 0
    MaxTroubles = 2
INVARIANTS
    DoneIsOneVersion
