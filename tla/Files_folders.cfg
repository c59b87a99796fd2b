SPECIFICATION FilesSpec
CHECK_DEADLOCK FALSE
CONSTANTS
    Uploads = {u1, u2}
    Desktop = {u2}
    Calls = {k1, k2}
    NoCall = NoCall
    Free = Free
    Reserved = Reserved
    Size = 2
    ChunkSize = 1
    MaxAttempts = 2
    MaxNames = 2
    MaxLosses = 1
    MaxTroubles = 1
    Paths = {1, 2, 3}
    Parent <- LastInFirst
    PageSize = 1
    MaxChanges = 2
    MaxUnplugs = 1
    MaxPlays = 1
    MaxPasses = 1
    MaxEvents = 3
INVARIANTS
    UploadsHold
    ListingIsWhole
PROPERTIES
    LibraryKept
    AllArrives
    IndexCatchesUp
