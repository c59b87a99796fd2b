SPECIFICATION CoreSpec
CHECK_DEADLOCK FALSE
CONSTANTS
    NoId = NoId
    BufferSize = 2
    MaxEvents = 3
    MaxBeats = 1
    MaxLosses = 1
    MaxRestarts = 1
    MaxGrants = 1
    MaxChanges = 1
    Calls = {k1, k2}
    Devices = {d1}
    None = None
    Unread = Unread
    MaxTokens = 3
    MaxLost = 1
    MaxUpdates = 1
    MaxSignOuts = 1
    MaxCrashes = 1
INVARIANTS
    StreamHolds
    SessionHolds
PROPERTIES
    StreamKeepsItsWord
    ChangesArrive
