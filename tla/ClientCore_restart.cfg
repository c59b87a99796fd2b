SPECIFICATION CoreSpec
CHECK_DEADLOCK FALSE
CONSTANTS
    NoId = NoId
    BufferSize = 2
    MaxEvents = 1
    MaxBeats = 1
    MaxLosses = 0
    MaxRestarts = 0
    MaxGrants = 0
    MaxChanges = 1
    Calls = {k1}
    Devices = {d1}
    None = None
    Unread = Unread
    MaxTokens = 2
    MaxLost = 0
    MaxUpdates = 0
    MaxSignOuts = 0
    MaxCrashes = 0
PROPERTIES
    StreamComesBack
