SPECIFICATION FairSpec
CONSTANTS
    Codes = {c1}
    Devices = {d1, d2}
    Folders = {f1}
    Modes = {"full"}
    Calls = {k1, k2}
    NoDevice = NoDevice
    NoCode = NoCode
    MaxFailed = 2
    ClientTimeout = 0
    RejectedGrace = 0
    PendingGrace = 1
    MaxAge = 2
    MaxApprovals = 2
    MaxRefresh = 2
    MaxClosings = 1
    MaxRestarts = 1
    MaxEdits = 1
INVARIANTS
    TypeInv
    OneDevicePerCode
    ClosedSessionsDie
    DeliveriesHold
PROPERTIES
    DeadCodeStaysDead
    ClosedForGood
    WaitingIsServed
CHECK_DEADLOCK FALSE
ACTION_CONSTRAINT FirstUnused
