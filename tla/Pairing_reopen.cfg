SPECIFICATION Spec
CONSTANTS
    Codes = {c1}
    Devices = {d1}
    Folders = {f1}
    Modes = {"full"}
    Calls = {k1, k2}
    NoDevice = NoDevice
    NoCode = NoCode
    MaxFailed = 2
    ClientTimeout = 0
    RejectedGrace = 1
    PendingGrace = 2
    MaxAge = 0
    MaxApprovals = 1
    MaxRefresh = 0
    MaxClosings = 1
    MaxRestarts = 0
    MaxEdits = 0
PROPERTY RevokedStaysClosed
CHECK_DEADLOCK FALSE
