SPECIFICATION Spec
CHECK_DEADLOCK FALSE
CONSTANTS
    Scenarios <- Some
    Devs = {1, 2}
    MaxUser = 3
    MaxFaults = 1
    MaxKids = 2
    MaxStatus = 1
    MaxPlain = 2
    MaxMoves = 2
INVARIANTS
    SidecarHolds
    LanIsAsTold
    InstalledIsConfirmed
PROPERTIES
    ComesUp
    NothingIsDropped
