SPECIFICATION LivePrintSpec
CHECK_DEADLOCK FALSE
CONSTANTS
    Jobs = {j1, j2}
    NoJob = NoJob
    Other = Other
    Looks = 1
    ShellLooks = 2
    UnreadableLimit = 2
    MaxNumbers = 2
    MaxTroubles = 2
INVARIANTS
    JobsLeaveNothing
PROPERTIES
    FinishedIsFinal
    EveryJobSettles
