SPECIFICATION ClientsSpec
CHECK_DEADLOCK FALSE
CONSTANTS
    Scenarios <- Some
    Origins = {1, 2}
    Primary = 1
    Asks = {"events", "list", "me"}
    Threshold = 2
    Window = 1
    Ttl = 1
    MaxStale = 1
    Keys = {1, 2}
    Pages = 3
    Seeks = {1, 2}
    MaxTokens = 3
    Effects = {1, 2, 3}
    Rows = {"s1", "s2"}
    Nothing = Nothing
    Places = {"a", "ax", "b"}
    FolderOf <- PlaceFolder
    FullMode = {"a"}
    Words = {"w"}
    UploadIds = {"u1"}
    Chunks = 2
INVARIANTS
    PhoneHolds
    DesktopHolds
PROPERTIES
    PhoneCatchesUp
    DesktopGoesOn
