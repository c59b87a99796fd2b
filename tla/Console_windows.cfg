SPECIFICATION Spec
CHECK_DEADLOCK FALSE
CONSTANTS
    None = "N"
    Hosts = {"h1", "localcast"}
    Name = "localcast"
    Conns = {"c1", "c2"}
    Addresses = {"a1", "a2"}
    Life = 3
    RenewBefore = 1
    PeerTtl = 1
    Funnel = "funnel"
    Phones = {"d1"}
    Shares = {"f1", "f2"}
    Levels = {"full"}
    Blocking = {"b"}
    Degrading = {"d", "e"}
INVARIANTS ConsoleHolds SetupHolds
PROPERTIES ConsoleAnswers
