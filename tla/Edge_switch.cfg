SPECIFICATION FairSpec
CHECK_DEADLOCK FALSE
CONSTANTS
    Calls = {k1, k2}
    Configs = {tailscale, headscale}
    FirstConfig = headscale
    Certified = {headscale}
    None = None
    MaxGenerations = 3
    MaxTroubles = 1
    MaxStops = 1
INVARIANTS
    EdgeHolds
PROPERTIES
    NodeIsShown
    CallsReturn
