SPECIFICATION Spec
CONSTANTS
    Conns = {c1, c2}
    MaxTunnels = 3
    SystemMode = TRUE
    Verify = TRUE
    WaitsForAll = FALSE
    Foreign = TRUE
    Faults = {"proxy", "keys", "term"}
    None = None
INVARIANTS
    TypeOK
    SettingsFollow
    ConnectedIsSeen
CHECK_DEADLOCK FALSE
