SPECIFICATION ProgramsSpec
CONSTANTS
    e1 = e1
    e2 = e2
    c1 = c1
    c2 = c2
    d1 = d1
    d2 = d2
    Exits = {e1, e2}
    Clients = {c1, c2, d1, d2}
    Tunnels = {c1, c2, d1, d2}
    Sharers = {"home"}
    Connectors = {"a", "b"}
    SharerOf <- MCSharerOf
    ConnectorOf <- MCConnectorOf
    Turn <- MCTurn
    Preferred <- MCPreferred
    Typed <- MCTyped
    Codes = {"AB", "22"}
    Keys = {"ab", "22"}
    KeyOf <- MCKeyOf
    Generated = {"22"}
    None = None
    MayExpire = {e1}
    MaxWire = 0
    MaxFaults = 1
    Faults = {e1, c1, "relay"}
INVARIANTS
    ProgramsTypeOK
    ShownCodeLeadsHere
    TunnelIsReal
PROPERTIES
    SharerComesBack
    ConnectorIsAnswered
    TablesSettle
CHECK_DEADLOCK FALSE
