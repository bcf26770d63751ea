SPECIFICATION Spec
CONSTANTS
    Exits = {e1, e2}
    Clients = {c1, c2}
    Tunnels = {t1, t2}
    Codes = {"AB"}
    Keys = {"ab"}
    KeyOf <- MCKeyOf1
    Generated = {"AB"}
    None = None
    MayExpire = {}
    MaxWire = 2
INVARIANT
    RegisteredIsReachable
CHECK_DEADLOCK FALSE
