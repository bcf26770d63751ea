SPECIFICATION Spec
CONSTANTS
    Exits = {e1, e2}
    Clients = {c1, c2}
    Tunnels = {t1, t2}
    Codes = {"AB", "22"}
    Keys = {"ab", "22"}
    KeyOf <- MCKeyOf
    Generated = {"22"}
    None = None
    MayExpire = {e1}
    MaxWire = 6
SYMMETRY MCSymmetry
INVARIANTS
    TypeOK
    CodeTableSound
    RegisteredIsReachable
    LinkAgreement
    WireOrder
PROPERTIES
    TunnelEndsForCause
    RelayImplementsPairing
CHECK_DEADLOCK FALSE
