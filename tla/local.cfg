SPECIFICATION FairSpec
CONSTANTS
    Conns = {c1, c2}
    MaxWrite = 1
    MaxData = 2
    MaxSend = 1
    Stuck = {}
    None = None
INVARIANTS
    ExitIsToldOnce
    InOrder
    NoLeak
PROPERTY
    LoopServesAll
CHECK_DEADLOCK FALSE
