SPECIFICATION FairSpec
CONSTANTS
    i1 = i1
    i2 = i2
    Ids = {i1, i2}
    MaxSession = 2
    Opens <- MCThree
    MaxData = 2
    MaxReply = 1
    MaxPending = 2
    Eager <- MCSecond
    Handovers = {"quiet"}
    Stuck = {}
    None = None
INVARIANTS
    TypeOK
    InOrder
    NoLeak
PROPERTIES
    ClosedStreamEnds
    NeverStalls
CHECK_DEADLOCK FALSE
