SPECIFICATION FairSpec
CONSTANTS
    i1 = i1
    i2 = i2
    Ids = {i1, i2}
    MaxSession = 2
    Opens <- MCSameId
    MaxData = 1
    MaxReply = 0
    MaxPending = 1
    Eager <- MCNobody
    Handovers = {"opening"}
    Stuck = {}
    None = None
INVARIANT
    OwnDestinationOnly
CHECK_DEADLOCK FALSE
