SPECIFICATION FairSpec
CONSTANTS
    IsClient = TRUE
    MaxQueue = 2
    MaxPending = 2
    MaxOut = 4
    MaxIn = 2
    MaxAttempts = 2
    None = None
INVARIANTS
    InOrder
    NothingStaleIsSent
    NothingSkipped
PROPERTY
    SendQueueMoves
CHECK_DEADLOCK FALSE
