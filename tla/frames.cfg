SPECIFICATION FairSpec
CONSTANTS
    Secrets = {s1, s2}
    NoSecret = NoSecret
    ReadSizes = {1, 65507}
    MaxFrames = 4
INVARIANTS
    Intact
    Whole
    NothingWithoutTheSecret
PROPERTY
    AnsweredWithTheSecret
CHECK_DEADLOCK FALSE
