SPECIFICATION Spec
CONSTANTS
    Secrets = {s1, s2}
    NoSecret = NoSecret
    ReadSizes = {1, 65535}
    MaxFrames = 4
INVARIANT
    Intact
CHECK_DEADLOCK FALSE
