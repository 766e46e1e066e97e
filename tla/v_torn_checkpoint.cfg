SPECIFICATION FairSpec
CONSTANTS
    v1 = v1
    v2 = v2
    Version = {v1, v2}
    Blocks <- ShortAndLong
    Torn = Torn
    NoVersion = NoVersion
    Initially = {v2}
    MaxAttempts = 2
    MaxOverlaps = 1
    MaxFaults = 0
INVARIANTS
    NoTornCkpt
CHECK_DEADLOCK FALSE
