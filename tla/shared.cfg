SPECIFICATION FairSpec
CONSTANTS
    v1 = v1
    v2 = v2
    Version = {v1, v2}
    Blocks <- ShortAndLong
    Torn = Torn
    NoVersion = NoVersion
    Initially = {v2}
    MaxAttempts = 3
    MaxOverlaps = 1
    MaxFaults = 1
INVARIANTS
    IInv
    AloneSucceeds
    SpinsOnlyOverlapped
PROPERTIES
    InstalledAsVerified
    AttemptsEnd
CHECK_DEADLOCK FALSE
