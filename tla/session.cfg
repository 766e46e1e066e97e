SPECIFICATION FairSpec
CONSTANTS
    a = a
    b = b
    v1 = v1
    v2 = v2
    f1 = f1
    f2 = f2
    Absent = Absent
    Client = {a, b}
    Operation = {"ping", "put", "get"}
    FileName = {f1, f2}
    Version = {v1, v2}
    FilesOf <- TwoVersions
    MaxFaults = 1
INVARIANTS
    IInv
    FollowsProtocol
PROPERTIES
    OverwrittenWithConsent
    PutReplaces
    SessionEnds
CHECK_DEADLOCK FALSE
