SPECIFICATION FairSpec
CONSTANTS
    k1 = k1
    k2 = k2
    k3 = k3
    Clients <- ThreeClients
    BACKLOG = 2
    LogErrno = {"ENOENT"}
    MaxFaults = 1
INVARIANTS
    OneChildEach
    ZombiesNoticed
PROPERTIES
    Reaped
    Served
CHECK_DEADLOCK FALSE
