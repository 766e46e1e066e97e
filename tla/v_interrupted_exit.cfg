SPECIFICATION Spec
CONSTANTS
    k1 = k1
    k2 = k2
    k3 = k3
    Clients <- ThreeClients
    BACKLOG = 2
    LogErrno = {}
    MaxFaults = 0
INVARIANTS
    InterruptedContinues
CHECK_DEADLOCK FALSE
