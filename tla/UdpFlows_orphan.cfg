SPECIFICATION UdpSpec
CONSTANTS
    Ports = {a, b}
    Keys = {a, b}
    Port <- MCPort
    Cap = 1
    QCap = 2
    OccMod = 8
    MaxFlows = 2
    MaxErrors = 1
    MaxSweeps = 1
INVARIANT
    RemovedIsCancelled
CHECK_DEADLOCK FALSE
