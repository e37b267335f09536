SPECIFICATION Spec
CONSTANTS
    Tasks = {t1, t2}
    Ports = {p1}
    Limits = {}
    NoLimit = NoLimit
    NoRule = NoRule
    NoSlot = NoSlot
    Capable = {TRUE}
    Operations = {"push", "remove"}
    Faults = {}
    EventCap = 64
    OutboundCap = 2
    MaxRules = 1
    MaxRequests = 1
    MaxSpawns = 1
    MaxSessions = 1
    MaxRestarts = 0
INVARIANTS
    RunningIsKnown
\* A client that is cut off and may not reconnect any more has nothing to do.
CHECK_DEADLOCK FALSE
