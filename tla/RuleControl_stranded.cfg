SPECIFICATION Spec
CONSTANTS
    Tasks = {t1}
    Ports = {p1}
    Limits = {}
    NoLimit = NoLimit
    NoRule = NoRule
    NoSlot = NoSlot
    Capable = {TRUE}
    Operations = {"push"}
    Faults = {"cut"}
    EventCap = 64
    OutboundCap = 2
    MaxRules = 1
    MaxRequests = 1
    MaxSpawns = 2
    MaxSessions = 2
    MaxRestarts = 0
INVARIANTS
    RunsAgain
\* A client that is cut off and may not reconnect any more has nothing to do.
CHECK_DEADLOCK FALSE
