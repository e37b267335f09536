SPECIFICATION FairControlSpec
CONSTANTS
    Tasks = {t1}
    Ports = {p1}
    Limits = {l1}
    NoLimit = NoLimit
    NoRule = NoRule
    NoSlot = NoSlot
    Capable = {TRUE}
    Operations = {"push", "remove", "update"}
    Faults = {"cut"}
    EventCap = 2
    OutboundCap = 2
    MaxRules = 1
    MaxRequests = 3
    MaxSpawns = 3
    MaxSessions = 1
    MaxRestarts = 0
    \* OwnerCaps
    Callers = {c1, c2}
    Caps = {e1, e2}
    NoCap = NoCap
    MaxOwned = 1
    MaxCalls = 3
    MaxLinks = 2
    \* Onboarding
    Machines = {m1, m2}
    NetHosts = {n1, n2}
    Loopback = Loopback
    Reaching = {n1}
    NoEndpoint = NoEndpoint
    NoBundle = NoBundle
    TornBundle = TornBundle
    MaxUris = 2
    MaxBoots = 1
INVARIANT
    UpdatesSound
    OwnerCapsSound
    OnboardingSound
PROPERTIES
    RequestsComplete
\* A client that is cut off and may not reconnect any more has nothing to do.
CHECK_DEADLOCK FALSE
