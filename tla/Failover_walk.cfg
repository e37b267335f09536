SPECIFICATION FairSpec
CONSTANTS
    N = 2
    Conns = {k1}
    Proxied = {1}
    Probing = TRUE
    FailThreshold = 2
    RecoverThreshold = 1
    Window = 0
    CountMax = 2
    CounterMod = 2
    MaxClock = 1
    StreakLen = 0
INVARIANTS
    WalkSound
    FailoversCounted
PROPERTIES
    RuleComesToRest
