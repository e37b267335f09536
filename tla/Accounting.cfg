SPECIFICATION AccountsSpec
CONSTANTS
    \* RuleControl: a client that reconnects and a server that restarts
    Tasks = {t1}
    Ports = {p1}
    Limits = {}
    NoLimit = NoLimit
    NoRule = NoRule
    NoSlot = NoSlot
    Capable = {TRUE}
    Operations = {"push", "remove"}
    Faults = {"cut"}
    EventCap = 64
    OutboundCap = 2
    MaxRules = 1
    MaxRequests = 1
    MaxSpawns = 2
    MaxSessions = 2
    MaxRestarts = 1
    \* RuleStats
    Viewers = {v1}
    StreamCapacity = 1
    MaxBytes = 1
    MaxStatsSessions = 2
    MaxObserved = 2
    NoEntry = NoEntry
    \* QuotaAccounting
    MonthlyLimits = {2}
    Chunks = {1}
    QuotaRequests = {"put", "patch", "delete"}
    MaxSent = 2
    MaxMonth = 1
    MaxQuotaRequests = 1
    MaxCuts = 1
    NoRow = NoRow
    NoHandle = NoHandle
    \* TrafficHistory
    Hour = 2
    Retention1m = 4
    Retention1h = 6
    Lag = 1
    MaxClock = 13
    MaxReports = 2
    MaxCrashes = 1
    \* BillingPeriod
    FirstYear = 2023
    Months = 18
    AnchorDays = {1, 28, 29, 30, 31}
    AnchorGap = 40
    Outages = {1, 29, 70}
    \* QuotaHandle
    TcpCopies = {tcp}
    UdpSends = {udp}
    DrawSizes = {1, 2}
    Budgets = {0, 2}
    MaxInstalls = 1
    MaxUnpaid = 2
    \* Throttle
    Layers <- OneLayer
    Streams = {s1}
    Shapers = {h1}
    ChunkSizes = {1, 2}
    Rate = 2
    Unit = 3
    Burst = 2
    MaxTime = 3
    \* Admission
    Owner = Owner
    Rules = {r1, r2}
    Accepts = {a1, a2}
    Ceilings = {1}
    NoCeiling = NoCeiling
    NoLimiter = NoLimiter
    MaxGauges = 2
    \* AuditQuery
    Scribes = 2
    LimitMax = 2
    KeptRows = 2
    LastInstant = 1
    LastSeq = 3
    \* ClientAdmin
    Fleet = {c1, c2}
    Labels = {n1, n2}
    Admins = {1, 2}
    MaxRuleNo = 2
    MaxAsks = 2
INVARIANTS
    StatusSound
    ChargedOnce
    AcceptedQueryExact
    PeriodIsCurrent
    RateHeld
    PagesSound
    NamesSound
PROPERTIES
    StatsSound
    BudgetSound
    AdmissionSound
\* A component that has used up its bounds stops.
CHECK_DEADLOCK FALSE
