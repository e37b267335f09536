SPECIFICATION OperatorsSpec
CONSTANTS
    \* RuleControl: two operators
    Tasks = {t1, t2}
    Ports = {p1}
    Limits = {}
    NoLimit = NoLimit
    NoRule = NoRule
    NoSlot = NoSlot
    Capable = {TRUE}
    Operations = {"push", "remove"}
    Faults = {"store"}
    EventCap = 1
    OutboundCap = 2
    MaxRules = 2
    MaxRequests = 2
    MaxSpawns = 2
    MaxSessions = 1
    MaxRestarts = 0
    \* RuleRequests
    Bodies <- RequestBodies
    Hellos <- OldAndNew
    RangeCap = 2
    MaxTargets = 2
    MaxIds = 2
    MaxAttached = 2
    Absent = Absent
    \* Access
    Users = {u1, u2}
    Founder = u1
    HttpRequests = {q1, q2}
    Grants = {g1}
    OwnedIds = {i1}
    Scopes <- OneScope
    MaxTokens = 2
    NoGrant = NoGrant
    AbsentRule = AbsentRule
    \* WebAuth
    Accounts = {u1}
    Logins = {l1, l2}
    Cookies = {k1}
    LockAfter = 2
    Window = 3
    Lockout = 2
    MaxLockout = 3
    HashTime = 1
    IdleTimeout = 1
    AbsoluteTimeout = 2
    MaxHour = 4
    MaxPassword = 1
    MaxAttempts = 3
    NoSession = NoSession
    \* AuditLog
    QueueCapacity = 4
    BatchMax = 1
    DrainBatches = 4
    RingCapacity = 2
    MaxRows = 1
    MaxRecorded = 6
    \* DataDirectory
    Procs = {d1, d2}
    Versions = {1, 2}
    Commands = {"serve", "bootstrap", "offline", "restore", "force", "reset"}
    Hosts = {h1}
    NoHost = NoHost
    Artefacts <- RestoredFiles
    MaxRuns = 3
    MaxCommitted = 1
    MaxInodes = 4
    \* Commands
    Shells = {s1, s2}
    MaxBoard = 2
INVARIANTS
    ListenersSound
    RequestsSound
    StoreSound
    AccessSound
    DrainTakesAll
    DirectorySound
    CommandsSound
PROPERTY
    WebAuthSound
SYMMETRY Interchangeable
\* A component that has used up its bounds stops.
CHECK_DEADLOCK FALSE
