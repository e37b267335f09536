SPECIFICATION DataPlaneSpec
CONSTANTS
    \* UdpFlows
    Ports = {a, b}
    Keys = {a, b}
    Port <- MCPort
    Cap = 1
    QCap = 1
    OccMod = 8
    MaxFlows = 2
    MaxErrors = 1
    MaxSweeps = 1
    \* Failover: failures within a sliding window
    N = 1
    Conns = {k1}
    Proxied = {}
    Probing = TRUE
    FailThreshold = 3
    RecoverThreshold = 2
    Window = 1
    CountMax = 3
    CounterMod = 2
    MaxClock = 2
    StreakLen = 4
    \* TcpRelay
    Relayed = {c1, c2}
    MaxStream <- StreamBound
    PoolMax = 2
    RelayBudgets = {1}
    \* ResolverCache
    Names = {n1, n2}
    Lookups = {l1, l2}
    MaxResolves = 2
    MaxEntries = 1
    AttemptTimeout = 1
    Margin = 1
    Floor = 1
    Ceiling = 2
    Grace = 1
    Retry = 1
    Ttls = {0, 9}
    Rounds = 4
    MaxInstant = 4
    NoName = NoName
    \* PortGroups
    SniRules = {r1, r2}
    SniPorts = {p1}
    Hosts <- SniHosts
    Suffixes <- SniSuffixes
    Peers = {e1}
    MaxPeeks = 2
    NoMatch = NoMatch
    NoPort = NoPort
    NoSni = NoSni
    \* MultiUdp
    Sources = {s1, s2}
    Addresses <- TargetAddresses
    FlowCap = 1
    FlowCeilings <- RuleCeiling
    MaxUdpFlows = 2
    MaxDatagrams = 2
    MaxTurns = 1
    NoFlow = NoFlow
    \* UdpSupervisor
    ListenPorts = {7, 8}
    TargetPorts = 2
    FirstPort = 7
    MaxNewFlows = 2
    \* Standalone
    Files <- ConfigFiles
    MaxClients = 1
    StatusCap = 1
    Readers = {d1, d2}
    \* Dashboard
    Shown <- DashboardRules
    Window60 = 2
    MaxShots = 4
    Bursts <- QuietAndBusy
    SampleCap = 1
    MaxProbeRounds = 1
    MaxKeys = 2
    \* UdpBatch
    Senders <- TwoSenders
    BatchSize = 2
    MaxCarried = 3
    \* SniPeek
    Dialers = {i1, i2}
    Offers <- DialerOffers
    ServedHosts <- RoutedHosts
    Preludes <- ProxyHeaders
    PeekSlots = 1
    MaxRecord = 30
    Chunk = 16
    ByteCap = 33
    MaxSends = 2
INVARIANTS
    FlowsSound
    RegistrySound
    RelaySound
    FlightsSound
    RoutesSound
    MultiUdpSound
    SupervisorSound
    StandaloneSound
    BatchesSound
    PeeksSound
PROPERTY
    HealthSound
\* A component that has used up its bounds stops.
CHECK_DEADLOCK FALSE
