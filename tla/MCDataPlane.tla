--------------------------- MODULE MCDataPlane ----------------------------
(* Instances of the data plane for TLC.  The
   components share no variable, so exploring each one alone (`part` says
   which) reaches every state its properties can tell apart. *)
EXTENDS UdpFlows, Failover, TcpRelay, ResolverCache, PortGroups, MultiUdp,
        UdpSupervisor, Dashboard, UdpBatch, SniPeek

\* One client on each UDP listen port.
MCPort == [k \in Keys |-> k]

\* Bytes each end of a relayed connection sends.
StreamBound == [in |-> 2, out |-> 1]

\* Host names under one domain, and the wildcard suffixes that meet them.
SniHosts == {<<"a", "x">>, <<"b", "a", "x">>}
SniSuffixes == {<<"x">>, <<"a", "x">>}

\* A target with two addresses and one with one; the rule admits two flows.
TargetAddresses == <<2, 1>>
RuleCeiling == [rule |-> 2]

\* Hellos as clients build them, one broken in every field, and a dialer that says
\* nothing.
HelloWith(names) == BuildClientHello(<<>>, Extension(ServerName, NameList(names)))
Entry(type, name) == [type |-> type, name |-> name]
PlainHello == HelloWith(<<Entry(HostName, <<Lower, Upper, Dot>>)>>)
Saying(stream, name) == [dials |-> TRUE, built |-> TRUE, stream |-> stream, named |-> name]
BuiltHellos ==
    {Saying(PlainHello \o <<8, 9>>, <<Lower, Lower>>),
     Saying(HelloWith(<<>>), <<>>),
     Saying(HelloWith(<<Entry(1, <<Lower>>), Entry(HostName, <<Dot>>),
                        Entry(HostName, <<Blank, Upper, Blank>>)>>), <<Lower>>),
     Saying(BuildClientHello(<<5>>, Extension(5, <<7>>)), <<>>),
     Saying(TlsRecord(<<0, 0, 0>>), <<>>)}
Unsaid(stream) == [dials |-> TRUE, built |-> FALSE, stream |-> stream, named |-> <<>>]
BrokenHellos ==
    {Unsaid([PlainHello EXCEPT ![i] = 0]) : i \in DOMAIN PlainHello}
        \cup {Unsaid([PlainHello EXCEPT ![Len(PlainHello)] = NotUtf8])}
\* A broken hello comes alone, the others beside a dialer that holds a permit.
BesideStalled(o) ==
    [d \in Dialers |-> IF d = CHOOSE e \in Dialers : TRUE THEN o
                       ELSE [Unsaid(<<>>) EXCEPT !.dials = o.built]]
DialerOffers ==
    {[streams |-> BesideStalled(o), fallback |-> o.built] : o \in BuiltHellos \cup BrokenHellos}
        \cup {[streams |-> BesideStalled(o), fallback |-> FALSE] : o \in BuiltHellos}
OneOffer == ~fallback /\ offer = BesideStalled(Saying(HelloWith(<<>>), <<>>))
RoutedHosts == {<<Lower, Lower>>}
ProxyHeaders == {<<>>, <<"proxy">>}

\* Each of the built hellos is parsed as what was written.
ASSUME BuiltHellosParse

\* A client of each family; the second port reads differently in either order
\* of bytes.
TwoSenders ==
    {[family |-> "inet", ip |-> "i4", port |-> 1, flowinfo |-> 0, scope |-> 0],
     [family |-> "inet6", ip |-> "i6", port |-> 258, flowinfo |-> 1, scope |-> 2]}

\* A TCP rule with two targets and a UDP rule.
DashboardRules ==
    <<[proto |-> "tcp", priorities |-> <<1, 0>>], [proto |-> "udp", priorities |-> <<0>>]>>
QuietAndBusy == {<<0, 1>>, <<2, 0>>}

\* Configuration files of the standalone daemon: two it runs with, then one per
\* way of being refused.
PlainRule ==
    [name |-> "a", id |-> 1, proto |-> "tcp", listen |-> "one", listenLen |-> 1,
     listenParses |-> TRUE, target |-> "one", targetLen |-> 1, targetParses |-> TRUE,
     hostParses |-> TRUE, proxyParses |-> TRUE]
Named(name, id) == [PlainRule EXCEPT !.name = name, !.id = id]
FileOf(rules) == [loads |-> TRUE, rules |-> rules, stats |-> FALSE, refresh |-> 1000]
ConfigFiles ==
    {FileOf(<<PlainRule, [Named("b", 2) EXCEPT !.proto = "udp"],
              [Named("c", 3) EXCEPT !.target = "list", !.targetLen = 2]>>),
     [FileOf(<<[PlainRule EXCEPT !.listen = "range", !.listenLen = 2, !.targetLen = 2]>>)
        EXCEPT !.stats = TRUE]}
    \cup
    {FileOf(<<>>),
     [FileOf(<<PlainRule>>) EXCEPT !.loads = FALSE],
     FileOf(<<PlainRule, PlainRule>>),
     FileOf(<<PlainRule, Named("b", 1)>>),
     FileOf(<<[PlainRule EXCEPT !.listen = "both"]>>),
     FileOf(<<[PlainRule EXCEPT !.target = "none"]>>),
     FileOf(<<[PlainRule EXCEPT !.listen = "range", !.listenLen = 2, !.target = "list"]>>),
     FileOf(<<[PlainRule EXCEPT !.target = "list", !.targetLen = 0]>>),
     FileOf(<<[PlainRule EXCEPT !.listen = "range", !.listenLen = 2]>>),
     FileOf(<<[PlainRule EXCEPT !.proto = "sctp"]>>),
     [FileOf(<<PlainRule>>) EXCEPT !.stats = TRUE, !.refresh = 249]}

\* Connections are interchangeable, and one that has neither pipes nor a quota
\* shares nothing with the others: it is explored as the first of them.  What
\* was read before the copy concerns its own connection only.
FirstRelayed == CHOOSE c \in Relayed : TRUE
OthersShare ==
    \A c \in Relayed \ {FirstRelayed} :
        /\ relay[c].preread = 0
        /\ relay[c].at = "copying" => relay[c].path = "splice" \/ relay[c].metered

\* End users are interchangeable too: the first datagram is the first one's.
FirstSource == CHOOSE s \in Sources : TRUE
FirstSends == turns.datagrams = 1 /\ rx.at = "get" => rx.src = FirstSource

\* One line in two pieces is enough for the dashboard: that of the second
\* snapshot, with one before to compare and one after to recover by.
SecondLineSplit == link'.half /\ ~link.half => dash.at = "once" \/ Len(shots) = 1

VARIABLE part   \* the component that takes steps

dataPlaneVars == <<part, udpVars, vars, relayVars, resolverVars,
    portGroupVars, multiUdpVars, supervisorVars, standaloneVars, dashboardVars, batchVars, sniPeekVars>>

DataPlaneInit ==
    /\ part \in {"udp", "failover", "relay", "resolver", "sni", "multi", "supervisor", "standalone", "dashboard", "batches", "peeks"}
    /\ UdpInit
    /\ Init /\ (part # "failover" => up = {})
    /\ RelayInit
    /\ ResolverInit
    /\ PortGroupInit
    /\ MultiUdpInit
    /\ SupervisorInit
    /\ StandaloneInit /\ (part # "standalone" => file = FileOf(<<>>))
    /\ DashboardInit
    /\ BatchInit /\ (part # "batches" => ~batched)
    /\ SniPeekInit /\ (part # "peeks" => OneOffer)

DataPlaneNext ==
    \/ /\ part = "udp" /\ UdpNext
       /\ UNCHANGED <<part, vars, relayVars, resolverVars,
                      portGroupVars, multiUdpVars, supervisorVars, standaloneVars, dashboardVars, batchVars, sniPeekVars>>
    \/ /\ part = "failover" /\ Next
       /\ UNCHANGED <<part, udpVars, relayVars, resolverVars,
                      portGroupVars, multiUdpVars, supervisorVars, standaloneVars, dashboardVars, batchVars, sniPeekVars>>
    \/ /\ part = "relay" /\ RelayNext /\ OthersShare'
       /\ UNCHANGED <<part, udpVars, vars, resolverVars,
                      portGroupVars, multiUdpVars, supervisorVars, standaloneVars, dashboardVars, batchVars, sniPeekVars>>
    \/ /\ part = "resolver" /\ ResolverNext
       /\ UNCHANGED <<part, udpVars, vars, relayVars,
                      portGroupVars, multiUdpVars, supervisorVars, standaloneVars, dashboardVars, batchVars, sniPeekVars>>
    \/ /\ part = "sni" /\ PortGroupNext
       /\ UNCHANGED <<part, udpVars, vars, relayVars,
                      resolverVars, multiUdpVars, supervisorVars, standaloneVars, dashboardVars, batchVars, sniPeekVars>>
    \/ /\ part = "multi" /\ MultiUdpNext /\ FirstSends'
       /\ UNCHANGED <<part, udpVars, vars, relayVars,
                      resolverVars, portGroupVars, supervisorVars, standaloneVars, dashboardVars, batchVars, sniPeekVars>>
    \/ /\ part = "supervisor" /\ SupervisorNext
       /\ UNCHANGED <<part, udpVars, vars, relayVars,
                      resolverVars, portGroupVars, multiUdpVars, standaloneVars, dashboardVars, batchVars, sniPeekVars>>
    \/ /\ part = "standalone" /\ StandaloneNext
       /\ UNCHANGED <<part, udpVars, vars, relayVars,
                      resolverVars, portGroupVars, multiUdpVars, supervisorVars, dashboardVars, batchVars, sniPeekVars>>
    \/ /\ part = "dashboard" /\ DashboardNext /\ SecondLineSplit
       /\ UNCHANGED <<part, udpVars, vars, relayVars,
                      resolverVars, portGroupVars, multiUdpVars, supervisorVars, standaloneVars, batchVars, sniPeekVars>>
    \/ /\ part = "batches" /\ BatchNext
       /\ UNCHANGED <<part, udpVars, vars, relayVars,
                      resolverVars, portGroupVars, multiUdpVars, supervisorVars, standaloneVars, dashboardVars, sniPeekVars>>
    \/ /\ part = "peeks" /\ SniPeekNext
       /\ UNCHANGED <<part, udpVars, vars, relayVars,
                      resolverVars, portGroupVars, multiUdpVars, supervisorVars, standaloneVars, dashboardVars, batchVars>>

DataPlaneSpec == DataPlaneInit /\ [][DataPlaneNext]_dataPlaneVars
=============================================================================
