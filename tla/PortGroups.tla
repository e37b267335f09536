----------------------------- MODULE PortGroups -----------------------------
(***************************************************************************)
(* TLS SNI routing on the client: PortGroupManager (portunus-client,       *)
(* port_groups.rs), which keeps one listener per port for the rules that   *)
(* share it, and the listener, routing table and ClientHello peek of       *)
(* portunus-forwarder, sni/.                                               *)
(*                                                                         *)
(* The manager changes the members of a group and publishes a new table    *)
(* through a watch channel; a connection takes one snapshot when it is     *)
(* accepted and is routed by it after its ClientHello was read, however    *)
(* much the group has changed meanwhile.                                   *)
(***************************************************************************)
EXTENDS Integers, Sequences, FiniteSets

CONSTANTS
    SniRules,    \* rule ids, not reused while the server runs
    SniPorts,
    Hosts,       \* server names, as sequences of lower-cased labels
    Suffixes,    \* suffixes of wildcard patterns "*.suffix", likewise
    Peers,       \* incoming connections
    MaxPeeks,    \* MAX_INFLIGHT_PEEKS of a listener
    NoMatch, NoPort, NoSni

Labels == UNION {{h[i] : i \in DOMAIN h} : h \in Hosts \cup Suffixes}

ASSUME PortGroupAssumption ==
    /\ Hosts \cup Suffixes \subseteq Seq(Labels)
    /\ NoMatch \notin SniRules /\ NoPort \notin SniPorts /\ NoSni \notin Hosts
    /\ MaxPeeks \in Nat \ {0}

Patterns ==
    [kind : {"exact"}, name : Hosts] \cup [kind : {"wildcard"}, name : Suffixes]
    \cup {[kind |-> "fallback", name |-> <<>>]}

VARIABLES
    members,     \* port -> the members of its group: rule -> pattern, none = no group
    ruleToPort,  \* rule_to_port, the index REMOVE needs
    published,   \* port -> the table in the watch channel
    socket,      \* port -> "free", "open" or "cancelled", the listener's socket
    acked,       \* history: rules reported Activated and not removed
    pushed,      \* rules pushed before: their ids do not come again
    founding,    \* the push whose listener runs and whose table is not out yet
    peer         \* the state of each connection

portGroupVars == <<members, ruleToPort, published, socket, acked, pushed, founding, peer>>

-----------------------------------------------------------------------------
(* The routing table *)

Table(ms) == ms  \* a table is the members it was built from, pattern by pattern

\* Slip: a later member silently takes over the pattern of an earlier one.
BuildsAlways(ms) == TRUE

\* from_members fails on two equal patterns and on two fallbacks.
Builds(ms) == \A r, s \in DOMAIN ms : ms[r] = ms[s] => r = s

\* wildcard_matches: exactly one non-empty label before the suffix.
WildcardMatches(host, suffix) == Len(host) = Len(suffix) + 1 /\ Tail(host) = suffix

\* lookup: the exact name, then a matching wildcard with the longest suffix,
\* then the fallback.
Exact(table, host) == {r \in DOMAIN table : table[r].kind = "exact" /\ table[r].name = host}
Wild(table, host) ==
    {r \in DOMAIN table : table[r].kind = "wildcard" /\ host /= NoSni /\ WildcardMatches(host, table[r].name)}
Longest(table, rs) == {r \in rs : \A s \in rs : Len(table[r].name) >= Len(table[s].name)}
Fallback(table) == {r \in DOMAIN table : table[r].kind = "fallback"}

Lookup(table, host) ==
    LET hits == IF Exact(table, host) /= {} THEN Exact(table, host)
                ELSE IF Wild(table, host) /= {} THEN Longest(table, Wild(table, host))
                ELSE Fallback(table)
    IN  IF hits = {} THEN {NoMatch} ELSE hits

-----------------------------------------------------------------------------
(* PortGroupManager *)

NoMembers == [r \in {} |-> r]
NotFounding == <<>>

\* rebuild_watches publishes the members, or leaves the last table in place
\* when they do not build.
Republish(p, ms) ==
    published' = IF Builds(ms) THEN [published EXCEPT ![p] = Table(ms)] ELSE published

With(ms, r, pattern) == [s \in DOMAIN ms \cup {r} |-> IF s = r THEN pattern ELSE ms[s]]
WithoutMember(ms, r) == [s \in DOMAIN ms \ {r} |-> ms[s]]

\* apply_push onto a port whose group exists.  When the table does not build
\* the push is reported failed, and the member stays.
Join(r, p, pattern) ==
    LET ms == With(members[p], r, pattern)
    IN  /\ members[p] /= NoMembers
        /\ members' = [members EXCEPT ![p] = ms]
        /\ ruleToPort' = [ruleToPort EXCEPT ![r] = p]
        /\ Republish(p, ms)
        /\ acked' = IF Builds(ms) THEN acked \cup {r} ELSE acked
        /\ UNCHANGED <<socket, founding>>

\* The first member binds the port and starts the listener on an empty table;
\* a port still held by the listener of an earlier group, or by someone else,
\* fails the push and leaves no trace.
Found(r, p, pattern) ==
    /\ members[p] = NoMembers
    /\ pattern.kind /= "fallback"
    /\ \/ /\ socket[p] = "free"
          /\ socket' = [socket EXCEPT ![p] = "open"]
          /\ published' = [published EXCEPT ![p] = NoMembers]
          /\ founding' = <<r, p, pattern>>
       \/ UNCHANGED <<socket, published, founding>>
    /\ UNCHANGED <<members, ruleToPort, acked>>

\* The same push goes on: the table is published, the group and the index
\* entry appear, the rule is reported Activated.
FirstTable ==
    LET r == founding[1]
        p == founding[2]
        ms == With(NoMembers, r, founding[3])
    IN  /\ founding /= NotFounding
        /\ members' = [members EXCEPT ![p] = ms]
        /\ ruleToPort' = [ruleToPort EXCEPT ![r] = p]
        /\ Republish(p, ms)
        /\ acked' = acked \cup {r}
        /\ founding' = NotFounding
        /\ UNCHANGED <<socket, pushed, peer>>

\* routes_via_sni: a rule with a pattern, or a plain rule on a port in SNI mode.
PushRule(r, p, pattern) ==
    /\ founding = NotFounding
    /\ r \notin pushed
    /\ ruleToPort[r] = NoPort
    /\ pushed' = pushed \cup {r}
    /\ Join(r, p, pattern) \/ Found(r, p, pattern)
    /\ UNCHANGED peer

\* apply_remove: the last member takes the listener with it.
RemoveRule(r) ==
    LET p == ruleToPort[r]
        ms == WithoutMember(members[p], r)
    IN  /\ founding = NotFounding
        /\ p /= NoPort
        /\ ruleToPort' = [ruleToPort EXCEPT ![r] = NoPort]
        /\ members' = [members EXCEPT ![p] = ms]
        /\ IF ms = NoMembers
           THEN /\ socket' = [socket EXCEPT ![p] = "cancelled"]
                /\ UNCHANGED published
           ELSE /\ Republish(p, ms)
                /\ UNCHANGED socket
        /\ acked' = acked \ {r}
        /\ UNCHANGED <<peer, pushed, founding>>

\* The session ends: every listener is cancelled, every index entry cleared.
\* The rules come again with the next session.
ShutdownGroups ==
    /\ founding = NotFounding
    /\ \E p \in SniPorts : members[p] /= NoMembers
    /\ socket' = [p \in SniPorts |-> IF members[p] = NoMembers THEN socket[p] ELSE "cancelled"]
    /\ members' = [p \in SniPorts |-> NoMembers]
    /\ ruleToPort' = [r \in SniRules |-> NoPort]
    /\ acked' = {}
    /\ pushed' = {}
    /\ UNCHANGED <<published, founding, peer>>

\* The listener task sees the token and closes its socket.
ListenerExits(p) ==
    /\ socket[p] = "cancelled"
    /\ socket' = [socket EXCEPT ![p] = "free"]
    /\ UNCHANGED <<members, ruleToPort, published, acked, pushed, founding, peer>>

-----------------------------------------------------------------------------
(* Connections *)

NoPeer == [pc |-> "idle"]
Peeking(p) == {c \in Peers : peer[c].pc = "peeking" /\ peer[c].port = p}

\* An accept takes a permit and the snapshot, or closes the socket when all
\* permits are out.  A listener that is cancelled may still accept: its select
\* is not biased.
AcceptPeer(c, p) ==
    /\ peer[c].pc = "idle"
    /\ socket[p] \in {"open", "cancelled"}
    /\ Cardinality(Peeking(p)) < MaxPeeks
    /\ peer' = [peer EXCEPT ![c] = [pc |-> "peeking", port |-> p, table |-> published[p]]]
    /\ UNCHANGED <<members, ruleToPort, published, socket, acked, pushed, founding>>

\* The ClientHello was read: the permit is released, and the connection is
\* routed by its snapshot, or closed when no rule matches.
Route(c, host) ==
    /\ peer[c].pc = "peeking"
    /\ \E r \in Lookup(peer[c].table, host) :
          peer' = [peer EXCEPT ![c] =
                     IF r = NoMatch THEN NoPeer
                     ELSE [pc |-> "proxying", port |-> peer[c].port, rule |-> r]]
    /\ UNCHANGED <<members, ruleToPort, published, socket, acked, pushed, founding>>

\* A timeout, a malformed or oversized hello, an admission refused, or the end
\* of the proxied connection.
PeerEnds(c) ==
    /\ peer[c].pc /= "idle"
    /\ peer' = [peer EXCEPT ![c] = NoPeer]
    /\ UNCHANGED <<members, ruleToPort, published, socket, acked, pushed, founding>>

-----------------------------------------------------------------------------
PortGroupInit ==
    /\ members = [p \in SniPorts |-> NoMembers]
    /\ ruleToPort = [r \in SniRules |-> NoPort]
    /\ published = [p \in SniPorts |-> NoMembers]
    /\ socket = [p \in SniPorts |-> "free"]
    /\ acked = {}
    /\ pushed = {}
    /\ founding = NotFounding
    /\ peer = [c \in Peers |-> NoPeer]

PortGroupNext ==
    \/ \E r \in SniRules, p \in SniPorts, pattern \in Patterns : PushRule(r, p, pattern)
    \/ \E r \in SniRules : RemoveRule(r)
    \/ FirstTable
    \/ ShutdownGroups
    \/ \E p \in SniPorts : ListenerExits(p)
    \/ \E c \in Peers, p \in SniPorts : AcceptPeer(c, p)
    \/ \E c \in Peers, host \in Hosts \cup {NoSni} : Route(c, host)
    \/ \E c \in Peers : PeerEnds(c)

PortGroupSpec == PortGroupInit /\ [][PortGroupNext]_portGroupVars

-----------------------------------------------------------------------------
(* Properties *)

\* A port in use has an open listener whose table is exactly the members of
\* its group, unless two members ask for the same name: a removed rule is not
\* routed to any more, a rule added after a failed one is.
PublishedIsCurrent ==
    \A p \in SniPorts : members[p] /= NoMembers =>
        /\ socket[p] = "open"
        /\ Builds(members[p]) => published[p] = Table(members[p])

\* A rule reported Activated is reached by the connections its pattern names,
\* whatever else was pushed onto or removed from its port: its exact name, a
\* name one label below its suffix that no rule has as its exact name, a
\* connection without a name for the fallback.
ActivatedIsRouted ==
    \A r \in acked :
        LET table == published[ruleToPort[r]]
            p == table[r]
        IN  /\ r \in DOMAIN table
            /\ \A host \in Hosts \cup {NoSni} :
                  \/ p.kind = "exact" /\ host = p.name
                  \/ /\ p.kind = "wildcard" /\ host /= NoSni /\ Exact(table, host) = {}
                     /\ Len(host) = Len(p.name) + 1
                     /\ \A i \in 1..Len(p.name) : host[i + 1] = p.name[i]
                  \/ p.kind = "fallback" /\ host = NoSni
                  => Lookup(table, host) = {r}

\* The published table follows the members, and an Activated rule is reached
\* through it (apply_push, apply_remove, RouteTable::lookup).
RoutesSound == PublishedIsCurrent /\ ActivatedIsRouted
=============================================================================
