------------------------------ MODULE RuleStats ------------------------------
(***************************************************************************)
(* The server's view of one rule's traffic: the StatsReport handler of      *)
(* grpc/service.rs, RuleStatsCache and the collectors of metrics.rs,        *)
(* PerPortStats, the removal of a rule (operator/cli.rs remove_rule) and    *)
(* the event stream of operator/stats_stream.rs.                            *)
(*                                                                          *)
(* The client's counter is cumulative within a session and starts again at  *)
(* zero in the next.  A handler releases every lock between two of its      *)
(* steps, so a report, a removal and a new subscriber interleave.           *)
(***************************************************************************)
EXTENDS Naturals, Sequences

CONSTANTS
    Viewers,        \* event streams
    StreamCapacity, \* STATS_BROADCAST_CAPACITY
    MaxBytes,       \* bound on the bytes forwarded
    MaxStatsSessions,    \* bound on the client's sessions
    MaxObserved,    \* bound on the reports handled
    NoEntry

ASSUME RuleStatsAssumption ==
    /\ StreamCapacity \in Nat \ {0}
    /\ MaxBytes \in Nat /\ MaxStatsSessions \in Nat /\ MaxObserved \in Nat

VARIABLES
    carried,   \* bytes the rule has forwarded, over all sessions
    reading,   \* the client's counter in this session
    sessions,  \* sessions begun
    wire,      \* reports sent and not yet handled
    handling,  \* the report being handled
    present,   \* whether the server still has the rule
    removal,   \* remove_rule in progress: steps left
    entry,     \* RuleStatsCache.inner: [prev, snap] or NoEntry
    standing,  \* baselines of the owner and the listener, which outlive rules
    perPort,   \* PerPortStats has detail for the rule
    counter,   \* the Prometheus counters, by family and owner label
    gauge,     \* owner labels with a row in the per-rule gauges
    sender,    \* a broadcast sender exists
    viewer,    \* the event streams
    seq        \* (history) reports observed, to order the snapshots

ruleStatsVars == <<carried, reading, sessions, wire, handling, present, removal,
                   entry, standing, perPort, counter, gauge, sender, viewer, seq>>
reporterVars == <<carried, reading, sessions>>
statsServerVars == <<entry, standing, perPort, counter, gauge>>

Owners == {"owner", "_unknown"}

\* What a report carries, one cumulative reading standing for all of it: the
\* rule's bytes, routes and refusals, then those of the owner and the port.
RuleFamilies == {"bytes", "sni", "limits"}
StandingFamilies == {"of_owner", "of_listener"}
NotHandling == [at |-> "idle"]

ASSUME NoEntryAssumption ==
    NoEntry \notin [prev : [RuleFamilies -> Nat], snap : [bytes : Nat, seq : Nat]]

\* What handle_client_message does with an entry of a report, then with the rest.
HandlingOrder ==
    <<"observe", "fanout", "sni", "limits", "ports", "of_owner", "of_listener">>
After(at) == HandlingOrder[1 + CHOOSE i \in 1 .. Len(HandlingOrder) - 1 : HandlingOrder[i] = at]
Watching(v) == viewer[v].listening
KeepNewest(s) ==
    IF Len(s) <= StreamCapacity THEN s ELSE SubSeq(s, Len(s) - StreamCapacity + 1, Len(s))

-----------------------------------------------------------------------------
(* client: forward, report the cumulative reading, lose the session *)
ForwardBytes ==
    /\ present /\ carried < MaxBytes
    /\ carried' = carried + 1 /\ reading' = reading + 1
    /\ UNCHANGED <<sessions, wire, handling, present, removal, statsServerVars, sender, viewer, seq>>

ReportCounters ==
    /\ wire = <<>> /\ seq < MaxObserved
    /\ wire' = <<reading>>
    /\ UNCHANGED <<reporterVars, handling, present, removal, statsServerVars, sender, viewer, seq>>

(* The first report of a session is due a reporting interval (5 s) after it *)
(* began: the last report of the one before has been handled by then.       *)
NewSession ==
    /\ sessions < MaxStatsSessions
    /\ handling = NotHandling
    /\ sessions' = sessions + 1
    /\ reading' = 0 /\ wire' = <<>>
    /\ UNCHANGED <<carried, handling, present, removal, statsServerVars, sender, viewer, seq>>

-----------------------------------------------------------------------------
(* handle_client_message for a StatsReport: the owner is looked up first *)
LookupOwner ==
    /\ handling = NotHandling /\ wire # <<>>
    /\ handling' = [at |-> "observe", bytes |-> Head(wire),
                    owner |-> IF present THEN "owner" ELSE "_unknown"]
    /\ wire' = Tail(wire)
    /\ UNCHANGED <<reporterVars, present, removal, statsServerVars, sender, viewer, seq>>

Delta(now, prev) == IF now >= prev THEN now - prev ELSE 0

Observed(e, now) ==
    [prev |-> [f \in RuleFamilies |-> IF f = "bytes" THEN now
                                      ELSE IF e = NoEntry THEN 0 ELSE e.prev[f]],
     snap |-> [bytes |-> now, seq |-> seq + 1]]

(* observe_with_targets: a missing entry is created with baselines of zero *)
Observe ==
    LET q == handling
        prev == IF entry = NoEntry THEN 0 ELSE entry.prev["bytes"] IN
    /\ q.at = "observe"
    /\ counter' = [counter EXCEPT !["bytes"][q.owner] = @ + Delta(q.bytes, prev)]
    /\ gauge' = gauge \cup {q.owner}
    /\ entry' = Observed(entry, q.bytes)
    /\ seq' = seq + 1
    /\ handling' = [q EXCEPT !.at = After(@)]
    /\ UNCHANGED <<reporterVars, wire, present, removal, standing, perPort, sender, viewer>>

(* observe_sni_per_rule, observe_rate_limit_per_rule: an entry that is gone *)
(* meanwhile is not created again                                           *)
Fold(family) ==
    LET q == handling IN
    /\ IF entry = NoEntry THEN UNCHANGED <<counter, entry>>
       ELSE /\ counter' = [counter EXCEPT ![family][q.owner] =
                             @ + Delta(q.bytes, entry.prev[family])]
            /\ entry' = [entry EXCEPT !.prev[family] = q.bytes]
    /\ handling' = [q EXCEPT !.at = After(@)]
    /\ UNCHANGED <<reporterVars, wire, present, removal, standing, perPort, sender, viewer, seq>>

ObserveSni ==
    /\ handling.at = "sni"
    /\ Fold("sni")
    /\ UNCHANGED gauge

ObserveRateLimit ==
    /\ handling.at = "limits"
    /\ Fold("limits")
    /\ gauge' = IF entry = NoEntry THEN gauge ELSE gauge \cup {handling.owner}

(* observe_rate_limit_per_owner, observe_sni_listener: baselines by client  *)
(* and owner, by client and port                                            *)
FoldStanding(family) ==
    /\ counter' = [counter EXCEPT ![family]["owner"] =
                        @ + Delta(handling.bytes, standing[family])]
    /\ standing' = [standing EXCEPT ![family] = handling.bytes]
    /\ UNCHANGED <<reporterVars, wire, present, removal, entry, perPort, gauge, sender, viewer, seq>>

ObserveOwner ==
    /\ handling.at = "of_owner"
    /\ FoldStanding("of_owner")
    /\ handling' = [handling EXCEPT !.at = After(@)]

ObserveListener ==
    /\ handling.at = "of_listener"
    /\ FoldStanding("of_listener")
    /\ handling' = NotHandling

(* the snapshot goes to every stream; a slow one loses its oldest *)
FanOut ==
    /\ handling.at = "fanout"
    /\ viewer' = IF sender
                 THEN [v \in Viewers |-> IF Watching(v)
                        THEN [viewer[v] EXCEPT !.feed =
                                  KeepNewest(Append(@, [bytes |-> handling.bytes, seq |-> seq]))]
                        ELSE viewer[v]]
                 ELSE viewer
    /\ handling' = [handling EXCEPT !.at = After(@)]
    /\ UNCHANGED <<reporterVars, wire, present, removal, statsServerVars, sender, seq>>

UpdatePerPort ==
    /\ handling.at = "ports"
    /\ perPort' = TRUE
    /\ handling' = [handling EXCEPT !.at = After(@)]
    /\ UNCHANGED <<reporterVars, wire, present, removal, entry, standing, counter, gauge,
                   sender, viewer, seq>>

-----------------------------------------------------------------------------
(* remove_rule: the rule, then drop_rule (the stream's sender, the entry    *)
(* and with it the owner's gauge rows), then the per-port detail            *)
RemoveFromRules ==
    /\ present
    /\ present' = FALSE /\ removal' = "sender"
    /\ UNCHANGED <<reporterVars, wire, handling, statsServerVars, sender, viewer, seq>>

DropSender ==
    /\ removal = "sender"
    /\ sender' = FALSE /\ removal' = "entry"
    /\ viewer' = [v \in Viewers |-> IF Watching(v)
                    THEN [viewer[v] EXCEPT !.listening = FALSE] ELSE viewer[v]]
    /\ UNCHANGED <<reporterVars, wire, handling, present, statsServerVars, seq>>

DropEntry ==
    /\ removal = "entry"
    /\ entry' = NoEntry
    /\ gauge' = IF entry = NoEntry THEN gauge ELSE gauge \ {"owner"}
    /\ removal' = "ports"
    /\ UNCHANGED <<reporterVars, wire, handling, present, standing, perPort, counter, sender,
                   viewer, seq>>

DropPerPort ==
    /\ removal = "ports"
    /\ perPort' = FALSE /\ removal' = "none"
    /\ UNCHANGED <<reporterVars, wire, handling, present, entry, standing, counter, gauge,
                   sender, viewer, seq>>

-----------------------------------------------------------------------------
(* get_rule_stats_stream: the rule must exist; the snapshot is read, then   *)
(* the stream subscribes, creating the sender where there is none           *)

(* Slip: the stream subscribes before it reads the snapshot. *)
SetupSwapped == <<"subscribe", "get", "live">>

Setup == <<"get", "subscribe", "live">>
Opens(at) == Setup[1 + CHOOSE i \in 1..2 : Setup[i] = at]

ViewerStep == UNCHANGED <<reporterVars, wire, handling, present, removal, statsServerVars, seq>>

OpenStream(v) ==
    /\ viewer[v].at = "closed" /\ present
    /\ viewer' = [viewer EXCEPT ![v].at = Setup[1]]
    /\ ViewerStep /\ UNCHANGED sender

GetSnapshot(v) ==
    /\ viewer[v].at = "get"
    /\ viewer' = [viewer EXCEPT ![v].at = Opens("get"),
                    ![v].first = IF entry = NoEntry THEN <<>> ELSE <<entry.snap>>]
    /\ ViewerStep /\ UNCHANGED sender

Subscribe(v) ==
    /\ viewer[v].at = "subscribe"
    /\ viewer' = [viewer EXCEPT ![v].at = Opens("subscribe"), ![v].listening = TRUE]
    /\ sender' = TRUE
    /\ ViewerStep

(* the snapshot read at the start, then what was broadcast; the stream ends *)
(* when the sender is gone                                                  *)
Pending(v) == viewer[v].first \o viewer[v].feed

Deliver(v) ==
    /\ viewer[v].at = "live" /\ Pending(v) # <<>>
    /\ viewer' = [viewer EXCEPT ![v].last = Head(Pending(v)).seq,
            ![v].first = <<>>,
            ![v].feed = IF viewer[v].first = <<>> THEN Tail(@) ELSE @]
    /\ ViewerStep /\ UNCHANGED sender

EndStream(v) ==
    /\ viewer[v].at = "live" /\ ~viewer[v].listening /\ Pending(v) = <<>>
    /\ viewer' = [viewer EXCEPT ![v].at = "over"]
    /\ ViewerStep /\ UNCHANGED sender

-----------------------------------------------------------------------------
\* The collectors a Metrics is made with, by family and owner label.
Collectors == [f \in RuleFamilies \cup StandingFamilies |-> [o \in Owners |-> 0]]

RuleStatsInit ==
    /\ carried = 0 /\ reading = 0 /\ sessions = 1 /\ wire = <<>>
    /\ handling = NotHandling /\ present = TRUE /\ removal = "none"
    /\ entry = NoEntry /\ perPort = FALSE
    /\ standing = [f \in StandingFamilies |-> 0]
    /\ counter = Collectors
    /\ gauge = {}
    /\ sender = FALSE /\ seq = 0
    /\ viewer = [v \in Viewers |-> 
            [at |-> "closed", listening |-> FALSE, first |-> <<>>, feed |-> <<>>, last |-> 0]]

RuleStatsNext ==
    \/ ForwardBytes \/ ReportCounters \/ NewSession
    \/ LookupOwner \/ Observe \/ FanOut \/ ObserveSni \/ ObserveRateLimit
    \/ UpdatePerPort \/ ObserveOwner \/ ObserveListener
    \/ RemoveFromRules \/ DropSender \/ DropEntry \/ DropPerPort
    \/ \E v \in Viewers : \/ OpenStream(v) \/ GetSnapshot(v) \/ Subscribe(v)
                          \/ Deliver(v) \/ EndStream(v)

RuleStatsSpec == RuleStatsInit /\ [][RuleStatsNext]_ruleStatsVars

-----------------------------------------------------------------------------
(* A stream never shows an older reading after a newer one: the snapshot is *)
(* read before the subscription and the cache is written before the         *)
(* broadcast.                                                               *)
StreamInOrder ==
    [][\A v \in Viewers : viewer'[v].last >= viewer[v].last]_ruleStatsVars

(* While the rule exists none of its counters, nor those of its owner and   *)
(* its port, exceeds what it did, although the readings start again at zero *)
(* with every session and each collector keeps a baseline of its own.       *)
CounterNotAhead ==
    present => \A f \in DOMAIN counter : counter[f]["owner"] <= carried

(* What operators see of a rule's traffic: streams never go back, counters   *)
(* never run ahead (stats.rs, metrics.rs).                                   *)
StatsSound == StreamInOrder /\ []CounterNotAhead

=============================================================================
