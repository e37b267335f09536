---------------------------- MODULE RuleRequests ----------------------------
(***************************************************************************)
(* What POST, PUT and DELETE /v1/rules accept (portunus-server,            *)
(* operator/http.rs and operator/cli.rs), which rules may share a port     *)
(* (rules.rs, push_range_with_targets), what SQLite keeps of them          *)
(* (store/rule_store.rs) and which of them a client is sent, given the     *)
(* version it announced (the gates of http.rs and of grpc/service.rs).     *)
(*                                                                         *)
(* One client.  RuleControl has the interleavings of requests and acks;    *)
(* here one request at a time is judged, but the session may change        *)
(* between the gates and the send.  Grants are in Access.                  *)
(***************************************************************************)
EXTENDS Integers, Sequences, FiniteSets

CONSTANTS
    Bodies,       \* request bodies operators send
    Hellos,       \* what connecting clients announce: minor version (major 0), UDP support
    RangeCap,     \* range_rule_max_ports
    MaxTargets,   \* MAX_TARGETS_PER_RULE
    MaxIds,       \* bound: rules ever accepted
    MaxAttached,  \* bound: sessions of the client
    Absent        \* None

ASSUME RequestAssumption ==
    RangeCap \in Nat /\ MaxTargets \in Nat /\ MaxIds \in Nat /\ MaxAttached \in Nat

Ids == 1..MaxIds

VARIABLES
    book,      \* ServerRuleStore: id -> rule, Absent when there is none
    ruleRows,  \* the rules and rule_targets tables, likewise
    newId,     \* next_id
    peer,      \* the client's session: its number, whether it is up, what Hello said
    checked,   \* a push that passed its gates, and the session they looked at
    sent       \* the rules this session was sent: id -> the session their gate looked
               \* at and whether it saw a version; Absent

requestVars == <<book, ruleRows, newId, peer, checked, sent>>

Idle == <<>>

-----------------------------------------------------------------------------
(* Validation of a body: every early return before the first mutation *)

PortCount(range) == range.hi - range.lo + 1
Overlaps(r, s) == r.lo <= s.hi /\ s.lo <= r.hi

\* PortRange::new
ValidRange(range) == range.lo /= 0 /\ range.lo <= range.hi

\* rate_limit::validate, on one rate and its burst.
ValidCap(rate, burst) ==
    /\ rate /= 0
    /\ burst /= Absent =>
          /\ rate /= Absent
          /\ burst >= 1 /\ burst >= rate \div 100 /\ burst <= rate * 60

\* parse_rate_limit_body: a burst for concurrent_connections is reserved.
ValidLimit(limit) ==
    limit /= Absent => ValidCap(limit.rate, limit.burst) /\ ~limit.concurrentBurst

\* validate_sni_pattern, on the labels of a pattern: "*" only in front, and
\* then over two labels at least; no empty or illegal label.
ValidSni(labels) ==
    LET wildcard == Len(labels) > 1 /\ labels[1] = "*"
        name == IF wildcard THEN Tail(labels) ELSE labels
    IN  /\ name /= <<>>
        /\ wildcard => Len(name) >= 2
        /\ \A i \in DOMAIN name : name[i] \notin {"", "*", "-"}

\* rule_target::validate and the PROXY versions parse_proxy_protocol_version knows.
ValidTargets(targets) ==
    /\ Len(targets) \in 1..MaxTargets
    /\ \A i \in DOMAIN targets : targets[i].host /= "" /\ targets[i].proxy \in {Absent, "v1", "v2"}
    /\ \A i, j \in DOMAIN targets : targets[i].host = targets[j].host => i = j

ValidShape(b) == b.shape \in {"legacy", "targets"} /\ (b.listenEnd <=> b.targetEnd)
ValidListen(b) == ValidRange(b.listen)
SniApplies(b) == b.sni /= Absent => b.proto = "tcp" /\ PortCount(b.listen) = 1 /\ ValidSni(b.sni)

\* The legacy shape has one target range and no limit.
ValidLegacy(b) == b.limit = Absent /\ ValidRange(b.target) /\ b.host /= ""
ValidNew(b) ==
    /\ b.interval \in {Absent} \cup 1..3600
    /\ ValidTargets(b.targets)
    /\ b.proto = "udp" => \A i \in DOMAIN b.targets : b.targets[i].proxy = Absent

Valid(b) ==
    /\ ValidShape(b) /\ ValidListen(b) /\ SniApplies(b) /\ ValidLimit(b.limit)
    /\ b.proto \in {"tcp", "udp"}
    /\ IF b.shape = "legacy" THEN ValidLegacy(b) ELSE ValidNew(b)

\* push_multi_target: a target without a priority gets its row's index.
WithPriorities(targets) ==
    [i \in DOMAIN targets |->
        [targets[i] EXCEPT !.priority = IF @ = Absent THEN i - 1 ELSE @]]

\* The rule a body asks for.  A legacy body with an SNI pattern becomes one
\* target (push_legacy_with_sni); a `targets` body has a single target port.
RuleOf(b) ==
    [listen |-> b.listen, proto |-> b.proto, sni |-> b.sni, limit |-> b.limit,
     interval |-> IF b.shape = "legacy" THEN Absent ELSE b.interval,
     targetPorts |-> IF b.shape = "legacy" /\ b.sni = Absent THEN PortCount(b.target) ELSE 1,
     targets |-> CASE b.shape = "targets" -> WithPriorities(b.targets)
                   [] b.shape = "legacy" /\ b.sni /= Absent ->
                        <<[host |-> b.host, priority |-> 0, proxy |-> Absent]>>
                   [] OTHER -> <<>>,
     host |-> IF b.shape = "legacy" THEN b.host ELSE b.targets[1].host,
     state |-> "Pending"]

\* Every rule a body can ask for, and what may become of one: PUT gives it
\* another limit, acks and replays another state.
Requestable == {RuleOf(b) : b \in {c \in Bodies : Valid(c)}}
Rules ==
    [listen : {r.listen : r \in Requestable}, proto : {r.proto : r \in Requestable},
     sni : {r.sni : r \in Requestable}, limit : {b.limit : b \in Bodies} \cup {Absent},
     interval : {r.interval : r \in Requestable},
     targetPorts : {r.targetPorts : r \in Requestable},
     targets : {r.targets : r \in Requestable}, host : {r.host : r \in Requestable},
     state : {"Pending", "Active", "Failed"}]
Frames == [gate : Int, known : BOOLEAN]

ASSUME AbsentAssumption == Absent \notin Rules /\ Absent \notin Frames

\* targets_view
TargetsView(rule) ==
    IF rule.targets = <<>> THEN <<[host |-> rule.host, priority |-> 0, proxy |-> Absent]>>
    ELSE rule.targets

-----------------------------------------------------------------------------
(* Version gates *)

\* version_at_least: an unknown version is below every floor.
AtLeast(version, floor) == version /= Absent /\ version >= floor

UsesProxy(rule) == \E i \in DOMAIN rule.targets : rule.targets[i].proxy /= Absent

\* The gates of push_multi_target: several targets and SNI are refused only to
\* a version known to be too old, PROXY and limits also to an unknown one.
PushGate(rule, version) ==
    /\ Len(rule.targets) >= 2 /\ version /= Absent => AtLeast(version, 7)
    /\ rule.sni /= Absent /\ version /= Absent => AtLeast(version, 9)
    /\ UsesProxy(rule) => AtLeast(version, 10)
    /\ rule.limit /= Absent => AtLeast(version, 11)

\* Slip: the pattern of a replayed rule is not asked for.
ReplayGateNoSni(rule, version, udp) ==
    /\ rule.proto = "udp" => udp
    /\ Len(rule.targets) >= 2 => AtLeast(version, 7)
    /\ UsesProxy(rule) => AtLeast(version, 10)
    /\ rule.limit /= Absent => AtLeast(version, 11)

\* replay_gate_reason
ReplayGate(rule, version, udp) ==
    /\ rule.proto = "udp" => udp
    /\ Len(rule.targets) >= 2 => AtLeast(version, 7)
    /\ rule.sni /= Absent => AtLeast(version, 9)
    /\ UsesProxy(rule) => AtLeast(version, 10)
    /\ rule.limit /= Absent => AtLeast(version, 11)

-----------------------------------------------------------------------------
(* ServerRuleStore *)

Stored(rs) == {i \in Ids : rs[i] /= Absent}
SettledIds(rs) == {i \in Stored(rs) : rs[i].state \in {"Active", "Failed"}}

SingleTcp(rule) == rule.proto = "tcp" /\ PortCount(rule.listen) = 1

\* The fallback of a port counts in every state.
HasFallback(port) ==
    \E i \in Stored(book) : SingleTcp(book[i]) /\ book[i].listen.lo = port /\ book[i].sni = Absent

\* One settled rule of the protocol whose ports overlap against the candidate.
Blocks(old, new) ==
    IF SingleTcp(old) /\ SingleTcp(new)
    THEN CASE old.sni = Absent -> TRUE
           [] old.sni /= Absent /\ new.sni = Absent -> HasFallback(new.listen.lo)
           [] OTHER -> old.sni = new.sni
    ELSE TRUE

Rivals(new) ==
    {book[i] : i \in {j \in SettledIds(book) :
        book[j].proto = new.proto /\ Overlaps(book[j].listen, new.listen)}}

Conflicts(new) == \E old \in Rivals(new) : Blocks(old, new)

\* PortRange::pair and the cap come before the conflict check.
StoreAccepts(new) ==
    /\ PortCount(new.listen) = new.targetPorts
    /\ PortCount(new.listen) <= RangeCap
    /\ ~Conflicts(new)

-----------------------------------------------------------------------------
(* SQLite *)

\* upsert_rule writes seven limit columns: an envelope without a cap and no
\* envelope leave the same row.
RowOf(rule) ==
    [rule EXCEPT !.limit = IF @ /= Absent /\ @.rate = Absent /\ @.burst = Absent THEN Absent ELSE @]

\* list_rules
Hydrated == ruleRows

Save(id, rule) ==
    /\ book' = [book EXCEPT ![id] = rule]
    /\ ruleRows' = [ruleRows EXCEPT ![id] = RowOf(rule)]

-----------------------------------------------------------------------------
(* The session *)

Ungated == -1
Frame(session, known) == [gate |-> session, known |-> known]
Nothing == [i \in Ids |-> Absent]
Down == [peer EXCEPT !.up = FALSE, !.version = Absent, !.udp = FALSE]

Attach ==
    /\ peer.session < MaxAttached
    /\ peer' = [session |-> peer.session + 1, up |-> TRUE, version |-> Absent, udp |-> FALSE]
    /\ sent' = Nothing
    /\ UNCHANGED <<book, ruleRows, newId, checked>>

Detach ==
    /\ peer.up
    /\ peer' = Down
    /\ sent' = Nothing
    /\ UNCHANGED <<book, ruleRows, newId, checked>>

ReplayOutcome(rule, version, udp) ==
    IF rule = Absent \/ rule.state /= "Active" THEN rule
    ELSE [rule EXCEPT !.state = IF ReplayGate(rule, version, udp) THEN "Pending" ELSE "Failed"]

\* Hello, then replay_rules_for_client: every Active rule is sent and waits
\* for a new ack, or fails for this client's version.
SayHello(version, udp) ==
    /\ peer.up /\ peer.version = Absent
    /\ peer' = [peer EXCEPT !.version = version, !.udp = udp]
    /\ book' = [i \in Ids |-> ReplayOutcome(book[i], version, udp)]
    /\ ruleRows' = [i \in Ids |-> IF book'[i] /= book[i] THEN RowOf(book'[i]) ELSE ruleRows[i]]
    /\ sent' = [i \in Ids |->
          IF book'[i] /= book[i] /\ book'[i].state = "Pending"
          THEN Frame(peer.session, TRUE) ELSE sent[i]]
    /\ UNCHANGED <<newId, checked>>

-----------------------------------------------------------------------------
(* Requests *)

\* post_rules up to the hand-over to cli.rs: the body is valid and the client
\* that is connected now may have the rule.  The plain legacy shape needs no gate.
Post(b) ==
    /\ checked = Idle /\ newId <= MaxIds
    /\ Valid(b)
    /\ PushGate(RuleOf(b), peer.version)
    /\ checked' = <<RuleOf(b), peer.session, peer.version /= Absent>>
    /\ UNCHANGED <<book, ruleRows, newId, peer, sent>>

\* push_rule and push_rule_multi_target: a connected client that speaks the
\* protocol, a place in the store, the row, the frame.
Push ==
    LET rule == checked[1]
    IN  /\ checked /= Idle
        /\ checked' = Idle
        /\ IF peer.up /\ (rule.proto = "udp" => peer.udp) /\ StoreAccepts(rule)
           THEN /\ newId' = newId + 1
                /\ Save(newId, rule)
                /\ sent' = [sent EXCEPT ![newId] = Frame(checked[2], checked[3])]
           ELSE UNCHANGED <<book, ruleRows, newId, sent>>
        /\ UNCHANGED peer

\* The client's answer to what this session was sent.
Ack(id) ==
    /\ peer.up /\ sent[id] /= Absent /\ book[id] /= Absent /\ book[id].state = "Pending"
    /\ \E state \in {"Active", "Failed"} : Save(id, [book[id] EXCEPT !.state = state])
    /\ UNCHANGED <<newId, peer, checked, sent>>

\* The part of a PUT body that must not change.  A priority that is left out
\* counts as 0 here, not as the row's index.
SameRule(b, rule) ==
    /\ b.proto = rule.proto /\ b.listen = rule.listen
    /\ IF b.shape = "legacy" THEN b.host = rule.host
       ELSE /\ Len(b.targets) = Len(TargetsView(rule))
            /\ \A i \in DOMAIN b.targets :
                  /\ b.targets[i].host = TargetsView(rule)[i].host
                  /\ (IF b.targets[i].priority = Absent THEN 0 ELSE b.targets[i].priority)
                        = TargetsView(rule)[i].priority

\* put_rule and update_rule_rate_limit: no gate on the client's version.
Put(id, b) ==
    /\ book[id] /= Absent /\ peer.up
    /\ ValidShape(b) /\ ValidListen(b) /\ ValidLimit(b.limit)
    /\ b.shape = "legacy" => b.limit = Absent
    /\ SameRule(b, book[id])
    /\ Save(id, [book[id] EXCEPT !.limit = b.limit])
    /\ sent' = [sent EXCEPT ![id] = Frame(Ungated, FALSE)]
    /\ UNCHANGED <<newId, peer, checked>>

\* remove_rule
DeleteRequest(id) ==
    /\ book[id] /= Absent
    /\ book' = [book EXCEPT ![id] = Absent]
    /\ ruleRows' = [ruleRows EXCEPT ![id] = Absent]
    /\ sent' = [sent EXCEPT ![id] = Absent]
    /\ UNCHANGED <<newId, peer, checked>>

\* The process restarts and hydrates the store; ids go on after the largest.
Reboot ==
    /\ book' = Hydrated
    /\ newId' = 1 + Cardinality({i \in Ids : \E j \in Stored(ruleRows) : i <= j})
    /\ peer' = Down
    /\ checked' = Idle
    /\ sent' = Nothing
    /\ UNCHANGED ruleRows

-----------------------------------------------------------------------------
RequestInit ==
    /\ book = [i \in Ids |-> Absent] /\ ruleRows = book /\ newId = 1
    /\ peer = [session |-> 0, up |-> FALSE, version |-> Absent, udp |-> FALSE]
    /\ checked = Idle
    /\ sent = Nothing

RequestNext ==
    \/ Attach \/ Detach \/ Push \/ Reboot
    \/ \E h \in Hellos : SayHello(h.version, h.udp)
    \/ \E b \in Bodies : Post(b)
    \/ \E id \in Ids : Ack(id) \/ DeleteRequest(id) \/ \E b \in Bodies : Put(id, b)

RequestSpec == RequestInit /\ [][RequestNext]_requestVars

-----------------------------------------------------------------------------
(* Properties *)

\* A rule whose gate looked at the session it was sent in is one the client of
\* that session can decode; several targets and SNI only when the client had
\* said its version by then.  What went out for an earlier session's gate, or
\* by PUT, carries no such promise.
SentIsUnderstood ==
    \A id \in Ids :
        sent[id] /= Absent /\ sent[id].gate = peer.session =>
          /\ UsesProxy(book[id]) => AtLeast(peer.version, 10)
          /\ book[id].limit /= Absent => AtLeast(peer.version, 11)
          /\ sent[id].known /\ book[id].sni /= Absent => AtLeast(peer.version, 9)
          /\ sent[id].known /\ Len(book[id].targets) >= 2 => AtLeast(peer.version, 7)

\* The table of specs/009-tls-sni-routing/data-model.md, on the settled rules
\* of one port (a fallback counts in every state).
Table(new) ==
    LET group == {r \in Rivals(new) : SingleTcp(r)}
        patterns == {r.sni : r \in group} \ {Absent}
    IN  IF ~SingleTcp(new) \/ group /= Rivals(new) THEN Rivals(new) = {}
        ELSE \/ group = {}
             \/ /\ patterns /= {} /\ new.sni \notin {r.sni : r \in group}
                /\ new.sni = Absent => ~HasFallback(new.listen.lo)

\* The row of the table of which nothing is asserted: a further pattern for a
\* port that has a fallback.  The table accepts it, rules.rs refuses it.
FallbackRow(new) == new.sni /= Absent /\ \E r \in Rivals(new) : r.sni = Absent

\* For every rule a body can ask for, in every reachable store, the walk over
\* the port index of push_range_with_targets decides as the table does: what
\* the table refuses is refused, and what it accepts is accepted, the row of
\* FallbackRow aside.
MatrixExact ==
    SettledIds(book) /= {} => \A new \in Requestable :
        /\ ~Table(new) => Conflicts(new)
        /\ Table(new) /\ ~FallbackRow(new) => ~Conflicts(new)

\* A restart brings every rule back as it is, with its targets in order and its
\* state, whatever pushes, acks, replays and PUTs came before; only a limit
\* without any cap comes back as none.
RestartKeepsRules ==
    \A id \in Ids : ruleRows[id] = IF book[id] = Absent THEN Absent ELSE RowOf(book[id])

RequestsSound == SentIsUnderstood /\ MatrixExact /\ RestartKeepsRules

=============================================================================
