------------------------------ MODULE Admission ------------------------------
(***************************************************************************)
(* Admission of connections and of new UDP flows under the owner's and the *)
(* rule's limits (portunus-forwarder, rate_limit/scope.rs), with the       *)
(* accept loops of forwarder/mod.rs, failover_path.rs, sni/listener.rs and *)
(* udp/listener.rs as its callers.                                         *)
(*                                                                         *)
(* A limiter is an Arc that holds a ceiling and, behind a second Arc, the  *)
(* count of live connections.  Replacing a limiter keeps the count,        *)
(* removing one and setting it again starts a new count, and a connection  *)
(* goes on with the limiter it has looked up, whatever the control plane   *)
(* does meanwhile.  Every atomic operation is a step.                      *)
(***************************************************************************)
EXTENDS Integers, FiniteSets

CONSTANTS
    Owner,      \* the slot of the owner's limiter
    Rules,      \* the rules of that owner, each the slot of its own limiter
    Accepts,    \* connections and flows, each offered to one rule at a time
    Ceilings,   \* the concurrent_connections a limit may set
    NoCeiling,  \* concurrent_connections = None: the limit caps only rates
    NoLimiter,  \* no limiter is installed in the slot
    MaxGauges   \* bound: the counts created over a behaviour

ASSUME AdmissionAssumption ==
    /\ Owner \notin Rules
    /\ Ceilings \subseteq Nat \ {0}
    /\ NoCeiling \notin Ceilings
    /\ MaxGauges \in Nat \ {0}

Slots == {Owner} \cup Rules
Gauges == 1..MaxGauges

VARIABLES
    limiter,     \* slot -> the limiter its registry holds
    activeGauge,       \* active_connections, by the Arc that holds it
    gaugesMade,  \* how many of those Arcs exist
    accept       \* the state of each connection

admissionVars == <<limiter, activeGauge, gaugesMade, accept>>

Limiter == [activeGauge : Gauges, max : Ceilings \cup {NoCeiling}]

NotOffered == [pc |-> "idle", rule |-> NoLimiter, snap |-> NoLimiter, guards |-> {}]

-----------------------------------------------------------------------------
(* What the gauges count *)

\* The guards alive on a count: each lives until its connection ends.
Guards(g) == {a \in Accepts : \E s \in Slots : <<s, g>> \in accept[a].guards}

\* Connections between the fetch_add that found the ceiling reached and the
\* fetch_sub that takes the addition back.
TakingBack(g) == {a \in Accepts : accept[a].pc \in {"ownerFull", "ruleFull"} /\ accept[a].snap.activeGauge = g}

-----------------------------------------------------------------------------
(* The registries *)

\* with_carryover: new ceiling, the same count.
WithCarryover(s, max) ==
    /\ limiter' = [limiter EXCEPT ![s].max = max]
    /\ UNCHANGED <<activeGauge, gaugesMade>>

\* from_envelope: a count of its own, at zero.
FromEnvelope(s, max) ==
    /\ gaugesMade < MaxGauges
    /\ gaugesMade' = gaugesMade + 1
    /\ limiter' = [limiter EXCEPT ![s] = [activeGauge |-> gaugesMade + 1, max |-> max]]
    /\ UNCHANGED activeGauge

\* A hot reload of the rule's limit, or a SET of the owner's.
UpdateLimiter(s, max) ==
    /\ IF limiter[s] = NoLimiter THEN FromEnvelope(s, max) ELSE WithCarryover(s, max)
    /\ UNCHANGED accept

\* The first push of a rule in a session installs: connections of the last
\* session that still drain keep the old count.
InstallLimiter(s, max) ==
    /\ s \in Rules
    /\ FromEnvelope(s, max)
    /\ UNCHANGED accept

\* Update to no limit, removal of the rule, CLEAR of the owner.
RemoveLimiter(s) ==
    /\ limiter[s] /= NoLimiter
    /\ limiter' = [limiter EXCEPT ![s] = NoLimiter]
    /\ UNCHANGED <<activeGauge, gaugesMade, accept>>

-----------------------------------------------------------------------------
(* try_acquire_layered *)

SlotOf(a) == IF accept[a].pc \in {"owner", "ownerFull"} THEN Owner ELSE accept[a].rule

\* An accepted socket, or the first datagram of a new flow: the owner's
\* limiter is looked up first.
Offer(a, r) ==
    /\ accept[a].pc = "idle"
    /\ accept' = [accept EXCEPT ![a] =
                    [pc |-> "owner", rule |-> r, snap |-> limiter[Owner], guards |-> {}]]
    /\ UNCHANGED <<limiter, activeGauge, gaugesMade>>

\* The next layer: after the owner's the rule's limiter is looked up, after
\* the rule's the connection runs.
Passed(a, guards) ==
    IF accept[a].pc = "owner"
    THEN [accept[a] EXCEPT !.pc = "rule", !.snap = limiter[accept[a].rule], !.guards = guards]
    ELSE [accept[a] EXCEPT !.pc = "open", !.snap = NoLimiter, !.guards = guards]

Rejected(a) == [accept[a] EXCEPT !.pc = "closing", !.snap = NoLimiter]

\* No limiter in the slot: no guard.
Uncapped(a) ==
    /\ accept[a].pc \in {"owner", "rule"}
    /\ accept[a].snap = NoLimiter
    /\ accept' = [accept EXCEPT ![a] = Passed(a, @.guards)]
    /\ UNCHANGED <<limiter, activeGauge, gaugesMade>>

\* The bucket of new connections is empty (Throttle models the bucket).
RateReject(a) ==
    /\ accept[a].pc \in {"owner", "rule"}
    /\ accept[a].snap /= NoLimiter
    /\ accept' = [accept EXCEPT ![a] = Rejected(a)]
    /\ UNCHANGED <<limiter, activeGauge, gaugesMade>>

\* Slip: one more than the ceiling.
RoomForOneMore(l, n) == l.max = NoCeiling \/ n <= l.max

\* The ceiling admits one more after n.
Room(l, n) == l.max = NoCeiling \/ n < l.max

\* fetch_add, compared with what it returned.
FetchAdd(a) ==
    LET l == accept[a].snap
    IN  /\ accept[a].pc \in {"owner", "rule"}
        /\ l /= NoLimiter
        /\ activeGauge' = [activeGauge EXCEPT ![l.activeGauge] = @ + 1]
        /\ accept' = [accept EXCEPT ![a] =
                        IF Room(l, activeGauge[l.activeGauge])
                        THEN Passed(a, @.guards \cup {<<SlotOf(a), l.activeGauge>>})
                        ELSE [accept[a] EXCEPT !.pc =
                                IF accept[a].pc = "owner" THEN "ownerFull" ELSE "ruleFull"]]
        /\ UNCHANGED <<limiter, gaugesMade>>

\* fetch_sub of a refused connection; the owner's guard is dropped next.
FetchSub(a) ==
    /\ accept[a].pc \in {"ownerFull", "ruleFull"}
    /\ activeGauge' = [activeGauge EXCEPT ![accept[a].snap.activeGauge] = @ - 1]
    /\ accept' = [accept EXCEPT ![a] = Rejected(a)]
    /\ UNCHANGED <<limiter, gaugesMade>>

\* The connection ends, or the flow is removed.
Close(a) ==
    /\ accept[a].pc = "open"
    /\ accept' = [accept EXCEPT ![a].pc = "closing"]
    /\ UNCHANGED <<limiter, activeGauge, gaugesMade>>

\* The guards go out of scope one by one.
DropGuards(a) ==
    /\ accept[a].pc = "closing"
    /\ IF accept[a].guards = {}
       THEN /\ accept' = [accept EXCEPT ![a] = NotOffered]
            /\ UNCHANGED activeGauge
       ELSE \E p \in accept[a].guards :
              /\ activeGauge' = [activeGauge EXCEPT ![p[2]] = @ - 1]
              /\ accept' = [accept EXCEPT ![a].guards = @ \ {p}]
    /\ UNCHANGED <<limiter, gaugesMade>>

-----------------------------------------------------------------------------
AdmissionInit ==
    /\ limiter = [s \in Slots |-> NoLimiter]
    /\ activeGauge = [g \in Gauges |-> 0]
    /\ gaugesMade = 0
    /\ accept = [a \in Accepts |-> NotOffered]

AdmissionNext ==
    \/ \E s \in Slots, max \in Ceilings \cup {NoCeiling} : UpdateLimiter(s, max) \/ InstallLimiter(s, max)
    \/ \E s \in Slots : RemoveLimiter(s)
    \/ \E a \in Accepts, r \in Rules : Offer(a, r)
    \/ \E a \in Accepts :
          \/ Uncapped(a) \/ RateReject(a) \/ FetchAdd(a) \/ FetchSub(a)
          \/ Close(a) \/ DropGuards(a)

AdmissionSpec == AdmissionInit /\ [][AdmissionNext]_admissionVars

-----------------------------------------------------------------------------
(* Properties *)

\* Every count is exactly the guards alive on it and the additions about to
\* be taken back: no path through the layered admission, a refusal by the
\* second layer included, and no reload of a limit strands or loses a unit
\* (the strand that try_acquire_layered's comment warns of would refuse
\* connections for ever).
GaugeExact ==
    \A g \in Gauges : activeGauge[g] = Cardinality(Guards(g)) + Cardinality(TakingBack(g))

\* A connection is admitted only while the limiter it looked up has fewer
\* live connections than its ceiling, however many connections are admitted
\* at the same time, on listeners of several rules of one owner.
NeverOverCeiling ==
    [][\A a \in Accepts, g \in Gauges :
          LET l == accept[a].snap
          IN  (/\ l /= NoLimiter
               /\ l.activeGauge = g
               /\ \E s \in Slots : <<s, g>> \in accept'[a].guards \ accept[a].guards)
              => l.max = NoCeiling \/ Cardinality(Guards(g)) < l.max]_admissionVars

\* The layered admission of connections: no unit of a gauge is stranded or
\* lost and no ceiling is passed (try_acquire_layered).
AdmissionSound == NeverOverCeiling /\ []GaugeExact

=============================================================================
