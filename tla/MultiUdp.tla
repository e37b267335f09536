------------------------------ MODULE MultiUdp ------------------------------
(***************************************************************************)
(* A UDP rule with several targets (portunus-forwarder, failover_path.rs   *)
(* run_udp and forwarder/udp/mod.rs, table.rs, flow.rs): one listener task *)
(* that handles its datagrams one after the other, a reply pump and two    *)
(* guard tasks per flow, and a reaper that snapshots the table, removes    *)
(* what it saw idle and cancels it, in three steps.                        *)
(*                                                                         *)
(* One listen port.  Failover has the thresholds of HealthState; here a    *)
(* recorded result may or may not turn a target's state.  Admission and    *)
(* QuotaHandle have the layered limiter and the budget.                    *)
(***************************************************************************)
EXTENDS Integers, Sequences, FiniteSets

CONSTANTS
    Sources,       \* end-user addresses
    Addresses,     \* per target, in priority order: how many addresses its name has
    FlowCap,       \* udp_max_flows_per_rule
    FlowCeilings,  \* concurrent_connections of the owner and of the rule
    MaxUdpFlows,   \* bound: flows ever built
    MaxDatagrams,  \* bound: datagrams the listener receives
    MaxTurns,      \* bound: health and quota changes from outside, and socket errors
    NoFlow         \* absence of a flow

ASSUME MultiUdpAssumption ==
    /\ Addresses \in Seq(Nat \ {0}) /\ Addresses /= <<>> /\ FlowCap \in Nat \ {0}
    /\ MaxUdpFlows \in Nat /\ MaxDatagrams \in Nat /\ MaxTurns \in Nat
    /\ FlowCeilings \in [DOMAIN FlowCeilings -> Nat] /\ IsFiniteSet(Sources)
    /\ NoFlow \notin Nat

TargetRows == DOMAIN Addresses
Scopes2 == DOMAIN FlowCeilings
FlowIds == 1..MaxUdpFlows

VARIABLES
    udpRule,   \* the rule's task: probing, activated, running, removed or failed
    udpStop,   \* the rule's cancel token
    flowTable, \* UdpFlowTable.inner: source -> flow
    udpFlow,   \* the flows built so far
    rx,        \* the listener: where it is in handle_inbound_multi_target
    broom,     \* the reaper: where it is in sweep
    turned,    \* target -> Healthy?
    active,    \* scope -> active_connections
    spent,     \* the quota is exhausted
    shown,     \* the active_flows gauge
    turns      \* datagrams, and changes from outside, so far

multiUdpVars ==
    <<udpRule, udpStop, flowTable, udpFlow, rx, broom, turned, active, spent, shown, turns>>

At(step) == [at |-> step, src |-> NoFlow, flow |-> NoFlow, order |-> <<>>]
Entries == {s \in Sources : flowTable[s] /= NoFlow}
Asleep == [at |-> "sleep", stale |-> {}, out |-> {}]

-----------------------------------------------------------------------------
(* run_udp *)

\* Every port is probed, and the probes are closed before the listeners bind.
ProbeBind ==
    /\ udpRule = "probing"
    /\ \E free \in BOOLEAN : udpRule' = IF free THEN "activated" ELSE "failed"
    /\ UNCHANGED <<udpStop, flowTable, udpFlow, rx, broom, turned, active, spent, shown, turns>>

\* A listener that finds its port taken after all returns; nothing says so.
ListenerStart ==
    /\ udpRule = "activated"
    /\ \E bound \in BOOLEAN :
          /\ rx' = At(IF bound THEN "recv" ELSE "done")
          /\ broom' = [broom EXCEPT !.at = IF bound THEN "sleep" ELSE "off"]
    /\ udpRule' = "running"
    /\ UNCHANGED <<udpStop, flowTable, udpFlow, turned, active, spent, shown, turns>>

CancelRule ==
    /\ ~udpStop
    /\ udpStop' = TRUE
    /\ UNCHANGED <<udpRule, flowTable, udpFlow, rx, broom, turned, active, spent, shown, turns>>

\* All listeners joined: the probe task is aborted and Removed goes out.
RuleRemoved ==
    /\ udpRule = "running" /\ rx.at = "done"
    /\ udpRule' = "removed"
    /\ UNCHANGED <<udpStop, flowTable, udpFlow, rx, broom, turned, active, spent, shown, turns>>

-----------------------------------------------------------------------------
(* handle_inbound_multi_target *)

ReceiveDatagram(s) ==
    /\ rx.at = "recv" /\ turns.datagrams < MaxDatagrams
    /\ rx' = [At("get") EXCEPT !.src = s]
    /\ turns' = [turns EXCEPT !.datagrams = @ + 1]
    /\ UNCHANGED <<udpRule, udpStop, flowTable, udpFlow, broom, turned, active, spent, shown>>

\* flow_table.get: a known source goes straight to its flow.
LookupFlow ==
    /\ rx.at = "get"
    /\ rx' = IF flowTable[rx.src] /= NoFlow
             THEN [rx EXCEPT !.at = "relay", !.flow = flowTable[rx.src]]
             ELSE [rx EXCEPT !.at = IF spent THEN "recv" ELSE "admit"]
    /\ UNCHANGED <<udpRule, udpStop, flowTable, udpFlow, broom, turned, active, spent, shown, turns>>

\* The targets to try: the first healthy one, or row 1 when none is, then the
\* others by priority.
TargetOrder ==
    LET healthy == {t \in TargetRows : turned[t]}
        first == IF healthy = {} THEN 1 ELSE CHOOSE t \in healthy : \A u \in healthy : t <= u
    IN  [i \in TargetRows |-> IF i = 1 THEN first ELSE IF i <= first THEN i - 1 ELSE i]

\* try_acquire_layered: the owner's guard, then the rule's; a refusal of the
\* rule gives the owner's guard back.  A rate bucket may refuse as well.
AcquireFirstPacket ==
    /\ rx.at = "admit"
    /\ \/ /\ \A sc \in Scopes2 : active[sc] < FlowCeilings[sc]
          /\ active' = [sc \in Scopes2 |-> active[sc] + 1]
          /\ rx' = [rx EXCEPT !.at = "resolve", !.order = TargetOrder]
       \/ /\ rx' = At("recv")
          /\ UNCHANGED active
    /\ UNCHANGED <<udpRule, udpStop, flowTable, udpFlow, broom, turned, spent, shown, turns>>

GiveBack == [sc \in Scopes2 |-> active[sc] - 1]

\* record_failure and record_success of HealthState
TargetFailed(t) == \E h \in {turned[t], FALSE} : turned' = [turned EXCEPT ![t] = h]
TargetWorked(t) == \E h \in {turned[t], TRUE} : turned' = [turned EXCEPT ![t] = h]

\* The next target in the order does not resolve.  After the last one the
\* guards fall out of scope.
ResolveFails ==
    /\ rx.at = "resolve"
    /\ TargetFailed(Head(rx.order))
    /\ IF Len(rx.order) = 1
       THEN rx' = At("recv") /\ active' = GiveBack
       ELSE rx' = [rx EXCEPT !.order = Tail(@)] /\ UNCHANGED active
    /\ UNCHANGED <<udpRule, udpStop, flowTable, udpFlow, broom, spent, shown, turns>>

\* It resolves, which alone counts as a success of the target.
ResolveWorks ==
    /\ rx.at = "resolve"
    /\ TargetWorked(Head(rx.order))
    /\ rx' = [rx EXCEPT !.at = "insert"]
    /\ UNCHANGED <<udpRule, udpStop, flowTable, udpFlow, broom, active, spent, shown, turns>>

NewMultiTarget ==
    [src |-> rx.src, target |-> Head(rx.order), addr |-> 1,
     idle |-> FALSE, cancelled |-> FALSE, pump |-> TRUE, guards |-> Scopes2]

\* build_or_lookup_flow and lookup_or_insert: a socket, then the table under
\* its lock.  Without a socket, or at the cap, the guards are given back.
Insert ==
    LET id == Len(udpFlow) + 1
    IN  /\ rx.at = "insert"
        /\ \/ /\ Cardinality(Entries) < FlowCap /\ id <= MaxUdpFlows
              /\ udpFlow' = Append(udpFlow, NewMultiTarget)
              /\ flowTable' = [flowTable EXCEPT ![rx.src] = id]
              /\ rx' = [rx EXCEPT !.at = "relay", !.flow = id]
              /\ UNCHANGED active
           \/ /\ rx' = At("recv") /\ active' = GiveBack
              /\ UNCHANGED <<udpFlow, flowTable>>
        /\ UNCHANGED <<udpRule, udpStop, broom, turned, spent, shown, turns>>

\* relay_existing_flow: one send_to, bump_inbound and the gauge.
RelaySent ==
    /\ rx.at = "relay" /\ ~spent
    /\ udpFlow' = [udpFlow EXCEPT ![rx.flow].idle = FALSE]
    /\ shown' = Cardinality(Entries)
    /\ rx' = At("recv")
    /\ UNCHANGED <<udpRule, udpStop, flowTable, broom, turned, active, spent, turns>>

RelayDropped ==
    /\ rx.at = "relay" /\ spent
    /\ rx' = At("recv")
    /\ UNCHANGED <<udpRule, udpStop, flowTable, udpFlow, broom, turned, active, spent, shown, turns>>

\* A failed send_to moves the flow to its next address, or drops the datagram
\* at the last one.
RelayFailed ==
    LET f == udpFlow[rx.flow]
    IN  /\ rx.at = "relay" /\ ~spent
        /\ IF f.addr < Addresses[f.target]
           THEN udpFlow' = [udpFlow EXCEPT ![rx.flow].addr = @ + 1] /\ UNCHANGED rx
           ELSE rx' = At("recv") /\ UNCHANGED udpFlow
        /\ UNCHANGED <<udpRule, udpStop, flowTable, broom, turned, active, spent, shown, turns>>

\* The listener's loop ends on cancel, between two datagrams.
\* Slip: the map is dropped, its flows are not cancelled.
ListenerDrainLeaks ==
    /\ rx.at = "recv" /\ udpStop
    /\ shown' = Cardinality(Entries)
    /\ flowTable' = [s \in Sources |-> NoFlow]
    /\ rx' = At("done")
    /\ UNCHANGED <<udpRule, udpStop, udpFlow, broom, turned, active, spent, turns>>

ListenerDrain ==
    /\ rx.at = "recv" /\ udpStop
    /\ shown' = Cardinality(Entries)
    /\ udpFlow' = [f \in DOMAIN udpFlow |->
          [udpFlow[f] EXCEPT !.cancelled = @ \/ f \in {flowTable[s] : s \in Entries}]]
    /\ flowTable' = [s \in Sources |-> NoFlow]
    /\ rx' = At("done")
    /\ UNCHANGED <<udpRule, udpStop, broom, turned, active, spent, turns>>

-----------------------------------------------------------------------------
(* Tasks of a flow *)

\* spawn_admit_guard
GuardReleased(f, sc) ==
    /\ udpFlow[f].cancelled /\ sc \in udpFlow[f].guards
    /\ udpFlow' = [udpFlow EXCEPT ![f].guards = @ \ {sc}]
    /\ active' = [active EXCEPT ![sc] = @ - 1]
    /\ UNCHANGED <<udpRule, udpStop, flowTable, rx, broom, turned, spent, shown, turns>>

\* spawn_reply_pump: a reply refreshes the flow, unless the budget is spent.
\* On cancel the pump ends; one reply more would change nothing.
Reply(f) ==
    /\ udpFlow[f].pump /\ ~udpFlow[f].cancelled /\ ~spent
    /\ udpFlow' = [udpFlow EXCEPT ![f].idle = FALSE]
    /\ UNCHANGED <<udpRule, udpStop, flowTable, rx, broom, turned, active, spent, shown, turns>>

\* It also ends on an error of its socket: the flow stays in the table and
\* sends go on, but no reply comes back.
PumpFails(f) ==
    /\ udpFlow[f].pump /\ ~udpFlow[f].cancelled /\ turns.outside < MaxTurns
    /\ udpFlow' = [udpFlow EXCEPT ![f].pump = FALSE]
    /\ turns' = [turns EXCEPT !.outside = @ + 1]
    /\ UNCHANGED <<udpRule, udpStop, flowTable, rx, broom, turned, active, spent, shown>>

-----------------------------------------------------------------------------
(* The reaper *)

\* No datagram for idle_window; only flows of the table are looked at.
Ages(f) ==
    /\ ~udpFlow[f].idle /\ flowTable[udpFlow[f].src] = f
    /\ udpFlow' = [udpFlow EXCEPT ![f].idle = TRUE]
    /\ UNCHANGED <<udpRule, udpStop, flowTable, rx, broom, turned, active, spent, shown, turns>>

SweepSnapshot ==
    /\ broom.at = "sleep" /\ ~udpStop
    /\ \E s \in Entries : udpFlow[flowTable[s]].idle
    /\ broom' = [broom EXCEPT !.at = "remove",
                              !.stale = {s \in Entries : udpFlow[flowTable[s]].idle}]
    /\ UNCHANGED <<udpRule, udpStop, flowTable, udpFlow, rx, turned, active, spent, shown, turns>>

\* By address, and without looking at last_seen again.
SweepRemove ==
    /\ broom.at = "remove"
    /\ broom' = [at |-> "cancel", stale |-> {},
                 out |-> {flowTable[s] : s \in broom.stale} \ {NoFlow}]
    /\ flowTable' = [s \in Sources |-> IF s \in broom.stale THEN NoFlow ELSE flowTable[s]]
    /\ UNCHANGED <<udpRule, udpStop, udpFlow, rx, turned, active, spent, shown, turns>>

SweepCancel ==
    /\ broom.at = "cancel"
    /\ udpFlow' = [f \in DOMAIN udpFlow |->
          [udpFlow[f] EXCEPT !.cancelled = @ \/ f \in broom.out]]
    /\ broom' = Asleep
    /\ UNCHANGED <<udpRule, udpStop, flowTable, rx, turned, active, spent, shown, turns>>

BroomStops ==
    /\ broom.at = "sleep" /\ udpStop
    /\ broom' = [broom EXCEPT !.at = "off"]
    /\ UNCHANGED <<udpRule, udpStop, flowTable, udpFlow, rx, turned, active, spent, shown, turns>>

-----------------------------------------------------------------------------
(* Outside: a probe or another listener records a result; a send of this     *)
(* rule or of another one empties the budget, or a new one is installed.     *)

Outside ==
    /\ turns.outside < MaxTurns
    /\ turns' = [turns EXCEPT !.outside = @ + 1]
    /\ \/ (\E t \in TargetRows : turned' = [turned EXCEPT ![t] = ~@]) /\ UNCHANGED spent
       \/ spent' = ~spent /\ UNCHANGED turned
    /\ UNCHANGED <<udpRule, udpStop, flowTable, udpFlow, rx, broom, active, shown>>

-----------------------------------------------------------------------------
MultiUdpInit ==
    /\ udpRule = "probing" /\ udpStop = FALSE
    /\ flowTable = [s \in Sources |-> NoFlow] /\ udpFlow = <<>>
    /\ rx = At("start") /\ broom = [Asleep EXCEPT !.at = "off"]
    /\ turned = [t \in TargetRows |-> TRUE]
    /\ active = [sc \in Scopes2 |-> 0]
    /\ spent = FALSE /\ shown = 0
    /\ turns = [datagrams |-> 0, outside |-> 0]

MultiUdpNext ==
    \/ ProbeBind \/ ListenerStart \/ CancelRule \/ RuleRemoved
    \/ LookupFlow \/ AcquireFirstPacket \/ ResolveFails \/ ResolveWorks \/ Insert
    \/ RelaySent \/ RelayDropped \/ RelayFailed \/ ListenerDrain
    \/ SweepSnapshot \/ SweepRemove \/ SweepCancel \/ BroomStops \/ Outside
    \/ \E s \in Sources : ReceiveDatagram(s)
    \/ \E f \in DOMAIN udpFlow :
          Reply(f) \/ PumpFails(f) \/ Ages(f) \/ \E sc \in Scopes2 : GuardReleased(f, sc)

MultiUdpSpec == MultiUdpInit /\ [][MultiUdpNext]_multiUdpVars

-----------------------------------------------------------------------------
(* Properties *)

\* A flow that was not cancelled is the table's flow for its source, or in the
\* reaper's hands on its way to be cancelled: none is left behind with its
\* socket and pump, also when rule removal and a sweep overlap.
NoFlowLeaks ==
    \A f \in DOMAIN udpFlow :
        ~udpFlow[f].cancelled => flowTable[udpFlow[f].src] = f \/ f \in broom.out

\* The gauges that bound concurrent flows count the guards of the flows not
\* yet released and of the datagram being admitted, in both scopes, and stay
\* within their ceilings; so a rule whose tasks all ended holds none.
GuardsExact ==
    \A sc \in Scopes2 :
        /\ active[sc] <= FlowCeilings[sc]
        /\ active[sc] = Cardinality({f \in DOMAIN udpFlow : sc \in udpFlow[f].guards})
                        + (IF rx.at \in {"resolve", "insert"} THEN 1 ELSE 0)

\* A listener that ended leaves no entry, and its table never grew past the cap.
TableBounded ==
    /\ Cardinality(Entries) <= FlowCap
    /\ rx.at = "done" => Entries = {}

MultiUdpSound == NoFlowLeaks /\ GuardsExact /\ TableBounded

=============================================================================
