------------------------------ MODULE UdpFlows ------------------------------
(***************************************************************************)
(* The runtime of one single-target UDP rule                               *)
(* (portunus-forwarder/src/forwarder/udp: registry.rs, listener.rs,        *)
(* demux.rs, reaper.rs, runtime.rs).  Its tasks share one flow registry,   *)
(* keyed by (listen port, client address), without a lock over it:         *)
(*                                                                         *)
(*   - a listener per port forwards the datagrams of live flows, reserves  *)
(*     a slot for a new client and spawns a detached cold-path task;       *)
(*   - a cold-path task resolves and connects, commits the flow to the     *)
(*     registry, hands it to the demux and sends the first datagram;       *)
(*   - the demux waits for replies of every flow it was handed;            *)
(*   - the reaper evicts idle flows;                                       *)
(*   - the supervisor tears all of that down in order, except the cold     *)
(*     paths, which nobody joins.                                          *)
(*                                                                         *)
(* Evicting is always two steps, registry.remove(key) and then             *)
(* flow.cancel.cancel(); remove takes whatever the key holds at that       *)
(* moment.  A flow is named by the number of the cold path that builds it. *)
(* Quotas, rate limits and datagram contents are left out: refusing or     *)
(* dropping a datagram changes nothing here, and a refused new flow is one *)
(* whose set-up fails.  Tasks do not panic.                                *)
(***************************************************************************)
EXTENDS Integers, Sequences, FiniteSets

CONSTANTS
    Ports,      \* listen ports of the rule
    Keys,       \* FlowKey: a port and a client address
    Port,       \* the listen port of each key
    Cap,        \* udp_max_flows_per_rule
    QCap,       \* capacity of the demux command channel
    OccMod,     \* where the occupancy counter wraps (usize)
    MaxFlows,   \* bound: cold paths ever spawned
    MaxErrors,  \* bound: ICMP errors the upstream sockets ever report
    MaxSweeps   \* bound: sweeps of the reaper

ASSUME UdpAssumption ==
    /\ Keys # {} /\ Port \in [Keys -> Ports]
    /\ IsFiniteSet(Keys) /\ IsFiniteSet(Ports)
    /\ Cap \in Nat
    /\ QCap \in Nat \ {0}
    /\ OccMod \in Nat /\ OccMod > MaxFlows + Cap
    /\ MaxFlows \in Nat /\ MaxErrors \in Nat /\ MaxSweeps \in Nat

Flows == 1..MaxFlows
Vacant == 0                  \* no entry in the map
Pending == MaxFlows + 1      \* Slot::Pending
Stop == 0                    \* DemuxCommand::Shutdown among the flow numbers

VARIABLES
    slot,       \* inner: Vacant, Pending, or the flow of Slot::Live
    occ,        \* occupancy
    cancelled,  \* flows whose cancel token has fired
    key,        \* the key each flow was reserved for
    cold,       \* where each cold-path task is
    lst,        \* the listener task of each port
    queue,      \* the demux command channel
    armed,      \* readables: the flows the demux waits on
    dmx,        \* the demux task
    reaper,     \* the reaper task
    sup,        \* the supervisor task
    errors,     \* ICMP errors so far
    sweeps      \* sweeps so far

regVars == <<slot, occ>>
dmxVars == <<queue, armed, dmx>>
bounds == <<errors, sweeps>>
udpVars == <<slot, occ, cancelled, key, cold, lst, queue, armed, dmx, reaper, sup,
          errors, sweeps>>

-----------------------------------------------------------------------------
(* UdpFlowRegistry                                                         *)

Live(k) == slot[k] \in Flows
Occupied == {k \in Keys : slot[k] # Vacant}

\* `remove`: what the key holds goes, Live or Pending, whoever put it there.
\* The entry and the counter are two atomics, the counter the later one: the
\* gap only makes the registry look fuller.
Remove(k) ==
    /\ slot' = [slot EXCEPT ![k] = Vacant]
    /\ occ' = IF slot[k] = Vacant THEN occ ELSE (occ - 1) % OccMod

\* The Drop of a reservation that was not committed.
Release(k) == IF slot[k] = Pending THEN Remove(k) ELSE UNCHANGED regVars

UdpInit ==
    /\ slot = [k \in Keys |-> Vacant]
    /\ occ = 0
    /\ cancelled = {}
    /\ key = [f \in Flows |-> CHOOSE k \in Keys : TRUE]
    /\ cold = [f \in Flows |-> "none"]
    /\ lst = [p \in Ports |-> [pc |-> "idle", key |-> CHOOSE k \in Keys : TRUE, flow |-> 0]]
    /\ queue = <<>>
    /\ armed = {}
    /\ dmx = [pc |-> "run", flow |-> 0]
    /\ reaper = [pc |-> "idle", todo |-> {}, flow |-> 0]
    /\ sup = [pc |-> "run", todo |-> {}]
    /\ errors = 0
    /\ sweeps = 0

\* An upstream socket reports an ICMP error.
Fault == errors < MaxErrors /\ errors' = errors + 1

-----------------------------------------------------------------------------
(* Listeners: handle_datagram, process_batch, flush_run                    *)

\* Cold paths the bound still allows.
Unspawned == {f \in Flows : cold[f] = "none"}
Claiming(p) == lst[p].pc \in {"entry", "over"}

\* The listener of p turns to another datagram.
Idle(p) == lst' = [lst EXCEPT ![p].pc = "idle", ![p].flow = 0]

\* `try_get_or_reserve` up to its fetch_add: the key was seen vacant, and a
\* place under the cap is claimed before the entry is.
Claim(p, k) ==
    /\ occ' = (occ + 1) % OccMod
    /\ lst' = [lst EXCEPT ![p].pc = IF occ' > Cap THEN "over" ELSE "entry",
                          ![p].key = k, ![p].flow = 0]
    /\ UNCHANGED slot

\* A datagram for k.  A live flow is fetched from the registry; a vacant key
\* starts the cold path.  A datagram for a Pending key is dropped.
Receive(k) ==
    /\ lst[Port[k]].pc = "idle"
    /\ \/ /\ Live(k)
          /\ lst' = [lst EXCEPT ![Port[k]] = [pc |-> "got", key |-> k, flow |-> slot[k]]]
          /\ UNCHANGED regVars
       \/ slot[k] = Vacant /\ Claim(Port[k], k)
    /\ UNCHANGED <<cancelled, key, cold, dmxVars, reaper, sup, bounds>>

\* The datagrams went out, or were dropped, and the flow stays.
Forwarded(p) ==
    /\ lst[p].pc = "got"
    /\ Idle(p)
    /\ UNCHANGED <<regVars, cancelled, key, cold, dmxVars, reaper, sup, bounds>>

\* The flow was cancelled after it was fetched: the datagram takes the cold
\* path, where a slot someone else filled meanwhile ends it.
FallThrough(p) ==
    /\ lst[p].pc = "got"
    /\ lst[p].flow \in cancelled
    /\ \/ slot[lst[p].key] = Vacant /\ Claim(p, lst[p].key)
       \/ slot[lst[p].key] # Vacant /\ Idle(p) /\ UNCHANGED regVars
    /\ UNCHANGED <<cancelled, key, cold, dmxVars, reaper, sup, bounds>>

\* The upstream socket reports an ICMP error on a send.  The token was read
\* before the send, so it may have fired since.
SendFails(p) ==
    /\ Fault
    /\ lst[p].pc = "got"
    /\ Remove(lst[p].key)
    /\ lst' = [lst EXCEPT ![p].pc = "cancel"]
    /\ UNCHANGED <<cancelled, key, cold, dmxVars, reaper, sup, sweeps>>

ListenerCancels(p) ==
    /\ lst[p].pc = "cancel"
    /\ cancelled' = cancelled \cup {lst[p].flow}
    /\ Idle(p)
    /\ UNCHANGED <<regVars, key, cold, dmxVars, reaper, sup, bounds>>

\* Over the cap: the claim is rolled back, the datagram dropped.
OverCap(p) ==
    /\ lst[p].pc = "over"
    /\ occ' = (occ - 1) % OccMod
    /\ Idle(p)
    /\ UNCHANGED <<slot, cancelled, key, cold, dmxVars, reaper, sup, bounds>>

\* The entry of `try_get_or_reserve`: still vacant, it becomes Pending and a
\* cold path is spawned with the reservation; otherwise, and past the bound
\* on cold paths, the claim is rolled back.
Reserve(p) ==
    /\ lst[p].pc = "entry"
    /\ LET k == lst[p].key IN
       \/ /\ slot[k] = Vacant
          /\ \E f \in Unspawned :
                /\ \A g \in Unspawned : f <= g
                /\ key' = [key EXCEPT ![f] = k]
                /\ cold' = [cold EXCEPT ![f] = "setup"]
          /\ slot' = [slot EXCEPT ![k] = Pending]
          /\ UNCHANGED occ
       \/ /\ slot[k] # Vacant \/ Unspawned = {}
          /\ occ' = (occ - 1) % OccMod
          /\ UNCHANGED <<slot, key, cold>>
    /\ Idle(p)
    /\ UNCHANGED <<cancelled, dmxVars, reaper, sup, bounds>>

\* The listener's select sees its cancelled token.
ListenerStops(p) ==
    /\ sup.pc # "run"
    /\ lst[p].pc = "idle"
    /\ lst' = [lst EXCEPT ![p].pc = "off"]
    /\ UNCHANGED <<regVars, cancelled, key, cold, dmxVars, reaper, sup, bounds>>

-----------------------------------------------------------------------------
(* Cold path: complete_cold_flow                                           *)

\* Rate limit, resolution or connecting fails: the reservation is dropped.
SetupFails(f) ==
    /\ cold[f] = "setup"
    /\ Release(key[f])
    /\ cold' = [cold EXCEPT ![f] = "done"]
    /\ UNCHANGED <<cancelled, key, lst, dmxVars, reaper, sup, bounds>>

\* Slip: the counter is not restored.
CommitUncounted(f) ==
    /\ cold[f] = "setup"
    /\ slot' = [slot EXCEPT ![key[f]] = f]
    /\ cold' = [cold EXCEPT ![f] = "hand"]
    /\ UNCHANGED <<occ, cancelled, key, lst, dmxVars, reaper, sup, bounds>>

\* `commit`.  On a key that lost its Pending slot meanwhile the counter is
\* restored, a step later; a Live flow there is overwritten.
Commit(f) ==
    /\ cold[f] = "setup"
    /\ slot' = [slot EXCEPT ![key[f]] = f]
    /\ cold' = [cold EXCEPT ![f] = IF slot[key[f]] = Vacant THEN "count" ELSE "hand"]
    /\ UNCHANGED <<occ, cancelled, key, lst, dmxVars, reaper, sup, bounds>>

Count(f) ==
    /\ cold[f] = "count"
    /\ occ' = (occ + 1) % OccMod
    /\ cold' = [cold EXCEPT ![f] = "hand"]
    /\ UNCHANGED <<slot, cancelled, key, lst, dmxVars, reaper, sup, bounds>>

\* `try_send(AddFlow)`: a full channel, or a demux that is gone, rolls back.
Hand(f) ==
    /\ cold[f] = "hand"
    /\ LET taken == dmx.pc # "off" /\ Len(queue) < QCap IN
       /\ queue' = IF taken THEN Append(queue, f) ELSE queue
       /\ cold' = [cold EXCEPT ![f] = IF taken THEN "first" ELSE "undo"]
    /\ UNCHANGED <<regVars, cancelled, key, lst, armed, dmx, reaper, sup, bounds>>

\* The first datagram is sent or dropped, or its send evicts the flow.
FirstPacket(f) ==
    /\ cold[f] = "first"
    /\ \/ cold' = [cold EXCEPT ![f] = "done"] /\ UNCHANGED errors
       \/ cold' = [cold EXCEPT ![f] = "undo"] /\ Fault
    /\ UNCHANGED <<regVars, cancelled, key, lst, dmxVars, reaper, sup, sweeps>>

Undo(f) ==
    /\ cold[f] = "undo"
    /\ Remove(key[f])
    /\ cold' = [cold EXCEPT ![f] = "cancel"]
    /\ UNCHANGED <<cancelled, key, lst, dmxVars, reaper, sup, bounds>>

ColdCancels(f) ==
    /\ cold[f] = "cancel"
    /\ cancelled' = cancelled \cup {f}
    /\ cold' = [cold EXCEPT ![f] = "done"]
    /\ UNCHANGED <<regVars, key, lst, dmxVars, reaper, sup, bounds>>

-----------------------------------------------------------------------------
(* Demux: run_demux.  Its select is biased: commands come first.           *)

TakeCommand ==
    /\ dmx.pc = "run"
    /\ queue # <<>>
    /\ \/ /\ Head(queue) = Stop
          /\ dmx' = [dmx EXCEPT !.pc = "off"]
          /\ armed' = {}
          /\ queue' = <<>>
       \/ /\ Head(queue) # Stop
          /\ armed' = armed \cup {Head(queue)}
          /\ queue' = Tail(queue)
          /\ UNCHANGED dmx
    /\ UNCHANGED <<regVars, cancelled, key, cold, lst, reaper, sup, bounds>>

Polling == dmx.pc = "run" /\ queue = <<>>

\* `read_wait` ends with the token, or readable and the token is found fired
\* after the drain: the flow is not armed again.  A drain that finds it
\* unfired changes nothing.
WaitEnds(f) ==
    /\ Polling
    /\ f \in armed \cap cancelled
    /\ armed' = armed \ {f}
    /\ UNCHANGED <<regVars, cancelled, key, cold, lst, queue, dmx, reaper, sup, bounds>>

\* A reply drain meets an ICMP error.  The wait may have ended readable
\* although the token had fired too.
ReplyFails(f) ==
    /\ Fault
    /\ Polling
    /\ f \in armed
    /\ Remove(key[f])
    /\ armed' = armed \ {f}
    /\ dmx' = [pc |-> "cancel", flow |-> f]
    /\ UNCHANGED <<cancelled, key, cold, lst, queue, reaper, sup, sweeps>>

DemuxCancels ==
    /\ dmx.pc = "cancel"
    /\ cancelled' = cancelled \cup {dmx.flow}
    /\ dmx' = [pc |-> "run", flow |-> 0]
    /\ UNCHANGED <<regVars, key, cold, lst, queue, armed, reaper, sup, bounds>>

-----------------------------------------------------------------------------
(* Reaper: run_reaper, sweep_once                                          *)

\* `snapshot_live`.
Sweep ==
    /\ reaper.pc = "idle"
    /\ sweeps < MaxSweeps /\ sweeps' = sweeps + 1
    /\ \E k \in Keys : Live(k)
    /\ reaper' = [reaper EXCEPT !.pc = "sweep", !.todo = {slot[k] : k \in {x \in Keys : Live(x)}}]
    /\ UNCHANGED <<regVars, cancelled, key, cold, lst, dmxVars, sup, errors>>

\* Nothing was seen on the flow for the idle window.  A timing assumption:
\* the window outlasts the cold path's own steps from building the flow,
\* which stamps it, to sending its first datagram.
MayBeIdle(f) == cold[f] = "done"

\* Slip: the sweep cancels a flow and leaves it in the registry.
VisitKeepsEntry(f) ==
    /\ reaper.pc = "sweep"
    /\ f \in reaper.todo
    /\ reaper' = [reaper EXCEPT !.todo = @ \ {f}]
    /\ cancelled' = IF MayBeIdle(f) THEN cancelled \cup {f} ELSE cancelled
    /\ UNCHANGED <<regVars, key, cold, lst, dmxVars, sup, bounds>>

\* The next flow of the snapshot is not idle, or it is and its key is
\* removed; the flow is cancelled if the key held a live one.
Visit(f) ==
    /\ reaper.pc = "sweep"
    /\ f \in reaper.todo
    /\ \/ /\ reaper' = [reaper EXCEPT !.todo = @ \ {f}]
          /\ UNCHANGED regVars
       \/ /\ MayBeIdle(f)
          /\ Remove(key[f])
          /\ reaper' = IF Live(key[f])
                       THEN [pc |-> "cancel", todo |-> reaper.todo \ {f}, flow |-> f]
                       ELSE [reaper EXCEPT !.todo = @ \ {f}]
    /\ UNCHANGED <<cancelled, key, cold, lst, dmxVars, sup, bounds>>

ReaperCancels ==
    /\ reaper.pc = "cancel"
    /\ cancelled' = cancelled \cup {reaper.flow}
    /\ reaper' = [reaper EXCEPT !.pc = "sweep", !.flow = 0]
    /\ UNCHANGED <<regVars, key, cold, lst, dmxVars, sup, bounds>>

SweepEnds ==
    /\ reaper.pc = "sweep"
    /\ reaper.todo = {}
    /\ reaper' = [reaper EXCEPT !.pc = "idle"]
    /\ UNCHANGED <<regVars, cancelled, key, cold, lst, dmxVars, sup, bounds>>

ReaperStops ==
    /\ sup.pc = "reaper"
    /\ reaper.pc = "idle"
    /\ reaper' = [reaper EXCEPT !.pc = "off"]
    /\ UNCHANGED <<regVars, cancelled, key, cold, lst, dmxVars, sup, bounds>>

-----------------------------------------------------------------------------
(* Supervisor: Supervisor::run, phase B                                    *)

\* The rule is removed.
UdpShutdown ==
    /\ sup.pc = "run"
    /\ sup' = [sup EXCEPT !.pc = "listeners"]
    /\ UNCHANGED <<regVars, cancelled, key, cold, lst, dmxVars, reaper, bounds>>

ListenersJoined ==
    /\ sup.pc = "listeners"
    /\ \A p \in Ports : lst[p].pc = "off"
    /\ sup' = [sup EXCEPT !.pc = "reaper"]
    /\ UNCHANGED <<regVars, cancelled, key, cold, lst, dmxVars, reaper, bounds>>

\* The reaper has joined; `drain` collects the keys.
ReaperJoined ==
    /\ sup.pc = "reaper"
    /\ reaper.pc = "off"
    /\ sup' = [pc |-> "drain", todo |-> Occupied]
    /\ UNCHANGED <<regVars, cancelled, key, cold, lst, dmxVars, reaper, bounds>>

\* `drain` removes one key and cancels the flow it held.
Drain(k) ==
    /\ sup.pc = "drain"
    /\ k \in sup.todo
    /\ Remove(k)
    /\ cancelled' = IF Live(k) THEN cancelled \cup {slot[k]} ELSE cancelled
    /\ sup' = [sup EXCEPT !.todo = @ \ {k}]
    /\ UNCHANGED <<key, cold, lst, dmxVars, reaper, bounds>>

\* `send(Shutdown).await` waits for room in the channel.
SendStop ==
    /\ sup.pc = "drain"
    /\ sup.todo = {}
    /\ Len(queue) < QCap
    /\ queue' = Append(queue, Stop)
    /\ sup' = [sup EXCEPT !.pc = "join"]
    /\ UNCHANGED <<regVars, cancelled, key, cold, lst, armed, dmx, reaper, bounds>>

DemuxJoined ==
    /\ sup.pc = "join"
    /\ dmx.pc = "off"
    /\ sup' = [sup EXCEPT !.pc = "done"]
    /\ UNCHANGED <<regVars, cancelled, key, cold, lst, dmxVars, reaper, bounds>>

-----------------------------------------------------------------------------
ListenerBusy(p) ==
    \/ Forwarded(p) \/ FallThrough(p) \/ SendFails(p) \/ ListenerCancels(p)
    \/ OverCap(p) \/ Reserve(p)
ColdStep(f) ==
    \/ SetupFails(f) \/ Commit(f) \/ Count(f) \/ Hand(f) \/ FirstPacket(f)
    \/ Undo(f) \/ ColdCancels(f)
ReaperStep == (\E f \in Flows : Visit(f)) \/ ReaperCancels \/ SweepEnds
SupStep ==
    \/ ListenersJoined \/ ReaperJoined \/ (\E k \in Keys : Drain(k))
    \/ SendStop \/ DemuxJoined

UdpNext ==
    \/ \E k \in Keys : Receive(k)
    \/ \E p \in Ports : ListenerBusy(p) \/ ListenerStops(p)
    \/ \E f \in Flows :
          ColdStep(f) \/ WaitEnds(f) \/ ReplyFails(f)
    \/ TakeCommand \/ DemuxCancels
    \/ Sweep \/ ReaperStep \/ ReaperStops
    \/ UdpShutdown \/ SupStep

UdpSpec == UdpInit /\ [][UdpNext]_udpVars

-----------------------------------------------------------------------------
(* Properties                                                              *)

ColdPcs == {"none", "setup", "count", "hand", "first", "undo", "cancel", "done"}

ListenerType == [pc : {"idle", "got", "cancel", "entry", "over", "off"},
                 key : Keys, flow : Flows \cup {0}]
DemuxType == [pc : {"run", "cancel", "off"}, flow : Flows \cup {0}]
ReaperType == [pc : {"idle", "sweep", "cancel", "off"},
               todo : SUBSET Flows, flow : Flows \cup {0}]
SupervisorType == [pc : {"run", "listeners", "reaper", "drain", "join", "done"},
                   todo : SUBSET Keys]

UdpTypeOK ==
    /\ slot \in [Keys -> Flows \cup {Vacant, Pending}]
    /\ occ \in 0..(OccMod - 1)
    /\ cancelled \subseteq Flows
    /\ key \in [Flows -> Keys]
    /\ cold \in [Flows -> ColdPcs]
    /\ lst \in [Ports -> ListenerType]
    /\ queue \in Seq(Flows \cup {Stop}) /\ Len(queue) <= QCap
    /\ armed \subseteq Flows
    /\ dmx \in DemuxType
    /\ reaper \in ReaperType
    /\ sup \in SupervisorType
    /\ errors \in 0..MaxErrors /\ sweeps \in 0..MaxSweeps

\* The counter the cap is enforced with never drifts from the registry,
\* whichever tasks reserve, commit, release, evict and drain at once: it is
\* the number of entries, the claims under way, less the commits that are
\* about to be counted (try_get_or_reserve, commit, remove, Drop).
OccupancyExact ==
    occ = (Cardinality(Occupied) + Cardinality({p \in Ports : Claiming(p)})
           - Cardinality({f \in Flows : cold[f] = "count"})) % OccMod

\* An entry of the registry is never a flow that was torn down: datagrams
\* of its client would be sent into a flow whose replies nobody reads
\* (remove before cancel, everywhere).
CancelledNotLive == \A k \in Keys : Live(k) => slot[k] \notin cancelled

\* FR-005: no live slot the demux never sees.  While the demux runs, a live
\* flow is one it waits on or is about to be told of, or one its own cold
\* path is about to hand over or take back (complete_cold_flow, step 8).
Served(f) ==
    \/ f \in armed
    \/ \E i \in 1..Len(queue) : queue[i] = f
    \/ cold[f] \in {"count", "hand", "undo"}
LiveIsServed == dmx.pc # "off" => \A k \in Keys : Live(k) => Served(slot[k])

\* A Pending slot always has a cold path that will commit or release it: a
\* client is never locked out behind a reservation nobody holds, even when
\* stale removals and releases hit the slots of others.
PendingOwned ==
    \A k \in Keys : slot[k] = Pending =>
        \E f \in Flows : key[f] = k /\ cold[f] = "setup"

\* The entries of the registry: none is torn down, none is unserved, none is
\* reserved by nobody (registry.rs, complete_cold_flow).
FlowsSound == UdpTypeOK /\ CancelledNotLive /\ LiveIsServed /\ PendingOwned

\* FR-011: the ordered teardown never waits for something nobody will do,
\* whatever the tasks were doing when the rule was removed and however the
\* detached cold paths fill the command channel (Supervisor::run, phase B).
\* Listeners and reaper always have a step of their own until they stop; room
\* in the channel needs a demux that still takes commands, and its end needs
\* the Stop to be among them.
TeardownNeverStuck ==
    /\ sup.pc \in {"listeners", "reaper", "drain"} => dmx.pc # "off"
    /\ sup.pc = "join" => dmx.pc = "off" \/ \E i \in 1..Len(queue) : queue[i] = Stop

\* The registry's counter agrees with its entries and removing the rule gets
\* to its end (registry.rs, Supervisor::run).
RegistrySound == OccupancyExact /\ TeardownNeverStuck

\* UdpFlow::admit_guards: "When the registry releases the Arc<UdpFlow> (idle
\* eviction / explicit remove), this Vec drops".  A flow that left the
\* registry is cancelled, or about to be, whenever the demux has it.
RemovedIsCancelled ==
    \A f \in armed :
        \/ slot[key[f]] = f
        \/ f \in cancelled
        \/ cold[f] \in {"undo", "cancel"}
        \/ \E p \in Ports : lst[p].pc = "cancel" /\ lst[p].flow = f
        \/ reaper.pc = "cancel" /\ reaper.flow = f
        \/ dmx.pc = "cancel" /\ dmx.flow = f

=============================================================================
