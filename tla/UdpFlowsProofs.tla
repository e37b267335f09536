--------------------------- MODULE UdpFlowsProofs ---------------------------
(***************************************************************************)
(* Proofs about UdpFlows for any number of ports, clients and flows, any *)
(* cap and any channel capacity, and about UdpBatch for any clients, any *)
(* size of a batch and any number of datagrams. *)
(***************************************************************************)
EXTENDS UdpFlows, UdpBatch, FiniteSetTheorems, SequenceTheorems, TLAPS

\* A task that forwards or evicts has a flow in hand, of the key it works on.
InHand ==
    /\ \A p \in Ports : lst[p].pc \in {"got", "cancel"} =>
           lst[p].flow # 0 /\ key[lst[p].flow] = lst[p].key
    /\ dmx.pc = "cancel" => dmx.flow # 0
    /\ reaper.pc = "cancel" => reaper.flow # 0

\* The cold path of the flow has committed it, and will not do so again.
Built(f) == cold[f] \notin {"none", "setup"}

Queued(f) == \E i \in 1..Len(queue) : queue[i] = f

\* Whatever a task or the registry refers to was committed; an entry is the
\* flow of its own key.
BuiltInv ==
    /\ \A k \in Keys : Live(k) => key[slot[k]] = k /\ Built(slot[k])
    /\ \A f \in cancelled \cup armed \cup reaper.todo : Built(f)
    /\ \A f \in Flows : Queued(f) => Built(f)
    /\ \A p \in Ports : lst[p].pc \in {"got", "cancel"} => Built(lst[p].flow)
    /\ dmx.pc = "cancel" => Built(dmx.flow)
    /\ reaper.pc = "cancel" => Built(reaper.flow)

\* Cancelled, or in the hands of a task that removed its key and is about to
\* cancel it.
Dying(f) ==
    \/ f \in cancelled
    \/ cold[f] = "cancel"
    \/ \E p \in Ports : lst[p].pc = "cancel" /\ lst[p].flow = f
    \/ dmx.pc = "cancel" /\ dmx.flow = f
    \/ reaper.pc = "cancel" /\ reaper.flow = f

\* A dying flow has left the registry: remove comes before cancel, and a flow
\* that left does not come back.
GoneInv == \A f \in Flows : Dying(f) => slot[key[f]] # f

FlowInv == UdpTypeOK /\ InHand /\ BuiltInv /\ GoneInv

----
(* Types *)

\* The wrapping counter stays in its range.
LEMMA OccRange ==
    ASSUME NEW n \in Int PROVE n % OccMod \in 0..(OccMod - 1)
  BY UdpAssumption

LEMMA OccSteps ==
    ASSUME occ \in 0..(OccMod - 1)
    PROVE  /\ (occ + 1) % OccMod \in 0..(OccMod - 1)
           /\ (occ - 1) % OccMod \in 0..(OccMod - 1)
  BY OccRange, UdpAssumption

\* registry.remove keeps the registry typed, and empties the key only.
LEMMA RemoveType ==
    ASSUME slot \in [Keys -> Flows \cup {Vacant, Pending}], occ \in 0..(OccMod - 1),
           NEW k \in Keys, Remove(k)
    PROVE  /\ slot' \in [Keys -> Flows \cup {Vacant, Pending}]
           /\ occ' \in 0..(OccMod - 1)
  BY OccSteps DEF Remove

\* Moving a listener on keeps its record typed.
LEMMA ListenerType1 ==
    ASSUME lst \in [Ports -> ListenerType], NEW p \in Ports,
           NEW pc \in {"idle", "got", "cancel", "entry", "over", "off"},
           lst' = [lst EXCEPT ![p].pc = pc]
    PROVE  lst' \in [Ports -> ListenerType]
  BY DEF ListenerType

LEMMA IdleType ==
    ASSUME lst \in [Ports -> ListenerType], NEW p \in Ports, Idle(p)
    PROVE  lst' \in [Ports -> ListenerType]
  BY DEF ListenerType, Idle

\* What a listener works on.
LEMMA ListenerFields ==
    ASSUME lst \in [Ports -> ListenerType], NEW p \in Ports
    PROVE  lst[p].key \in Keys /\ lst[p].flow \in Flows \cup {0}
  BY DEF ListenerType

\* Claiming a place keeps the registry and the listener typed.
LEMMA ListenerType3 ==
    ASSUME lst \in [Ports -> ListenerType], NEW p \in Ports, NEW k \in Keys,
           NEW pc \in {"idle", "got", "cancel", "entry", "over", "off"},
           lst' = [lst EXCEPT ![p].pc = pc, ![p].key = k, ![p].flow = 0]
    PROVE  lst' \in [Ports -> ListenerType]
  BY DEF ListenerType

LEMMA ClaimType ==
    ASSUME lst \in [Ports -> ListenerType], occ \in 0..(OccMod - 1),
           NEW p \in Ports, NEW k \in Keys, Claim(p, k)
    PROVE  /\ lst' \in [Ports -> ListenerType]
           /\ occ' \in 0..(OccMod - 1)
           /\ slot' = slot
<1>1. occ' \in 0..(OccMod - 1) /\ slot' = slot
 BY OccSteps DEF Claim
<1>2. PICK pc \in {"entry", "over"} :
         lst' = [lst EXCEPT ![p].pc = pc, ![p].key = k, ![p].flow = 0]
 BY DEF Claim
<1> QED BY <1>1, <1>2, ListenerType3

\* A listener that fetches a live flow stays typed.
LEMMA ReceiveType ==
    ASSUME lst \in [Ports -> ListenerType], NEW k \in Keys, Live(k)
    PROVE  [lst EXCEPT ![Port[k]] = [pc |-> "got", key |-> k, flow |-> slot[k]]]
               \in [Ports -> ListenerType]
  BY UdpAssumption DEF ListenerType, Live

\* Bounded errors.
LEMMA FaultType ==
    ASSUME errors \in 0..MaxErrors, Fault PROVE errors' \in 0..MaxErrors
  BY UdpAssumption DEF Fault

LEMMA TypeInit == UdpInit => UdpTypeOK /\ InHand
<1> SUFFICES ASSUME UdpInit PROVE UdpTypeOK /\ InHand
 OBVIOUS
<1>1. (CHOOSE k \in Keys : TRUE) \in Keys
 BY UdpAssumption
<1> USE DEF UdpInit
<1>2. queue \in Seq(Flows \cup {Stop}) /\ Len(queue) <= QCap
 BY UdpAssumption
<1>3. occ \in 0..(OccMod - 1) /\ errors \in 0..MaxErrors /\ sweeps \in 0..MaxSweeps
 BY UdpAssumption
<1>4. lst \in [Ports -> ListenerType] /\ dmx \in DemuxType /\ reaper \in ReaperType
      /\ sup \in SupervisorType
 BY <1>1 DEF ListenerType, DemuxType, ReaperType, SupervisorType
<1>5. InHand
 BY DEF InHand
<1> QED BY <1>1, <1>2, <1>3, <1>4, <1>5 DEF UdpTypeOK, ColdPcs

LEMMA TypeStep == UdpTypeOK /\ InHand /\ [UdpNext]_udpVars => UdpTypeOK'
<1> SUFFICES ASSUME UdpTypeOK, InHand, [UdpNext]_udpVars PROVE UdpTypeOK'
 OBVIOUS
<1> USE DEF regVars, dmxVars, bounds
<1> USE DEF UdpTypeOK
<1>1. ASSUME NEW k \in Keys, Receive(k) PROVE UdpTypeOK'
 BY <1>1, ClaimType, ReceiveType, UdpAssumption DEF Receive
<1>2. ASSUME NEW k \in Keys, Drain(k) PROVE UdpTypeOK'
 BY <1>2, RemoveType DEF Drain, Live, SupervisorType
<1>3. ASSUME NEW p \in Ports, Forwarded(p) PROVE UdpTypeOK'
 BY <1>3, IdleType DEF Forwarded
<1>4. ASSUME NEW p \in Ports, FallThrough(p) PROVE UdpTypeOK'
 BY <1>4, ClaimType, IdleType, ListenerFields DEF FallThrough
<1>5. ASSUME NEW p \in Ports, SendFails(p) PROVE UdpTypeOK'
 BY <1>5, RemoveType, ListenerType1, ListenerFields, FaultType DEF SendFails
<1>6. ASSUME NEW p \in Ports, ListenerCancels(p) PROVE UdpTypeOK'
 BY <1>6, IdleType, ListenerFields DEF ListenerCancels, InHand
<1>7. ASSUME NEW p \in Ports, OverCap(p) PROVE UdpTypeOK'
 BY <1>7, OccSteps, IdleType DEF OverCap
<1>8. ASSUME NEW p \in Ports, Reserve(p) PROVE UdpTypeOK'
 BY <1>8, OccSteps, IdleType, ListenerFields DEF Reserve, Unspawned, ColdPcs
<1>9. ASSUME NEW p \in Ports, ListenerStops(p) PROVE UdpTypeOK'
 BY <1>9, ListenerType1 DEF ListenerStops
<1>10. ASSUME NEW f \in Flows, SetupFails(f) PROVE UdpTypeOK'
 BY <1>10, RemoveType DEF SetupFails, Release, ColdPcs
<1>11. ASSUME NEW f \in Flows, Commit(f) PROVE UdpTypeOK'
 BY <1>11 DEF Commit, ColdPcs
<1>12. ASSUME NEW f \in Flows, Count(f) PROVE UdpTypeOK'
 BY <1>12, OccSteps DEF Count, ColdPcs
<1>13. ASSUME NEW f \in Flows, Hand(f) PROVE UdpTypeOK'
 BY <1>13, UdpAssumption DEF Hand, ColdPcs
<1>14. ASSUME NEW f \in Flows, FirstPacket(f) PROVE UdpTypeOK'
 BY <1>14, FaultType DEF FirstPacket, ColdPcs
<1>15. ASSUME NEW f \in Flows, Undo(f) PROVE UdpTypeOK'
 BY <1>15, RemoveType DEF Undo, ColdPcs
<1>16. ASSUME NEW f \in Flows, ColdCancels(f) \/ WaitEnds(f) PROVE UdpTypeOK'
 BY <1>16 DEF ColdCancels, ColdPcs, WaitEnds
<1>17. ASSUME NEW f \in Flows, ReplyFails(f) PROVE UdpTypeOK'
 BY <1>17, RemoveType, FaultType DEF ReplyFails, DemuxType
<1>18. ASSUME NEW f \in Flows, Visit(f) PROVE UdpTypeOK'
 BY <1>18, RemoveType DEF Visit, ReaperType
<1>19. CASE TakeCommand
 <2>1. queue' \in Seq(Flows \cup {Stop}) /\ Len(queue') <= QCap
  <3>1. queue \in Seq(Flows \cup {Stop}) /\ Len(queue) <= QCap /\ queue # <<>>
   BY <1>19 DEF TakeCommand
  <3>2. Tail(queue) \in Seq(Flows \cup {Stop}) /\ Len(Tail(queue)) <= QCap
   BY <3>1, UdpAssumption
  <3>3. <<>> \in Seq(Flows \cup {Stop}) /\ Len(<<>>) <= QCap
   BY UdpAssumption
  <3>4. queue' = Tail(queue) \/ queue' = <<>>
   BY <1>19 DEF TakeCommand
  <3> QED BY <3>2, <3>3, <3>4
 <2> USE <1>19 DEF TakeCommand
 <2>2. armed' \subseteq Flows
  <3>1. CASE Head(queue) = Stop
   BY <3>1
  <3>2. CASE Head(queue) # Stop
   <4>1. Head(queue) \in Flows
    BY <3>2
   <4> QED BY <3>2, <4>1
  <3> QED BY <3>1, <3>2
 <2>3. dmx' \in DemuxType
  BY DEF DemuxType
 <2> QED BY <2>1, <2>2, <2>3
<1>20. CASE DemuxCancels
 BY <1>20 DEF DemuxCancels, DemuxType, InHand
<1>21. CASE Sweep
 <2> DEFINE live == {slot[k] : k \in {x \in Keys : Live(x)}}
 <2>3. live \in SUBSET Flows
  BY DEF Live
 <2> USE <1>21 DEF Sweep
 <2>4. reaper' = [reaper EXCEPT !.pc = "sweep", !.todo = live]
  OBVIOUS
 <2> HIDE DEF live
 <2>1. reaper' \in ReaperType
  BY <2>3, <2>4 DEF ReaperType
 <2>2. sweeps' \in 0..MaxSweeps
  BY UdpAssumption
 <2> QED BY <2>1, <2>2
<1>22. CASE ReaperCancels \/ SweepEnds \/ ReaperStops
 BY <1>22 DEF ReaperCancels, InHand, ReaperType, SweepEnds, ReaperStops
<1>23. CASE UdpShutdown \/ ListenersJoined \/ ReaperJoined \/ DemuxJoined \/ UNCHANGED udpVars
 BY <1>23 DEF UdpShutdown, SupervisorType, ListenersJoined, ReaperJoined, Occupied, DemuxJoined,
  udpVars
<1>24. CASE SendStop
 <2> USE <1>24 DEF SendStop
 <2>1. queue' \in Seq(Flows \cup {Stop}) /\ Len(queue') <= QCap
  BY UdpAssumption
 <2>2. sup' \in SupervisorType
  BY DEF SupervisorType
 <2> QED BY <2>1, <2>2
<1> QED BY <1>1, <1>2, <1>3, <1>4, <1>5, <1>6, <1>7, <1>8, <1>9, <1>10, <1>11, <1>12, <1>13,
  <1>14, <1>15, <1>16, <1>17, <1>18, <1>19, <1>20, <1>21, <1>22, <1>23, <1>24 DEF UdpNext, ListenerBusy, ColdStep, ReaperStep, SupStep

\* The three kinds of slot differ.
LEMMA Markers ==
    Vacant \notin Flows /\ Pending \notin Flows /\ Vacant # Pending /\ 0 \notin Flows
  BY UdpAssumption DEF Vacant, Pending, Flows

\* What registry.remove does to the other keys: nothing.
LEMMA RemoveEffect ==
    ASSUME slot \in [Keys -> Flows \cup {Vacant, Pending}], NEW k \in Keys, Remove(k)
    PROVE  \A j \in Keys : slot'[j] = IF j = k THEN Vacant ELSE slot[j]
  BY DEF Remove

\* Dropping a reservation can only empty its key, and leaves it not Pending.
LEMMA ReleaseEffect ==
    ASSUME slot \in [Keys -> Flows \cup {Vacant, Pending}], NEW k \in Keys, Release(k)
    PROVE  /\ \A j \in Keys : slot'[j] = slot[j] \/ (j = k /\ slot'[j] = Vacant)
           /\ slot'[k] # Pending
  BY RemoveEffect, Markers DEF Release, regVars

\* A channel after its first command is taken, and after one is sent.
LEMMA TailQueue ==
    ASSUME NEW S, NEW q \in Seq(S), q # <<>>, NEW x
    PROVE  (\E i \in 1..Len(q) : q[i] = x) <=>
               (x = Head(q) \/ \E i \in 1..Len(Tail(q)) : Tail(q)[i] = x)
<1>1. Len(Tail(q)) = Len(q) - 1 /\ Len(q) \in Nat \ {0} /\ Head(q) = q[1]
 OBVIOUS
<1>2. \A i \in 1..Len(Tail(q)) : Tail(q)[i] = q[i + 1]
 OBVIOUS
<1>3. ASSUME NEW i \in 1..Len(q), q[i] = x, x # Head(q)
      PROVE  \E j \in 1..Len(Tail(q)) : Tail(q)[j] = x
 <2>1. i - 1 \in 1..Len(Tail(q)) /\ Tail(q)[i - 1] = x
  BY <1>1, <1>2, <1>3
 <2> QED BY <2>1
<1>4. ASSUME NEW i \in 1..Len(Tail(q)), Tail(q)[i] = x PROVE \E j \in 1..Len(q) : q[j] = x
 <2>1. i + 1 \in 1..Len(q) /\ q[i + 1] = x
  BY <1>1, <1>2, <1>4
 <2> QED BY <2>1
<1> QED BY <1>1, <1>3, <1>4

LEMMA AppendQueue ==
    ASSUME NEW S, NEW q \in Seq(S), NEW c \in S, NEW x
    PROVE  (\E i \in 1..Len(Append(q, c)) : Append(q, c)[i] = x) <=>
               (x = c \/ \E i \in 1..Len(q) : q[i] = x)
<1>1. Len(Append(q, c)) = Len(q) + 1 /\ Len(q) \in Nat
 OBVIOUS
<1>2. Append(q, c)[Len(q) + 1] = c /\ \A i \in 1..Len(q) : Append(q, c)[i] = q[i]
 OBVIOUS
<1> QED BY <1>1, <1>2

\* What the demux takes from the channel is a flow it had queued.
LEMMA TakeQueue ==
    ASSUME queue \in Seq(Flows \cup {Stop}), TakeCommand, NEW f \in Flows
    PROVE  /\ Queued(f)' => Queued(f)
           /\ Queued(f) => Queued(f)' \/ f \in armed' \/ dmx'.pc = "off"
           /\ f \in armed' => f \in armed \/ Queued(f)
<1>1. queue # <<>>
 BY DEF TakeCommand
<1>2. CASE Head(queue) = Stop
 <2>1. queue' = <<>> /\ armed' = {} /\ dmx' = [dmx EXCEPT !.pc = "off"]
  BY <1>2 DEF TakeCommand
 <2> QED BY <2>1 DEF Queued
<1>3. CASE Head(queue) # Stop
 <2>1. queue' = Tail(queue) /\ armed' = armed \cup {Head(queue)}
  BY <1>3 DEF TakeCommand
 <2> QED BY <1>1, <2>1, TailQueue DEF Queued
<1> QED BY <1>2, <1>3

LEMMA InHandStep == UdpTypeOK /\ InHand /\ BuiltInv /\ [UdpNext]_udpVars => InHand'
<1> SUFFICES ASSUME UdpTypeOK, InHand, BuiltInv, [UdpNext]_udpVars PROVE InHand'
 OBVIOUS
<1> USE DEF regVars, dmxVars, bounds
<1> USE DEF Live, InHand, BuiltInv, Built, UdpTypeOK
<1>1. ASSUME NEW k \in Keys, Receive(k) PROVE InHand'
 BY <1>1, Markers DEF Receive, Claim, ListenerType
<1>2. ASSUME NEW k \in Keys, Drain(k) PROVE InHand'
 BY <1>2, RemoveEffect, Markers DEF Drain
<1>3. ASSUME NEW p \in Ports, Forwarded(p) \/ OverCap(p) PROVE InHand'
 BY <1>3 DEF Forwarded, Idle, ListenerType, OverCap
<1>4. ASSUME NEW p \in Ports, FallThrough(p) PROVE InHand'
 BY <1>4 DEF FallThrough, Idle, Claim, ListenerType
<1>5. ASSUME NEW p \in Ports, SendFails(p) PROVE InHand'
 BY <1>5, RemoveEffect, ListenerFields, Markers DEF SendFails, ListenerType
<1>6. ASSUME NEW p \in Ports, ListenerCancels(p) \/ ListenerStops(p) PROVE InHand'
 BY <1>6 DEF ListenerCancels, Idle, ListenerType, ListenerStops
<1>7. ASSUME NEW p \in Ports, Reserve(p) PROVE InHand'
 BY <1>7, ListenerFields, Markers DEF Reserve, Idle, Unspawned, ListenerType
<1>8. ASSUME NEW f \in Flows, SetupFails(f) PROVE InHand'
 BY <1>8, ReleaseEffect, Markers DEF SetupFails
<1>9. ASSUME NEW f \in Flows, Commit(f) PROVE InHand'
 BY <1>9, Markers DEF Commit
<1>10. ASSUME NEW f \in Flows, Count(f) \/ Hand(f) \/ FirstPacket(f) \/ ColdCancels(f) \/ WaitEnds(f)
       PROVE InHand'
 BY <1>10 DEF Count, Hand, FirstPacket, ColdCancels, WaitEnds
<1>11. ASSUME NEW f \in Flows, Undo(f) PROVE InHand'
 BY <1>11, RemoveEffect, Markers DEF Undo
<1>12. ASSUME NEW f \in Flows, ReplyFails(f) PROVE InHand'
 BY <1>12, RemoveEffect, Markers DEF ReplyFails, DemuxType
<1>13. ASSUME NEW f \in Flows, Visit(f) PROVE InHand'
 BY <1>13, RemoveEffect, Markers DEF Visit, ReaperType
<1>14. CASE TakeCommand
 BY <1>14 DEF TakeCommand, DemuxType
<1>15. CASE DemuxCancels
 BY <1>15 DEF DemuxCancels, DemuxType
<1>16. CASE Sweep \/ ReaperCancels \/ SweepEnds \/ ReaperStops
 BY <1>16 DEF Sweep, ReaperType, ReaperCancels, SweepEnds, ReaperStops
<1>17. CASE UdpShutdown \/ ListenersJoined \/ ReaperJoined \/ SendStop \/ DemuxJoined
           \/ UNCHANGED udpVars
 BY <1>17 DEF UdpShutdown, ListenersJoined, ReaperJoined, SendStop, DemuxJoined, udpVars
<1> QED BY <1>1, <1>2, <1>3, <1>4, <1>5, <1>6, <1>7, <1>8, <1>9, <1>10, <1>11, <1>12, <1>13,
  <1>14, <1>15, <1>16, <1>17 DEF UdpNext, ListenerBusy, ColdStep, ReaperStep, SupStep

\* A step of a cold path that commits nothing keeps BuiltInv.
LEMMA ColdFrame ==
    ASSUME UdpTypeOK, InHand, BuiltInv,
           UNCHANGED <<key, lst, queue, armed, dmx, reaper>>,
           \A g \in Flows : Built(g) => cold'[g] \notin {"none", "setup"},
           \A k \in Keys : slot'[k] \in Flows => slot'[k] = slot[k],
           \A g \in cancelled' : g \in cancelled \/ (g \in Flows /\ Built(g))
    PROVE  BuiltInv'
<1> USE DEF BuiltInv
<1>1. \A k \in Keys : Live(k)' => key'[slot'[k]] = k /\ cold'[slot'[k]] \notin {"none", "setup"}
 BY DEF Live
<1>2. \A g \in Flows : Queued(g)' => cold'[g] \notin {"none", "setup"}
 BY DEF Queued
<1> USE DEF UdpTypeOK
<1>3. \A p \in Ports : lst'[p].pc \in {"got", "cancel"} => cold'[lst'[p].flow] \notin {"none", "setup"}
 BY ListenerFields DEF InHand
<1>4. \A g \in cancelled' \cup armed' \cup reaper'.todo : cold'[g] \notin {"none", "setup"}
 BY DEF ReaperType
<1>5. dmx'.pc = "cancel" => cold'[dmx'.flow] \notin {"none", "setup"}
 BY DEF InHand, DemuxType
<1>6. reaper'.pc = "cancel" => cold'[reaper'.flow] \notin {"none", "setup"}
 BY DEF InHand, ReaperType
<1> QED BY <1>1, <1>2, <1>3, <1>4, <1>5, <1>6 DEF Built


LEMMA BuiltStep == UdpTypeOK /\ InHand /\ BuiltInv /\ [UdpNext]_udpVars => BuiltInv'
<1> SUFFICES ASSUME UdpTypeOK, InHand, BuiltInv, [UdpNext]_udpVars PROVE BuiltInv'
 OBVIOUS
<1> USE DEF regVars, dmxVars, bounds
<1>1. ASSUME NEW k \in Keys, Receive(k) PROVE BuiltInv'
 <2>1. UNCHANGED <<slot, cancelled, key, cold, queue, armed, dmx, reaper>>
  BY <1>1 DEF Receive, Claim
 <2> USE DEF BuiltInv, Built
 <2>2. \A p \in Ports : lst'[p].pc \in {"got", "cancel"} => cold[lst'[p].flow] \notin {"none", "setup"}
  <3>1. CASE lst' = [lst EXCEPT ![Port[k]] = [pc |-> "got", key |-> k, flow |-> slot[k]]]
   BY <1>1, <3>1 DEF Receive, Claim, UdpTypeOK, Live
  <3>2. CASE Claim(Port[k], k)
   BY <3>2 DEF Claim, UdpTypeOK, ListenerType
  <3> QED BY <1>1, <3>1, <3>2 DEF Receive
 <2> QED BY <2>1, <2>2 DEF Queued, Live
<1> USE DEF UdpTypeOK
<1>2. ASSUME NEW k \in Keys, Drain(k) PROVE BuiltInv'
 BY <1>2, RemoveEffect, Markers DEF Drain, Live, InHand, BuiltInv, Built, Queued
<1>3. ASSUME NEW p \in Ports, Forwarded(p) \/ OverCap(p) PROVE BuiltInv'
 BY <1>3 DEF Forwarded, Idle, InHand, BuiltInv, Built, Queued, Live, ListenerType, OverCap
<1>4. ASSUME NEW p \in Ports, FallThrough(p) PROVE BuiltInv'
 BY <1>4 DEF FallThrough, Idle, Claim, InHand, BuiltInv, Built, Queued, Live, ListenerType
<1>5. ASSUME NEW p \in Ports, SendFails(p) PROVE BuiltInv'
 BY <1>5, RemoveEffect, ListenerFields, Markers DEF SendFails, InHand, BuiltInv, Built, Queued,
  Live, ListenerType
<1>6. ASSUME NEW p \in Ports, ListenerCancels(p) \/ ListenerStops(p) PROVE BuiltInv'
 BY <1>6 DEF ListenerCancels, Idle, InHand, BuiltInv, Built, Queued, Live, ListenerType,
  ListenerStops
<1>7. ASSUME NEW p \in Ports, Reserve(p) PROVE BuiltInv'
 <2>1. \A f \in Flows : Built(f) => Built(f)' /\ key'[f] = key[f]
  BY <1>7 DEF Reserve, Unspawned, Built
 <2>2. \A k \in Keys : slot'[k] = slot[k] \/ slot'[k] = Pending
  BY <1>7, ListenerFields DEF Reserve
 <2>3. \A q \in Ports : lst'[q].pc \in {"got", "cancel"} => lst'[q] = lst[q]
  BY <1>7 DEF Reserve, Idle
 <2>4. UNCHANGED <<cancelled, queue, armed, dmx, reaper>>
  BY <1>7 DEF Reserve
 <2> USE <2>1 DEF BuiltInv, Built
 <2>5. \A k \in Keys : Live(k)' => key'[slot'[k]] = k /\ cold'[slot'[k]] \notin {"none", "setup"}
  BY <2>2, Markers DEF Live
 <2>6. \A q \in Ports : lst'[q].pc \in {"got", "cancel"} => cold'[lst'[q].flow] \notin {"none", "setup"}
  BY <2>3, ListenerFields DEF InHand
 <2>7. \A f \in Flows : Queued(f)' => Built(f)'
  BY <2>4 DEF Queued
 <2> QED BY <2>4, <2>5, <2>6, <2>7 DEF InHand, DemuxType, ReaperType
<1>8. ASSUME NEW f \in Flows, SetupFails(f) PROVE BuiltInv'
 <2> USE <1>8 DEF SetupFails
 <2>1. \A g \in Flows : Built(g) => cold'[g] \notin {"none", "setup"}
  BY DEF Built
 <2>2. \A k \in Keys : slot'[k] \in Flows => slot'[k] = slot[k]
  BY ReleaseEffect, Markers
 <2>3. \A g \in cancelled' : g \in cancelled \/ (g \in Flows /\ Built(g))
  BY DEF Built
 <2> QED BY <2>1, <2>2, <2>3, ColdFrame
<1>9. ASSUME NEW f \in Flows, Commit(f) PROVE BuiltInv'
 BY <1>9, Markers DEF Commit, InHand, BuiltInv, Built, Queued, Live
<1>10. ASSUME NEW f \in Flows, Count(f) \/ FirstPacket(f) \/ ColdCancels(f) PROVE BuiltInv'
 <2> USE <1>10 DEF Count, FirstPacket, ColdCancels
 <2>1. \A g \in Flows : Built(g) => cold'[g] \notin {"none", "setup"}
  BY DEF Built
 <2>2. \A k \in Keys : slot'[k] \in Flows => slot'[k] = slot[k]
  OBVIOUS
 <2>3. \A g \in cancelled' : g \in cancelled \/ (g \in Flows /\ Built(g))
  BY DEF Built
 <2> QED BY <2>1, <2>2, <2>3, ColdFrame
<1>11. ASSUME NEW f \in Flows, Hand(f) PROVE BuiltInv'
 <2>1. \A g \in Flows : Built(g) => Built(g)'
  BY <1>11 DEF Hand, Built
 <2>2. Built(f)
  BY <1>11 DEF Hand, Built
 <2>3. \A g \in Flows : Queued(g)' => Queued(g) \/ g = f
  BY <1>11, AppendQueue DEF Hand, Queued
 <2>4. UNCHANGED <<slot, cancelled, key, lst, armed, dmx, reaper>>
  BY <1>11 DEF Hand
 <2>5. \A q \in Ports : lst'[q].pc \in {"got", "cancel"} => cold'[lst'[q].flow] \notin {"none", "setup"}
  BY <2>1, <2>4, ListenerFields DEF BuiltInv, Built, InHand
 <2> QED BY <2>1, <2>2, <2>3, <2>4, <2>5 DEF BuiltInv, Built, InHand, Live, DemuxType, ReaperType
<1>13. ASSUME NEW f \in Flows, Undo(f) PROVE BuiltInv'
 <2> USE <1>13 DEF Undo
 <2>1. \A g \in Flows : Built(g) => cold'[g] \notin {"none", "setup"}
  BY DEF Built
 <2>2. \A k \in Keys : slot'[k] \in Flows => slot'[k] = slot[k]
  BY RemoveEffect, Markers
 <2>3. \A g \in cancelled' : g \in cancelled \/ (g \in Flows /\ Built(g))
  BY DEF Built
 <2> QED BY <2>1, <2>2, <2>3, ColdFrame
<1>15. ASSUME NEW f \in Flows, WaitEnds(f) PROVE BuiltInv'
 BY <1>15 DEF WaitEnds, InHand, BuiltInv, Built, Queued, Live
<1>16. ASSUME NEW f \in Flows, ReplyFails(f) PROVE BuiltInv'
 BY <1>16, RemoveEffect, Markers DEF ReplyFails, InHand, BuiltInv, Built, Queued, Live, DemuxType
<1>17. ASSUME NEW f \in Flows, Visit(f) PROVE BuiltInv'
 BY <1>17, RemoveEffect, Markers DEF Visit, Live, InHand, BuiltInv, Built, Queued, ReaperType
<1>18. CASE TakeCommand
 <2>1. UNCHANGED <<slot, cancelled, key, cold, lst, reaper>> /\ dmx'.pc # "cancel"
  BY <1>18 DEF TakeCommand, DemuxType
 <2>2. \A f \in Flows : Queued(f)' => Queued(f)
  BY <1>18, TakeQueue
 <2>3. \A f \in Flows : f \in armed' => f \in armed \/ Queued(f)
  BY <1>18, TakeQueue
 <2>4. armed' \subseteq Flows
  BY TypeStep
 <2> QED BY <2>1, <2>2, <2>3, <2>4 DEF BuiltInv, Built, Live
<1> USE DEF InHand, BuiltInv, Built, Queued, Live
<1>19. CASE DemuxCancels
 BY <1>19 DEF DemuxCancels, DemuxType
<1>20. CASE Sweep
 BY <1>20 DEF Sweep, ReaperType
<1>21. CASE ReaperCancels
 BY <1>21 DEF ReaperCancels, ReaperType
<1>22. CASE SweepEnds
 BY <1>22 DEF SweepEnds, ReaperType
<1>23. CASE ReaperStops
 BY <1>23 DEF ReaperStops, ReaperType
<1>24. CASE UdpShutdown \/ ListenersJoined \/ ReaperJoined \/ DemuxJoined \/ UNCHANGED udpVars
 BY <1>24 DEF UdpShutdown, ListenersJoined, ReaperJoined, DemuxJoined, udpVars
<1>25. CASE SendStop
 <2>1. \A f \in Flows : Queued(f)' => Queued(f)
  BY <1>25, AppendQueue, Markers DEF SendStop, Stop
 <2>2. UNCHANGED <<slot, cancelled, key, cold, lst, armed, dmx, reaper>>
  BY <1>25 DEF SendStop
 <2> QED BY <2>1, <2>2
<1> QED BY <1>1, <1>2, <1>3, <1>4, <1>5, <1>6, <1>7, <1>8, <1>9, <1>10, <1>11, <1>13,
  <1>15, <1>16, <1>17, <1>18, <1>19, <1>20, <1>21, <1>22, <1>23, <1>24, <1>25 DEF UdpNext, ListenerBusy, ColdStep, ReaperStep, SupStep

LEMMA GoneStep == UdpTypeOK /\ InHand /\ BuiltInv /\ GoneInv /\ [UdpNext]_udpVars => GoneInv'
<1> SUFFICES ASSUME UdpTypeOK, InHand, BuiltInv, GoneInv, [UdpNext]_udpVars PROVE GoneInv'
 OBVIOUS
<1> USE DEF regVars, dmxVars, bounds
<1> USE DEF UdpTypeOK, GoneInv, Dying
<1>1. ASSUME NEW k \in Keys, Receive(k) PROVE GoneInv'
 <2>1. UNCHANGED <<slot, cancelled, key, cold, dmx, reaper>>
  BY <1>1 DEF Receive, Claim
 <2>2. \A p \in Ports : lst'[p].pc = "cancel" => lst'[p] = lst[p]
  BY <1>1 DEF Receive, Claim, ListenerType
 <2> QED BY <2>1, <2>2
<1> USE DEF Live, InHand, BuiltInv, Built
<1>2. ASSUME NEW k \in Keys, Drain(k) PROVE GoneInv'
 BY <1>2, RemoveEffect, Markers DEF Drain
<1>3. ASSUME NEW p \in Ports, Forwarded(p) \/ ListenerCancels(p) \/ OverCap(p) \/ ListenerStops(p)
       PROVE GoneInv'
 BY <1>3 DEF Forwarded, Idle, ListenerType, ListenerCancels, OverCap, ListenerStops
<1>4. ASSUME NEW p \in Ports, FallThrough(p) PROVE GoneInv'
 BY <1>4 DEF FallThrough, Idle, Claim, ListenerType
<1>5. ASSUME NEW p \in Ports, SendFails(p) PROVE GoneInv'
 BY <1>5, RemoveEffect, ListenerFields, Markers DEF SendFails, ListenerType
<1>6. ASSUME NEW p \in Ports, Reserve(p) PROVE GoneInv'
 <2> SUFFICES ASSUME NEW f \in Flows, Dying(f)' PROVE slot'[key'[f]] # f
  OBVIOUS
 <2>1. /\ Built(f) => key'[f] = key[f]
       /\ cold'[f] = "cancel" => cold[f] = "cancel"
  BY <1>6 DEF Reserve, Unspawned
 <2>2. \A k \in Keys : slot'[k] = slot[k] \/ slot'[k] = Pending
  BY <1>6, ListenerFields DEF Reserve
 <2>3. \A q \in Ports : lst'[q].pc = "cancel" => lst'[q] = lst[q]
  BY <1>6 DEF Reserve, Idle
 <2>4. UNCHANGED <<cancelled, dmx, reaper>>
  BY <1>6 DEF Reserve
 <2>5. Dying(f)
  BY <2>1, <2>3, <2>4
 <2>6. Built(f)
  BY <2>5
 <2>7. slot[key[f]] # f /\ key[f] \in Keys
  BY <2>5
 <2> QED BY <2>1, <2>2, <2>6, <2>7, Markers
<1>7. ASSUME NEW f \in Flows, SetupFails(f) PROVE GoneInv'
 BY <1>7, ReleaseEffect, Markers DEF SetupFails
<1>8. ASSUME NEW f \in Flows, Commit(f) PROVE GoneInv'
 BY <1>8, Markers DEF Commit
<1>9. ASSUME NEW f \in Flows, Count(f) \/ Hand(f) \/ FirstPacket(f) \/ ColdCancels(f) \/ WaitEnds(f)
       PROVE GoneInv'
 BY <1>9 DEF Count, Hand, FirstPacket, ColdCancels, WaitEnds
<1>10. ASSUME NEW f \in Flows, Undo(f) PROVE GoneInv'
 BY <1>10, RemoveEffect, Markers DEF Undo
<1>11. ASSUME NEW f \in Flows, ReplyFails(f) PROVE GoneInv'
 BY <1>11, RemoveEffect, Markers DEF ReplyFails, DemuxType
<1>12. ASSUME NEW f \in Flows, Visit(f) PROVE GoneInv'
 BY <1>12, RemoveEffect, Markers DEF Visit, ReaperType
<1>13. CASE TakeCommand
 BY <1>13 DEF TakeCommand, DemuxType
<1>14. CASE DemuxCancels
 BY <1>14 DEF DemuxCancels, DemuxType
<1>15. CASE Sweep
 BY <1>15 DEF Sweep, ReaperType
<1>16. CASE ReaperCancels
 BY <1>16 DEF ReaperCancels, ReaperType
<1>17. CASE SweepEnds
 BY <1>17 DEF SweepEnds, ReaperType
<1>18. CASE ReaperStops
 BY <1>18 DEF ReaperStops, ReaperType
<1>19. CASE UdpShutdown \/ ListenersJoined \/ ReaperJoined \/ SendStop \/ DemuxJoined
           \/ UNCHANGED udpVars
 BY <1>19 DEF UdpShutdown, ListenersJoined, ReaperJoined, SendStop, DemuxJoined, udpVars
<1> QED BY <1>1, <1>2, <1>3, <1>4, <1>5, <1>6, <1>7, <1>8, <1>9, <1>10, <1>11, <1>12, <1>13,
  <1>14, <1>15, <1>16, <1>17, <1>18, <1>19 DEF UdpNext, ListenerBusy, ColdStep, ReaperStep, SupStep

LEMMA PendingStep == UdpTypeOK /\ PendingOwned /\ [UdpNext]_udpVars => PendingOwned'
<1> SUFFICES ASSUME UdpTypeOK, PendingOwned, [UdpNext]_udpVars PROVE PendingOwned'
 OBVIOUS
<1> USE DEF regVars, dmxVars, bounds
<1> USE DEF PendingOwned, UdpTypeOK
<1>1. ASSUME NEW k \in Keys, Receive(k) PROVE PendingOwned'
 BY <1>1, Markers DEF Receive, Live, Claim
<1>2. ASSUME NEW k \in Keys, Drain(k) PROVE PendingOwned'
 BY <1>2, RemoveEffect, Markers DEF Drain, Live
<1>3. ASSUME NEW p \in Ports, Forwarded(p) \/ ListenerCancels(p) \/ OverCap(p) \/ ListenerStops(p)
       PROVE PendingOwned'
 BY <1>3 DEF Forwarded, Idle, ListenerCancels, OverCap, ListenerStops
<1>4. ASSUME NEW p \in Ports, FallThrough(p) PROVE PendingOwned'
 BY <1>4 DEF FallThrough, Idle, Claim
<1>5. ASSUME NEW p \in Ports, SendFails(p) PROVE PendingOwned'
 BY <1>5, RemoveEffect, ListenerFields, Markers DEF SendFails
<1>6. ASSUME NEW p \in Ports, Reserve(p) PROVE PendingOwned'
 BY <1>6, ListenerFields, Markers DEF Reserve, Idle, Unspawned
<1>7. ASSUME NEW f \in Flows, SetupFails(f) PROVE PendingOwned'
 BY <1>7, ReleaseEffect, Markers DEF SetupFails
<1>8. ASSUME NEW f \in Flows, Commit(f) PROVE PendingOwned'
 BY <1>8, Markers DEF Commit
<1>9. ASSUME NEW f \in Flows, Count(f) \/ Hand(f) \/ FirstPacket(f) \/ ColdCancels(f) \/ WaitEnds(f)
       PROVE PendingOwned'
 BY <1>9 DEF Count, Hand, FirstPacket, ColdCancels, WaitEnds
<1>10. ASSUME NEW f \in Flows, Undo(f) PROVE PendingOwned'
 BY <1>10, RemoveEffect, Markers DEF Undo
<1>11. ASSUME NEW f \in Flows, ReplyFails(f) PROVE PendingOwned'
 BY <1>11, RemoveEffect, Markers DEF ReplyFails
<1>12. ASSUME NEW f \in Flows, Visit(f) PROVE PendingOwned'
 BY <1>12, RemoveEffect, Markers DEF Visit, Live
<1>13. CASE TakeCommand
 BY <1>13 DEF TakeCommand
<1>14. CASE DemuxCancels \/ Sweep \/ ReaperCancels \/ SweepEnds \/ ReaperStops \/ UdpShutdown
           \/ ListenersJoined \/ ReaperJoined \/ SendStop \/ DemuxJoined \/ UNCHANGED udpVars
 BY <1>14 DEF DemuxCancels, Sweep, Live, ReaperCancels, SweepEnds, ReaperStops, UdpShutdown,
  ListenersJoined, ReaperJoined, SendStop, DemuxJoined, udpVars
<1> QED BY <1>1, <1>2, <1>3, <1>4, <1>5, <1>6, <1>7, <1>8, <1>9, <1>10, <1>11, <1>12, <1>13,
  <1>14 DEF UdpNext, ListenerBusy, ColdStep, ReaperStep, SupStep

LEMMA ServedStep == FlowInv /\ LiveIsServed /\ [UdpNext]_udpVars => LiveIsServed'
<1> SUFFICES ASSUME FlowInv, LiveIsServed, [UdpNext]_udpVars PROVE LiveIsServed'
 OBVIOUS
<1> USE DEF regVars, dmxVars, bounds
<1> USE DEF Live, LiveIsServed, Served, FlowInv, BuiltInv, Built, GoneInv, Dying, UdpTypeOK
<1>1. ASSUME NEW k \in Keys, Receive(k) PROVE LiveIsServed'
 BY <1>1, Markers DEF Receive, Claim
<1>2. ASSUME NEW k \in Keys, Drain(k) PROVE LiveIsServed'
 BY <1>2, RemoveEffect, Markers DEF Drain
<1>3. ASSUME NEW p \in Ports, Forwarded(p) \/ ListenerCancels(p) \/ OverCap(p) \/ ListenerStops(p)
       PROVE LiveIsServed'
 BY <1>3 DEF Forwarded, Idle, ListenerCancels, OverCap, ListenerStops
<1>4. ASSUME NEW p \in Ports, FallThrough(p) PROVE LiveIsServed'
 BY <1>4 DEF FallThrough, Idle, Claim
<1>5. ASSUME NEW p \in Ports, SendFails(p) PROVE LiveIsServed'
 BY <1>5, RemoveEffect, ListenerFields, Markers DEF SendFails
<1>6. ASSUME NEW p \in Ports, Reserve(p) PROVE LiveIsServed'
 BY <1>6, ListenerFields, Markers DEF Reserve, Idle, Unspawned
<1>7. ASSUME NEW f \in Flows, SetupFails(f) PROVE LiveIsServed'
 BY <1>7, ReleaseEffect, Markers DEF SetupFails
<1>8. ASSUME NEW f \in Flows, Commit(f) PROVE LiveIsServed'
 BY <1>8, Markers DEF Commit
<1>9. ASSUME NEW f \in Flows, Count(f) \/ FirstPacket(f) \/ ColdCancels(f) \/ WaitEnds(f) PROVE LiveIsServed'
 BY <1>9 DEF Count, FirstPacket, ColdCancels, WaitEnds
<1>10. ASSUME NEW f \in Flows, Hand(f) PROVE LiveIsServed'
 BY <1>10 DEF Hand
<1>11. ASSUME NEW f \in Flows, Undo(f) PROVE LiveIsServed'
 BY <1>11, RemoveEffect, Markers DEF Undo
<1>12. ASSUME NEW f \in Flows, ReplyFails(f) PROVE LiveIsServed'
 <2> SUFFICES ASSUME dmx'.pc # "off", NEW k \in Keys, Live(k)' PROVE Served(slot[k])'
  OBVIOUS
 <2>1. key[f] \in Keys /\ dmx.pc = "run"
  BY <1>12 DEF ReplyFails, Polling
 <2>2. k # key[f] /\ slot'[k] = slot[k]
  BY <1>12, <2>1, RemoveEffect, Markers DEF ReplyFails
 <2>3. Live(k) /\ slot[k] # f
  BY <2>2
 <2>4. Served(slot[k])
  BY <2>1, <2>3
 <2> QED BY <1>12, <2>2, <2>3, <2>4 DEF ReplyFails
<1>13. ASSUME NEW f \in Flows, Visit(f) PROVE LiveIsServed'
 BY <1>13, RemoveEffect, Markers DEF Visit
<1>14. CASE TakeCommand
 <2> SUFFICES ASSUME dmx'.pc # "off", NEW k \in Keys, Live(k)' PROVE Served(slot[k])'
  OBVIOUS
 <2>1. UNCHANGED <<slot, cold>> /\ dmx.pc # "off" /\ armed \subseteq armed'
  BY <1>14 DEF TakeCommand, DemuxType
 <2>2. Live(k) /\ Served(slot[k])
  BY <2>1
 <2>3. Queued(slot[k]) => Queued(slot[k])' \/ slot[k] \in armed'
  BY <1>14, <2>1, <2>2, TakeQueue DEF Queued
 <2> QED BY <2>1, <2>2, <2>3 DEF Queued
<1>15. CASE DemuxCancels \/ Sweep \/ ReaperCancels \/ SweepEnds \/ ReaperStops \/ UdpShutdown
           \/ ListenersJoined \/ ReaperJoined \/ SendStop \/ DemuxJoined \/ UNCHANGED udpVars
 BY <1>15 DEF DemuxCancels, Sweep, ReaperCancels, SweepEnds, ReaperStops, UdpShutdown,
  ListenersJoined, ReaperJoined, SendStop, DemuxJoined, udpVars
<1> QED BY <1>1, <1>2, <1>3, <1>4, <1>5, <1>6, <1>7, <1>8, <1>9, <1>10, <1>11, <1>12, <1>13,
  <1>14, <1>15 DEF UdpNext, ListenerBusy, ColdStep, ReaperStep, SupStep

----
(* Theorems *)

LEMMA FlowInit == UdpInit => FlowInv /\ PendingOwned /\ LiveIsServed
<1> SUFFICES ASSUME UdpInit PROVE FlowInv /\ PendingOwned /\ LiveIsServed
 OBVIOUS
<1>1. \A k \in Keys : ~Live(k) /\ slot[k] # Pending
 BY Markers DEF UdpInit, Live
<1>2. BuiltInv
 BY <1>1 DEF UdpInit, BuiltInv, Queued
<1>3. GoneInv
 BY Markers DEF UdpInit, GoneInv, Dying
<1> QED BY <1>1, <1>2, <1>3, TypeInit DEF FlowInv, PendingOwned, LiveIsServed

LEMMA FlowStep == FlowInv /\ [UdpNext]_udpVars => FlowInv'
  BY TypeStep, InHandStep, BuiltStep, GoneStep DEF FlowInv

\* Types of the registry and of every task's state: a task that evicts always
\* has a flow in hand.
THEOREM TypeCorrect == UdpSpec => []UdpTypeOK
<1>1. FlowInv => UdpTypeOK
 BY DEF FlowInv
<1> QED BY <1>1, FlowInit, FlowStep, PTL DEF UdpSpec

\* However evictions, commits and releases of the same key overlap, the flow
\* a key holds has not been torn down.
THEOREM NeverTornDown == UdpSpec => []CancelledNotLive
<1>1. FlowInv => CancelledNotLive
 <2> SUFFICES ASSUME FlowInv, NEW k \in Keys, Live(k) PROVE slot[k] \notin cancelled
  BY DEF CancelledNotLive
 <2>1. slot[k] \in Flows /\ key[slot[k]] = k
  BY DEF FlowInv, BuiltInv, Live
 <2> QED BY <2>1 DEF FlowInv, GoneInv, Dying
<1> QED BY <1>1, FlowInit, FlowStep, PTL DEF UdpSpec

\* FR-005 for any channel capacity: while the demux runs, it waits on every
\* live flow, or is about to learn of it, or its cold path takes it back.
THEOREM AlwaysServed == UdpSpec => []LiveIsServed
  BY FlowInit, FlowStep, ServedStep, PTL DEF UdpSpec

\* A Pending slot has a cold path that commits or releases it.
THEOREM PendingHasOwner == UdpSpec => []PendingOwned
<1>1. FlowInv => UdpTypeOK
 BY DEF FlowInv
<1> QED BY <1>1, FlowInit, FlowStep, PendingStep, PTL DEF UdpSpec

\* The registry's entries are live, served and owned (registry.rs).
THEOREM FlowsAreSound == UdpSpec => []FlowsSound
  BY TypeCorrect, NeverTornDown, AlwaysServed, PendingHasOwner, PTL DEF FlowsSound

----
(* The counter of the registry *)

\* A number and what is left of it modulo M.
LEMMA Divided ==
    ASSUME NEW M \in Nat \ {0}, NEW n \in Int
    PROVE  /\ n % M \in 0..(M - 1)
           /\ \E q \in Int : n = M * q + (n % M)
<1>1. n % M \in 0..(M - 1) /\ n = M * (n \div M) + (n % M) /\ n \div M \in Int
 BY SMTT(30)
<1> QED BY <1>1

\* What is left is the only one in its range.
LEMMA Remainder ==
    ASSUME NEW M \in Nat \ {0}, NEW q \in Int, NEW s \in 0..(M - 1), NEW n \in Int, n = M * q + s
    PROVE  n % M = s
  BY SMTT(30)

\* A wrapping counter may wrap at each step or once at the end.
LEMMA WrapUp ==
    ASSUME NEW M \in Nat \ {0}, NEW n \in Int PROVE ((n % M) + 1) % M = (n + 1) % M
<1> DEFINE s == n % M
<1>1. PICK q \in Int : n = M * q + s
 BY Divided
<1>2. s \in 0..(M - 1)
 BY Divided
<1> HIDE DEF s
<1>3. CASE s + 1 <= M - 1
 <2>1. s + 1 \in 0..(M - 1) /\ n + 1 = M * q + (s + 1) /\ s + 1 = M * 0 + (s + 1)
  BY <1>1, <1>2, <1>3
 <2>2. (n + 1) % M = s + 1 /\ (s + 1) % M = s + 1
  <3>1. n + 1 \in Int /\ s + 1 \in Int /\ 0 \in Int
   BY <1>2
  <3>2. (n + 1) % M = s + 1
   <4>1. PICK u \in Int, t \in 0..(M - 1) : u = n + 1 /\ t = s + 1 /\ u = M * q + t
    BY <2>1, <3>1
   <4>3. u = M * q + t
    BY <4>1
   <4>2. u % M = t
    BY ONLY M \in Nat \ {0}, q \in Int, u \in Int, t \in 0..(M - 1), <4>3, Remainder
   <4> QED BY <4>1, <4>2
  <3>3. (s + 1) % M = s + 1
   BY <2>1
  <3> QED BY <3>2, <3>3
 <2>3. (s + 1) % M = (n + 1) % M
  BY <2>1, <2>2
 <2> QED BY <2>3 DEF s
<1>4. CASE s + 1 = M
 <2>1. 0 \in 0..(M - 1) /\ n + 1 = M * (q + 1) + 0 /\ s + 1 = M * 1 + 0 /\ q + 1 \in Int
  BY <1>1, <1>2, <1>4
 <2>2. (n + 1) % M = 0 /\ (s + 1) % M = 0
  <3>1. n + 1 \in Int /\ s + 1 \in Int /\ 1 \in Int
   BY <1>2
  <3>2. (n + 1) % M = 0
   BY <2>1, <3>1, Remainder
  <3>3. (s + 1) % M = 0
   BY <1>4
  <3> QED BY <3>2, <3>3
 <2>3. (s + 1) % M = (n + 1) % M
  BY <2>1, <2>2
 <2> QED BY <2>3 DEF s
<1> QED BY <1>2, <1>3, <1>4

\* The same on the way down.
LEMMA WrapDown ==
    ASSUME NEW M \in Nat \ {0}, NEW n \in Int PROVE ((n % M) - 1) % M = (n - 1) % M
<1> DEFINE s == n % M
<1>1. PICK q \in Int : n = M * q + s
 BY Divided
<1>2. s \in 0..(M - 1)
 BY Divided
<1> HIDE DEF s
<1>3. CASE s >= 1
 <2>1. s - 1 \in 0..(M - 1) /\ n - 1 = M * q + (s - 1) /\ s - 1 = M * 0 + (s - 1)
  BY <1>1, <1>2, <1>3
 <2>2. (n - 1) % M = s - 1 /\ (s - 1) % M = s - 1
  <3>1. n - 1 \in Int
   OBVIOUS
  <3>2. (n - 1) % M = s - 1
   <4>1. PICK u \in Int, t \in 0..(M - 1) : u = n - 1 /\ t = s - 1 /\ u = M * q + t
    BY <2>1, <3>1
   <4>3. u = M * q + t
    BY <4>1
   <4>2. u % M = t
    BY ONLY M \in Nat \ {0}, q \in Int, u \in Int, t \in 0..(M - 1), <4>3, Remainder
   <4> QED BY <4>1, <4>2
  <3>3. (s - 1) % M = s - 1
   BY <2>1
  <3> QED BY <3>2, <3>3
 <2>3. (s - 1) % M = (n - 1) % M
  BY <2>1, <2>2
 <2> QED BY <2>3 DEF s
<1>4. CASE s = 0
 <2>1. M - 1 \in 0..(M - 1) /\ n - 1 = M * (q - 1) + (M - 1) /\ s - 1 = M * (-1) + (M - 1) /\ q - 1 \in Int /\ -1 \in Int
  BY <1>1, <1>2, <1>4
 <2>2. (n - 1) % M = M - 1 /\ (s - 1) % M = M - 1
  <3>1. n - 1 \in Int /\ s - 1 \in Int
   BY <1>2
  <3>2. (n - 1) % M = M - 1
   BY <2>1, <3>1, Remainder
  <3>3. (s - 1) % M = M - 1
   BY <2>1, <3>1, Remainder
  <3> QED BY <3>2, <3>3
 <2>3. (s - 1) % M = (n - 1) % M
  BY <2>1, <2>2
 <2> QED BY <2>3 DEF s
<1> QED BY <1>2, <1>3, <1>4

\* One more, one less.
LEMMA CardStep ==
    ASSUME NEW S, NEW T, IsFiniteSet(S), NEW x, x \notin S, T = S \cup {x}
    PROVE  IsFiniteSet(T) /\ Cardinality(T) = Cardinality(S) + 1 /\ Cardinality(S) \in Nat
  BY FS_AddElement, FS_CardinalityType

Claims == {p \in Ports : Claiming(p)}
Counting == {f \in Flows : cold[f] = "count"}
Balance == Cardinality(Occupied) + Cardinality(Claims) - Cardinality(Counting)

\* The sets that are counted are finite, before and after a step.
LEMMA CountedFinite ==
    /\ IsFiniteSet(Occupied) /\ IsFiniteSet(Claims) /\ IsFiniteSet(Counting)
    /\ Cardinality(Occupied) \in Nat /\ Cardinality(Claims) \in Nat /\ Cardinality(Counting) \in Nat
    /\ Balance \in Int
<1>1. IsFiniteSet(Keys) /\ IsFiniteSet(Ports)
 BY UdpAssumption
<1>2. IsFiniteSet(Flows)
 BY FS_Interval, UdpAssumption DEF Flows
<1>3. Occupied \subseteq Keys /\ Claims \subseteq Ports /\ Counting \subseteq Flows
 BY DEF Occupied, Claims, Counting
<1>4. IsFiniteSet(Occupied) /\ IsFiniteSet(Claims) /\ IsFiniteSet(Counting)
 BY <1>1, <1>2, <1>3, FS_Subset
<1>5. Cardinality(Occupied) \in Nat /\ Cardinality(Claims) \in Nat /\ Cardinality(Counting) \in Nat
 BY <1>4, FS_CardinalityType
<1> QED BY <1>4, <1>5 DEF Balance

\* The balance is what the property says.
LEMMA ExactIsBalance ==
    OccupancyExact <=> occ = Balance % OccMod
  BY DEF OccupancyExact, Balance, Claims, Counting

\* A step that moves counter and balance alike.
LEMMA ExactStep ==
    ASSUME UdpTypeOK, OccupancyExact, NEW d \in {-1, 0, 1},
           Balance' = Balance + d, occ' = IF d = 0 THEN occ ELSE (occ + d) % OccMod
    PROVE  OccupancyExact'
<1>0. OccMod \in Nat \ {0} /\ Balance \in Int /\ occ \in Int /\ occ = Balance % OccMod
 BY UdpAssumption, CountedFinite, ExactIsBalance DEF UdpTypeOK
<1>1. occ' = Balance' % OccMod
 <2>1. CASE d = 0
  BY <1>0, <2>1
 <2>2. CASE d = 1
  <3>1. occ' = (occ + 1) % OccMod /\ Balance' = Balance + 1
   BY <1>0, <2>2
  <3>2. ((Balance % OccMod) + 1) % OccMod = (Balance + 1) % OccMod
   BY ONLY <1>0, WrapUp
  <3> QED BY ONLY <1>0, <3>1, <3>2
 <2>3. CASE d = -1
  <3>1. occ' = (occ - 1) % OccMod /\ Balance' = Balance - 1
   <4>1. occ + d = occ - 1 /\ Balance + d = Balance - 1
    BY <1>0, <2>3
   <4> QED BY <2>3, <4>1
  <3>2. ((Balance % OccMod) - 1) % OccMod = (Balance - 1) % OccMod
   BY ONLY <1>0, WrapDown
  <3> QED BY ONLY <1>0, <3>1, <3>2
 <2> QED BY <2>1, <2>2, <2>3
<1>2. OccupancyExact' <=> occ' = Balance' % OccMod
 BY DEF OccupancyExact, Balance, Claims, Counting
<1> QED BY <1>1, <1>2

\* The entries that are counted, after one key is set.
LEMMA OccupiedStep ==
    ASSUME UdpTypeOK, NEW k \in Keys, NEW v, slot' = [slot EXCEPT ![k] = v]
    PROVE  /\ slot[k] = Vacant /\ v # Vacant => Cardinality(Occupied') = Cardinality(Occupied) + 1
           /\ slot[k] # Vacant /\ v = Vacant => Cardinality(Occupied') = Cardinality(Occupied) - 1
           /\ (slot[k] = Vacant <=> v = Vacant) => Occupied' = Occupied
<1>0. slot'[k] = v /\ \A j \in Keys : j # k => slot'[j] = slot[j]
 BY DEF UdpTypeOK
<1>1. IsFiniteSet(Occupied) /\ Occupied' \subseteq Keys /\ IsFiniteSet(Keys) /\ Cardinality(Occupied) \in Nat
 BY CountedFinite, UdpAssumption DEF Occupied
<1>2. IsFiniteSet(Occupied')
 BY <1>1, FS_Subset
<1>3. ASSUME slot[k] = Vacant, v # Vacant PROVE Cardinality(Occupied') = Cardinality(Occupied) + 1
 <2>1. k \notin Occupied /\ Occupied' = Occupied \cup {k}
  BY <1>0, <1>3 DEF Occupied
 <2> QED BY <1>1, <2>1, CardStep
<1>4. ASSUME slot[k] # Vacant, v = Vacant PROVE Cardinality(Occupied') = Cardinality(Occupied) - 1
 <2>1. k \notin Occupied' /\ Occupied = Occupied' \cup {k}
  BY <1>0, <1>4 DEF Occupied
 <2>2. Cardinality(Occupied) = Cardinality(Occupied') + 1 /\ Cardinality(Occupied') \in Nat
  BY <1>2, <2>1, CardStep
 <2> QED BY <1>1, <2>2
<1>5. ASSUME slot[k] = Vacant <=> v = Vacant PROVE Occupied' = Occupied
 BY <1>0, <1>5 DEF Occupied
<1> QED BY <1>3, <1>4, <1>5

\* The claims that are counted, after one listener moves.
LEMMA ClaimsStep ==
    ASSUME UdpTypeOK, NEW p \in Ports, \A q \in Ports : q # p => lst'[q] = lst[q]
    PROVE  /\ ~Claiming(p) /\ Claiming(p)' => Cardinality(Claims') = Cardinality(Claims) + 1
           /\ Claiming(p) /\ ~Claiming(p)' => Cardinality(Claims') = Cardinality(Claims) - 1
           /\ (Claiming(p) <=> Claiming(p)') => Claims' = Claims
<1>0. \A q \in Ports : q # p => (Claiming(q)' <=> Claiming(q))
 BY DEF Claiming
<1>1. IsFiniteSet(Claims) /\ Claims' \subseteq Ports /\ IsFiniteSet(Ports) /\ Cardinality(Claims) \in Nat
 BY CountedFinite, UdpAssumption DEF Claims
<1>2. IsFiniteSet(Claims')
 BY <1>1, FS_Subset
<1>3. ASSUME ~Claiming(p), Claiming(p)' PROVE Cardinality(Claims') = Cardinality(Claims) + 1
 <2>1. p \notin Claims /\ Claims' = Claims \cup {p}
  BY <1>0, <1>3 DEF Claims
 <2> QED BY <1>1, <2>1, CardStep
<1>4. ASSUME Claiming(p), ~Claiming(p)' PROVE Cardinality(Claims') = Cardinality(Claims) - 1
 <2>1. p \notin Claims' /\ Claims = Claims' \cup {p}
  BY <1>0, <1>4 DEF Claims
 <2>2. Cardinality(Claims) = Cardinality(Claims') + 1 /\ Cardinality(Claims') \in Nat
  BY <1>2, <2>1, CardStep
 <2> QED BY <1>1, <2>2
<1>5. ASSUME Claiming(p) <=> Claiming(p)' PROVE Claims' = Claims
 BY <1>0, <1>5 DEF Claims
<1> QED BY <1>3, <1>4, <1>5

\* The commits that are counted, after one cold path moves.
LEMMA CountingStep ==
    ASSUME UdpTypeOK, NEW f \in Flows, NEW v, cold' = [cold EXCEPT ![f] = v]
    PROVE  /\ cold[f] # "count" /\ v = "count" => Cardinality(Counting') = Cardinality(Counting) + 1
           /\ cold[f] = "count" /\ v # "count" => Cardinality(Counting') = Cardinality(Counting) - 1
           /\ cold[f] # "count" /\ v # "count" => Counting' = Counting
<1>0. cold'[f] = v /\ \A g \in Flows : g # f => cold'[g] = cold[g]
 BY DEF UdpTypeOK
<1>1. IsFiniteSet(Counting) /\ Counting' \subseteq Flows /\ IsFiniteSet(Flows) /\ Cardinality(Counting) \in Nat
 <2>1. Counting' \subseteq Flows
  BY DEF Counting
 <2>2. IsFiniteSet(Flows)
  BY UdpAssumption, FS_Interval DEF Flows
 <2> QED BY <2>1, <2>2, CountedFinite
<1>2. IsFiniteSet(Counting')
 BY <1>1, FS_Subset
<1>3. ASSUME cold[f] # "count", v = "count" PROVE Cardinality(Counting') = Cardinality(Counting) + 1
 <2>1. f \notin Counting /\ Counting' = Counting \cup {f}
  BY <1>0, <1>3 DEF Counting
 <2> QED BY <1>1, <2>1, CardStep
<1>4. ASSUME cold[f] = "count", v # "count" PROVE Cardinality(Counting') = Cardinality(Counting) - 1
 <2>1. f \notin Counting' /\ Counting = Counting' \cup {f}
  BY <1>0, <1>4 DEF Counting
 <2>2. Cardinality(Counting) = Cardinality(Counting') + 1 /\ Cardinality(Counting') \in Nat
  BY <1>2, <2>1, CardStep
 <2> QED BY <1>1, <2>2
<1>5. ASSUME cold[f] # "count", v # "count" PROVE Counting' = Counting
 BY <1>0, <1>5 DEF Counting
<1> QED BY <1>3, <1>4, <1>5

\* A step that leaves the registry, the claims and the commits alone.
LEMMA ExactStill ==
    ASSUME OccupancyExact, UNCHANGED regVars, Claims' = Claims, Counting' = Counting
    PROVE  OccupancyExact'
<1>1. Occupied' = Occupied /\ occ' = occ
 BY DEF regVars, Occupied
<1>2. OccupancyExact' <=> occ' = Balance' % OccMod
 BY DEF OccupancyExact, Balance, Claims, Counting
<1>3. Balance' = Balance
 BY <1>1 DEF Balance
<1>4. occ = Balance % OccMod
 BY ExactIsBalance
<1>5. occ' = Balance' % OccMod
 BY <1>1, <1>3, <1>4
<1> QED BY ONLY <1>2, <1>5

\* A key removed, by whoever.
LEMMA ExactRemove ==
    ASSUME UdpTypeOK, OccupancyExact, NEW k \in Keys, Remove(k), Claims' = Claims, Counting' = Counting
    PROVE  OccupancyExact'
<1>0. /\ slot' = [slot EXCEPT ![k] = Vacant] /\ occ' = IF slot[k] = Vacant THEN occ ELSE (occ - 1) % OccMod
      /\ occ \in Int
 BY DEF Remove, UdpTypeOK
<1>1. Balance' = Cardinality(Occupied') + Cardinality(Claims) - Cardinality(Counting)
 BY DEF Balance
<1>2. Cardinality(Occupied) \in Nat /\ Cardinality(Claims) \in Nat /\ Cardinality(Counting) \in Nat
 BY CountedFinite
<1>3. CASE slot[k] = Vacant
 <2>1. Occupied' = Occupied
  BY <1>0, <1>3, OccupiedStep
 <2>2. Balance' = Balance + 0
  BY <1>1, <1>2, <2>1 DEF Balance
 <2> QED BY <1>0, <1>3, <2>2, ExactStep
<1>4. CASE slot[k] # Vacant
 <2>1. Cardinality(Occupied') = Cardinality(Occupied) - 1
  BY <1>0, <1>4, OccupiedStep
 <2>2. Balance' = Balance + (-1)
  BY <1>1, <1>2, <2>1 DEF Balance
 <2>3. occ' = (occ + (-1)) % OccMod
  <3>1. occ + (-1) = occ - 1
   BY <1>0
  <3> QED BY <1>0, <1>4, <3>1
 <2>4. -1 \in {-1, 0, 1} /\ -1 # 0
  OBVIOUS
 <2> QED BY <2>2, <2>3, <2>4, ExactStep
<1> QED BY <1>3, <1>4


\* A step that moves a cold path but neither to the count nor from it.
LEMMA CountingStill ==
    ASSUME UdpTypeOK, NEW f \in Flows, NEW v, cold' = [cold EXCEPT ![f] = v], cold[f] # "count", v # "count"
    PROVE  Counting' = Counting
  BY CountingStep

\* A listener that becomes idle or takes another step with its flow.
LEMMA ListenerMoved ==
    ASSUME UdpTypeOK, NEW p \in Ports,
           \/ Idle(p)
           \/ \E x \in {"cancel", "off"} : lst' = [lst EXCEPT ![p].pc = x]
           \/ \E k, v : lst' = [lst EXCEPT ![p] = [pc |-> "got", key |-> k, flow |-> v]]
    PROVE  ~Claiming(p)' /\ \A q \in Ports : q # p => lst'[q] = lst[q]
<1>0. lst \in [Ports -> ListenerType] /\ lst[p] \in ListenerType
 BY DEF UdpTypeOK
<1>1. \A q \in Ports : q # p => lst'[q] = lst[q]
 BY <1>0 DEF Idle
<1>2. lst'[p].pc \in {"idle", "cancel", "off", "got"}
 BY <1>0 DEF Idle, ListenerType
<1> QED BY <1>1, <1>2 DEF Claiming

\* A claim: one more listener claiming, one more counted.
LEMMA ExactClaim ==
    ASSUME UdpTypeOK, OccupancyExact, NEW p \in Ports, NEW k \in Keys, ~Claiming(p), Claim(p, k),
           Counting' = Counting
    PROVE  OccupancyExact'
<1>0. /\ occ' = (occ + 1) % OccMod /\ slot' = slot /\ lst \in [Ports -> ListenerType]
      /\ lst' = [lst EXCEPT ![p].pc = IF occ' > Cap THEN "over" ELSE "entry", ![p].key = k, ![p].flow = 0]
 BY DEF Claim, UdpTypeOK
<1>1. lst'[p].pc \in {"over", "entry"} /\ \A q \in Ports : q # p => lst'[q] = lst[q]
 <2>1. PICK x \in {"over", "entry"} : x = IF occ' > Cap THEN "over" ELSE "entry"
  OBVIOUS
 <2>2. lst' = [lst EXCEPT ![p].pc = x, ![p].key = k, ![p].flow = 0]
  BY <1>0, <2>1
 <2>3. lst[p] \in ListenerType
  BY <1>0
 <2> QED BY <1>0, <2>2, <2>3 DEF ListenerType
<1>2. Cardinality(Claims') = Cardinality(Claims) + 1
 <2>1. Claiming(p)'
  BY <1>1 DEF Claiming
 <2> QED BY <1>1, <2>1, ClaimsStep
<1>3. Occupied' = Occupied
 BY <1>0 DEF Occupied
<1>4. Balance' = Balance + 1
 <2>1. Balance' = Cardinality(Occupied) + (Cardinality(Claims) + 1) - Cardinality(Counting)
  BY <1>2, <1>3 DEF Balance
 <2> QED BY <2>1, CountedFinite DEF Balance
<1>5. 1 \in {-1, 0, 1} /\ 1 # 0
 OBVIOUS
<1> QED BY <1>0, <1>4, <1>5, ExactStep

\* The steps of the listeners.
LEMMA ExactListeners ==
    ASSUME UdpTypeOK, OccupancyExact, NEW p \in Ports, ListenerBusy(p) \/ ListenerStops(p)
    PROVE  OccupancyExact'
<1> USE DEF regVars
<1>0. lst[p].key \in Keys /\ occ \in Int /\ lst \in [Ports -> ListenerType]
 BY ListenerFields DEF UdpTypeOK
<1>1. CASE Forwarded(p) \/ ListenerCancels(p) \/ ListenerStops(p)
 <2>1. ~Claiming(p) /\ (Idle(p) \/ lst' = [lst EXCEPT ![p].pc = "off"]) /\ UNCHANGED regVars /\ UNCHANGED cold
  BY <1>1 DEF Forwarded, ListenerCancels, ListenerStops, Claiming
 <2>2. ~Claiming(p)' /\ \A q \in Ports : q # p => lst'[q] = lst[q]
  BY <2>1, ListenerMoved
 <2>3. Claims' = Claims /\ Counting' = Counting
  BY <2>1, <2>2, ClaimsStep DEF Counting
 <2> QED BY <2>1, <2>3, ExactStill
<1>2. CASE FallThrough(p)
 <2>1. ~Claiming(p) /\ UNCHANGED cold
  BY <1>2 DEF FallThrough, Claiming
 <2>2. Counting' = Counting
  BY <2>1 DEF Counting
 <2>3. CASE Claim(p, lst[p].key)
  BY <1>0, <2>1, <2>2, <2>3, ExactClaim
 <2>4. CASE Idle(p) /\ UNCHANGED regVars
  <3>1. ~Claiming(p)' /\ \A q \in Ports : q # p => lst'[q] = lst[q]
   BY <2>4, ListenerMoved
  <3>2. Claims' = Claims
   BY <2>1, <3>1, ClaimsStep
  <3> QED BY <2>2, <2>4, <3>2, ExactStill
 <2> QED BY <1>2, <2>3, <2>4 DEF FallThrough
<1>3. CASE SendFails(p)
 <2>1. ~Claiming(p) /\ lst' = [lst EXCEPT ![p].pc = "cancel"] /\ UNCHANGED cold /\ Remove(lst[p].key)
  BY <1>3 DEF SendFails, Claiming
 <2>2. ~Claiming(p)' /\ \A q \in Ports : q # p => lst'[q] = lst[q]
  BY <2>1, ListenerMoved
 <2>3. Claims' = Claims /\ Counting' = Counting
  BY <2>1, <2>2, ClaimsStep DEF Counting
 <2> QED BY <1>0, <2>1, <2>3, ExactRemove
<1>4. ASSUME Claiming(p), Idle(p), occ' = (occ - 1) % OccMod, UNCHANGED <<slot, cold>> PROVE OccupancyExact'
 <2>1. ~Claiming(p)' /\ \A q \in Ports : q # p => lst'[q] = lst[q]
  BY <1>4, ListenerMoved
 <2>2. Cardinality(Claims') = Cardinality(Claims) - 1
  BY <1>4, <2>1, ClaimsStep
 <2>3. Occupied' = Occupied /\ Counting' = Counting
  BY <1>4 DEF Occupied, Counting
 <2>4. Balance' = Balance + (-1)
  <3>1. Balance' = Cardinality(Occupied) + (Cardinality(Claims) - 1) - Cardinality(Counting)
   BY <2>2, <2>3 DEF Balance
  <3> QED BY <3>1, CountedFinite DEF Balance
 <2>5. occ + (-1) = occ - 1 /\ -1 \in {-1, 0, 1} /\ -1 # 0
  BY <1>0
 <2> QED BY <1>4, <2>4, <2>5, ExactStep
<1>5. CASE OverCap(p)
 BY <1>4, <1>5 DEF OverCap, Claiming
<1>6. CASE Reserve(p)
 <2>1. CASE occ' = (occ - 1) % OccMod /\ UNCHANGED <<slot, key, cold>>
  BY <1>4, <1>6, <2>1 DEF Reserve, Claiming
 <2>2. ASSUME slot[lst[p].key] = Vacant, slot' = [slot EXCEPT ![lst[p].key] = Pending], occ' = occ,
              NEW f \in Unspawned, cold' = [cold EXCEPT ![f] = "setup"]
       PROVE  OccupancyExact'
  <3>1. Idle(p) /\ Claiming(p)
   BY <1>6 DEF Reserve, Claiming
  <3>2. ~Claiming(p)' /\ \A q \in Ports : q # p => lst'[q] = lst[q]
   BY <3>1, ListenerMoved
  <3>3. Cardinality(Claims') = Cardinality(Claims) - 1
   BY <3>1, <3>2, ClaimsStep
  <3>4. Cardinality(Occupied') = Cardinality(Occupied) + 1
   BY <1>0, <2>2, Markers, OccupiedStep
  <3>5. Counting' = Counting
   BY <2>2, CountingStill DEF Unspawned
  <3>6. Balance' = Balance + 0
   <4>1. Balance' = (Cardinality(Occupied) + 1) + (Cardinality(Claims) - 1) - Cardinality(Counting)
    BY <3>3, <3>4, <3>5 DEF Balance
   <4> QED BY <4>1, CountedFinite DEF Balance
  <3> QED BY <2>2, <3>6, ExactStep
 <2> QED BY <1>6, <2>1, <2>2 DEF Reserve
<1> QED BY <1>1, <1>2, <1>3, <1>5, <1>6 DEF ListenerBusy

\* The steps of the cold paths: the counter is restored when a commit finds its
\* reservation gone.
LEMMA ExactCold ==
    ASSUME UdpTypeOK, OccupancyExact, NEW f \in Flows, ColdStep(f) PROVE OccupancyExact'
<1> USE DEF regVars
<1>0. key[f] \in Keys /\ occ \in Int /\ UNCHANGED lst
 BY DEF UdpTypeOK, ColdStep, SetupFails, Commit, Count, Hand, FirstPacket, Undo, ColdCancels
<1>a. Claims' = Claims
 BY <1>0 DEF Claims, Claiming
<1>1. CASE SetupFails(f)
 <2>1. cold[f] # "count" /\ cold' = [cold EXCEPT ![f] = "done"] /\ Release(key[f])
  BY <1>1 DEF SetupFails
 <2>2. Counting' = Counting
  BY <2>1, CountingStill
 <2> QED BY <1>0, <1>a, <2>1, <2>2, ExactRemove, ExactStill DEF Release
<1>2. CASE Commit(f)
 <2>0. cold[f] = "setup" /\ slot' = [slot EXCEPT ![key[f]] = f] /\ occ' = occ /\ f # Vacant
  BY <1>2, Markers DEF Commit
 <2>1. CASE slot[key[f]] = Vacant
  <3>1. Cardinality(Occupied') = Cardinality(Occupied) + 1
   BY <1>0, <2>0, <2>1, OccupiedStep
  <3>2. cold' = [cold EXCEPT ![f] = "count"]
   BY <1>2, <2>1 DEF Commit
  <3>3. Cardinality(Counting') = Cardinality(Counting) + 1
   BY <2>0, <3>2, CountingStep
  <3>4. Balance' = Balance + 0
   <4>1. Balance' = (Cardinality(Occupied) + 1) + Cardinality(Claims) - (Cardinality(Counting) + 1)
    BY <1>a, <3>1, <3>3 DEF Balance
   <4> QED BY <4>1, CountedFinite DEF Balance
  <3> QED BY <2>0, <3>4, ExactStep
 <2>2. CASE slot[key[f]] # Vacant
  <3>1. Occupied' = Occupied
   BY <1>0, <2>0, <2>2, OccupiedStep
  <3>2. cold' = [cold EXCEPT ![f] = "hand"]
   BY <1>2, <2>2 DEF Commit
  <3>3. Counting' = Counting
   BY <2>0, <3>2, CountingStill
  <3>4. Balance' = Balance + 0
   <4>1. Balance' = Balance
    BY <1>a, <3>1, <3>3 DEF Balance
   <4> QED BY <4>1, CountedFinite
  <3> QED BY <2>0, <3>4, ExactStep
 <2> QED BY <2>1, <2>2
<1>3. CASE Count(f)
 <2>1. cold[f] = "count" /\ cold' = [cold EXCEPT ![f] = "hand"] /\ slot' = slot /\ occ' = (occ + 1) % OccMod
  BY <1>3 DEF Count
 <2>2. Cardinality(Counting') = Cardinality(Counting) - 1
  <3>1. PICK v : v = "hand" /\ v # "count"
   OBVIOUS
  <3>2. cold' = [cold EXCEPT ![f] = v]
   BY <2>1, <3>1
  <3> QED BY <2>1, <3>1, <3>2, CountingStep
 <2>3. Occupied' = Occupied
  BY <2>1 DEF Occupied
 <2>4. Balance' = Balance + 1
  <3>1. Balance' = Cardinality(Occupied) + Cardinality(Claims) - (Cardinality(Counting) - 1)
   BY <1>a, <2>2, <2>3 DEF Balance
  <3> QED BY <3>1, CountedFinite DEF Balance
 <2>5. 1 \in {-1, 0, 1} /\ 1 # 0
  OBVIOUS
 <2> QED BY <2>1, <2>4, <2>5, ExactStep
<1>4. CASE Hand(f) \/ FirstPacket(f) \/ ColdCancels(f)
 <2>1. UNCHANGED regVars /\ cold[f] # "count"
  BY <1>4 DEF Hand, FirstPacket, ColdCancels
 <2>2. PICK v \in {"first", "undo", "done"} : cold' = [cold EXCEPT ![f] = v]
  BY <1>4 DEF Hand, FirstPacket, ColdCancels
 <2>3. Counting' = Counting
  BY <2>1, <2>2, CountingStill
 <2> QED BY <1>a, <2>1, <2>3, ExactStill
<1>5. CASE Undo(f)
 <2>1. cold[f] # "count" /\ cold' = [cold EXCEPT ![f] = "cancel"] /\ Remove(key[f])
  BY <1>5 DEF Undo
 <2>2. Counting' = Counting
  BY <2>1, CountingStill
 <2> QED BY <1>0, <1>a, <2>1, <2>2, ExactRemove
<1> QED BY <1>1, <1>2, <1>3, <1>4, <1>5 DEF ColdStep

\* Every step keeps the counter exact.
LEMMA ExactNext == UdpTypeOK /\ OccupancyExact /\ [UdpNext]_udpVars => OccupancyExact'
<1> SUFFICES ASSUME UdpTypeOK, OccupancyExact, [UdpNext]_udpVars PROVE OccupancyExact'
 OBVIOUS
<1> USE DEF regVars, dmxVars, bounds
<1>1. ASSUME NEW k \in Keys, Receive(k) PROVE OccupancyExact'
 <2>0. Port[k] \in Ports /\ ~Claiming(Port[k]) /\ UNCHANGED cold
  BY <1>1, UdpAssumption DEF Receive, Claiming
 <2> USE <2>0
 <2>1. Counting' = Counting
  BY DEF Counting
 <2>2. CASE Claim(Port[k], k)
  BY <2>1, <2>2, ExactClaim
 <2>3. CASE /\ lst' = [lst EXCEPT ![Port[k]] = [pc |-> "got", key |-> k, flow |-> slot[k]]]
            /\ UNCHANGED regVars
  <3>1. ~Claiming(Port[k])' /\ \A q \in Ports : q # Port[k] => lst'[q] = lst[q]
   BY <2>3, ListenerMoved
  <3>2. Claims' = Claims
   <4>1. PICK p \in Ports : p = Port[k]
    OBVIOUS
   <4> QED BY <3>1, <4>1, ClaimsStep
  <3> QED BY <2>1, <2>3, <3>2, ExactStill
 <2> QED BY <1>1, <2>2, <2>3 DEF Receive
<1>2. ASSUME NEW p \in Ports, ListenerBusy(p) \/ ListenerStops(p) PROVE OccupancyExact'
 BY <1>2, ExactListeners
<1>3. ASSUME NEW f \in Flows, ColdStep(f) PROVE OccupancyExact'
 BY <1>3, ExactCold
<1>a. ASSUME UNCHANGED <<lst, cold>> PROVE Claims' = Claims /\ Counting' = Counting
 BY <1>a DEF Claims, Claiming, Counting
<1>4. ASSUME NEW f \in Flows, WaitEnds(f) \/ ReplyFails(f) PROVE OccupancyExact'
 <2>1. UNCHANGED <<lst, cold>> /\ key[f] \in Keys /\ (UNCHANGED regVars \/ Remove(key[f]))
  BY <1>4 DEF WaitEnds, ReplyFails, UdpTypeOK
 <2> QED BY <1>a, <2>1, ExactStill, ExactRemove
<1>5. CASE TakeCommand \/ DemuxCancels \/ Sweep \/ ReaperStops \/ UdpShutdown
 <2>1. UNCHANGED <<lst, cold>> /\ UNCHANGED regVars
  BY <1>5 DEF TakeCommand, DemuxCancels, Sweep, ReaperStops, UdpShutdown
 <2> QED BY <1>a, <2>1, ExactStill
<1>6. CASE ReaperStep
 <2>1. UNCHANGED <<lst, cold>> /\ (UNCHANGED regVars \/ \E f \in Flows : Remove(key[f]))
  BY <1>6 DEF ReaperStep, Visit, ReaperCancels, SweepEnds
 <2>2. \A f \in Flows : key[f] \in Keys
  BY DEF UdpTypeOK
 <2> QED BY <1>a, <2>1, <2>2, ExactStill, ExactRemove
<1>7. CASE SupStep
 <2>1. UNCHANGED <<lst, cold>> /\ (UNCHANGED regVars \/ \E k \in Keys : Remove(k))
  BY <1>7 DEF SupStep, ListenersJoined, ReaperJoined, Drain, SendStop, DemuxJoined
 <2> QED BY <1>a, <2>1, ExactStill, ExactRemove
<1>8. CASE UNCHANGED udpVars
 <2>1. UNCHANGED <<lst, cold>> /\ UNCHANGED regVars
  BY <1>8 DEF udpVars
 <2> QED BY <1>a, <2>1, ExactStill
<1> QED BY <1>1, <1>2, <1>3, <1>4, <1>5, <1>6, <1>7, <1>8 DEF UdpNext

----
(* The teardown *)

StopQueued == \E i \in 1..Len(queue) : queue[i] = Stop

\* The demux ends only for the Stop, which the supervisor sends last.
StopInv ==
    /\ dmx.pc = "off" => sup.pc \in {"join", "done"} /\ queue = <<>>
    /\ StopQueued => sup.pc = "join"
    /\ sup.pc = "join" => dmx.pc = "off" \/ StopQueued
    /\ sup.pc = "done" => dmx.pc = "off"

\* Every step keeps it so.
LEMMA StopStep == UdpTypeOK /\ StopInv /\ [UdpNext]_udpVars => StopInv'
<1> SUFFICES ASSUME UdpTypeOK, StopInv, [UdpNext]_udpVars PROVE StopInv'
 OBVIOUS
<1> USE DEF regVars, dmxVars, bounds
<1>0. queue \in Seq(Flows \cup {Stop}) /\ dmx \in DemuxType /\ sup \in SupervisorType /\ Stop \notin Flows
 BY Markers DEF UdpTypeOK, Stop
<1>a. ASSUME UNCHANGED <<queue, dmx, sup>> PROVE StopInv'
 BY <1>a DEF StopInv, StopQueued
<1>1. ASSUME NEW k \in Keys, Receive(k) PROVE StopInv'
 BY <1>a, <1>1 DEF Receive
<1>2. ASSUME NEW p \in Ports, ListenerBusy(p) \/ ListenerStops(p) PROVE StopInv'
 BY <1>a, <1>2 DEF ListenerBusy, Forwarded, FallThrough, SendFails, ListenerCancels, OverCap,
  Reserve, ListenerStops
<1>3. ASSUME NEW f \in Flows, Hand(f) PROVE StopInv'
 <2>1. UNCHANGED <<dmx, sup>> /\ (queue' = queue \/ (dmx.pc # "off" /\ queue' = Append(queue, f)))
  BY <1>3 DEF Hand
 <2>2. CASE dmx.pc # "off" /\ queue' = Append(queue, f)
  <3>1. StopQueued' <=> StopQueued
   BY <1>0, <2>2, AppendQueue DEF StopQueued
  <3> QED BY <2>1, <2>2, <3>1 DEF StopInv
 <2> QED BY <1>a, <2>1, <2>2
<1>4. ASSUME NEW f \in Flows, ColdStep(f), ~Hand(f) PROVE StopInv'
 BY <1>a, <1>4 DEF ColdStep, SetupFails, Commit, Count, FirstPacket, Undo, ColdCancels
<1>5. ASSUME NEW f \in Flows, WaitEnds(f) PROVE StopInv'
 BY <1>a, <1>5 DEF WaitEnds
<1>6. ASSUME UNCHANGED <<queue, sup>>, dmx.pc # "off", dmx'.pc # "off" PROVE StopInv'
 <2>1. StopQueued' <=> StopQueued
  BY <1>6 DEF StopQueued
 <2> QED BY <1>6, <2>1 DEF StopInv
<1>7. ASSUME NEW f \in Flows, ReplyFails(f) PROVE StopInv'
 BY <1>6, <1>7 DEF ReplyFails, Polling
<1>8. CASE DemuxCancels
 BY <1>6, <1>8 DEF DemuxCancels
<1>9. CASE TakeCommand
 <2>1. queue # <<>> /\ UNCHANGED sup /\ dmx.pc = "run"
  BY <1>9 DEF TakeCommand
 <2>2. CASE Head(queue) = Stop
  <3>1. queue' = <<>> /\ dmx' = [dmx EXCEPT !.pc = "off"]
   BY <1>9, <2>2 DEF TakeCommand
  <3>2. dmx'.pc = "off" /\ ~StopQueued'
   BY <1>0, <3>1 DEF DemuxType, StopQueued
  <3>3. StopQueued
   BY <1>0, <2>1, <2>2, TailQueue DEF StopQueued
  <3> QED BY <2>1, <3>1, <3>2, <3>3 DEF StopInv
 <2>3. CASE Head(queue) # Stop
  <3>1. queue' = Tail(queue) /\ UNCHANGED dmx
   BY <1>9, <2>3 DEF TakeCommand
  <3>2. StopQueued' <=> StopQueued
   <4>1. StopQueued <=> Stop = Head(queue) \/ \E i \in 1..Len(Tail(queue)) : Tail(queue)[i] = Stop
    BY <1>0, <2>1, TailQueue DEF StopQueued
   <4>2. StopQueued' <=> \E i \in 1..Len(Tail(queue)) : Tail(queue)[i] = Stop
    BY <3>1 DEF StopQueued
   <4> QED BY <2>3, <4>1, <4>2
  <3> QED BY <2>1, <3>1, <3>2 DEF StopInv
 <2> QED BY <2>2, <2>3
<1>10. CASE Sweep \/ ReaperStep \/ ReaperStops
 BY <1>a, <1>10 DEF Sweep, ReaperStep, Visit, ReaperCancels, SweepEnds, ReaperStops
<1>11. ASSUME UNCHANGED <<queue, dmx>>, sup.pc \in {"run", "listeners", "reaper", "drain"},
              sup'.pc \in {"listeners", "reaper", "drain"}
       PROVE  StopInv'
 <2>1. StopQueued' <=> StopQueued
  BY <1>11 DEF StopQueued
 <2> QED BY <1>11, <2>1 DEF StopInv
<1>12. CASE UdpShutdown \/ ListenersJoined \/ ReaperJoined \/ \E k \in Keys : Drain(k)
 <2>1. UNCHANGED <<queue, dmx>> /\ sup.pc \in {"run", "listeners", "reaper", "drain"}
  BY <1>12 DEF UdpShutdown, ListenersJoined, ReaperJoined, Drain
 <2>2. sup'.pc \in {"listeners", "reaper", "drain"}
  BY <1>0, <1>12 DEF UdpShutdown, ListenersJoined, ReaperJoined, Drain, SupervisorType
 <2> QED BY <1>11, <2>1, <2>2
<1>13. CASE SendStop
 <2>1. sup.pc = "drain" /\ queue' = Append(queue, Stop) /\ sup' = [sup EXCEPT !.pc = "join"] /\ UNCHANGED dmx
  BY <1>13 DEF SendStop
 <2>2. sup'.pc = "join"
  BY <1>0, <2>1 DEF SupervisorType
 <2>3. StopQueued'
  BY <1>0, <2>1, AppendQueue DEF StopQueued
 <2> QED BY <2>1, <2>2, <2>3 DEF StopInv
<1>14. CASE DemuxJoined
 <2>1. sup.pc = "join" /\ dmx.pc = "off" /\ sup' = [sup EXCEPT !.pc = "done"] /\ UNCHANGED <<dmx, queue>>
  BY <1>14 DEF DemuxJoined
 <2>2. sup'.pc = "done" /\ queue = <<>>
  BY <1>0, <2>1 DEF SupervisorType, StopInv
 <2>3. ~StopQueued'
  BY <2>1, <2>2 DEF StopQueued
 <2> QED BY <2>1, <2>2, <2>3 DEF StopInv
<1>15. CASE UNCHANGED udpVars
 BY <1>a, <1>15 DEF udpVars
<1> QED BY <1>1, <1>2, <1>3, <1>4, <1>5, <1>7, <1>8, <1>9, <1>10, <1>12, <1>13, <1>14, <1>15
  DEF UdpNext, SupStep

\* At the start.
LEMMA RegistryInit == UdpInit => OccupancyExact /\ StopInv
<1> SUFFICES ASSUME UdpInit PROVE OccupancyExact /\ StopInv
 OBVIOUS
<1>1. Occupied = {} /\ Claims = {} /\ Counting = {}
 BY DEF UdpInit, Occupied, Claims, Claiming, Counting
<1>2. Cardinality({}) = 0
 BY FS_EmptySet
<1>3. Balance = 0
 BY <1>1, <1>2 DEF Balance
<1>4. OccupancyExact
 BY <1>3, ExactIsBalance, UdpAssumption DEF UdpInit
<1> QED BY <1>4 DEF UdpInit, StopInv, StopQueued

\* The counter the cap is enforced with is the number of entries, the claims under
\* way and the commits about to be counted, wherever it wraps, and removing a rule
\* never waits for a demux that is gone or was not told (registry.rs,
\* Supervisor::run).
THEOREM RegistryIsSound == UdpSpec => []RegistrySound
<1>1. FlowInv => UdpTypeOK
 BY DEF FlowInv
<1>2. OccupancyExact /\ StopInv => RegistrySound
 BY DEF StopInv, StopQueued, RegistrySound, TeardownNeverStuck
<1> QED BY <1>1, <1>2, FlowInit, FlowStep, RegistryInit, ExactNext, StopStep, PTL DEF UdpSpec

----
(* The datagrams of a single-target rule: batches *)

Dgrams == [of : Senders, no : Nat, cold : BOOLEAN]

BatchTypes ==
    /\ batched \in BOOLEAN
    /\ arriving \in Seq(Dgrams)
    /\ replies \in [Senders -> Seq(Dgrams)]
    /\ upstream \in [Senders -> Seq(Dgrams)]
    /\ clients \in [Senders -> Seq(Dgrams)]
    /\ tallied \in [in : [Senders -> Nat], out : [Senders -> Nat]]
    /\ numbers \in [in : Nat, out : Nat]
    /\ flow \in [Senders -> {"vacant", "pending", "live"}]
    /\ batch \in [filled : 0..BatchSize, at : Nat \ {0},
                  got : {"none", "vacant", "pending", "live"},
                  run : [of : Senders \cup {NoDatagram}, slots : Seq(Nat)]]
    /\ coldPaths \subseteq [first : Dgrams, live : BOOLEAN]

\* The slots of the batch at hand: datagrams as they arrived, each under the
\* address it came from.
ArenaInv ==
    /\ \A i \in 1..batch.filled :
           /\ inArena[i].data \in Dgrams /\ ~inArena[i].data.cold
           /\ inArena[i].addr = Encoded(inArena[i].data.of)
    /\ \A i, j \in 1..batch.filled : i < j => inArena[i].data.no < inArena[j].data.no

\* The slots of the demux.
Slots(arena) == \A i \in 1..BatchSize : \E d, e : arena[i] = [data |-> d, addr |-> e]
OutInv == Slots(outArena)

\* The run takes slots before the one at hand, in order, all of one client.
RunInv ==
    /\ batch.at <= batch.filled + 1
    /\ batch.got # "none" => batch.at <= batch.filled
    /\ batch.run # NoRun => batch.run.of \in Senders
    /\ ~batched => batch = IdleBatch
    /\ Rising(batch.run.slots)
    /\ \A i \in DOMAIN batch.run.slots :
           /\ batch.run.slots[i] \in 1..batch.filled
           /\ batch.run.slots[i] < batch.at
           /\ inArena[batch.run.slots[i]].data.of = batch.run.of

\* What is still in the socket came after the batch.
QueueInv ==
    /\ Ascending(arriving)
    /\ \A i \in DOMAIN arriving : ~arriving[i].cold /\ arriving[i].no <= numbers.in
    /\ \A i \in 1..batch.filled :
           /\ inArena[i].data.no <= numbers.in
           /\ \A j \in DOMAIN arriving : inArena[i].data.no < arriving[j].no

\* The numbers before all that wait: in the socket, in the batch, in the run.
Past ==
    {m \in 0..numbers.in :
        /\ \A j \in DOMAIN arriving : m < arriving[j].no
        /\ \A i \in batch.at..batch.filled : m < inArena[i].data.no
        /\ \A i \in DOMAIN batch.run.slots : m < inArena[batch.run.slots[i]].data.no}

\* What was sent, and what a cold path carries, is past; the two are apart.
PastInv ==
    /\ \A k \in Senders : \A i \in DOMAIN upstream[k] : upstream[k][i].no \in Past
    /\ \A c \in coldPaths :
           /\ c.first.no \in Past /\ c.first.cold
           /\ \A k \in Senders : \A i \in DOMAIN upstream[k] : upstream[k][i].no # c.first.no
           /\ \A d \in coldPaths : c.first.no = d.first.no => c = d

\* The replies of a flow that wait came after those its client was sent.
ReplyInv ==
    \A k \in Senders :
        /\ Ascending(replies[k])
        /\ \A i \in DOMAIN replies[k] :
               /\ replies[k][i].of = k /\ replies[k][i].no <= numbers.out
               /\ \A j \in DOMAIN clients[k] : clients[k][j].no < replies[k][i].no
        /\ \A j \in DOMAIN clients[k] : clients[k][j].no <= numbers.out

BatchInv ==
    /\ BatchTypes /\ ArenaInv /\ RunInv /\ QueueInv /\ PastInv /\ OutInv /\ ReplyInv
    /\ SentInOrder /\ RepliedInOrder /\ TalliedAsSent

----
(* Addresses and sequences *)

\* Swapping the bytes of a port twice gives it back.
LEMMA SwapTwice == ASSUME NEW p, p \in Nat, p < 65536 PROVE Swap(Swap(p)) = p
<1>1. PICK h : h = p \div 256
 OBVIOUS
<1>2. PICK l : l = p % 256
 OBVIOUS
<1>3. h \in Nat /\ l \in Nat /\ h < 256 /\ l < 256 /\ p = 256 * h + l
 BY <1>1, <1>2
<1>4. PICK u : u = l * 256 + h
 OBVIOUS
<1>5. u \in Nat /\ u = 256 * l + h
 BY <1>3, <1>4
<1>6. PICK q : q = u \div 256
 OBVIOUS
<1>7. PICK r : r = u % 256
 OBVIOUS
<1>8. q \in Nat /\ r \in Nat /\ r < 256 /\ u = 256 * q + r
 BY <1>5, <1>6, <1>7
<1>9. q = l /\ r = h
 BY <1>3, <1>5, <1>8
<1>10. Swap(p) = u
 BY <1>1, <1>2, <1>4 DEF Swap
<1>11. Swap(u) = r * 256 + q
 BY <1>6, <1>7 DEF Swap
<1> QED BY <1>3, <1>9, <1>10, <1>11

\* An address comes out of a slot, and out of the kernel, as it went in.
LEMMA AddressKept ==
    ASSUME NEW a, a \in Senders PROVE Decoded(Encoded(a)) = a /\ KernelName(Encoded(a)) = a
<1>1. a.port \in Nat /\ a.port < 65536
 BY SenderAssumption
<1>2. Swap(Swap(a.port)) = a.port
 BY <1>1, SwapTwice
<1>3. PICK s : s = Encoded(a)
 OBVIOUS
<1>4. CASE a.family = "inet" /\ a.flowinfo = 0 /\ a.scope = 0
 <2>1. s.family = a.family /\ s.addr = a.ip /\ s.port = Swap(a.port) /\ s.rest = <<0, 0>>
  BY <1>3, <1>4 DEF Encoded
 <2>2. s.rest[1] = a.flowinfo /\ s.rest[2] = a.scope
  BY <2>1, <1>4
 <2> QED BY <1>2, <1>3, <2>1, <2>2, SenderAssumption DEF Decoded, KernelName
<1>5. CASE a.family = "inet6"
 <2>1. s.family = a.family /\ s.addr = a.ip /\ s.port = Swap(a.port)
       /\ s.rest = <<a.flowinfo, a.scope>>
  BY <1>3, <1>5 DEF Encoded
 <2>2. s.rest[1] = a.flowinfo /\ s.rest[2] = a.scope
  BY <2>1
 <2> QED BY <1>2, <1>3, <2>1, <2>2, SenderAssumption DEF Decoded, KernelName
<1> QED BY <1>4, <1>5, SenderAssumption

\* The elements of two sequences, one after the other.
LEMMA Joined ==
    ASSUME NEW T, NEW s \in Seq(T), NEW t \in Seq(T)
    PROVE  /\ s \o t \in Seq(T)
           /\ Len(s \o t) = Len(s) + Len(t)
           /\ \A i \in DOMAIN s : i \in DOMAIN (s \o t) /\ (s \o t)[i] = s[i]
           /\ \A i \in DOMAIN (s \o t) :
                  \/ i \in DOMAIN s /\ (s \o t)[i] = s[i]
                  \/ /\ i > Len(s) /\ i - Len(s) \in DOMAIN t
                     /\ (s \o t)[i] = t[i - Len(s)]
  BY ConcatProperties

\* A piece of an ascending sequence.
LEMMA Piece ==
    ASSUME NEW T, NEW s \in Seq(T), NEW m \in 1..Len(s)+1, NEW n \in 0..Len(s), m <= n + 1
    PROVE  /\ SubSeq(s, m, n) \in Seq(T)
           /\ Len(SubSeq(s, m, n)) = n - m + 1
           /\ DOMAIN SubSeq(s, m, n) = 1..(n - m + 1)
           /\ \A i \in 1..(n - m + 1) : i + m - 1 \in DOMAIN s /\ SubSeq(s, m, n)[i] = s[i + m - 1]
  BY SubSeqProperties, SMTT(30)

\* A subsequence keeps the order, and each of its elements is one of the whole.
LEMMA Kept ==
    ASSUME NEW ds \in Seq(Dgrams), Ascending(ds), NEW es \in Subsequences(ds)
    PROVE  /\ es \in Seq(Dgrams) /\ Ascending(es)
           /\ \A i \in DOMAIN es : \E j \in DOMAIN ds : es[i] = ds[j]
<1>1. PICK n \in 0..Len(ds) :
          \E at \in {f \in [1..n -> DOMAIN ds] : Rising(f)} : es = [i \in 1..n |-> ds[at[i]]]
 BY DEF Subsequences
<1>2. PICK at \in [1..n -> DOMAIN ds] : Rising(at) /\ es = [i \in 1..n |-> ds[at[i]]]
 BY <1>1
<1>3. es \in Seq(Dgrams) /\ DOMAIN es = 1..n
 BY <1>2
<1>4. \A i \in 1..n : at[i] \in DOMAIN ds /\ es[i] = ds[at[i]]
 BY <1>2
<1>5. Ascending(es)
 BY <1>2, <1>3, <1>4 DEF Ascending, Rising
<1> QED BY <1>3, <1>4, <1>5

----
(* Sending to the target *)

\* What SentUp does to the history of each client, and to the count.
LEMMA SentUpIs ==
    ASSUME BatchTypes, TalliedAsSent, NEW k, k \in Senders, NEW ds, ds \in Seq(Dgrams),
           SentUp(k, ds), UNCHANGED clients
    PROVE  /\ upstream' \in [Senders -> Seq(Dgrams)]
           /\ tallied' \in [in : [Senders -> Nat], out : [Senders -> Nat]]
           /\ TalliedAsSent'
           /\ upstream'[k] = upstream[k] \o ds
           /\ \A q \in Senders : q # k => upstream'[q] = upstream[q]
<1>1. upstream \in [Senders -> Seq(Dgrams)] /\ upstream' = [upstream EXCEPT ![k] = upstream[k] \o ds]
 BY DEF BatchTypes, SentUp
<1>2. upstream[k] \in Seq(Dgrams)
 BY <1>1
<1>3. upstream[k] \o ds \in Seq(Dgrams) /\ Len(upstream[k] \o ds) = Len(upstream[k]) + Len(ds)
 BY <1>2, Joined
<1>4. Len(ds) \in Nat
 BY LenProperties
<1>5. upstream' \in [Senders -> Seq(Dgrams)] /\ upstream'[k] = upstream[k] \o ds
      /\ \A q \in Senders : q # k => upstream'[q] = upstream[q]
 BY <1>1, <1>3
<1>6. tallied \in [in : [Senders -> Nat], out : [Senders -> Nat]]
 BY DEF BatchTypes
<1>6a. tallied' = [tallied EXCEPT !.in[k] = @ + Len(ds)]
 BY DEF SentUp
<1>6b. PICK f : f = [tallied.in EXCEPT ![k] = @ + Len(ds)]
 OBVIOUS
<1>6c. /\ f \in [Senders -> Nat] /\ f[k] = tallied.in[k] + Len(ds)
       /\ \A q \in Senders : q # k => f[q] = tallied.in[q]
 BY <1>4, <1>6, <1>6b
<1>6d. tallied' = [tallied EXCEPT !.in = f]
 BY <1>6, <1>6a, <1>6b
<1>6e. tallied'.in = f /\ tallied'.out = tallied.out
       /\ tallied' \in [in : [Senders -> Nat], out : [Senders -> Nat]]
 BY <1>6, <1>6c, <1>6d
<1>7. /\ tallied' \in [in : [Senders -> Nat], out : [Senders -> Nat]]
      /\ tallied'.in[k] = tallied.in[k] + Len(ds)
      /\ tallied'.out = tallied.out
      /\ \A q \in Senders : q # k => tallied'.in[q] = tallied.in[q]
 BY <1>6c, <1>6e
<1>8. TalliedAsSent'
 BY <1>3, <1>5, <1>7 DEF TalliedAsSent
<1> QED BY <1>5, <1>7, <1>8

\* An element of the history was there before, or is one of those sent.
LEMMA SentUpElements ==
    ASSUME BatchTypes, NEW k, k \in Senders, NEW ds, ds \in Seq(Dgrams),
           upstream'[k] = upstream[k] \o ds,
           \A q \in Senders : q # k => upstream'[q] = upstream[q]
    PROVE  \A q \in Senders : \A i \in DOMAIN upstream'[q] :
               \/ i \in DOMAIN upstream[q] /\ upstream'[q][i] = upstream[q][i]
               \/ /\ q = k /\ i > Len(upstream[k])
                  /\ \E j \in DOMAIN ds : j = i - Len(upstream[k]) /\ upstream'[q][i] = ds[j]
<1>1. upstream[k] \in Seq(Dgrams)
 BY DEF BatchTypes
<1>2. \A i \in DOMAIN (upstream[k] \o ds) :
          \/ i \in DOMAIN upstream[k] /\ (upstream[k] \o ds)[i] = upstream[k][i]
          \/ /\ i > Len(upstream[k]) /\ i - Len(upstream[k]) \in DOMAIN ds
             /\ (upstream[k] \o ds)[i] = ds[i - Len(upstream[k])]
 BY <1>1, Joined
<1> QED BY <1>2

\* Datagrams later than all that was sent keep the history in order.
LEMMA SentLater ==
    ASSUME BatchTypes, SentInOrder, NEW k, k \in Senders, NEW ds, ds \in Seq(Dgrams),
           Ascending(ds), \A j \in DOMAIN ds : ds[j].of = k,
           \A i \in DOMAIN upstream[k] : \A j \in DOMAIN ds : upstream[k][i].no < ds[j].no,
           upstream'[k] = upstream[k] \o ds,
           \A q \in Senders : q # k => upstream'[q] = upstream[q]
    PROVE  SentInOrder'
<1>1. upstream[k] \in Seq(Dgrams) /\ Len(upstream[k]) \in Nat /\ DOMAIN upstream[k] = 1..Len(upstream[k])
      /\ DOMAIN ds = 1..Len(ds) /\ Len(ds) \in Nat
 BY LenProperties DEF BatchTypes
<1>2. PICK s : s = upstream[k]
 OBVIOUS
<1>3. PICK u : u = upstream'[k]
 OBVIOUS
<1>4. \A i \in DOMAIN u :
          \/ i \in DOMAIN s /\ u[i] = s[i]
          \/ i > Len(s) /\ \E j \in DOMAIN ds : j = i - Len(s) /\ u[i] = ds[j]
 BY <1>2, <1>3, SentUpElements
<1>5. Len(s) \in Nat /\ DOMAIN s = 1..Len(s) /\ DOMAIN u \subseteq Nat
 <2>1. u = s \o ds /\ s \in Seq(Dgrams)
  BY <1>1, <1>2, <1>3
 <2>2. u \in Seq(Dgrams)
  BY <2>1, Joined
 <2> QED BY <1>1, <1>2, <2>2, LenProperties
<1>6. \A i \in DOMAIN s : s[i].of = k
 BY <1>2 DEF SentInOrder
<1>7. \A i, j \in DOMAIN s : i < j => \/ s[i].no < s[j].no
                                      \/ s[i].no # s[j].no /\ (s[i].cold \/ s[j].cold)
 BY <1>2 DEF SentInOrder
<1>8. \A i \in DOMAIN s : \A j \in DOMAIN ds : s[i].no < ds[j].no
 BY <1>2
<1>9. \A i \in DOMAIN u : u[i].of = k
 BY <1>4, <1>6
<1>10. ASSUME NEW i \in DOMAIN u, NEW j \in DOMAIN u, i < j
       PROVE  \/ u[i].no < u[j].no
              \/ u[i].no # u[j].no /\ (u[i].cold \/ u[j].cold)
 <2>1. CASE j \in DOMAIN s /\ u[j] = s[j]
  <3>1. i \in DOMAIN s /\ u[i] = s[i]
   BY <1>4, <1>5, <1>10, <2>1
  <3> QED BY <1>7, <1>10, <2>1, <3>1
 <2>2. CASE j > Len(s) /\ \E m \in DOMAIN ds : m = j - Len(s) /\ u[j] = ds[m]
  <3>1. CASE i \in DOMAIN s /\ u[i] = s[i]
   BY <1>8, <2>2, <3>1
  <3>2. CASE i > Len(s) /\ \E m \in DOMAIN ds : m = i - Len(s) /\ u[i] = ds[m]
   <4>1. i - Len(s) \in DOMAIN ds /\ u[i] = ds[i - Len(s)]
    BY <3>2
   <4>2. j - Len(s) \in DOMAIN ds /\ u[j] = ds[j - Len(s)]
    BY <2>2
   <4>3. i - Len(s) < j - Len(s)
    BY <1>5, <1>10
   <4> QED BY <4>1, <4>2, <4>3 DEF Ascending
  <3> QED BY <1>4, <3>1, <3>2
 <2> QED BY <1>4, <2>1, <2>2
<1>11. SUFFICES ASSUME NEW q \in Senders
                PROVE  (/\ \A i \in DOMAIN upstream[q] : upstream[q][i].of = q
                        /\ \A i, j \in DOMAIN upstream[q] :
                             i < j => \/ upstream[q][i].no < upstream[q][j].no
                                      \/ /\ upstream[q][i].no # upstream[q][j].no
                                         /\ upstream[q][i].cold \/ upstream[q][j].cold)'
 BY DEF SentInOrder
<1>12. CASE q = k
 <2>1. \A i, j \in DOMAIN u : i < j => \/ u[i].no < u[j].no
                                       \/ u[i].no # u[j].no /\ (u[i].cold \/ u[j].cold)
  BY <1>10
 <2>2. u = upstream'[q]
  BY <1>3, <1>12
 <2> QED BY ONLY <1>9, <1>12, <2>1, <2>2
<1>13. CASE q # k
 BY <1>13 DEF SentInOrder
<1> QED BY <1>12, <1>13

\* So does one that a cold path carried, however late, if it is not there yet.
LEMMA SentCold ==
    ASSUME BatchTypes, SentInOrder, NEW k, k \in Senders, NEW d, d \in Dgrams,
           d.cold, d.of = k,
           \A i \in DOMAIN upstream[k] : upstream[k][i].no # d.no,
           upstream'[k] = upstream[k] \o <<d>>,
           \A q \in Senders : q # k => upstream'[q] = upstream[q]
    PROVE  SentInOrder'
<1>1. PICK s : s = upstream[k]
 OBVIOUS
<1>2. PICK u : u = upstream'[k]
 OBVIOUS
<1>3. s \in Seq(Dgrams) /\ <<d>> \in Seq(Dgrams) /\ u = s \o <<d>>
 BY <1>1, <1>2 DEF BatchTypes
<1>4. Len(s) \in Nat /\ DOMAIN s = 1..Len(s) /\ DOMAIN <<d>> = 1..1 /\ <<d>>[1] = d
 BY <1>3, LenProperties
<1>5. \A i \in DOMAIN u :
          \/ i \in DOMAIN s /\ u[i] = s[i]
          \/ i > Len(s) /\ i = Len(s) + 1 /\ u[i] = d
 BY <1>3, <1>4, Joined
<1>6. DOMAIN u \subseteq Nat
 BY <1>3, Joined, LenProperties
<1>7. \A i \in DOMAIN s : s[i].of = k
 BY <1>1 DEF SentInOrder
<1>8. \A i, j \in DOMAIN s : i < j => \/ s[i].no < s[j].no
                                      \/ s[i].no # s[j].no /\ (s[i].cold \/ s[j].cold)
 BY <1>1 DEF SentInOrder
<1>9. \A i \in DOMAIN s : s[i].no # d.no
 BY <1>1
<1>10. \A i \in DOMAIN u : u[i].of = k
 BY <1>5, <1>7
<1>11. \A i, j \in DOMAIN u : i < j => \/ u[i].no < u[j].no
                                       \/ u[i].no # u[j].no /\ (u[i].cold \/ u[j].cold)
 BY <1>4, <1>5, <1>6, <1>8, <1>9
<1>12. SUFFICES ASSUME NEW q \in Senders
                PROVE  (/\ \A i \in DOMAIN upstream[q] : upstream[q][i].of = q
                        /\ \A i, j \in DOMAIN upstream[q] :
                             i < j => \/ upstream[q][i].no < upstream[q][j].no
                                      \/ /\ upstream[q][i].no # upstream[q][j].no
                                         /\ upstream[q][i].cold \/ upstream[q][j].cold)'
 BY DEF SentInOrder
<1>13. CASE q = k
 <2>1. u = upstream'[q]
  BY <1>2, <1>13
 <2> QED BY ONLY <1>10, <1>11, <1>13, <2>1
<1>14. CASE q # k
 BY <1>14 DEF SentInOrder
<1> QED BY <1>13, <1>14

\* What was past stays past, and nothing is sent.
LEMMA NothingSent ==
    ASSUME PastInv, SentInOrder, UNCHANGED <<upstream, coldPaths>>,
           Past \subseteq Past'
    PROVE  SentInOrder' /\ PastInv'
<1>1. SentInOrder'
 BY DEF SentInOrder
<1>2. PastInv'
 BY DEF PastInv
<1> QED BY <1>1, <1>2

\* Datagrams that waited are sent: later than all that was past, past now.
LEMMA WaitingSent ==
    ASSUME BatchTypes, PastInv, SentInOrder, TalliedAsSent, UNCHANGED <<clients, coldPaths>>,
           NEW k, k \in Senders, NEW ds, ds \in Seq(Dgrams), SentUp(k, ds),
           Ascending(ds), \A j \in DOMAIN ds : ds[j].of = k,
           \A m \in Past : \A j \in DOMAIN ds : m < ds[j].no,
           Past \subseteq Past',
           \A j \in DOMAIN ds : ds[j].no \in Past'
    PROVE  /\ upstream' \in [Senders -> Seq(Dgrams)]
           /\ tallied' \in [in : [Senders -> Nat], out : [Senders -> Nat]]
           /\ SentInOrder' /\ PastInv' /\ TalliedAsSent'
<1>1. /\ upstream' \in [Senders -> Seq(Dgrams)]
      /\ tallied' \in [in : [Senders -> Nat], out : [Senders -> Nat]]
      /\ TalliedAsSent'
      /\ upstream'[k] = upstream[k] \o ds
      /\ \A q \in Senders : q # k => upstream'[q] = upstream[q]
 BY SentUpIs
<1>2. \A q \in Senders : \A i \in DOMAIN upstream[q] :
          upstream[q][i].no \in Past
 BY DEF PastInv
<1>3. \A i \in DOMAIN upstream[k] : \A j \in DOMAIN ds : upstream[k][i].no < ds[j].no
 BY <1>2
<1>4. SentInOrder'
 BY <1>1, <1>3, SentLater
<1>5. \A q \in Senders : \A i \in DOMAIN upstream'[q] :
          \/ i \in DOMAIN upstream[q] /\ upstream'[q][i] = upstream[q][i]
          \/ \E j \in DOMAIN ds : upstream'[q][i] = ds[j]
 <2>1. \A q \in Senders : \A i \in DOMAIN upstream'[q] :
           \/ i \in DOMAIN upstream[q] /\ upstream'[q][i] = upstream[q][i]
           \/ /\ q = k /\ i > Len(upstream[k])
              /\ \E j \in DOMAIN ds : j = i - Len(upstream[k]) /\ upstream'[q][i] = ds[j]
  BY <1>1, SentUpElements
 <2> QED BY <2>1
<1>6. \A q \in Senders : \A i \in DOMAIN upstream'[q] : upstream'[q][i].no \in Past'
 BY <1>2, <1>5
<1>7. \A c \in coldPaths : /\ c.first.no \in Past
                           /\ c.first.cold
                           /\ \A d \in coldPaths : c.first.no = d.first.no => c = d
                           /\ \A q \in Senders : \A i \in DOMAIN upstream[q] : upstream[q][i].no # c.first.no
 BY DEF PastInv
<1>8. \A j \in DOMAIN ds : ds[j].no \in Nat
 <2>1. \A j \in DOMAIN ds : ds[j] \in Dgrams
  OBVIOUS
 <2> QED BY <2>1 DEF Dgrams
<1>9. \A c \in coldPaths : \A j \in DOMAIN ds : ds[j].no # c.first.no
 BY <1>7, <1>8
<1>10. \A c \in coldPaths : \A q \in Senders : \A i \in DOMAIN upstream'[q] :
           upstream'[q][i].no # c.first.no
 BY <1>5, <1>7, <1>9
<1>11. PastInv'
 BY <1>6, <1>7, <1>10 DEF PastInv
<1> QED BY <1>1, <1>4, <1>11

----
(* Slots and runs *)

\* The slots of the batch name the clients whose datagrams they hold.
LEMMA SlotSource ==
    ASSUME ArenaInv, NEW i, i \in 1..batch.filled
    PROVE  Source(inArena, i) = inArena[i].data.of /\ inArena[i].data.of \in Senders
<1>1. inArena[i].data.of \in Senders /\ inArena[i].addr = Encoded(inArena[i].data.of)
 BY DEF ArenaInv, Dgrams
<1> QED BY <1>1, AddressKept DEF Source

\* The data of a run: datagrams of its client, in order, none of them past.
LEMMA RunDataIs ==
    ASSUME BatchTypes, ArenaInv, RunInv
    PROVE  /\ RunData \in Seq(Dgrams) /\ Ascending(RunData)
           /\ DOMAIN RunData = DOMAIN batch.run.slots /\ Len(RunData) = Len(batch.run.slots)
           /\ \A j \in DOMAIN RunData :
                  /\ RunData[j].of = batch.run.of
                  /\ RunData[j] = inArena[batch.run.slots[j]].data
                  /\ batch.run.slots[j] \in 1..batch.filled
<1>1. PICK s : s = batch.run.slots
 OBVIOUS
<1>2. s \in Seq(Nat) /\ batch.filled \in Nat
 BY <1>1, BatchAssumption DEF BatchTypes
<1>3. DOMAIN s = 1..Len(s) /\ Len(s) \in Nat
 BY <1>2, LenProperties
<1>4. \A j \in 1..Len(s) : s[j] \in 1..batch.filled /\ inArena[s[j]].data.of = batch.run.of
 BY <1>1, <1>3 DEF RunInv
<1>5. \A j \in 1..Len(s) : inArena[s[j]].data \in Dgrams
 BY <1>4 DEF ArenaInv
<1>6. RunData = [j \in 1..Len(s) |-> inArena[s[j]].data]
 BY <1>1, <1>3 DEF RunData
<1>7. RunData \in Seq(Dgrams) /\ DOMAIN RunData = 1..Len(s) /\ Len(RunData) = Len(s)
 BY <1>3, <1>5, <1>6
<1>8. \A i, j \in 1..Len(s) : i < j => s[i] < s[j]
 BY <1>1, <1>3 DEF RunInv, Rising
<1>9. \A i, j \in 1..Len(s) : i < j => inArena[s[i]].data.no < inArena[s[j]].data.no
 BY <1>4, <1>8 DEF ArenaInv
<1>10. Ascending(RunData)
 BY <1>6, <1>7, <1>9 DEF Ascending
<1> QED BY <1>1, <1>3, <1>4, <1>6, <1>7, <1>10

----
(* The steps of the listener's batch *)

\* process_batch between two steps.
BatchRecords == [filled : 0..BatchSize, at : Nat \ {0},
                 got : {"none", "vacant", "pending", "live"},
                 run : [of : Senders \cup {NoDatagram}, slots : Seq(Nat)]]

\* The fields of the batch, and an empty run.
LEMMA BatchFields ==
    ASSUME BatchTypes
    PROVE  /\ batch \in BatchRecords
           /\ batch.filled \in Nat /\ batch.filled <= BatchSize /\ batch.at \in Nat /\ batch.at >= 1
           /\ batch.got \in {"none", "vacant", "pending", "live"}
           /\ batch.run \in [of : Senders \cup {NoDatagram}, slots : Seq(Nat)]
           /\ batch.run.slots \in Seq(Nat)
           /\ NoRun \in [of : Senders \cup {NoDatagram}, slots : Seq(Nat)]
           /\ NoRun.slots = <<>> /\ DOMAIN NoRun.slots = {}
           /\ DOMAIN batch.run.slots = 1..Len(batch.run.slots) /\ Len(batch.run.slots) \in Nat
<1> USE DEF BatchRecords
<1>1. batch \in BatchRecords
 BY DEF BatchTypes
<1>2. batch.run.slots \in Seq(Nat)
 BY <1>1
<1> QED BY <1>1, <1>2, BatchAssumption DEF NoRun

\* The run leaves the batch: its datagrams are past, and nothing else changes.
LEMMA RunLeaves ==
    ASSUME BatchTypes, ArenaInv, RunInv, QueueInv, batch' = [batch EXCEPT !.run = NoRun],
           MustFlush, UNCHANGED <<batched, arriving, inArena, numbers>>
    PROVE  /\ batch' \in BatchRecords
           /\ ArenaInv' /\ RunInv' /\ QueueInv' /\ Past \subseteq Past'
           /\ \A i \in DOMAIN batch.run.slots : inArena[batch.run.slots[i]].data.no \in Past'
<1>1. /\ batch' \in BatchRecords /\ batch'.filled = batch.filled /\ batch'.at = batch.at
      /\ batch'.got = batch.got /\ batch'.run = NoRun
 BY BatchFields DEF BatchRecords
<1>2. ArenaInv'
 BY <1>1 DEF ArenaInv
<1>3. batch'.run.slots = <<>> /\ DOMAIN batch'.run.slots = {}
 BY <1>1, BatchFields
<1>4. batched
 <2>1. IdleBatch.run = NoRun
  BY DEF IdleBatch
 <2> QED BY <2>1 DEF RunInv, MustFlush, BatchTypes
<1>5. RunInv'
 BY <1>1, <1>3, <1>4 DEF RunInv, Rising
<1>6. QueueInv'
 BY <1>1 DEF QueueInv
<1>7. Past \subseteq Past'
 BY <1>1, <1>3 DEF Past
<1>8. ASSUME NEW i \in DOMAIN batch.run.slots PROVE inArena[batch.run.slots[i]].data.no \in Past'
 <2>1. PICK t : t = batch.run.slots[i]
  OBVIOUS
 <2>2. t \in 1..batch.filled /\ t < batch.at
  BY <2>1 DEF RunInv
 <2>3. inArena[t].data.no \in Nat /\ inArena[t].data.no <= numbers.in
  BY <2>2 DEF ArenaInv, QueueInv, Dgrams
 <2>4. \A j \in DOMAIN arriving : inArena[t].data.no < arriving[j].no
  BY <2>2 DEF QueueInv
 <2>5. \A j \in batch.at..batch.filled : inArena[t].data.no < inArena[j].data.no
  <3>1. \A j \in batch.at..batch.filled : j \in 1..batch.filled /\ t < j
   BY <2>2, BatchFields
  <3> QED BY <2>2, <3>1 DEF ArenaInv
 <2>6. numbers.in \in Nat
  BY DEF BatchTypes
 <2>7. inArena[t].data.no \in Past'
  BY <1>1, <1>3, <2>3, <2>4, <2>5, <2>6 DEF Past
 <2> QED BY <2>1, <2>7
<1> QED BY <1>1, <1>2, <1>5, <1>6, <1>7, <1>8

\* The slot at hand is left, the run as it was: its number is past now.
LEMMA SlotLeft ==
    ASSUME BatchTypes, ArenaInv, RunInv, QueueInv, batch' = NextSlot(batch.run),
           batch.got # "none", UNCHANGED <<batched, arriving, inArena, numbers>>
    PROVE  /\ batch' \in BatchRecords
           /\ ArenaInv' /\ RunInv' /\ QueueInv' /\ Past \subseteq Past'
           /\ batch.run = NoRun => inArena[batch.at].data.no \in Past'
<1>1. /\ batch' \in BatchRecords /\ batch'.filled = batch.filled /\ batch'.at = batch.at + 1
      /\ batch'.got = "none" /\ batch'.run = batch.run
 <2>1. PICK n : n = batch.at + 1
  OBVIOUS
 <2>2. n \in Nat \ {0}
  BY <2>1, BatchFields
 <2>3. batch' = [batch EXCEPT !.at = n, !.got = "none", !.run = batch.run]
  BY <2>1 DEF NextSlot
 <2> QED BY <2>1, <2>2, <2>3, BatchFields DEF BatchRecords
<1>2. ArenaInv'
 BY <1>1 DEF ArenaInv
<1>3. batch.at \in 1..batch.filled
 BY BatchFields DEF RunInv
<1>4. batched
 <2>1. IdleBatch.got = "none"
  BY DEF IdleBatch
 <2> QED BY <2>1 DEF RunInv, BatchTypes
<1>5. RunInv'
 <2>1. \A i \in DOMAIN batch.run.slots : batch.run.slots[i] < batch.at + 1
  BY <1>3, BatchFields DEF RunInv
 <2>2. batch.at + 1 <= batch.filled + 1
  BY <1>3, BatchFields
 <2> QED BY <1>1, <1>4, <2>1, <2>2 DEF RunInv, Rising
<1>6. QueueInv'
 BY <1>1 DEF QueueInv
<1>7. Past \subseteq Past'
 <2>1. (batch.at + 1)..batch.filled \subseteq batch.at..batch.filled
  BY <1>3
 <2> QED BY <1>1, <2>1 DEF Past
<1>8. ASSUME batch.run = NoRun PROVE inArena[batch.at].data.no \in Past'
 <2>1. PICK t : t = batch.at
  OBVIOUS
 <2>2. t \in 1..batch.filled
  BY <1>3, <2>1
 <2>3. inArena[t].data.no \in Nat /\ inArena[t].data.no <= numbers.in
  BY <2>2 DEF ArenaInv, QueueInv, Dgrams
 <2>4. \A j \in DOMAIN arriving : inArena[t].data.no < arriving[j].no
  BY <2>2 DEF QueueInv
 <2>5. \A j \in (batch.at + 1)..batch.filled : inArena[t].data.no < inArena[j].data.no
  <3>1. \A j \in (batch.at + 1)..batch.filled : j \in 1..batch.filled /\ t < j
   BY <2>1, <2>2, BatchFields
  <3> QED BY <2>2, <3>1 DEF ArenaInv
 <2>6. numbers.in \in Nat /\ DOMAIN batch'.run.slots = {}
  BY <1>1, <1>8, BatchFields DEF BatchTypes
 <2>7. inArena[t].data.no \in Past'
  BY <1>1, <2>3, <2>4, <2>5, <2>6 DEF Past
 <2> QED BY <2>1, <2>7
<1> QED BY <1>1, <1>2, <1>5, <1>6, <1>7, <1>8

\* The slot at hand joins the run, which is empty or of the same client.
LEMMA SlotJoins ==
    ASSUME BatchTypes, ArenaInv, RunInv, QueueInv, batch.got = "live", ~MustFlush,
           batch' = NextSlot([of |-> Here, slots |-> Append(batch.run.slots, batch.at)]),
           UNCHANGED <<batched, arriving, inArena, numbers>>
    PROVE  /\ batch' \in BatchRecords
           /\ ArenaInv' /\ RunInv' /\ QueueInv' /\ Past \subseteq Past'
<1>1. PICK t : t = batch.at
 OBVIOUS
<1>2. t \in 1..batch.filled /\ t \in Nat
 BY <1>1, BatchFields DEF RunInv
<1>3. PICK h : h = Here
 OBVIOUS
<1>4. h = inArena[t].data.of /\ h \in Senders
 BY <1>1, <1>2, <1>3, SlotSource DEF Here
<1>5. PICK s : s = batch.run.slots
 OBVIOUS
<1>6. s \in Seq(Nat) /\ DOMAIN s = 1..Len(s) /\ Len(s) \in Nat
 BY <1>5, BatchFields
<1>7. PICK u : u = Append(s, t)
 OBVIOUS
<1>8. /\ u \in Seq(Nat) /\ DOMAIN u = 1..(Len(s) + 1)
      /\ \A i \in 1..Len(s) : u[i] = s[i]
      /\ u[Len(s) + 1] = t
 BY <1>2, <1>6, <1>7, AppendProperties
<1>9. PICK r : r = [of |-> h, slots |-> u]
 OBVIOUS
<1>10. r \in [of : Senders \cup {NoDatagram}, slots : Seq(Nat)] /\ r.of = h /\ r.slots = u
 BY <1>4, <1>8, <1>9
<1>11. PICK n : n = batch.at + 1
 OBVIOUS
<1>12. n \in Nat \ {0} /\ n = t + 1
 BY <1>1, <1>2, <1>11
<1>13. batch' = [batch EXCEPT !.at = n, !.got = "none", !.run = r]
 BY <1>1, <1>3, <1>5, <1>7, <1>9, <1>11 DEF NextSlot
<1>14. /\ batch' \in BatchRecords /\ batch'.filled = batch.filled /\ batch'.at = n
       /\ batch'.got = "none" /\ batch'.run = r
 BY <1>10, <1>12, <1>13, BatchFields DEF BatchRecords
<1>15. ArenaInv'
 BY <1>14 DEF ArenaInv
<1>16. batched
 <2>1. IdleBatch.got = "none"
  BY DEF IdleBatch
 <2> QED BY <2>1 DEF RunInv, BatchTypes
<1>17. \A i \in 1..Len(s) : s[i] \in 1..batch.filled /\ s[i] < t /\ inArena[s[i]].data.of = h
 <2>1. CASE batch.run = NoRun
  <3>1. DOMAIN s = {}
   BY <1>5, <2>1, BatchFields
  <3> QED BY <1>6, <3>1
 <2>2. CASE batch.run # NoRun
  <3>1. h = batch.run.of
   BY <1>3, <2>2 DEF MustFlush
  <3> QED BY <1>1, <1>5, <1>6, <3>1 DEF RunInv
 <2> QED BY <2>1, <2>2
<1>18. \A i \in 1..(Len(s) + 1) : u[i] \in 1..batch.filled /\ u[i] < n /\ inArena[u[i]].data.of = h
 <2>1. \A i \in 1..(Len(s) + 1) : i \in 1..Len(s) \/ i = Len(s) + 1
  BY <1>6
 <2> QED BY <1>2, <1>4, <1>8, <1>12, <1>17, <2>1
<1>19. Rising(u)
 <2>1. \A i, j \in 1..Len(s) : i < j => s[i] < s[j]
  BY <1>5, <1>6 DEF RunInv, Rising
 <2>2. ASSUME NEW i \in 1..(Len(s) + 1), NEW j \in 1..(Len(s) + 1), i < j PROVE u[i] < u[j]
  <3>1. i \in 1..Len(s)
   BY <1>6, <2>2
  <3>2. CASE j \in 1..Len(s)
   BY <1>8, <2>1, <2>2, <3>1, <3>2
  <3>3. CASE j = Len(s) + 1
   BY <1>8, <1>17, <3>1, <3>3
  <3> QED BY <1>6, <3>2, <3>3
 <2> QED BY <1>8, <2>2 DEF Rising
<1>20. RunInv'
 <2>1. n <= batch.filled + 1
  BY <1>2, <1>12, BatchFields
 <2> QED BY <1>4, <1>8, <1>10, <1>14, <1>16, <1>18, <1>19, <2>1 DEF RunInv
<1>21. QueueInv'
 BY <1>14 DEF QueueInv
<1>22. ASSUME NEW m \in Past PROVE m \in Past'
 <2>1. \A i \in n..batch.filled : i \in batch.at..batch.filled
  BY <1>1, <1>12, <1>2, BatchFields
 <2>2. t \in batch.at..batch.filled
  BY <1>1, <1>2, BatchFields
 <2>3. \A i \in 1..(Len(s) + 1) : m < inArena[u[i]].data.no
  <3>1. \A i \in 1..(Len(s) + 1) : i \in 1..Len(s) \/ i = Len(s) + 1
   BY <1>6
  <3>2. \A i \in 1..Len(s) : m < inArena[s[i]].data.no
   BY <1>5, <1>6 DEF Past
  <3>3. m < inArena[t].data.no
   BY <2>2 DEF Past
  <3> QED BY <1>8, <3>1, <3>2, <3>3
 <2> QED BY <1>8, <1>10, <1>14, <2>1, <2>3 DEF Past
<1> QED BY <1>14, <1>15, <1>20, <1>21, <1>22

\* A lookup changes what is known of the slot at hand only.
LEMMA LookedUp ==
    ASSUME BatchTypes, ArenaInv, RunInv, QueueInv, LookUp
    PROVE  /\ batch' \in BatchRecords
           /\ ArenaInv' /\ RunInv' /\ QueueInv' /\ Past \subseteq Past'
<1>1. batch.at \in 1..batch.filled
 BY BatchFields DEF LookUp
<1>2. Here \in Senders
 BY <1>1, SlotSource DEF Here
<1>3. PICK g : g = flow[Here]
 OBVIOUS
<1>4. g \in {"vacant", "pending", "live"}
 BY <1>2, <1>3 DEF BatchTypes
<1>5. batch' = [batch EXCEPT !.got = g]
 BY <1>3 DEF LookUp
<1>6. /\ batch' \in BatchRecords /\ batch'.filled = batch.filled /\ batch'.at = batch.at
      /\ batch'.got = g /\ batch'.run = batch.run
 BY <1>4, <1>5, BatchFields DEF BatchRecords
<1>7. UNCHANGED <<batched, arriving, inArena, numbers>>
 BY DEF LookUp
<1>8. batched
 <2>1. IdleBatch.filled = 0 /\ IdleBatch.at = 1
  BY DEF IdleBatch
 <2> QED BY <1>1, <2>1 DEF RunInv, BatchTypes
<1>9. ArenaInv' /\ QueueInv' /\ Past \subseteq Past'
 BY <1>6, <1>7 DEF ArenaInv, QueueInv, Past
<1>10. RunInv'
 BY <1>1, <1>6, <1>7, <1>8, BatchFields DEF RunInv, Rising
<1> QED BY <1>6, <1>9, <1>10

\* The batch is over; the next one finds nothing of it.
LEMMA BatchLeft ==
    ASSUME BatchTypes, ArenaInv, RunInv, QueueInv, BatchDone
    PROVE  /\ batch' \in BatchRecords
           /\ ArenaInv' /\ RunInv' /\ QueueInv' /\ Past \subseteq Past'
<1>1. /\ batch' = IdleBatch /\ UNCHANGED <<batched, arriving, inArena, numbers>>
      /\ batch'.filled = 0 /\ batch'.at = 1 /\ batch'.got = "none" /\ batch'.run = NoRun
 BY DEF BatchDone, IdleBatch
<1>2. batch' \in BatchRecords /\ DOMAIN batch'.run.slots = {} /\ batch'.run.slots = <<>>
 BY <1>1, BatchFields, BatchAssumption DEF BatchRecords, IdleBatch
<1>3. ArenaInv' /\ RunInv' /\ QueueInv'
 <2>1. 1..0 = {}
  OBVIOUS
 <2>2. ArenaInv'
  BY <1>1, <2>1 DEF ArenaInv
 <2>3. QueueInv'
  BY <1>1, <2>1 DEF QueueInv
 <2>4. RunInv'
  BY <1>1, <1>2 DEF RunInv, Rising
 <2> QED BY <2>2, <2>3, <2>4
<1>4. Past \subseteq Past'
 <2>1. 1..0 = {}
  OBVIOUS
 <2> QED BY <1>1, <1>2, <2>1 DEF Past
<1> QED BY <1>2, <1>3, <1>4

\* recvmmsg: the first datagrams of the socket are the batch, the others came
\* after them.
LEMMA BatchReceived ==
    ASSUME BatchTypes, ArenaInv, RunInv, QueueInv, NEW n, n \in 1..BatchSize, RecvBatch(n)
    PROVE  /\ batch' \in BatchRecords /\ arriving' \in Seq(Dgrams)
           /\ ArenaInv' /\ RunInv' /\ QueueInv' /\ Past \subseteq Past'
<1>1. PICK a : a = arriving
 OBVIOUS
<1>2. a \in Seq(Dgrams) /\ Len(a) \in Nat /\ DOMAIN a = 1..Len(a)
 BY <1>1, LenProperties DEF BatchTypes
<1>3. n \in Nat /\ n >= 1 /\ n <= BatchSize /\ n <= Len(a) /\ BatchSize \in Nat
 BY <1>1, <1>2, BatchAssumption DEF RecvBatch, Taken
<1>4. PICK f : f = SubSeq(a, 1, n)
 OBVIOUS
<1>5. f \in Seq(Dgrams) /\ Len(f) = n /\ \A i \in 1..n : f[i] = a[i]
 <2>1. 1 \in 1..(Len(a) + 1) /\ n \in 0..Len(a) /\ 1 <= n + 1
  BY <1>2, <1>3
 <2>2. /\ SubSeq(a, 1, n) \in Seq(Dgrams) /\ Len(SubSeq(a, 1, n)) = n - 1 + 1
       /\ \A i \in 1..(n - 1 + 1) : SubSeq(a, 1, n)[i] = a[i + 1 - 1]
  BY <1>2, <2>1, Piece
 <2> QED BY <1>2, <1>3, <1>4, <2>2
<1>6. PICK g : g = DropFirst(a, n)
 OBVIOUS
<1>7. /\ g \in Seq(Dgrams) /\ DOMAIN g = 1..(Len(a) - n)
      /\ \A i \in 1..(Len(a) - n) : i + n \in DOMAIN a /\ g[i] = a[i + n]
 <2>1. n + 1 \in 1..(Len(a) + 1) /\ Len(a) \in 0..Len(a) /\ n + 1 <= Len(a) + 1
  BY <1>2, <1>3
 <2>2. /\ SubSeq(a, n + 1, Len(a)) \in Seq(Dgrams)
       /\ DOMAIN SubSeq(a, n + 1, Len(a)) = 1..(Len(a) - (n + 1) + 1)
       /\ \A i \in 1..(Len(a) - (n + 1) + 1) :
              i + (n + 1) - 1 \in DOMAIN a /\ SubSeq(a, n + 1, Len(a))[i] = a[i + (n + 1) - 1]
  BY <1>2, <2>1, Piece
 <2> QED BY <1>2, <1>3, <1>6, <2>2 DEF DropFirst
<1>8. /\ arriving' = g /\ UNCHANGED <<batched, numbers>> /\ batched
      /\ inArena' = Filled(inArena, f) /\ batch' = [IdleBatch EXCEPT !.filled = n]
      /\ batch = IdleBatch
 BY <1>1, <1>4, <1>6 DEF RecvBatch
<1>9. batch' = [filled |-> n, at |-> 1, got |-> "none", run |-> NoRun]
 BY <1>8 DEF IdleBatch
<1>10. /\ batch'.filled = n /\ batch'.at = 1 /\ batch'.got = "none" /\ batch'.run = NoRun
       /\ batch' \in BatchRecords /\ DOMAIN batch'.run.slots = {} /\ batch'.run.slots = <<>>
 BY <1>3, <1>9, BatchFields DEF BatchRecords
<1>11. \A i \in 1..n : inArena'[i].data = a[i] /\ inArena'[i].addr = Encoded(a[i].of)
 BY <1>3, <1>5, <1>8 DEF Filled
<1>12. \A i \in 1..n : i \in DOMAIN a /\ a[i] \in Dgrams
 BY <1>2, <1>3
<1>13. \A i \in DOMAIN a : ~a[i].cold /\ a[i].no <= numbers.in
 BY <1>1 DEF QueueInv
<1>14. \A i, j \in DOMAIN a : i < j => a[i].no < a[j].no
 BY <1>1 DEF QueueInv, Ascending
<1>15. ArenaInv'
 <2>1. \A i, j \in 1..n : i < j => inArena'[i].data.no < inArena'[j].data.no
  BY <1>11, <1>12, <1>14
 <2>2. \A i \in 1..n : /\ inArena'[i].data \in Dgrams /\ ~inArena'[i].data.cold
                      /\ inArena'[i].addr = Encoded(inArena'[i].data.of)
  BY <1>11, <1>12, <1>13
 <2> QED BY <1>10, <2>1, <2>2 DEF ArenaInv
<1>16. RunInv'
 BY <1>3, <1>8, <1>10 DEF RunInv, Rising
<1>17. Ascending(arriving)'
 <2>1. \A i, j \in 1..(Len(a) - n) : i < j => i + n < j + n
  BY <1>2, <1>3
 <2>2. \A i, j \in 1..(Len(a) - n) : i < j => g[i].no < g[j].no
  BY <1>7, <1>14, <2>1
 <2> QED BY <1>7, <1>8, <2>2 DEF Ascending
<1>18. \A i \in 1..n : \A j \in 1..(Len(a) - n) : a[i].no < g[j].no
 <2>1. \A i \in 1..n : \A j \in 1..(Len(a) - n) : i < j + n
  BY <1>2, <1>3
 <2> QED BY <1>7, <1>12, <1>14, <2>1
<1>19. QueueInv'
 BY <1>7, <1>8, <1>10, <1>11, <1>12, <1>13, <1>17, <1>18 DEF QueueInv
<1>20. ASSUME NEW m \in Past PROVE m \in Past'
 <2>1. \A j \in DOMAIN a : m < a[j].no
  BY <1>1 DEF Past
 <2>2. m \in 0..numbers.in
  BY DEF Past
 <2> QED BY <1>7, <1>8, <1>10, <1>11, <1>12, <2>1, <2>2 DEF Past
<1> QED BY <1>7, <1>8, <1>10, <1>15, <1>16, <1>19, <1>20

\* A new datagram is behind all others.
LEMMA DatagramQueued ==
    ASSUME BatchTypes, ArenaInv, RunInv, QueueInv, NEW a, a \in Senders, ClientSends(a)
    PROVE  /\ numbers' \in [in : Nat, out : Nat] /\ numbers'.out = numbers.out
           /\ arriving' \in Seq(Dgrams)
           /\ ArenaInv' /\ RunInv' /\ QueueInv' /\ Past \subseteq Past'
<1>1. PICK s : s = arriving
 OBVIOUS
<1>2. s \in Seq(Dgrams) /\ Len(s) \in Nat /\ DOMAIN s = 1..Len(s)
 BY <1>1, LenProperties DEF BatchTypes
<1>3. PICK n : n = numbers.in + 1
 OBVIOUS
<1>4. numbers \in [in : Nat, out : Nat]
 BY DEF BatchTypes
<1>5. n \in Nat /\ numbers.in < n /\ numbers.in \in Nat
 BY <1>3, <1>4
<1>6. numbers' = [numbers EXCEPT !.in = n]
 BY <1>3 DEF ClientSends
<1>7. numbers' \in [in : Nat, out : Nat] /\ numbers'.out = numbers.out /\ numbers'.in = n
 BY <1>4, <1>5, <1>6
<1>8. PICK d : d = Datagram(a, n)
 OBVIOUS
<1>9. d \in Dgrams /\ d.no = n /\ ~d.cold
 BY <1>5, <1>8 DEF Datagram, Dgrams
<1>10. PICK u : u = Append(s, d)
 OBVIOUS
<1>11. u \in Seq(Dgrams) /\ Len(u) = Len(s) + 1 /\ u[Len(s) + 1] = d /\ \A i \in 1..Len(s) : u[i] = s[i]
 BY <1>2, <1>9, <1>10, AppendProperties
<1>12. DOMAIN u = 1..(Len(s) + 1)
 BY <1>11, LenProperties
<1>13. arriving' = u /\ UNCHANGED <<batched, inArena, batch>>
 BY <1>1, <1>3, <1>8, <1>10 DEF ClientSends
<1>14. \A i \in 1..(Len(s) + 1) : i \in 1..Len(s) \/ i = Len(s) + 1
 BY <1>2
<1>15. ArenaInv' /\ RunInv'
 BY <1>13 DEF ArenaInv, RunInv, Rising
<1>16. \A i \in 1..Len(s) : ~s[i].cold /\ s[i].no <= numbers.in /\ s[i].no \in Nat
 <2>1. \A i \in 1..Len(s) : s[i] \in Dgrams
  BY <1>2
 <2> QED BY <1>1, <1>2, <2>1 DEF QueueInv, Dgrams
<1>17. \A i \in 1..Len(s) : s[i].no < n
 BY <1>5, <1>16
<1>18. Ascending(arriving)'
 <2>1. \A i, j \in 1..Len(s) : i < j => s[i].no < s[j].no
  BY <1>1, <1>2 DEF QueueInv, Ascending
 <2>2. ASSUME NEW i \in 1..(Len(s) + 1), NEW j \in 1..(Len(s) + 1), i < j PROVE u[i].no < u[j].no
  <3>1. i \in 1..Len(s)
   BY <1>2, <2>2
  <3>2. CASE j \in 1..Len(s)
   BY <1>11, <2>1, <2>2, <3>1, <3>2
  <3>3. CASE j = Len(s) + 1
   BY <1>9, <1>11, <1>17, <3>1, <3>3
  <3> QED BY <1>14, <3>2, <3>3
 <2> QED BY <1>12, <1>13, <2>2 DEF Ascending
<1>19. \A i \in 1..(Len(s) + 1) : ~u[i].cold /\ u[i].no <= n
 BY <1>5, <1>9, <1>11, <1>14, <1>16, <1>17
<1>20. \A i \in 1..batch.filled : inArena[i].data.no \in Nat
 BY DEF ArenaInv, Dgrams
<1>21. \A i \in 1..batch.filled : inArena[i].data.no < n
 BY <1>5, <1>20 DEF QueueInv
<1>22. \A i \in 1..batch.filled : \A j \in 1..(Len(s) + 1) : inArena[i].data.no < u[j].no
 <2>1. \A i \in 1..batch.filled : \A j \in 1..Len(s) : inArena[i].data.no < s[j].no
  BY <1>1, <1>2 DEF QueueInv
 <2> QED BY <1>9, <1>11, <1>14, <1>21, <2>1
<1>23. \A i \in 1..batch.filled : inArena[i].data.no <= n
 BY <1>5, <1>20, <1>21
<1>24. QueueInv'
 BY <1>7, <1>12, <1>13, <1>18, <1>19, <1>22, <1>23 DEF QueueInv
<1>25. ASSUME NEW m \in Past PROVE m \in Past'
 <2>1. m \in 0..numbers.in
  BY DEF Past
 <2>2. m \in 0..n /\ m < n
  BY <1>5, <2>1
 <2>3. \A j \in 1..Len(s) : m < s[j].no
  BY <1>1, <1>2 DEF Past
 <2>4. \A j \in 1..(Len(s) + 1) : m < u[j].no
  BY <1>9, <1>11, <1>14, <2>2, <2>3
 <2>5. /\ \A i \in batch.at..batch.filled : m < inArena[i].data.no
       /\ \A i \in DOMAIN batch.run.slots : m < inArena[batch.run.slots[i]].data.no
  BY DEF Past
 <2> QED BY <1>7, <1>12, <1>13, <2>2, <2>4, <2>5 DEF Past
<1> QED BY <1>7, <1>11, <1>13, <1>15, <1>24, <1>25

\* One datagram is taken from the socket: the first, and it is past now.
LEMMA HeadReceived ==
    ASSUME BatchTypes, ArenaInv, RunInv, QueueInv, ~batched, arriving # <<>>,
           arriving' = Tail(arriving), UNCHANGED <<batched, batch, inArena, numbers>>
    PROVE  /\ Head(arriving) \in Dgrams /\ ~Head(arriving).cold
           /\ \A m \in Past : m < Head(arriving).no
           /\ arriving' \in Seq(Dgrams)
           /\ ArenaInv' /\ RunInv' /\ QueueInv' /\ Past \subseteq Past'
           /\ Head(arriving).no \in Past'
<1>1. PICK a : a = arriving
 OBVIOUS
<1>2. a \in Seq(Dgrams) /\ Len(a) \in Nat /\ DOMAIN a = 1..Len(a) /\ a # <<>>
 BY <1>1, LenProperties DEF BatchTypes
<1>3. Len(a) >= 1
 BY <1>2, EmptySeq
<1>4. PICK d : d = Head(arriving)
 OBVIOUS
<1>5. d = a[1] /\ 1 \in DOMAIN a /\ d \in Dgrams
 BY <1>1, <1>2, <1>3, <1>4
<1>6. PICK g : g = Tail(a)
 OBVIOUS
<1>7. /\ g \in Seq(Dgrams) /\ Len(g) = Len(a) - 1
      /\ \A i \in 1..Len(g) : g[i] = a[i + 1]
 BY <1>2, <1>6, HeadTailProperties
<1>8. DOMAIN g = 1..(Len(a) - 1) /\ \A i \in 1..(Len(a) - 1) : i + 1 \in DOMAIN a /\ g[i] = a[i + 1]
 BY <1>2, <1>3, <1>7, LenProperties
<1>9. \A i \in DOMAIN a : ~a[i].cold /\ a[i].no <= numbers.in
 BY <1>1 DEF QueueInv
<1>10. \A i, j \in DOMAIN a : i < j => a[i].no < a[j].no
 BY <1>1 DEF QueueInv, Ascending
<1>11. batch.filled = 0 /\ batch.at = 1 /\ batch.run = NoRun /\ DOMAIN batch.run.slots = {}
 BY BatchFields DEF RunInv, IdleBatch
<1>12. arriving' = g
 BY <1>1, <1>6
<1>13. ArenaInv' /\ RunInv'
 BY DEF ArenaInv, RunInv, Rising
<1>14. QueueInv'
 <2>1. \A i, j \in 1..(Len(a) - 1) : i < j => i + 1 < j + 1
  BY <1>2
 <2>2. Ascending(arriving)'
  BY <1>8, <1>10, <1>12, <2>1 DEF Ascending
 <2>3. 1..batch.filled = {}
  BY <1>11
 <2> QED BY <1>8, <1>9, <1>12, <2>2, <2>3 DEF QueueInv
<1>15. Past \subseteq Past'
 BY <1>1, <1>8, <1>12 DEF Past
<1>16. \A m \in Past : m < d.no
 BY <1>1, <1>5 DEF Past
<1>17. d.no \in Past'
 <2>1. numbers.in \in Nat /\ d.no \in Nat /\ d.no <= numbers.in
  BY <1>5, <1>9 DEF BatchTypes, Dgrams
 <2>2. \A j \in 1..(Len(a) - 1) : d.no < g[j].no
  <3>1. \A j \in 1..(Len(a) - 1) : 1 < j + 1
   BY <1>2
  <3> QED BY <1>5, <1>8, <1>10, <3>1
 <2>3. batch.at..batch.filled = {}
  BY <1>11
 <2> QED BY <1>8, <1>11, <1>12, <2>1, <2>2, <2>3 DEF Past
<1> QED BY <1>4, <1>5, <1>7, <1>9, <1>12, <1>13, <1>14, <1>15, <1>16, <1>17

----
(* Flows and cold paths *)

\* A flow that is lost takes its waiting replies with it.
LEMMA FlowsLost ==
    ASSUME BatchTypes, ReplyInv, NEW k, k \in Senders, UNCHANGED <<clients, numbers>>,
           Evicted(k) \/ UNCHANGED <<flow, replies>>
    PROVE  /\ flow' \in [Senders -> {"vacant", "pending", "live"}]
           /\ replies' \in [Senders -> Seq(Dgrams)] /\ ReplyInv'
<1>1. flow \in [Senders -> {"vacant", "pending", "live"}] /\ replies \in [Senders -> Seq(Dgrams)]
 BY DEF BatchTypes
<1>2. CASE UNCHANGED <<flow, replies>>
 BY <1>1, <1>2 DEF ReplyInv
<1>3. CASE Evicted(k)
 <2>1. /\ flow' = [flow EXCEPT ![k] = "vacant"]
       /\ replies' = [replies EXCEPT ![k] = <<>>]
  BY <1>3 DEF Evicted
 <2>2. PICK e : e = <<>>
  OBVIOUS
 <2>3. e \in Seq(Dgrams) /\ DOMAIN e = {}
  BY <2>2
 <2>4. replies' \in [Senders -> Seq(Dgrams)] /\ replies'[k] = e
       /\ \A q \in Senders : q # k => replies'[q] = replies[q]
  BY <1>1, <2>1, <2>2, <2>3
 <2>5. ReplyInv'
  <3> SUFFICES ASSUME NEW q \in Senders
               PROVE  /\ Ascending(replies'[q])
                      /\ \A i \in DOMAIN replies'[q] :
                             /\ replies'[q][i].of = q /\ replies'[q][i].no <= numbers.out
                             /\ \A j \in DOMAIN clients[q] : clients[q][j].no < replies'[q][i].no
                      /\ \A j \in DOMAIN clients[q] : clients[q][j].no <= numbers.out
   BY DEF ReplyInv
  <3>1. CASE q = k
   BY <2>3, <2>4, <3>1 DEF Ascending, ReplyInv
  <3>2. CASE q # k
   BY <2>4, <3>2 DEF ReplyInv
  <3> QED BY <3>1, <3>2
 <2> QED BY <1>1, <2>1, <2>4, <2>5
<1> QED BY <1>2, <1>3

\* An error of a send costs the flow, or nothing.
LEMMA MaybeIs ==
    ASSUME NEW k, MaybeEvicted(k) PROVE Evicted(k) \/ UNCHANGED <<flow, replies>>
  BY DEF MaybeEvicted

\* handle_datagram with a datagram that waited.
LEMMA Handled ==
    ASSUME BatchTypes, PastInv, SentInOrder, TalliedAsSent, ReplyInv,
           NEW k, k \in Senders, NEW d, d \in Dgrams, d.of = k, ~d.cold,
           \A m \in Past : m < d.no, Past \subseteq Past', d.no \in Past',
           HandleDatagram(k, d), UNCHANGED <<clients, numbers>>
    PROVE  /\ flow' \in [Senders -> {"vacant", "pending", "live"}]
           /\ replies' \in [Senders -> Seq(Dgrams)]
           /\ upstream' \in [Senders -> Seq(Dgrams)]
           /\ tallied' \in [in : [Senders -> Nat], out : [Senders -> Nat]]
           /\ coldPaths' \subseteq [first : Dgrams, live : BOOLEAN]
           /\ SentInOrder' /\ PastInv' /\ TalliedAsSent' /\ ReplyInv'
<1>1. /\ flow \in [Senders -> {"vacant", "pending", "live"}] /\ replies \in [Senders -> Seq(Dgrams)]
      /\ upstream \in [Senders -> Seq(Dgrams)]
      /\ tallied \in [in : [Senders -> Nat], out : [Senders -> Nat]]
      /\ coldPaths \subseteq [first : Dgrams, live : BOOLEAN]
 BY DEF BatchTypes
<1>2. CASE SentUp(k, <<d>>) /\ UNCHANGED <<flow, replies>> /\ UNCHANGED coldPaths
 <2>1. PICK ds : ds = <<d>>
  OBVIOUS
 <2>2. ds \in Seq(Dgrams) /\ DOMAIN ds = 1..1 /\ ds[1] = d
  BY <2>1
 <2>3. Ascending(ds) /\ (\A j \in DOMAIN ds : ds[j].of = k)
       /\ (\A m \in Past : \A j \in DOMAIN ds : m < ds[j].no)
       /\ (\A j \in DOMAIN ds : ds[j].no \in Past')
  BY <2>2 DEF Ascending
 <2>4. SentUp(k, ds) /\ UNCHANGED <<clients, coldPaths>>
  BY <1>2, <2>1
 <2>5. /\ upstream' \in [Senders -> Seq(Dgrams)]
       /\ tallied' \in [in : [Senders -> Nat], out : [Senders -> Nat]]
       /\ SentInOrder' /\ PastInv' /\ TalliedAsSent'
  BY <2>2, <2>3, <2>4, WaitingSent
 <2>6. ReplyInv' /\ flow' = flow /\ replies' = replies /\ coldPaths' = coldPaths
  BY <1>2, FlowsLost
 <2> QED BY <1>1, <2>5, <2>6
<1>3. CASE MaybeEvicted(k) /\ UNCHANGED <<upstream, tallied>> /\ UNCHANGED coldPaths
 <2>1. SentInOrder' /\ PastInv'
  BY <1>3, NothingSent
 <2>2. /\ flow' \in [Senders -> {"vacant", "pending", "live"}]
       /\ replies' \in [Senders -> Seq(Dgrams)] /\ ReplyInv'
  BY <1>3, MaybeIs, FlowsLost
 <2>3. TalliedAsSent'
  BY <1>3 DEF TalliedAsSent
 <2> QED BY <1>1, <1>3, <2>1, <2>2, <2>3
<1>4. CASE UNCHANGED <<flow, coldPaths, upstream, tallied, replies>>
 <2>1. SentInOrder' /\ PastInv'
  BY <1>4, NothingSent
 <2>2. ReplyInv'
  BY <1>4, FlowsLost
 <2>3. TalliedAsSent'
  BY <1>4 DEF TalliedAsSent
 <2> QED BY <1>1, <1>4, <2>1, <2>2, <2>3
<1>5. CASE /\ flow' = [flow EXCEPT ![k] = "pending"]
           /\ coldPaths' = coldPaths \cup {[first |-> [d EXCEPT !.cold = TRUE], live |-> FALSE]}
           /\ UNCHANGED <<upstream, tallied, replies>>
 <2>1. PICK e : e = [d EXCEPT !.cold = TRUE]
  OBVIOUS
 <2>2. e \in Dgrams /\ e.no = d.no /\ e.cold
  BY <2>1 DEF Dgrams
 <2>3. PICK c : c = [first |-> e, live |-> FALSE]
  OBVIOUS
 <2>4. c \in [first : Dgrams, live : BOOLEAN] /\ c.first = e /\ c.first.no = d.no /\ c.first.cold
  BY <2>2, <2>3
 <2>5. coldPaths' = coldPaths \cup {c}
  BY <1>5, <2>1, <2>3
 <2>6. d.no \in Nat
  BY DEF Dgrams
 <2>7. \A q \in Senders : \A i \in DOMAIN upstream[q] :
           upstream[q][i].no \in Past /\ upstream[q][i].no # d.no
  BY <2>6 DEF PastInv, Past
 <2>8. \A x \in coldPaths : x.first.no \in Past /\ x.first.no # d.no
  BY <2>6 DEF PastInv, Past
 <2>9. PastInv'
  <3>1. \A q \in Senders : \A i \in DOMAIN upstream[q] : upstream[q][i].no \in Past'
   BY <2>7
  <3>2. \A x \in coldPaths \cup {c} :
            /\ x.first.no \in Past' /\ x.first.cold
            /\ \A q \in Senders : \A i \in DOMAIN upstream[q] : upstream[q][i].no # x.first.no
            /\ \A y \in coldPaths \cup {c} : x.first.no = y.first.no => x = y
   <4>1. ASSUME NEW x \in coldPaths
         PROVE  /\ x.first.no \in Past' /\ x.first.cold
                /\ \A q \in Senders : \A i \in DOMAIN upstream[q] : upstream[q][i].no # x.first.no
                /\ \A y \in coldPaths \cup {c} : x.first.no = y.first.no => x = y
    BY <2>4, <2>8 DEF PastInv
   <4>2. /\ c.first.no \in Past' /\ c.first.cold
         /\ \A q \in Senders : \A i \in DOMAIN upstream[q] : upstream[q][i].no # c.first.no
         /\ \A y \in coldPaths \cup {c} : c.first.no = y.first.no => c = y
    BY <2>4, <2>7, <2>8
   <4> QED BY <4>1, <4>2
  <3> QED BY <1>5, <2>5, <3>1, <3>2 DEF PastInv
 <2>10. SentInOrder' /\ TalliedAsSent' /\ ReplyInv'
  BY <1>5 DEF SentInOrder, TalliedAsSent, ReplyInv
 <2> QED BY <1>1, <1>5, <2>4, <2>5, <2>9, <2>10
<1> QED BY <1>2, <1>3, <1>4, <1>5 DEF HandleDatagram

\* What a step that leaves the batch, the sockets and the numbers alone keeps.
LEMMA ListenerIdle ==
    ASSUME BatchTypes, ArenaInv, RunInv, QueueInv, OutInv,
           UNCHANGED <<batched, arriving, inArena, outArena, batch, numbers>>
    PROVE  ArenaInv' /\ RunInv' /\ QueueInv' /\ OutInv' /\ Past' = Past
  BY DEF ArenaInv, RunInv, QueueInv, OutInv, Past, Rising, Ascending

\* A cold path that commits, or gives up.
LEMMA ColdCommitted ==
    ASSUME BatchInv, NEW c, c \in coldPaths, ColdCommits(c) PROVE BatchInv'
<1>1. c \in [first : Dgrams, live : BOOLEAN] /\ coldPaths \subseteq [first : Dgrams, live : BOOLEAN]
 BY DEF BatchInv, BatchTypes
<1>2. /\ ArenaInv' /\ RunInv' /\ QueueInv' /\ OutInv' /\ Past' = Past
 BY ListenerIdle DEF ColdCommits, BatchInv
<1>3. flow' \in [Senders -> {"vacant", "pending", "live"}]
 <2>1. flow \in [Senders -> {"vacant", "pending", "live"}] /\ c.first.of \in Senders
  BY <1>1 DEF BatchInv, BatchTypes, Dgrams
 <2> QED BY <2>1 DEF ColdCommits
<1>4. UNCHANGED <<upstream, replies, clients, tallied, numbers, batched, arriving, batch>>
 BY DEF ColdCommits
<1>5. SentInOrder' /\ RepliedInOrder' /\ TalliedAsSent' /\ ReplyInv'
 BY <1>4 DEF BatchInv, SentInOrder, RepliedInOrder, TalliedAsSent, ReplyInv
<1>6. PICK e : e = [c EXCEPT !.live = TRUE]
 OBVIOUS
<1>7. e \in [first : Dgrams, live : BOOLEAN] /\ e.first = c.first
 BY <1>1, <1>6
<1>8. coldPaths' \subseteq (coldPaths \ {c}) \cup {e}
 BY <1>6 DEF ColdCommits
<1>9. coldPaths' \subseteq [first : Dgrams, live : BOOLEAN]
 BY <1>1, <1>7, <1>8
<1>10. PastInv
 BY DEF BatchInv
<1>11. \A x \in (coldPaths \ {c}) \cup {e} :
           /\ x.first.no \in Past /\ x.first.cold
           /\ \A q \in Senders : \A i \in DOMAIN upstream[q] : upstream[q][i].no # x.first.no
           /\ \A y \in (coldPaths \ {c}) \cup {e} : x.first.no = y.first.no => x = y
 BY <1>7, <1>10 DEF PastInv
<1>12. PastInv'
 BY <1>2, <1>4, <1>8, <1>10, <1>11 DEF PastInv
<1>13. BatchTypes'
 BY <1>3, <1>4, <1>9 DEF BatchInv, BatchTypes
<1> QED BY <1>2, <1>5, <1>12, <1>13 DEF BatchInv

\* A cold path's first datagram goes out, or the flow is lost.
LEMMA ColdSent ==
    ASSUME BatchInv, NEW c, c \in coldPaths, ColdSends(c) PROVE BatchInv'
<1>1. c \in [first : Dgrams, live : BOOLEAN] /\ coldPaths \subseteq [first : Dgrams, live : BOOLEAN]
 BY DEF BatchInv, BatchTypes
<1>2. PICK d : d = c.first
 OBVIOUS
<1>3. PICK k : k = d.of
 OBVIOUS
<1>4. d \in Dgrams /\ k \in Senders /\ d.no \in Nat
 BY <1>1, <1>2, <1>3 DEF Dgrams
<1>5. BatchTypes /\ PastInv /\ SentInOrder /\ TalliedAsSent /\ ReplyInv
 BY DEF BatchInv
<1>6. /\ coldPaths' = coldPaths \ {c}
      /\ UNCHANGED <<batched, arriving, inArena, outArena, batch, clients, numbers>>
 BY DEF ColdSends
<1>7. ArenaInv' /\ RunInv' /\ QueueInv' /\ OutInv' /\ Past' = Past
 BY <1>6, ListenerIdle DEF BatchInv
<1>8. RepliedInOrder'
 BY <1>6 DEF BatchInv, RepliedInOrder, Ascending
<1>9. /\ d.no \in Past /\ d.cold
      /\ \A q \in Senders : \A i \in DOMAIN upstream[q] : upstream[q][i].no # d.no
      /\ \A x \in coldPaths \ {c} : x.first.no # d.no
 BY <1>2, <1>5 DEF PastInv
<1>10. CASE SentUp(k, <<d>>) /\ UNCHANGED <<flow, replies>>
 <2>1. <<d>> \in Seq(Dgrams)
  BY <1>4
 <2>2. /\ upstream' \in [Senders -> Seq(Dgrams)]
       /\ tallied' \in [in : [Senders -> Nat], out : [Senders -> Nat]]
       /\ TalliedAsSent'
       /\ upstream'[k] = upstream[k] \o <<d>>
       /\ \A q \in Senders : q # k => upstream'[q] = upstream[q]
  BY <1>4, <1>5, <1>6, <1>10, <2>1, SentUpIs
 <2>3. SentInOrder'
  <3>1. \A i \in DOMAIN upstream[k] : upstream[k][i].no # d.no
   BY <1>4, <1>9
  <3>2. d.of = k /\ d.cold
   BY <1>3, <1>9
  <3>3. k \in Senders
   BY <1>4
  <3>4. d \in Dgrams
   BY <1>4
  <3>5. upstream'[k] = upstream[k] \o <<d>>
   BY <2>2
  <3>6. \A q \in Senders : q # k => upstream'[q] = upstream[q]
   BY <2>2
  <3>7. BatchTypes
   BY <1>5
  <3>8. SentInOrder
   BY <1>5
  <3> QED BY ONLY <3>1, <3>2, <3>3, <3>4, <3>5, <3>6, <3>7, <3>8, SentCold
 <2>4. \A q \in Senders : \A i \in DOMAIN upstream'[q] :
           \/ i \in DOMAIN upstream[q] /\ upstream'[q][i] = upstream[q][i]
           \/ upstream'[q][i] = d
  <3>1. PICK ds : ds = <<d>>
   OBVIOUS
  <3>2. ds \in Seq(Dgrams) /\ upstream'[k] = upstream[k] \o ds /\ \A j \in DOMAIN ds : ds[j] = d
   BY <2>1, <2>2, <3>1
  <3>3. \A q \in Senders : q # k => upstream'[q] = upstream[q]
   BY <2>2
  <3>4. \A q \in Senders : \A i \in DOMAIN upstream'[q] :
            \/ i \in DOMAIN upstream[q] /\ upstream'[q][i] = upstream[q][i]
            \/ /\ q = k /\ i > Len(upstream[k])
               /\ \E j \in DOMAIN ds : j = i - Len(upstream[k]) /\ upstream'[q][i] = ds[j]
   <4>1. k \in Senders
    BY <1>4
   <4>2. ds \in Seq(Dgrams)
    BY <3>2
   <4>3. upstream'[k] = upstream[k] \o ds
    BY <3>2
   <4>4. BatchTypes
    BY <1>5
   <4> QED BY ONLY <3>3, <4>1, <4>2, <4>3, <4>4, SentUpElements
  <3> QED BY <3>2, <3>4
 <2> USE <1>5
 <2>5. \A q \in Senders : \A i \in DOMAIN upstream'[q] : upstream'[q][i].no \in Past
  BY <1>9, <2>4 DEF PastInv
 <2>6. \A x \in coldPaths \ {c} : \A q \in Senders : \A i \in DOMAIN upstream'[q] :
           upstream'[q][i].no # x.first.no
  BY <1>9, <2>4 DEF PastInv
 <2>7. PastInv'
  BY <1>6, <1>7, <2>5, <2>6 DEF PastInv
 <2>8. ReplyInv' /\ flow' = flow /\ replies' = replies
  BY <1>4, <1>6, <1>10, FlowsLost
 <2>9. BatchTypes'
  BY <1>1, <1>6, <2>2, <2>8 DEF BatchTypes
 <2> QED BY <1>7, <1>8, <2>2, <2>3, <2>7, <2>8, <2>9 DEF BatchInv
<1>11. CASE MaybeEvicted(k) /\ UNCHANGED <<upstream, tallied>>
 <2> USE <1>5, <1>6, <1>11
 <2>1. /\ flow' \in [Senders -> {"vacant", "pending", "live"}]
       /\ replies' \in [Senders -> Seq(Dgrams)] /\ ReplyInv'
  BY <1>4, MaybeIs, FlowsLost
 <2>2. SentInOrder' /\ TalliedAsSent'
  BY DEF SentInOrder, TalliedAsSent
 <2>3. PastInv'
  BY <1>7 DEF PastInv
 <2>4. BatchTypes'
  BY <1>1, <2>1 DEF BatchTypes
 <2> QED BY <1>7, <1>8, <2>1, <2>2, <2>3, <2>4 DEF BatchInv
<1> QED BY <1>2, <1>3, <1>10, <1>11 DEF ColdSends

----
(* The demux *)

\* Replies later than those the client was sent keep them in order.
LEMMA SentDownKeeps ==
    ASSUME BatchTypes, TalliedAsSent, RepliedInOrder, UNCHANGED upstream,
           NEW k, k \in Senders, NEW ds, ds \in Seq(Dgrams), SentDown(k, ds), Ascending(ds),
           \A j \in DOMAIN ds : ds[j].of = k,
           \A i \in DOMAIN clients[k] : \A j \in DOMAIN ds : clients[k][i].no < ds[j].no
    PROVE  /\ clients' \in [Senders -> Seq(Dgrams)]
           /\ tallied' \in [in : [Senders -> Nat], out : [Senders -> Nat]]
           /\ TalliedAsSent' /\ RepliedInOrder'
           /\ \A q \in Senders : q # k => clients'[q] = clients[q]
           /\ \A i \in DOMAIN clients'[k] :
                  \/ i \in DOMAIN clients[k] /\ clients'[k][i] = clients[k][i]
                  \/ \E j \in DOMAIN ds : clients'[k][i] = ds[j]
<1>1. clients \in [Senders -> Seq(Dgrams)]
 BY DEF BatchTypes
<1>2. PICK s : s = clients[k]
 OBVIOUS
<1>3. PICK u : u = s \o ds
 OBVIOUS
<1>4. s \in Seq(Dgrams)
 BY <1>1, <1>2
<1>5. /\ u \in Seq(Dgrams) /\ Len(u) = Len(s) + Len(ds)
      /\ \A i \in DOMAIN u : \/ i \in DOMAIN s /\ u[i] = s[i]
                             \/ i > Len(s) /\ i - Len(s) \in DOMAIN ds /\ u[i] = ds[i - Len(s)]
 BY <1>3, <1>4, Joined
<1>6. Len(ds) \in Nat /\ Len(s) \in Nat /\ DOMAIN s = 1..Len(s) /\ DOMAIN u \subseteq Nat
 BY <1>4, <1>5, LenProperties
<1>7. clients' = [clients EXCEPT ![k] = u]
 BY <1>2, <1>3, AddressKept DEF SentDown
<1>8. /\ clients' \in [Senders -> Seq(Dgrams)] /\ clients'[k] = u
      /\ \A q \in Senders : q # k => clients'[q] = clients[q]
 BY <1>1, <1>5, <1>7
<1>9. tallied \in [in : [Senders -> Nat], out : [Senders -> Nat]]
 BY DEF BatchTypes
<1>10. tallied' = [tallied EXCEPT !.out[k] = @ + Len(ds)]
 BY DEF SentDown
<1>11. PICK f : f = [tallied.out EXCEPT ![k] = @ + Len(ds)]
 OBVIOUS
<1>12. /\ f \in [Senders -> Nat] /\ f[k] = tallied.out[k] + Len(ds)
       /\ \A q \in Senders : q # k => f[q] = tallied.out[q]
 BY <1>6, <1>9, <1>11
<1>13. tallied' = [tallied EXCEPT !.out = f]
 BY <1>9, <1>10, <1>11
<1>14. tallied'.out = f /\ tallied'.in = tallied.in
       /\ tallied' \in [in : [Senders -> Nat], out : [Senders -> Nat]]
 BY <1>9, <1>12, <1>13
<1>15. TalliedAsSent'
 BY <1>2, <1>5, <1>8, <1>12, <1>14 DEF TalliedAsSent
<1>16. \A i \in DOMAIN s : s[i].of = k
 BY <1>2 DEF RepliedInOrder
<1>17. \A i, j \in DOMAIN s : i < j => s[i].no < s[j].no
 BY <1>2 DEF RepliedInOrder, Ascending
<1>18. \A i \in DOMAIN s : \A j \in DOMAIN ds : s[i].no < ds[j].no
 BY <1>2
<1>19. \A i \in DOMAIN u : u[i].of = k
 BY <1>5, <1>16
<1>20. ASSUME NEW i \in DOMAIN u, NEW j \in DOMAIN u, i < j PROVE u[i].no < u[j].no
 <2>1. CASE j \in DOMAIN s /\ u[j] = s[j]
  <3>1. i \in DOMAIN s /\ u[i] = s[i]
   BY <1>5, <1>6, <1>20, <2>1
  <3> QED BY <1>17, <1>20, <2>1, <3>1
 <2>2. CASE j > Len(s) /\ j - Len(s) \in DOMAIN ds /\ u[j] = ds[j - Len(s)]
  <3>1. CASE i \in DOMAIN s /\ u[i] = s[i]
   BY <1>18, <2>2, <3>1
  <3>2. CASE i > Len(s) /\ i - Len(s) \in DOMAIN ds /\ u[i] = ds[i - Len(s)]
   <4>1. i - Len(s) < j - Len(s)
    BY <1>6, <1>20
   <4> QED BY <2>2, <3>2, <4>1 DEF Ascending
  <3> QED BY <1>5, <3>1, <3>2
 <2> QED BY <1>5, <2>1, <2>2
<1>21. RepliedInOrder'
 <2>1. Ascending(u)
  BY <1>20 DEF Ascending
 <2> SUFFICES ASSUME NEW q \in Senders
              PROVE  (\A i \in DOMAIN clients'[q] : clients'[q][i].of = q) /\ Ascending(clients'[q])
  BY DEF RepliedInOrder
 <2>2. CASE q = k
  BY <1>8, <1>19, <2>1, <2>2
 <2>3. CASE q # k
  BY <1>8, <2>3 DEF RepliedInOrder
 <2> QED BY <2>2, <2>3
<1>22. \A i \in DOMAIN u : \/ i \in DOMAIN s /\ u[i] = s[i]
                           \/ \E j \in DOMAIN ds : u[i] = ds[j]
 BY <1>5
<1> QED BY <1>2, <1>8, <1>14, <1>15, <1>21, <1>22

\* The first n replies leave the queue, which g is then; some of them are for
\* the client.
Leave(k, n, g) ==
    /\ n \in 0..Len(replies[k])
    /\ g \in Seq(Dgrams) /\ DOMAIN g = 1..(Len(replies[k]) - n)
    /\ \A i \in 1..(Len(replies[k]) - n) : g[i] = replies[k][i + n]
    /\ replies' = [replies EXCEPT ![k] = g]
    /\ \A q \in Senders : q # k => clients'[q] = clients[q]
    /\ \A i \in DOMAIN clients'[k] :
           \/ i \in DOMAIN clients[k] /\ clients'[k][i] = clients[k][i]
           \/ \E j \in 1..n : clients'[k][i] = replies[k][j]

\* What is left of the queue is later than all the client was sent.
LEMMA RepliesTaken ==
    ASSUME BatchTypes, ReplyInv, UNCHANGED numbers, NEW k, k \in Senders, NEW n, NEW g, Leave(k, n, g)
    PROVE  replies' \in [Senders -> Seq(Dgrams)] /\ ReplyInv'
<1> USE DEF Leave
<1>1. replies \in [Senders -> Seq(Dgrams)]
 BY DEF BatchTypes
<1>2. PICK s : s = replies[k]
 OBVIOUS
<1>3. s \in Seq(Dgrams) /\ DOMAIN s = 1..Len(s) /\ Len(s) \in Nat /\ n \in Nat /\ n <= Len(s)
 BY <1>1, <1>2, LenProperties
<1>4. /\ replies' \in [Senders -> Seq(Dgrams)] /\ replies'[k] = g
      /\ \A q \in Senders : q # k => replies'[q] = replies[q]
 BY <1>1
<1>5. \A i \in 1..(Len(s) - n) : i + n \in 1..Len(s) /\ g[i] = s[i + n]
 BY <1>2, <1>3
<1>6. /\ \A i, j \in 1..Len(s) : i < j => s[i].no < s[j].no
      /\ \A i \in 1..Len(s) : s[i].of = k /\ s[i].no <= numbers.out
                              /\ \A j \in DOMAIN clients[k] : clients[k][j].no < s[i].no
      /\ \A j \in DOMAIN clients[k] : clients[k][j].no <= numbers.out
 BY <1>2, <1>3 DEF ReplyInv, Ascending
<1>7. Ascending(g)
 <2>1. \A i, j \in 1..(Len(s) - n) : i < j => i + n < j + n
  BY <1>3
 <2>2. \A i, j \in 1..(Len(s) - n) : i < j => g[i].no < g[j].no
  BY <1>5, <1>6, <2>1
 <2>3. DOMAIN g = 1..(Len(s) - n)
  BY <1>2
 <2> QED BY <2>2, <2>3 DEF Ascending
<1>8. \A j \in 1..n : j \in 1..Len(s)
 BY <1>3
<1>9. \A j \in 1..n : \A i \in 1..(Len(s) - n) : j < i + n
 BY <1>3
<1>10. \A j \in 1..n : \A i \in 1..(Len(s) - n) : s[j].no < g[i].no
 BY <1>5, <1>6, <1>8, <1>9
<1>11. \A i \in DOMAIN clients'[k] :
           \/ i \in DOMAIN clients[k] /\ clients'[k][i] = clients[k][i]
           \/ \E j \in 1..n : clients'[k][i] = s[j]
 BY <1>2
<1>12. \A j \in DOMAIN clients'[k] : \A i \in 1..(Len(s) - n) : clients'[k][j].no < g[i].no
 BY <1>5, <1>6, <1>10, <1>11
<1>13. \A j \in DOMAIN clients'[k] : clients'[k][j].no <= numbers.out
 BY <1>6, <1>8, <1>11
<1>14. \A i \in 1..(Len(s) - n) : g[i].of = k /\ g[i].no <= numbers.out
 BY <1>5, <1>6
<1>15. SUFFICES ASSUME NEW q \in Senders
                PROVE  /\ Ascending(replies'[q])
                       /\ \A i \in DOMAIN replies'[q] :
                              /\ replies'[q][i].of = q /\ replies'[q][i].no <= numbers.out
                              /\ \A j \in DOMAIN clients'[q] : clients'[q][j].no < replies'[q][i].no
                       /\ \A j \in DOMAIN clients'[q] : clients'[q][j].no <= numbers.out
 BY <1>4 DEF ReplyInv
<1>16. CASE q = k
 <2>1. DOMAIN g = 1..(Len(s) - n)
  BY <1>2
 <2> QED BY <1>4, <1>7, <1>12, <1>13, <1>14, <1>16, <2>1
<1>17. CASE q # k
 BY <1>4, <1>17 DEF ReplyInv
<1> QED BY <1>16, <1>17

\* recv_batch_connected overwrites the data of the slots it fills.
LEMMA ConnectedFilled ==
    ASSUME OutInv, NEW f, NEW n, n \in 1..BatchSize, f \in Seq(Dgrams), Len(f) = n,
           NEW arena, arena = FilledConnected(outArena, f)
    PROVE  Slots(arena) /\ Payloads(arena, n) = f
<1>1. n \in Nat /\ BatchSize \in Nat /\ n <= BatchSize
 BY BatchAssumption
<1>2. ASSUME NEW i \in 1..BatchSize
      PROVE  /\ \E d, e : arena[i] = [data |-> d, addr |-> e]
             /\ i <= n => arena[i].data = f[i]
 <2>1. PICK d, e : outArena[i] = [data |-> d, addr |-> e]
  BY DEF OutInv, Slots
 <2>2. CASE i <= n
  <3>1. arena[i] = [outArena[i] EXCEPT !.data = f[i]]
   BY <2>2 DEF FilledConnected
  <3>2. arena[i] = [data |-> f[i], addr |-> e]
   BY <2>1, <3>1
  <3>3. \E x, y : arena[i] = [data |-> x, addr |-> y]
   <4> WITNESS f[i], e
   <4> QED BY <3>2
  <3>4. arena[i].data = f[i]
   BY <3>2
  <3> QED BY <3>3, <3>4
 <2>3. CASE ~(i <= n)
  <3>1. arena[i] = outArena[i]
   BY <2>3 DEF FilledConnected
  <3> QED BY <2>1, <2>3, <3>1
 <2> QED BY <2>2, <2>3
<1>3. \A i \in 1..n : i \in 1..BatchSize /\ arena[i].data = f[i]
 BY <1>1, <1>2
<1>4. Payloads(arena, n) = [i \in 1..n |-> f[i]]
 BY <1>3 DEF Payloads
<1>5. f = [i \in 1..n |-> f[i]]
 BY <1>1
<1>6. Slots(arena)
 BY <1>2 DEF Slots
<1> QED BY <1>4, <1>5, <1>6

\* drain_one_flow_batched
LEMMA BatchDrained ==
    ASSUME BatchInv, NEW k, k \in Senders, NEW n, n \in 1..BatchSize, DrainBatched(k, n)
    PROVE  BatchInv'
<1>1. BatchTypes /\ OutInv /\ ReplyInv /\ RepliedInOrder /\ TalliedAsSent /\ PastInv /\ SentInOrder
      /\ ArenaInv /\ RunInv /\ QueueInv
 BY DEF BatchInv
<1>2. PICK s : s = replies[k]
 OBVIOUS
<1>3. s \in Seq(Dgrams) /\ DOMAIN s = 1..Len(s) /\ Len(s) \in Nat
 BY <1>1, <1>2, LenProperties DEF BatchTypes
<1>4. n \in Nat /\ n >= 1 /\ n <= Len(s) /\ BatchSize \in Nat
 BY <1>2, <1>3, BatchAssumption DEF DrainBatched, Taken
<1>5. PICK f : f = SubSeq(s, 1, n)
 OBVIOUS
<1>6. f \in Seq(Dgrams) /\ Len(f) = n /\ DOMAIN f = 1..n /\ \A i \in 1..n : f[i] = s[i]
 <2> USE <1>3, <1>4
 <2>1. 1 \in 1..(Len(s) + 1) /\ n \in 0..Len(s) /\ 1 <= n + 1
  OBVIOUS
 <2>2. /\ SubSeq(s, 1, n) \in Seq(Dgrams) /\ Len(SubSeq(s, 1, n)) = n - 1 + 1
       /\ \A i \in 1..(n - 1 + 1) : SubSeq(s, 1, n)[i] = s[i + 1 - 1]
  BY <2>1, Piece
 <2>3. DOMAIN SubSeq(s, 1, n) = 1..n
  BY <2>2, LenProperties
 <2> QED BY <1>5, <2>2, <2>3
<1>7. PICK g : g = DropFirst(s, n)
 OBVIOUS
<1>8. /\ g \in Seq(Dgrams) /\ DOMAIN g = 1..(Len(s) - n)
      /\ \A i \in 1..(Len(s) - n) : g[i] = s[i + n]
 <2>1. n + 1 \in 1..(Len(s) + 1) /\ Len(s) \in 0..Len(s) /\ n + 1 <= Len(s) + 1
  BY <1>3, <1>4
 <2>2. /\ SubSeq(s, n + 1, Len(s)) \in Seq(Dgrams)
       /\ DOMAIN SubSeq(s, n + 1, Len(s)) = 1..(Len(s) - (n + 1) + 1)
       /\ \A i \in 1..(Len(s) - (n + 1) + 1) :
              i + (n + 1) - 1 \in DOMAIN s /\ SubSeq(s, n + 1, Len(s))[i] = s[i + (n + 1) - 1]
  BY <1>3, <2>1, Piece
 <2> QED BY <1>3, <1>4, <1>7, <2>2 DEF DropFirst
<1>9. PICK arena : arena = FilledConnected(outArena, f)
 OBVIOUS
<1>10. Slots(arena) /\ Payloads(arena, n) = f
 <2>1. OutInv
  BY <1>1
 <2>2. f \in Seq(Dgrams)
  BY <1>6
 <2>3. Len(f) = n
  BY <1>6
 <2> QED BY ONLY n \in 1..BatchSize, <1>9, <2>1, <2>2, <2>3, ConnectedFilled
<1>11. /\ outArena' = arena /\ ForwardReplies(k, arena, n)
       /\ replies' = [replies EXCEPT ![k] = g]
       /\ UNCHANGED <<batched, arriving, inArena, batch, flow, coldPaths, upstream, numbers>>
 BY <1>2, <1>5, <1>7, <1>9 DEF DrainBatched
<1>12. Ascending(f) /\ (\A j \in 1..n : f[j].of = k)
       /\ \A i \in DOMAIN clients[k] : \A j \in 1..n : clients[k][i].no < f[j].no
 <2>1. \A j \in 1..n : j \in 1..Len(s)
  BY <1>3, <1>4
 <2>2. /\ \A i, j \in 1..Len(s) : i < j => s[i].no < s[j].no
       /\ \A i \in 1..Len(s) : s[i].of = k
       /\ \A i \in 1..Len(s) : \A j \in DOMAIN clients[k] : clients[k][j].no < s[i].no
  BY <1>1, <1>2, <1>3 DEF ReplyInv, Ascending
 <2> QED BY <1>6, <2>1, <2>2 DEF Ascending
<1>13. PICK es \in Subsequences(f) : \E sent \in 0..Len(es) : SentDown(k, SubSeq(es, 1, sent))
 BY <1>10, <1>11 DEF ForwardReplies
<1>14. PICK sent \in 0..Len(es) : SentDown(k, SubSeq(es, 1, sent))
 BY <1>13
<1>15. es \in Seq(Dgrams) /\ Ascending(es) /\ \A i \in DOMAIN es : \E j \in DOMAIN f : es[i] = f[j]
 BY <1>6, <1>12, Kept
<1>16. PICK ds : ds = SubSeq(es, 1, sent)
 OBVIOUS
<1>17. /\ ds \in Seq(Dgrams) /\ DOMAIN ds = 1..sent
       /\ \A i \in 1..sent : i \in DOMAIN es /\ ds[i] = es[i]
 <2>1. Len(es) \in Nat /\ sent \in Nat
  BY <1>15, LenProperties
 <2>2. 1 \in 1..(Len(es) + 1) /\ 1 <= sent + 1
  BY <2>1
 <2>3. /\ SubSeq(es, 1, sent) \in Seq(Dgrams)
       /\ DOMAIN SubSeq(es, 1, sent) = 1..(sent - 1 + 1)
       /\ \A i \in 1..(sent - 1 + 1) :
              i + 1 - 1 \in DOMAIN es /\ SubSeq(es, 1, sent)[i] = es[i + 1 - 1]
  BY <1>15, <2>2, Piece
 <2> QED BY <1>16, <2>1, <2>3
<1>18. /\ Ascending(ds)
       /\ \A j \in DOMAIN ds : \E i \in 1..n : ds[j] = f[i]
 <2>1. Ascending(ds)
  BY <1>15, <1>17 DEF Ascending
 <2> QED BY <1>6, <1>15, <1>17, <2>1
<1>19. /\ \A j \in DOMAIN ds : ds[j].of = k
       /\ \A i \in DOMAIN clients[k] : \A j \in DOMAIN ds : clients[k][i].no < ds[j].no
 BY <1>12, <1>18
<1>20. SentDown(k, ds) /\ UNCHANGED upstream
 BY <1>11, <1>14, <1>16
<1>21. /\ clients' \in [Senders -> Seq(Dgrams)]
       /\ tallied' \in [in : [Senders -> Nat], out : [Senders -> Nat]]
       /\ TalliedAsSent' /\ RepliedInOrder'
       /\ \A q \in Senders : q # k => clients'[q] = clients[q]
       /\ \A i \in DOMAIN clients'[k] :
              \/ i \in DOMAIN clients[k] /\ clients'[k][i] = clients[k][i]
              \/ \E j \in DOMAIN ds : clients'[k][i] = ds[j]
 <2>1. BatchTypes
  BY <1>1
 <2>2. TalliedAsSent
  BY <1>1
 <2>3. RepliedInOrder
  BY <1>1
 <2>4. ds \in Seq(Dgrams)
  BY <1>17
 <2>5. Ascending(ds)
  BY <1>18
 <2> QED BY <1>19, <1>20, <2>1, <2>2, <2>3, <2>4, <2>5, SentDownKeeps
<1>22. \A i \in DOMAIN clients'[k] :
           \/ i \in DOMAIN clients[k] /\ clients'[k][i] = clients[k][i]
           \/ \E j \in 1..n : clients'[k][i] = replies[k][j]
 <2>1. \A j \in DOMAIN ds : \E i \in 1..n : ds[j] = replies[k][i]
  BY <1>2, <1>6, <1>18
 <2>2. \A i \in DOMAIN clients'[k] :
           \/ i \in DOMAIN clients[k] /\ clients'[k][i] = clients[k][i]
           \/ \E j \in DOMAIN ds : clients'[k][i] = ds[j]
  BY <1>21
 <2> QED BY ONLY <2>1, <2>2
<1>23. replies' \in [Senders -> Seq(Dgrams)] /\ ReplyInv'
 <2>1. n \in 0..Len(replies[k])
  BY <1>2, <1>3, <1>4
 <2>2. DOMAIN g = 1..(Len(replies[k]) - n) /\ \A i \in 1..(Len(replies[k]) - n) : g[i] = replies[k][i + n]
  BY <1>2, <1>8
 <2> QED
  <3>1. BatchTypes
   BY <1>1
  <3>2. ReplyInv
   BY <1>1
  <3>3. Leave(k, n, g)
   BY <1>8, <1>11, <1>21, <1>22, <2>1, <2>2 DEF Leave
  <3>4. UNCHANGED numbers
   BY <1>11
  <3> QED BY ONLY k \in Senders, <3>1, <3>2, <3>3, <3>4, RepliesTaken
<1>24. OutInv'
 BY <1>10, <1>11 DEF OutInv
<1>25. ArenaInv' /\ RunInv' /\ QueueInv' /\ Past' = Past
 BY <1>1, <1>11 DEF ArenaInv, RunInv, QueueInv, Past, Rising, Ascending
<1>26. SentInOrder' /\ PastInv'
 BY <1>1, <1>11, <1>25, NothingSent
<1>27. BatchTypes'
 BY <1>1, <1>11, <1>21, <1>23 DEF BatchTypes
<1> QED BY <1>21, <1>23, <1>24, <1>25, <1>26, <1>27 DEF BatchInv

\* drain_one_flow, one reply: sent, or dropped.
LEMMA OneDrained ==
    ASSUME BatchInv, NEW k, k \in Senders, DrainOne(k) PROVE BatchInv'
<1>1. BatchTypes /\ OutInv /\ ReplyInv /\ RepliedInOrder /\ TalliedAsSent /\ PastInv /\ SentInOrder
      /\ ArenaInv /\ RunInv /\ QueueInv
 BY DEF BatchInv
<1>2. PICK s : s = replies[k]
 OBVIOUS
<1>3. s \in Seq(Dgrams) /\ DOMAIN s = 1..Len(s) /\ Len(s) \in Nat /\ s # <<>>
 BY <1>1, <1>2, LenProperties DEF BatchTypes, DrainOne
<1>4. Len(s) >= 1
 BY <1>3, EmptySeq
<1>5. PICK d : d = Head(s)
 OBVIOUS
<1>6. d = s[1] /\ d \in Dgrams /\ 1 \in DOMAIN s
 BY <1>3, <1>4, <1>5
<1>7. PICK g : g = Tail(s)
 OBVIOUS
<1>8. g \in Seq(Dgrams) /\ Len(g) = Len(s) - 1 /\ \A i \in 1..Len(g) : g[i] = s[i + 1]
 BY <1>3, <1>7, HeadTailProperties
<1>9. DOMAIN g = 1..(Len(s) - 1) /\ \A i \in 1..(Len(s) - 1) : g[i] = s[i + 1]
 BY <1>8, LenProperties
<1>10. /\ replies' = [replies EXCEPT ![k] = g]
       /\ SentDown(k, <<d>>) \/ UNCHANGED <<clients, tallied>>
       /\ UNCHANGED <<batched, arriving, inArena, outArena, batch, flow, coldPaths, upstream, numbers>>
 BY <1>2, <1>5, <1>7 DEF DrainOne
<1>11. /\ clients' \in [Senders -> Seq(Dgrams)]
       /\ tallied' \in [in : [Senders -> Nat], out : [Senders -> Nat]]
       /\ TalliedAsSent' /\ RepliedInOrder'
       /\ \A q \in Senders : q # k => clients'[q] = clients[q]
       /\ \A i \in DOMAIN clients'[k] :
              \/ i \in DOMAIN clients[k] /\ clients'[k][i] = clients[k][i]
              \/ clients'[k][i] = s[1]
 <2>1. CASE SentDown(k, <<d>>)
  <3>1. PICK ds : ds = <<d>>
   OBVIOUS
  <3>2. ds \in Seq(Dgrams)
   BY <1>6, <3>1
  <3>3. DOMAIN ds = 1..1 /\ ds[1] = d /\ \A j \in DOMAIN ds : ds[j] = d
   BY <3>1
  <3>4. Ascending(ds)
   BY <3>3 DEF Ascending
  <3>5. d.of = k /\ \A i \in DOMAIN clients[k] : clients[k][i].no < d.no
   BY <1>1, <1>2, <1>6 DEF ReplyInv
  <3>6. \A j \in DOMAIN ds : ds[j].of = k
   BY <3>3, <3>5
  <3>7. \A i \in DOMAIN clients[k] : \A j \in DOMAIN ds : clients[k][i].no < ds[j].no
   BY <3>3, <3>5
  <3>8. BatchTypes
   BY <1>1
  <3>9. TalliedAsSent
   BY <1>1
  <3>10. RepliedInOrder
   BY <1>1
  <3>11. UNCHANGED upstream /\ SentDown(k, ds)
   BY <1>10, <2>1, <3>1
  <3>12. /\ clients' \in [Senders -> Seq(Dgrams)]
         /\ tallied' \in [in : [Senders -> Nat], out : [Senders -> Nat]]
         /\ TalliedAsSent' /\ RepliedInOrder'
         /\ \A q \in Senders : q # k => clients'[q] = clients[q]
         /\ \A i \in DOMAIN clients'[k] :
                \/ i \in DOMAIN clients[k] /\ clients'[k][i] = clients[k][i]
                \/ \E j \in DOMAIN ds : clients'[k][i] = ds[j]
   BY <3>2, <3>4, <3>6, <3>7, <3>8, <3>9, <3>10, <3>11, SentDownKeeps
  <3> QED BY <1>6, <3>3, <3>12
 <2>2. CASE UNCHANGED <<clients, tallied>>
  <3>1. TalliedAsSent' /\ RepliedInOrder'
   BY <1>1, <1>10, <2>2 DEF TalliedAsSent, RepliedInOrder, Ascending
  <3>2. clients \in [Senders -> Seq(Dgrams)]
        /\ tallied \in [in : [Senders -> Nat], out : [Senders -> Nat]]
   BY <1>1 DEF BatchTypes
  <3> QED BY <2>2, <3>1, <3>2
 <2> QED BY <1>10, <2>1, <2>2
<1>12. replies' \in [Senders -> Seq(Dgrams)] /\ ReplyInv'
 <2>1. Leave(k, 1, g)
  <3>1. 1 \in 0..Len(replies[k])
   BY <1>2, <1>3, <1>4
  <3>2. \A i \in DOMAIN clients'[k] :
            \/ i \in DOMAIN clients[k] /\ clients'[k][i] = clients[k][i]
            \/ \E j \in 1..1 : clients'[k][i] = replies[k][j]
   <4>1. \A i \in DOMAIN clients'[k] :
             \/ i \in DOMAIN clients[k] /\ clients'[k][i] = clients[k][i]
             \/ clients'[k][i] = replies[k][1]
    BY <1>2, <1>11
   <4>2. 1 \in 1..1
    OBVIOUS
   <4> QED BY <4>1, <4>2
  <3>3. /\ DOMAIN g = 1..(Len(replies[k]) - 1)
        /\ \A i \in 1..(Len(replies[k]) - 1) : g[i] = replies[k][i + 1]
   BY <1>2, <1>9
  <3>4. g \in Seq(Dgrams) /\ replies' = [replies EXCEPT ![k] = g]
        /\ \A q \in Senders : q # k => clients'[q] = clients[q]
   BY <1>8, <1>10, <1>11
  <3> QED BY ONLY <3>1, <3>2, <3>3, <3>4 DEF Leave
 <2>2. UNCHANGED numbers
  BY <1>10
 <2>3. BatchTypes
  BY <1>1
 <2>4. ReplyInv
  BY <1>1
 <2> QED BY ONLY k \in Senders, <2>1, <2>2, <2>3, <2>4, RepliesTaken
<1> USE <1>1, <1>10
<1>13. ArenaInv' /\ RunInv' /\ QueueInv' /\ OutInv' /\ Past' = Past
 BY ListenerIdle
<1>14. SentInOrder' /\ PastInv'
 BY <1>13, NothingSent
<1>15. BatchTypes'
 BY <1>11, <1>12 DEF BatchTypes
<1> QED BY <1>11, <1>12, <1>13, <1>14, <1>15 DEF BatchInv

\* The demux or the reaper evicts.
LEMMA FlowEvicted ==
    ASSUME BatchInv, NEW k, k \in Senders, DemuxEvicts(k) PROVE BatchInv'
<1>1. BatchTypes /\ OutInv /\ ReplyInv /\ RepliedInOrder /\ TalliedAsSent /\ PastInv /\ SentInOrder
      /\ ArenaInv /\ RunInv /\ QueueInv
 BY DEF BatchInv
<1>2. /\ Evicted(k)
      /\ UNCHANGED <<batched, arriving, inArena, outArena, batch, coldPaths, upstream, clients, tallied,
                     numbers>>
 BY DEF DemuxEvicts
<1> USE <1>1, <1>2
<1>3. ArenaInv' /\ RunInv' /\ QueueInv' /\ OutInv' /\ Past' = Past
 BY ListenerIdle
<1>4. /\ flow' \in [Senders -> {"vacant", "pending", "live"}]
      /\ replies' \in [Senders -> Seq(Dgrams)] /\ ReplyInv'
 BY FlowsLost
<1>5. SentInOrder' /\ PastInv'
 BY <1>3, NothingSent
<1>6. TalliedAsSent' /\ RepliedInOrder'
 BY DEF TalliedAsSent, RepliedInOrder, Ascending
<1>7. BatchTypes'
 BY <1>4 DEF BatchTypes
<1> QED BY <1>3, <1>4, <1>5, <1>6, <1>7 DEF BatchInv

\* A new reply is behind all others.
LEMMA ReplyQueued ==
    ASSUME BatchInv, NEW k, k \in Senders, TargetReplies(k) PROVE BatchInv'
<1>1. BatchTypes /\ OutInv /\ ReplyInv /\ RepliedInOrder /\ TalliedAsSent /\ PastInv /\ SentInOrder
      /\ ArenaInv /\ RunInv /\ QueueInv
 BY DEF BatchInv
<1>2. PICK s : s = replies[k]
 OBVIOUS
<1>3. s \in Seq(Dgrams) /\ DOMAIN s = 1..Len(s) /\ Len(s) \in Nat
 BY <1>1, <1>2, LenProperties DEF BatchTypes
<1>4. PICK n : n = numbers.out + 1
 OBVIOUS
<1>5. numbers \in [in : Nat, out : Nat] /\ replies \in [Senders -> Seq(Dgrams)]
      /\ clients \in [Senders -> Seq(Dgrams)]
 BY <1>1 DEF BatchTypes
<1>6. n \in Nat /\ numbers.out < n /\ numbers.out \in Nat
 BY <1>4, <1>5
<1>7. numbers' = [numbers EXCEPT !.out = n]
 BY <1>4 DEF TargetReplies
<1>8. numbers' \in [in : Nat, out : Nat] /\ numbers'.in = numbers.in /\ numbers'.out = n
 BY <1>5, <1>6, <1>7
<1>9. PICK d : d = Datagram(k, n)
 OBVIOUS
<1>10. d \in Dgrams /\ d.no = n /\ d.of = k
 BY <1>6, <1>9 DEF Datagram, Dgrams
<1>11. PICK u : u = Append(s, d)
 OBVIOUS
<1>12. u \in Seq(Dgrams) /\ Len(u) = Len(s) + 1 /\ u[Len(s) + 1] = d /\ \A i \in 1..Len(s) : u[i] = s[i]
 BY <1>3, <1>10, <1>11, AppendProperties
<1>13. DOMAIN u = 1..(Len(s) + 1)
 BY <1>12, LenProperties
<1>14. /\ replies' = [replies EXCEPT ![k] = u]
       /\ UNCHANGED <<batched, arriving, inArena, outArena, batch, flow, coldPaths, upstream, clients,
                      tallied>>
 BY <1>2, <1>4, <1>9, <1>11 DEF TargetReplies
<1>15. /\ replies' \in [Senders -> Seq(Dgrams)] /\ replies'[k] = u
       /\ \A q \in Senders : q # k => replies'[q] = replies[q]
 BY <1>5, <1>12, <1>14
<1>16. \A i \in 1..(Len(s) + 1) : i \in 1..Len(s) \/ i = Len(s) + 1
 BY <1>3
<1>17. \A q \in Senders :
           /\ \A i \in DOMAIN replies[q] : replies[q][i].no \in Nat /\ replies[q][i].no < n
           /\ \A i \in DOMAIN clients[q] : clients[q][i].no \in Nat /\ clients[q][i].no < n
 <2>1. \A q \in Senders : /\ \A i \in DOMAIN replies[q] : replies[q][i] \in Dgrams
                          /\ \A i \in DOMAIN clients[q] : clients[q][i] \in Dgrams
  <3> TAKE q \in Senders
  <3>1. replies[q] \in Seq(Dgrams) /\ clients[q] \in Seq(Dgrams)
   BY <1>5
  <3> QED BY <3>1
 <2>2. \A q \in Senders : /\ \A i \in DOMAIN replies[q] : replies[q][i].no \in Nat
                          /\ \A i \in DOMAIN clients[q] : clients[q][i].no \in Nat
  BY <2>1 DEF Dgrams
 <2>3. \A q \in Senders : /\ \A i \in DOMAIN replies[q] : replies[q][i].no <= numbers.out
                          /\ \A i \in DOMAIN clients[q] : clients[q][i].no <= numbers.out
  BY <1>1 DEF ReplyInv
 <2> QED
  <3>1. \A x \in Nat : x <= numbers.out => x < n
   BY <1>6
  <3> QED BY <2>2, <2>3, <3>1
<1>18. /\ \A i, j \in 1..Len(s) : i < j => s[i].no < s[j].no
       /\ \A i \in 1..Len(s) : s[i].of = k /\ \A j \in DOMAIN clients[k] : clients[k][j].no < s[i].no
 BY <1>1, <1>2, <1>3 DEF ReplyInv, Ascending
<1>19. \A i \in 1..Len(s) : s[i].no \in Nat /\ s[i].no < n
 BY <1>2, <1>3, <1>17
<1>20. Ascending(u)
 <2>1. ASSUME NEW i \in 1..(Len(s) + 1), NEW j \in 1..(Len(s) + 1), i < j PROVE u[i].no < u[j].no
  <3>1. i \in 1..Len(s)
   BY <1>3, <2>1
  <3>2. CASE j \in 1..Len(s)
   BY <1>12, <1>18, <2>1, <3>1, <3>2
  <3>3. CASE j = Len(s) + 1
   BY <1>10, <1>12, <1>19, <3>1, <3>3
  <3> QED BY <1>16, <3>2, <3>3
 <2> QED BY <1>13, <2>1 DEF Ascending
<1>21. \A i \in 1..(Len(s) + 1) : u[i].of = k /\ u[i].no <= n
 BY <1>6, <1>10, <1>12, <1>16, <1>18, <1>19
<1>22. \A i \in 1..(Len(s) + 1) : \A j \in DOMAIN clients[k] : clients[k][j].no < u[i].no
 BY <1>10, <1>12, <1>16, <1>17, <1>18
<1>23. ReplyInv'
 <2> SUFFICES ASSUME NEW q \in Senders
              PROVE  /\ Ascending(replies'[q])
                     /\ \A i \in DOMAIN replies'[q] :
                            /\ replies'[q][i].of = q /\ replies'[q][i].no <= n
                            /\ \A j \in DOMAIN clients[q] : clients[q][j].no < replies'[q][i].no
                     /\ \A j \in DOMAIN clients[q] : clients[q][j].no <= n
  BY <1>8, <1>14 DEF ReplyInv
 <2>1. \A j \in DOMAIN clients[q] : clients[q][j].no <= n
  BY <1>6, <1>17
 <2>2. CASE q = k
  BY <1>13, <1>15, <1>20, <1>21, <1>22, <2>1, <2>2
 <2>3. CASE q # k
  <3>1. \A i \in DOMAIN replies[q] : replies[q][i].no <= n
   BY <1>6, <1>17
  <3> QED BY <1>1, <1>15, <2>1, <2>3, <3>1 DEF ReplyInv
 <2> QED BY <2>2, <2>3
<1> USE <1>1, <1>14
<1>24. ArenaInv' /\ RunInv' /\ QueueInv' /\ OutInv' /\ Past' = Past
 BY <1>8 DEF ArenaInv, RunInv, QueueInv, OutInv, Past, Rising, Ascending
<1>25. SentInOrder' /\ PastInv'
 BY <1>24, NothingSent
<1>26. TalliedAsSent' /\ RepliedInOrder'
 BY DEF TalliedAsSent, RepliedInOrder, Ascending
<1>27. BatchTypes'
 BY <1>8, <1>15 DEF BatchTypes
<1> QED BY <1>23, <1>24, <1>25, <1>26, <1>27 DEF BatchInv

----
(* The invariant *)

\* A step of the batch that sends nothing.
LEMMA ListenerStep ==
    ASSUME BatchInv, batch' \in BatchRecords, arriving' \in Seq(Dgrams),
           ArenaInv', RunInv', QueueInv', Past \subseteq Past',
           UNCHANGED <<batched, replies, outArena, flow, coldPaths, upstream, clients, tallied, numbers>>
    PROVE  BatchInv'
<1>1. BatchTypes /\ OutInv /\ ReplyInv /\ RepliedInOrder /\ TalliedAsSent /\ PastInv /\ SentInOrder
 BY DEF BatchInv
<1>2. SentInOrder' /\ PastInv'
 BY <1>1, NothingSent
<1>3. TalliedAsSent' /\ RepliedInOrder' /\ ReplyInv' /\ OutInv'
 BY <1>1 DEF TalliedAsSent, RepliedInOrder, Ascending, ReplyInv, OutInv
<1>4. BatchTypes'
 BY <1>1 DEF BatchTypes, BatchRecords
<1> QED BY <1>2, <1>3, <1>4 DEF BatchInv

\* A client sends.
LEMMA ClientSendsKeeps ==
    ASSUME BatchInv, NEW a, a \in Senders, ClientSends(a) PROVE BatchInv'
<1>1. BatchTypes /\ OutInv /\ ReplyInv /\ RepliedInOrder /\ TalliedAsSent /\ PastInv /\ SentInOrder
      /\ ArenaInv /\ RunInv /\ QueueInv
 BY DEF BatchInv
<1>2. /\ numbers' \in [in : Nat, out : Nat] /\ numbers'.out = numbers.out
      /\ arriving' \in Seq(Dgrams)
      /\ ArenaInv' /\ RunInv' /\ QueueInv' /\ Past \subseteq Past'
 BY <1>1, DatagramQueued
<1>3. UNCHANGED <<batched, replies, outArena, batch, flow, coldPaths, upstream, clients, tallied>>
 BY DEF ClientSends
<1> USE <1>1, <1>2, <1>3
<1>4. SentInOrder' /\ PastInv'
 BY NothingSent
<1>5. TalliedAsSent' /\ RepliedInOrder' /\ ReplyInv' /\ OutInv'
 BY DEF TalliedAsSent, RepliedInOrder, Ascending, ReplyInv, OutInv
<1>6. BatchTypes'
 BY DEF BatchTypes
<1> QED BY <1>4, <1>5, <1>6 DEF BatchInv

\* A batch is received.
LEMMA RecvBatchKeeps ==
    ASSUME BatchInv, NEW n, n \in 1..BatchSize, RecvBatch(n) PROVE BatchInv'
<1>1. BatchTypes /\ ArenaInv /\ RunInv /\ QueueInv
 BY DEF BatchInv
<1>2. /\ batch' \in BatchRecords /\ arriving' \in Seq(Dgrams)
      /\ ArenaInv' /\ RunInv' /\ QueueInv' /\ Past \subseteq Past'
 BY <1>1, BatchReceived
<1>3. UNCHANGED <<batched, replies, outArena, flow, coldPaths, upstream, clients, tallied, numbers>>
 BY DEF RecvBatch
<1> QED BY <1>2, <1>3, ListenerStep

\* The slot at hand is looked up.
LEMMA LookUpKeeps ==
    ASSUME BatchInv, LookUp PROVE BatchInv'
<1>1. BatchTypes /\ ArenaInv /\ RunInv /\ QueueInv
 BY DEF BatchInv
<1>2. /\ batch' \in BatchRecords
      /\ ArenaInv' /\ RunInv' /\ QueueInv' /\ Past \subseteq Past'
 BY <1>1, LookedUp
<1>3. arriving' \in Seq(Dgrams)
      /\ UNCHANGED <<batched, replies, outArena, flow, coldPaths, upstream, clients, tallied, numbers>>
 BY <1>1 DEF LookUp, BatchTypes
<1> QED BY <1>2, <1>3, ListenerStep

\* The batch is over.
LEMMA BatchDoneKeeps ==
    ASSUME BatchInv, BatchDone PROVE BatchInv'
<1>1. BatchTypes /\ ArenaInv /\ RunInv /\ QueueInv
 BY DEF BatchInv
<1>2. /\ batch' \in BatchRecords
      /\ ArenaInv' /\ RunInv' /\ QueueInv' /\ Past \subseteq Past'
 BY <1>1, BatchLeft
<1>3. arriving' \in Seq(Dgrams)
      /\ UNCHANGED <<batched, replies, outArena, flow, coldPaths, upstream, clients, tallied, numbers>>
 BY <1>1 DEF BatchDone, BatchTypes
<1> QED BY <1>2, <1>3, ListenerStep

\* The slot at hand joins the run, or is dropped.
LEMMA JoinRunKeeps ==
    ASSUME BatchInv, JoinRun PROVE BatchInv'
<1>1. BatchTypes /\ ArenaInv /\ RunInv /\ QueueInv
 BY DEF BatchInv
<1>2. /\ arriving' \in Seq(Dgrams) /\ batch.got = "live" /\ batch.got # "none"
      /\ UNCHANGED <<batched, arriving, inArena, numbers>>
      /\ UNCHANGED <<batched, replies, outArena, flow, coldPaths, upstream, clients, tallied, numbers>>
 BY <1>1 DEF JoinRun, BatchTypes
<1>3. CASE batch' = NextSlot(batch.run)
 <2>1. /\ batch' \in BatchRecords
       /\ ArenaInv' /\ RunInv' /\ QueueInv' /\ Past \subseteq Past'
  BY <1>1, <1>2, <1>3, SlotLeft
 <2> QED BY <1>2, <2>1, ListenerStep
<1>4. CASE /\ ~MustFlush
           /\ batch' = NextSlot([of |-> Here, slots |-> Append(batch.run.slots, batch.at)])
 <2>1. /\ batch' \in BatchRecords
       /\ ArenaInv' /\ RunInv' /\ QueueInv' /\ Past \subseteq Past'
  BY <1>1, <1>2, <1>4, SlotJoins
 <2> QED BY <1>2, <2>1, ListenerStep
<1> QED BY <1>3, <1>4 DEF JoinRun

\* A slot on the cold path: the run was flushed before it.
LEMMA ColdSlotKeeps ==
    ASSUME BatchInv, ColdSlot PROVE BatchInv'
<1>1. BatchTypes /\ OutInv /\ ReplyInv /\ RepliedInOrder /\ TalliedAsSent /\ PastInv /\ SentInOrder
      /\ ArenaInv /\ RunInv /\ QueueInv
 BY DEF BatchInv
<1>2. /\ batch.got # "none" /\ batch.run = NoRun /\ batch' = NextSlot(batch.run)
      /\ HandleDatagram(Here, inArena[batch.at].data)
      /\ UNCHANGED <<batched, arriving, inArena, outArena, clients, numbers>>
 BY DEF ColdSlot
<1>3. batch.at \in 1..batch.filled
 BY <1>1, <1>2, BatchFields DEF RunInv
<1>4. PICK d : d = inArena[batch.at].data
 OBVIOUS
<1>5. PICK k : k = Here
 OBVIOUS
<1>6. d \in Dgrams /\ ~d.cold
 BY <1>1, <1>3, <1>4 DEF ArenaInv
<1>7. d.of = k /\ k \in Senders
 BY <1>1, <1>3, <1>4, <1>5, SlotSource DEF Here
<1>8. /\ batch' \in BatchRecords
      /\ ArenaInv' /\ RunInv' /\ QueueInv' /\ Past \subseteq Past'
      /\ d.no \in Past'
 BY <1>1, <1>2, <1>4, SlotLeft
<1>9. \A m \in Past : m < d.no
 <2>1. batch.at \in batch.at..batch.filled
  BY <1>1, <1>3, BatchFields
 <2> QED BY <1>4, <2>1 DEF Past
<1>10. HandleDatagram(k, d)
 BY <1>2, <1>4, <1>5
<1>11. /\ flow' \in [Senders -> {"vacant", "pending", "live"}]
       /\ replies' \in [Senders -> Seq(Dgrams)]
       /\ upstream' \in [Senders -> Seq(Dgrams)]
       /\ tallied' \in [in : [Senders -> Nat], out : [Senders -> Nat]]
       /\ coldPaths' \subseteq [first : Dgrams, live : BOOLEAN]
       /\ SentInOrder' /\ PastInv' /\ TalliedAsSent' /\ ReplyInv'
 <2>1. UNCHANGED <<clients, numbers>>
  BY <1>2
 <2> QED BY <1>1, <1>6, <1>7, <1>8, <1>9, <1>10, <2>1, Handled
<1>12. RepliedInOrder' /\ OutInv'
 BY <1>1, <1>2 DEF RepliedInOrder, Ascending, OutInv
<1>13. BatchTypes'
 BY <1>1, <1>2, <1>8, <1>11 DEF BatchTypes, BatchRecords
<1> QED BY <1>8, <1>11, <1>12, <1>13 DEF BatchInv

\* Without recvmmsg, one datagram is received.
LEMMA RecvOneKeeps ==
    ASSUME BatchInv, RecvOne PROVE BatchInv'
<1>1. BatchTypes /\ OutInv /\ ReplyInv /\ RepliedInOrder /\ TalliedAsSent /\ PastInv /\ SentInOrder
      /\ ArenaInv /\ RunInv /\ QueueInv
 BY DEF BatchInv
<1>2. /\ ~batched /\ arriving # <<>> /\ arriving' = Tail(arriving)
      /\ HandleDatagram(Head(arriving).of, Head(arriving))
      /\ UNCHANGED <<batched, batch, inArena, numbers>>
      /\ UNCHANGED <<batched, inArena, outArena, batch, clients, numbers>>
 BY DEF RecvOne
<1>3. PICK d : d = Head(arriving)
 OBVIOUS
<1>4. PICK k : k = d.of
 OBVIOUS
<1>5. /\ d \in Dgrams /\ ~d.cold
      /\ \A m \in Past : m < d.no
      /\ arriving' \in Seq(Dgrams)
      /\ ArenaInv' /\ RunInv' /\ QueueInv' /\ Past \subseteq Past'
      /\ d.no \in Past'
 BY <1>1, <1>2, <1>3, HeadReceived
<1>6. d.of = k /\ k \in Senders
 BY <1>4, <1>5 DEF Dgrams
<1>7. HandleDatagram(k, d)
 BY <1>2, <1>3, <1>4
<1>8. /\ flow' \in [Senders -> {"vacant", "pending", "live"}]
      /\ replies' \in [Senders -> Seq(Dgrams)]
      /\ upstream' \in [Senders -> Seq(Dgrams)]
      /\ tallied' \in [in : [Senders -> Nat], out : [Senders -> Nat]]
      /\ coldPaths' \subseteq [first : Dgrams, live : BOOLEAN]
      /\ SentInOrder' /\ PastInv' /\ TalliedAsSent' /\ ReplyInv'
 <2>1. UNCHANGED <<clients, numbers>>
  BY <1>2
 <2> QED BY <1>1, <1>5, <1>6, <1>7, <2>1, Handled
<1>9. RepliedInOrder' /\ OutInv'
 BY <1>1, <1>2 DEF RepliedInOrder, Ascending, OutInv
<1>10. BatchTypes'
 BY <1>1, <1>2, <1>5, <1>8 DEF BatchTypes
<1> QED BY <1>5, <1>8, <1>9, <1>10 DEF BatchInv

\* A run goes out, or part of it: datagrams of it, in order.
LEMMA RunSent ==
    ASSUME BatchInv, MustFlush, NEW ds, ds \in Seq(Dgrams), Ascending(ds),
           \A i \in DOMAIN ds : \E j \in DOMAIN RunData : ds[i] = RunData[j],
           SentUp(batch.run.of, ds), batch' = [batch EXCEPT !.run = NoRun],
           Evicted(batch.run.of) \/ UNCHANGED <<flow, replies>>,
           UNCHANGED <<batched, arriving, inArena, outArena, coldPaths, clients, numbers>>
    PROVE  BatchInv'
<1>1. BatchTypes /\ OutInv /\ ReplyInv /\ RepliedInOrder /\ TalliedAsSent /\ PastInv /\ SentInOrder
      /\ ArenaInv /\ RunInv /\ QueueInv
 BY DEF BatchInv
<1>2. PICK k : k = batch.run.of
 OBVIOUS
<1>3. k \in Senders
 BY <1>1, <1>2 DEF MustFlush, RunInv
<1>4. /\ batch' \in BatchRecords
      /\ ArenaInv' /\ RunInv' /\ QueueInv' /\ Past \subseteq Past'
      /\ \A i \in DOMAIN batch.run.slots : inArena[batch.run.slots[i]].data.no \in Past'
 BY <1>1, RunLeaves
<1>5. /\ DOMAIN RunData = DOMAIN batch.run.slots
      /\ \A j \in DOMAIN RunData : RunData[j].of = k /\ RunData[j] = inArena[batch.run.slots[j]].data
 BY <1>1, <1>2, RunDataIs
<1>6. \A j \in DOMAIN RunData : RunData[j].no \in Past' /\ \A m \in Past : m < RunData[j].no
 <2>1. \A j \in DOMAIN batch.run.slots : \A m \in Past : m < inArena[batch.run.slots[j]].data.no
  BY DEF Past
 <2> QED BY <1>4, <1>5, <2>1
<1>7. \A j \in DOMAIN ds : ds[j].of = k
 BY <1>5
<1>8. \A m \in Past : \A j \in DOMAIN ds : m < ds[j].no
 BY <1>6
<1>9. \A j \in DOMAIN ds : ds[j].no \in Past'
 BY <1>6
<1>10. SentUp(k, ds) /\ (Evicted(k) \/ UNCHANGED <<flow, replies>>)
 BY <1>2
<1>11. /\ upstream' \in [Senders -> Seq(Dgrams)]
       /\ tallied' \in [in : [Senders -> Nat], out : [Senders -> Nat]]
       /\ SentInOrder' /\ PastInv' /\ TalliedAsSent'
 <2>1. UNCHANGED <<clients, coldPaths>>
  OBVIOUS
 <2> QED BY <1>1, <1>3, <1>4, <1>7, <1>8, <1>9, <1>10, <2>1, WaitingSent
<1>12. /\ flow' \in [Senders -> {"vacant", "pending", "live"}]
       /\ replies' \in [Senders -> Seq(Dgrams)] /\ ReplyInv'
 <2>1. UNCHANGED <<clients, numbers>>
  OBVIOUS
 <2> QED BY <1>1, <1>3, <1>10, <2>1, FlowsLost
<1>13. RepliedInOrder' /\ OutInv'
 BY <1>1 DEF RepliedInOrder, Ascending, OutInv
<1>14. BatchTypes'
 BY <1>1, <1>4, <1>11, <1>12 DEF BatchTypes, BatchRecords
<1> QED BY <1>4, <1>11, <1>12, <1>13, <1>14 DEF BatchInv

\* sendmmsg took a prefix of the run, and perhaps the datagram after it.
LEMMA FlushSentKeeps ==
    ASSUME BatchInv, NEW sent, NEW probed, sent \in 1..BatchSize, probed \in BOOLEAN,
           FlushSent(sent, probed)
    PROVE  BatchInv'
<1>1. BatchTypes /\ ArenaInv /\ RunInv
 BY DEF BatchInv
<1>2. RunData \in Seq(Dgrams) /\ Ascending(RunData)
 BY <1>1, RunDataIs
<1>3. PICK s : s = RunData
 OBVIOUS
<1>4. PICK n : n = IF probed THEN sent + 1 ELSE sent
 OBVIOUS
<1>5. s \in Seq(Dgrams) /\ DOMAIN s = 1..Len(s) /\ Len(s) \in Nat /\ Ascending(s)
 BY <1>2, <1>3, LenProperties
<1>6. n \in 0..Len(s)
 <2>1. sent \in 1..Len(s) /\ (probed => sent < Len(s))
  BY <1>3 DEF FlushSent
 <2> QED BY <1>4, <1>5, <2>1
<1>7. PICK ds : ds = SubSeq(s, 1, n)
 OBVIOUS
<1>8. /\ ds \in Seq(Dgrams) /\ DOMAIN ds = 1..n
      /\ \A i \in 1..n : i \in DOMAIN s /\ ds[i] = s[i]
 <2>1. 1 \in 1..(Len(s) + 1) /\ 1 <= n + 1 /\ n \in Nat
  BY <1>5, <1>6
 <2>2. /\ SubSeq(s, 1, n) \in Seq(Dgrams)
       /\ DOMAIN SubSeq(s, 1, n) = 1..(n - 1 + 1)
       /\ \A i \in 1..(n - 1 + 1) : i + 1 - 1 \in DOMAIN s /\ SubSeq(s, 1, n)[i] = s[i + 1 - 1]
  BY <1>5, <1>6, <2>1, Piece
 <2> QED BY <1>7, <2>1, <2>2
<1>9. Ascending(ds) /\ \A i \in DOMAIN ds : \E j \in DOMAIN RunData : ds[i] = RunData[j]
 <2>1. Ascending(ds)
  BY <1>5, <1>8 DEF Ascending
 <2> QED BY <1>3, <1>8, <2>1
<1>10. /\ MustFlush /\ SentUp(batch.run.of, ds) /\ batch' = [batch EXCEPT !.run = NoRun]
       /\ UNCHANGED <<batched, arriving, inArena, outArena, coldPaths, clients, numbers>>
 BY <1>3, <1>4, <1>7 DEF FlushSent
<1>11. Evicted(batch.run.of) \/ UNCHANGED <<flow, replies>>
 <2>1. MaybeEvicted(batch.run.of) \/ UNCHANGED <<flow, replies>>
  BY DEF FlushSent
 <2> QED BY <2>1 DEF MaybeEvicted
<1> QED
 <2>1. ds \in Seq(Dgrams)
  BY <1>8
 <2>2. Ascending(ds)
  BY <1>9
 <2>3. \A i \in DOMAIN ds : \E j \in DOMAIN RunData : ds[i] = RunData[j]
  BY <1>9
 <2>4. SentUp(batch.run.of, ds)
  BY <1>10
 <2>5. MustFlush /\ batch' = [batch EXCEPT !.run = NoRun]
       /\ UNCHANGED <<batched, arriving, inArena, outArena, coldPaths, clients, numbers>>
  BY <1>10
 <2> QED BY ONLY BatchInv, <1>11, <2>1, <2>2, <2>3, <2>4, <2>5, RunSent

\* sendmmsg took nothing: one by one, or an error.
LEMMA FlushRefusedKeeps ==
    ASSUME BatchInv, FlushRefused PROVE BatchInv'
<1>1. BatchTypes /\ OutInv /\ ReplyInv /\ RepliedInOrder /\ TalliedAsSent /\ PastInv /\ SentInOrder
      /\ ArenaInv /\ RunInv /\ QueueInv
 BY DEF BatchInv
<1>2. /\ MustFlush /\ batch' = [batch EXCEPT !.run = NoRun]
      /\ UNCHANGED <<batched, arriving, inArena, outArena, coldPaths, clients, numbers>>
 BY DEF FlushRefused
<1>3. RunData \in Seq(Dgrams) /\ Ascending(RunData)
 BY <1>1, RunDataIs
<1>4. CASE (\E ds \in Subsequences(RunData) : SentUp(batch.run.of, ds)) /\ UNCHANGED <<flow, replies>>
 <2>1. PICK s : s = RunData
  OBVIOUS
 <2>2. PICK ds \in Subsequences(s) : SentUp(batch.run.of, ds)
  BY <1>4, <2>1
 <2>3. s \in Seq(Dgrams) /\ Ascending(s)
  BY <1>3, <2>1
 <2>4. ds \in Seq(Dgrams) /\ Ascending(ds) /\ \A i \in DOMAIN ds : \E j \in DOMAIN s : ds[i] = s[j]
  BY <2>3, Kept
 <2>5. \A i \in DOMAIN ds : \E j \in DOMAIN RunData : ds[i] = RunData[j]
  BY <2>1, <2>4
 <2> QED BY <1>2, <1>4, <2>2, <2>4, <2>5, RunSent
<1>5. CASE MaybeEvicted(batch.run.of) /\ UNCHANGED <<upstream, tallied>>
 <2>1. PICK k : k = batch.run.of
  OBVIOUS
 <2>2. k \in Senders
  BY <1>1, <1>2, <2>1 DEF MustFlush, RunInv
 <2>3. /\ batch' \in BatchRecords
       /\ ArenaInv' /\ RunInv' /\ QueueInv' /\ Past \subseteq Past'
  BY <1>1, <1>2, RunLeaves
 <2>4. /\ flow' \in [Senders -> {"vacant", "pending", "live"}]
       /\ replies' \in [Senders -> Seq(Dgrams)] /\ ReplyInv'
  <3>1. Evicted(k) \/ UNCHANGED <<flow, replies>>
   BY <1>5, <2>1 DEF MaybeEvicted
  <3>2. UNCHANGED <<clients, numbers>>
   BY <1>2
  <3> QED BY <1>1, <2>2, <3>1, <3>2, FlowsLost
 <2> USE <1>1, <1>2, <1>5, <2>3
 <2>5. SentInOrder' /\ PastInv'
  BY NothingSent
 <2>6. RepliedInOrder' /\ OutInv' /\ TalliedAsSent'
  BY DEF RepliedInOrder, Ascending, OutInv, TalliedAsSent
 <2>7. BatchTypes'
  BY <2>4 DEF BatchTypes, BatchRecords
 <2> QED BY <2>4, <2>5, <2>6, <2>7 DEF BatchInv
<1> QED BY <1>4, <1>5 DEF FlushRefused

\* The invariant holds at first.
LEMMA BatchInitInv == BatchInit => BatchInv
<1> SUFFICES ASSUME BatchInit PROVE BatchInv
 OBVIOUS
<1>1. PICK e : e = <<>>
 OBVIOUS
<1>2. e \in Seq(Dgrams) /\ DOMAIN e = {} /\ Len(e) = 0
 BY <1>1
<1>3. /\ arriving = e /\ batched \in BOOLEAN /\ coldPaths = {}
      /\ replies = [k \in Senders |-> e] /\ upstream = [k \in Senders |-> e]
      /\ clients = [k \in Senders |-> e]
      /\ flow = [k \in Senders |-> "vacant"]
      /\ tallied = [in |-> [k \in Senders |-> 0], out |-> [k \in Senders |-> 0]]
      /\ numbers = [in |-> 0, out |-> 0] /\ batch = IdleBatch /\ outArena = FreshArena
 BY <1>1 DEF BatchInit
<1>4. batch.filled = 0 /\ batch.at = 1 /\ batch.got = "none" /\ batch.run = NoRun
 BY <1>3 DEF IdleBatch
<1>5. batch.run.slots = e /\ DOMAIN batch.run.slots = {}
 BY <1>1, <1>2, <1>4 DEF NoRun
<1>6. batch \in [filled : 0..BatchSize, at : Nat \ {0},
                 got : {"none", "vacant", "pending", "live"},
                 run : [of : Senders \cup {NoDatagram}, slots : Seq(Nat)]]
 <2>1. NoRun \in [of : Senders \cup {NoDatagram}, slots : Seq(Nat)]
  BY DEF NoRun
 <2>2. 0 \in 0..BatchSize /\ 1 \in Nat \ {0}
  BY BatchAssumption
 <2> QED BY <1>3, <2>1, <2>2 DEF IdleBatch
<1>7. BatchTypes
 BY <1>2, <1>3, <1>6 DEF BatchTypes
<1>8. 1..0 = {}
 OBVIOUS
<1>9. ArenaInv
 BY <1>4, <1>8 DEF ArenaInv
<1>10. RunInv
 BY <1>3, <1>4, <1>5 DEF RunInv, Rising
<1>11. QueueInv
 BY <1>2, <1>3, <1>4, <1>8 DEF QueueInv, Ascending
<1>12. \A k \in Senders : replies[k] = e /\ upstream[k] = e /\ clients[k] = e
                          /\ tallied.in[k] = 0 /\ tallied.out[k] = 0
 BY <1>3
<1>13. PastInv
 BY <1>2, <1>3, <1>12 DEF PastInv
<1>14. ReplyInv /\ SentInOrder /\ RepliedInOrder /\ TalliedAsSent
 BY <1>2, <1>12 DEF ReplyInv, SentInOrder, RepliedInOrder, TalliedAsSent, Ascending
<1>15. OutInv
 <2>1. PICK x : x = Encoded(CHOOSE a \in Senders : TRUE)
  OBVIOUS
 <2>2. outArena = [i \in 1..BatchSize |-> [data |-> NoDatagram, addr |-> x]]
  BY <1>3, <2>1 DEF FreshArena
 <2> QED BY <2>2 DEF OutInv, Slots
<1> QED BY <1>7, <1>9, <1>10, <1>11, <1>13, <1>14, <1>15 DEF BatchInv

\* Every step keeps the invariant.
LEMMA BatchStepInv == BatchInv /\ [BatchNext]_batchVars => BatchInv'
<1> SUFFICES ASSUME BatchInv, [BatchNext]_batchVars PROVE BatchInv'
 OBVIOUS
<1>1. CASE UNCHANGED batchVars
 BY <1>1 DEF batchVars, BatchInv, BatchTypes, ArenaInv, RunInv, QueueInv, PastInv, Past, OutInv,
  ReplyInv, SentInOrder, RepliedInOrder, TalliedAsSent, Rising, Ascending
<1>2. CASE \E a \in Senders : ClientSends(a) \/ TargetReplies(a)
 BY <1>2, ClientSendsKeeps, ReplyQueued
<1>3. CASE \E n \in 1..BatchSize : RecvBatch(n)
 BY <1>3, RecvBatchKeeps
<1>4. CASE LookUp \/ JoinRun \/ ColdSlot \/ BatchDone
 BY <1>4, LookUpKeeps, JoinRunKeeps, ColdSlotKeeps, BatchDoneKeeps
<1>5. CASE \E sent \in 1..BatchSize, probed \in BOOLEAN : FlushSent(sent, probed)
 <2>1. PICK sent \in 1..BatchSize, probed \in BOOLEAN : FlushSent(sent, probed)
  BY <1>5
 <2> QED BY <2>1, FlushSentKeeps
<1>6. CASE FlushRefused
 BY <1>6, FlushRefusedKeeps
<1>7. CASE RecvOne
 BY <1>7, RecvOneKeeps
<1>8. CASE \E c \in coldPaths : ColdCommits(c) \/ ColdSends(c)
 BY <1>8, ColdCommitted, ColdSent
<1>9. CASE \E k \in Senders : \/ DrainOne(k) \/ DemuxEvicts(k)
                              \/ \E n \in 1..BatchSize : DrainBatched(k, n)
 BY <1>9, OneDrained, FlowEvicted, BatchDrained
<1> QED BY <1>1, <1>2, <1>3, <1>4, <1>5, <1>6, <1>7, <1>8, <1>9 DEF BatchNext

\* Batched datagrams arrive where, and as often as, single ones would
\* (process_batch, flush_run, forward_reply_batch): for any clients, any size of
\* a batch and any number of datagrams, each is sent over its own client's flow,
\* none twice, in order but for those a cold path carried, replies likewise, and
\* the statistics count what was sent.
THEOREM BatchesAreSound == BatchSpec => []BatchesSound
<1>1. BatchInv => BatchesSound
 <2> SUFFICES ASSUME BatchInv PROVE BatchesSound
  OBVIOUS
 <2>1. ArenaInv /\ RunInv /\ SentInOrder /\ RepliedInOrder /\ TalliedAsSent
  BY DEF BatchInv
 <2>2. ASSUME NEW i \in DOMAIN batch.run.slots
       PROVE  /\ batch.run.slots[i] < batch.at
              /\ Source(inArena, batch.run.slots[i]) = batch.run.of
  <3>1. /\ batch.run.slots[i] < batch.at /\ batch.run.slots[i] \in 1..batch.filled
        /\ inArena[batch.run.slots[i]].data.of = batch.run.of
   BY <2>1 DEF RunInv
  <3> QED BY <2>1, <3>1, SlotSource
 <2> QED BY <2>1, <2>2 DEF BatchesSound, RunOfBatch
<1> QED BY <1>1, BatchInitInv, BatchStepInv, PTL DEF BatchSpec
=============================================================================
