--------------------------- MODULE FailoverProofs ---------------------------
(***************************************************************************)
(* Proofs about Failover for every number of targets and connections, *)
(* every threshold and every window. *)
(***************************************************************************)
EXTENDS Failover, FiniteSetTheorems, SequenceTheorems, TLAPS

HealthType == [state : {"Healthy", "Failed"}, fails : 0..CountMax,
               succs : Nat, start : 0..None]

ProberType == [pc : {"wait", "mark", "stopped"}, next : Targets,
               ok : BOOLEAN, at : Stamps]

----
(* The health records *)

\* record_failure keeps the fields of a HealthState in their ranges.
LEMMA FailureType ==
    ASSUME NEW h \in HealthType, NEW now \in Stamps PROVE FailureRecorded(h, now) \in HealthType
<1>1. CountedFailures(h, now) \in 0..CountMax
 BY ConstantsAssumption DEF CountedFailures, HealthType
<1>2. now \in 0..None
 BY ConstantsAssumption DEF Stamps, None
<1> QED BY <1>1, <1>2 DEF FailureRecorded, HealthType

\* record_success keeps the fields of a HealthState in their ranges.
LEMMA SuccessType ==
    ASSUME NEW h \in HealthType PROVE SuccessRecorded(h) \in HealthType
<1>1. FreshHealth \in HealthType
 BY ConstantsAssumption DEF FreshHealth, HealthType, None
<1>2. [h EXCEPT !.succs = h.succs + 1] \in HealthType
 BY DEF HealthType
<1> QED BY <1>1, <1>2 DEF SuccessRecorded

\* Recording an outcome keeps the shared state typed.
LEMMA RecordType ==
    ASSUME health \in [Targets -> HealthType], failovers \in 0..(CounterMod - 1),
           NEW t \in Targets, NEW ok \in BOOLEAN, NEW now \in Stamps,
           Record(t, ok, now)
    PROVE  /\ health' \in [Targets -> HealthType]
           /\ failovers' \in 0..(CounterMod - 1)
<1>1. \A b \in BOOLEAN : Bump(failovers, b) \in 0..(CounterMod - 1)
 BY ConstantsAssumption DEF Bump
<1>2. Trips(health[t], now) \in BOOLEAN /\ Recovers(health[t]) \in BOOLEAN
 BY DEF Trips, Recovers
<1>3. health[t] \in HealthType
 OBVIOUS
<1>4. CASE ok
 <2>1. RecordSuccess(t)
  BY <1>4 DEF Record
 <2> QED BY <1>1, <1>2, <1>3, <2>1, SuccessType DEF RecordSuccess
<1>5. CASE ~ok
 <2>1. RecordFailure(t, now)
  BY <1>5 DEF Record
 <2> QED BY <1>1, <1>2, <1>3, <2>1, FailureType DEF RecordFailure
<1> QED BY <1>4, <1>5

----
(* The dial order *)

\* The dial order stays among the targets.
LEMMA OrderType ==
    ASSUME NEW f \in Targets, NEW i \in Targets PROVE DialOrder(f)[i] \in Targets
  BY ConstantsAssumption DEF DialOrder, Targets

\* A walk through the whole order misses no target.
LEMMA OrderCovers ==
    ASSUME NEW f \in Targets, NEW t \in Targets PROVE \E i \in Targets : DialOrder(f)[i] = t
<1>1. CASE t = f
 <2>1. 1 \in Targets /\ DialOrder(f)[1] = t
  BY <1>1, ConstantsAssumption DEF DialOrder, Targets
 <2> QED BY <2>1
<1>2. CASE t < f
 <2>1. t + 1 \in Targets /\ DialOrder(f)[t + 1] = t
  BY <1>2, ConstantsAssumption DEF DialOrder, Targets
 <2> QED BY <2>1
<1>3. CASE t > f
 <2>1. DialOrder(f)[t] = t
  BY <1>3, ConstantsAssumption DEF DialOrder, Targets
 <2> QED BY <2>1
<1> QED BY <1>1, <1>2, <1>3, ConstantsAssumption DEF Targets

\* After the first choice, the order is by priority: every target above the
\* candidate in position i was dialed before it.
LEMMA OrderByPriority ==
    ASSUME NEW f \in Targets, NEW i \in Targets, i > 1,
           NEW t \in Targets, t < DialOrder(f)[i]
    PROVE  \E j \in Targets : j < i /\ DialOrder(f)[j] = t
<1>1. CASE t = f
 <2>1. 1 \in Targets /\ 1 < i /\ DialOrder(f)[1] = t
  BY <1>1, ConstantsAssumption DEF DialOrder, Targets
 <2> QED BY <2>1
<1>2. CASE t < f
 <2>1. t + 1 \in Targets /\ t + 1 < i /\ DialOrder(f)[t + 1] = t
  BY <1>2, ConstantsAssumption DEF DialOrder, Targets
 <2> QED BY <2>1
<1>3. CASE t > f
 <2>1. t < i /\ DialOrder(f)[t] = t
  BY <1>3, ConstantsAssumption DEF DialOrder, Targets
 <2> QED BY <2>1
<1> QED BY <1>1, <1>2, <1>3, ConstantsAssumption DEF Targets

----
(* Types *)

\* A connection past its snapshot has a candidate among the targets.
LEMMA CandidateType ==
    ASSUME TypeOK, NEW k \in Conns, conn[k].pc \notin {"none", "snap"}
    PROVE  /\ conn[k].first \in Targets
           /\ conn[k].pos \in Targets
           /\ Candidate(conn[k]) \in Targets
<1>1. conn[k] \in ConnType /\ conn[k].first # 0
 BY DEF TypeOK
<1>2. conn[k].first \in Targets /\ conn[k].pos \in Targets
 BY <1>1, ConstantsAssumption DEF ConnType, Targets
<1> QED BY <1>2, OrderType DEF Candidate

PCs == {"none", "snap", "serve", "exhausted"} \cup Dialing

\* Updating fields of a connection record keeps it typed.
LEMMA SnapFields ==
    ASSUME NEW c \in ConnType, NEW q \in Targets, NEW f \in 0..N
    PROVE  [c EXCEPT !.pos = q, !.first = f] \in ConnType
  BY DEF ConnType

\* The same for the record that ends the snapshot.
LEMMA OrderFields ==
    ASSUME NEW c \in ConnType, NEW q \in Targets, NEW f \in 0..N
    PROVE  [c EXCEPT !.pc = "dial", !.pos = q, !.first = f] \in ConnType
  BY DEF ConnType, Dialing

\* The same for the record that ends the walk.
LEMMA DoneFields ==
    ASSUME NEW c \in ConnType, NEW p \in PCs
    PROVE  /\ [c EXCEPT !.pc = p, !.at = 0] \in ConnType
           /\ [c EXCEPT !.pc = p, !.at = 0].first = c.first
<1>1. 0 \in Stamps
 BY ConstantsAssumption DEF Stamps
<1> QED BY <1>1 DEF ConnType, PCs

\* The same for the record that goes on to another candidate.
LEMMA AgainFields ==
    ASSUME NEW c \in ConnType, NEW q \in Targets
    PROVE  /\ [c EXCEPT !.pc = "dial", !.pos = q, !.at = 0] \in ConnType
           /\ [c EXCEPT !.pc = "dial", !.pos = q, !.at = 0].first = c.first
<1>1. 0 \in Stamps
 BY ConstantsAssumption DEF Stamps
<1> QED BY <1>1 DEF ConnType, Dialing

\* A walk that is not at its end has a next position.
LEMMA NextPos ==
    ASSUME NEW c \in ConnType, c.pos < N PROVE c.pos + 1 \in Targets
  BY ConstantsAssumption DEF ConnType, Targets

\* Going on to the next candidate keeps a connection typed and its order.
LEMMA MarkNextType ==
    ASSUME NEW c \in ConnType PROVE MarkNext(c) \in ConnType /\ MarkNext(c).first = c.first
<1>1. CASE c.ok
 BY <1>1, DoneFields DEF MarkNext, PCs
<1>2. CASE ~c.ok /\ c.pos < N
 <2>1. c.pos + 1 \in Targets
  BY <1>2, NextPos
 <2> QED BY <1>2, <2>1, AgainFields DEF MarkNext
<1>3. CASE ~c.ok /\ ~(c.pos < N)
 BY <1>3, DoneFields DEF MarkNext, PCs
<1> QED BY <1>1, <1>2, <1>3

\* The prober's record after a recorded outcome is typed.
LEMMA ProberNextType ==
    ASSUME NEW r \in ProberType
    PROVE  [r EXCEPT !.pc = "wait", !.next = NextTarget(r.next),
                     !.ok = FALSE, !.at = 0] \in ProberType
<1>1. NextTarget(r.next) \in Targets /\ 0 \in Stamps
 BY ConstantsAssumption DEF ProberType, NextTarget, Targets, Stamps
<1> QED BY <1>1 DEF ProberType

\* A fresh slot is typed.
LEMMA FreshConnType ==
    FreshConn \in ConnType /\ [FreshConn EXCEPT !.pc = "snap"] \in ConnType
<1>1. 1 \in Targets /\ 0 \in 0..N /\ 0 \in Stamps
 BY ConstantsAssumption DEF Targets, Stamps
<1>2. FreshConn \in ConnType
 BY <1>1 DEF FreshConn, ConnType
<1>3. [FreshConn EXCEPT !.pc = "snap"] \in ConnType
 BY <1>2 DEF ConnType
<1> QED BY <1>2, <1>3

\* Replacing one connection by a typed record keeps the slots typed.
LEMMA ConnUpdate ==
    ASSUME conn \in [Conns -> ConnType],
           \A k \in Conns : conn[k].pc \notin {"none", "snap"} => conn[k].first # 0,
           NEW k \in Conns, NEW c \in ConnType,
           c.pc \notin {"none", "snap"} => c.first # 0,
           conn' = [conn EXCEPT ![k] = c]
    PROVE  /\ conn' \in [Conns -> ConnType]
           /\ \A j \in Conns : conn'[j].pc \notin {"none", "snap"} => conn'[j].first # 0
  OBVIOUS

\* What is left of a history set is a set of targets.
LEMMA StillWellType ==
    ASSUME well \in [Conns -> SUBSET Targets], well' = StillWell(well)
    PROVE  well' \in [Conns -> SUBSET Targets]
  BY DEF StillWell

\* The initial states are typed.
LEMMA TypeInit == Init => TypeOK
<1> SUFFICES ASSUME Init PROVE TypeOK
 OBVIOUS
<1>1. FreshHealth \in HealthType
 BY ConstantsAssumption DEF FreshHealth, HealthType, None
<1> USE DEF Init
<1>2. health \in [Targets -> HealthType]
 BY <1>1
<1>3. conn \in [Conns -> ConnType]
 BY FreshConnType
<1>4. \A k \in Conns : conn[k].pc \notin {"none", "snap"} => conn[k].first # 0
 BY DEF FreshConn
<1>5. prober \in ProberType
 BY ConstantsAssumption DEF ProberType, Targets, Stamps
<1>6. clock \in Stamps /\ up \subseteq Targets /\ failovers \in 0..(CounterMod - 1)
 BY ConstantsAssumption DEF Stamps
<1>7. /\ rule \in {"on", "draining", "forced", "removed"} /\ accepting \in BOOLEAN
      /\ steady \in [Conns -> SUBSET Targets] /\ well \in [Conns -> SUBSET Targets]
 OBVIOUS
<1> QED BY <1>2, <1>3, <1>4, <1>5, <1>6, <1>7 DEF TypeOK, HealthType, ProberType

\* A step of a connection keeps the types.
LEMMA TypeConn ==
    ASSUME TypeOK, NEW k \in Conns,
           Accept(k) \/ ConnStep(k) \/ PeerCloses(k)
    PROVE  TypeOK'
<1> USE DEF TypeOK, HealthType, ProberType
<1>0. /\ conn[k] \in ConnType
      /\ conn \in [Conns -> ConnType]
      /\ \A j \in Conns : conn[j].pc \notin {"none", "snap"} => conn[j].first # 0
      /\ clock \in Stamps
 OBVIOUS
<1>1. CASE Accept(k)
 <2>1. [FreshConn EXCEPT !.pc = "snap"] \in ConnType
  BY FreshConnType
 <2>2. [FreshConn EXCEPT !.pc = "snap"].pc = "snap"
  BY DEF FreshConn
 <2> USE <1>1 DEF Accept
 <2>3. /\ conn' \in [Conns -> ConnType]
       /\ \A j \in Conns : conn'[j].pc \notin {"none", "snap"} => conn'[j].first # 0
  BY <1>0, <2>1, <2>2
 <2>4. steady' \in [Conns -> SUBSET Targets] /\ well' \in [Conns -> SUBSET Targets]
  BY DEF Healthy
 <2> QED BY <2>3, <2>4 DEF sharedVars
<1>2. CASE Snapshot(k)
 <2> DEFINE c == conn[k]
            f == IF c.first = 0 /\ health[c.pos].state = "Healthy" THEN c.pos ELSE c.first
            d == IF c.pos < N THEN [c EXCEPT !.pos = @ + 1, !.first = f]
                 ELSE [c EXCEPT !.pc = "dial", !.pos = 1,
                                !.first = IF f = 0 THEN 1 ELSE f]
 <2>1. f \in 0..N /\ c.pos \in 1..N
  BY <1>0, ConstantsAssumption DEF ConnType, Targets
 <2>2. d \in ConnType
  <3> HIDE DEF f
  <3>1. CASE c.pos < N
   <4>1. c.pos + 1 \in Targets
    BY <1>0, <3>1, NextPos
   <4>2. [c EXCEPT !.pos = c.pos + 1, !.first = f] \in ConnType
    <5> HIDE DEF TypeOK
    <5> QED BY <1>0, <2>1, <4>1, SnapFields
   <4> QED BY <3>1, <4>2
  <3>2. CASE ~(c.pos < N)
   <4>1. 1 \in Targets /\ (IF f = 0 THEN 1 ELSE f) \in 0..N
    BY <2>1, ConstantsAssumption DEF Targets
   <4> QED BY <1>0, <3>2, <4>1, OrderFields
  <3> QED BY <3>1, <3>2
 <2>3. d.pc \notin {"none", "snap"} => d.first # 0
  <3>1. CASE c.pos < N
   BY <1>0, <1>2, <3>1 DEF ConnType, Snapshot
  <3>2. CASE ~(c.pos < N)
   BY <1>0, <3>2 DEF ConnType
  <3> QED BY <3>1, <3>2
 <2>4. conn' = [conn EXCEPT ![k] = d]
  BY <1>2 DEF Snapshot
 <2> HIDE DEF d
 <2>5. /\ conn' \in [Conns -> ConnType]
       /\ \A j \in Conns : conn'[j].pc \notin {"none", "snap"} => conn'[j].first # 0
  BY <1>0, <2>2, <2>3, <2>4, ConnUpdate
 <2> QED BY <1>2, <2>5 DEF Snapshot, sharedVars, historyVars
<1>3. CASE Dial(k)
 <2> DEFINE c == conn[k]
            ok == Candidate(c) \in up
            d == [c EXCEPT !.pc = IF ok /\ Candidate(c) \in Proxied
                                  THEN "prelude" ELSE "mark",
                           !.ok = ok, !.at = clock]
 <2>1. ok \in BOOLEAN
  OBVIOUS
 <2> HIDE DEF ok
 <2>2. d \in ConnType /\ d.first = c.first
  BY <1>0, <2>1 DEF ConnType, Dialing
 <2>3. c.pc = "dial" /\ conn' = [conn EXCEPT ![k] = d]
  BY <1>3 DEF Dial, ok
 <2> HIDE DEF d
 <2>4. c.first # 0
  BY <1>0, <2>3
 <2>5. /\ conn' \in [Conns -> ConnType]
       /\ \A j \in Conns : conn'[j].pc \notin {"none", "snap"} => conn'[j].first # 0
  BY <1>0, <2>2, <2>3, <2>4, ConnUpdate
 <2> QED BY <1>3, <2>5 DEF Dial, sharedVars, historyVars
<1>4. CASE Prelude(k)
 <2> DEFINE c == conn[k]
            ok == Candidate(c) \in up
            d == [c EXCEPT !.pc = "mark", !.ok = ok]
 <2>1. ok \in BOOLEAN
  OBVIOUS
 <2> HIDE DEF ok
 <2>2. d \in ConnType /\ d.first = c.first
  BY <1>0, <2>1 DEF ConnType, Dialing
 <2>3. c.pc = "prelude" /\ conn' = [conn EXCEPT ![k] = d]
  BY <1>4 DEF Prelude, ok
 <2> HIDE DEF d
 <2>4. c.first # 0
  BY <1>0, <2>3
 <2>5. /\ conn' \in [Conns -> ConnType]
       /\ \A j \in Conns : conn'[j].pc \notin {"none", "snap"} => conn'[j].first # 0
  BY <1>0, <2>2, <2>3, <2>4, ConnUpdate
 <2> QED BY <1>4, <2>5 DEF Prelude, sharedVars, historyVars
<1>5. CASE Mark(k)
 <2> DEFINE c == conn[k]
            d == MarkNext(c)
 <2>1. c.pc = "mark" /\ conn' = [conn EXCEPT ![k] = d]
  BY <1>5 DEF Mark
 <2>2. Candidate(c) \in Targets /\ c.first \in Targets /\ c.pos \in Targets
  BY <2>1, CandidateType
 <2>3. d \in ConnType /\ d.first = c.first
  BY <1>0, MarkNextType
 <2> HIDE DEF d
 <2>4. c.first # 0
  BY <1>0, <2>1
 <2>5. /\ conn' \in [Conns -> ConnType]
       /\ \A j \in Conns : conn'[j].pc \notin {"none", "snap"} => conn'[j].first # 0
  BY <1>0, <2>1, <2>3, <2>4, ConnUpdate
 <2>6. c.ok \in BOOLEAN /\ c.at \in Stamps
  BY <1>0 DEF ConnType
 <2> USE <1>5 DEF Mark
 <2>7. health' \in [Targets -> HealthType] /\ failovers' \in 0..(CounterMod - 1)
  BY <2>2, <2>6, RecordType
 <2>8. well' \in [Conns -> SUBSET Targets]
  BY StillWellType
 <2> QED BY <2>5, <2>7, <2>8
<1>6. CASE Ends(k)
 <2> USE <1>6 DEF Ends
 <2>1. /\ conn' \in [Conns -> ConnType]
       /\ \A j \in Conns : conn'[j].pc \notin {"none", "snap"} => conn'[j].first # 0
  <3>1. FreshConn.pc = "none"
   BY DEF FreshConn
  <3> QED BY <1>0, <3>1, FreshConnType, ConnUpdate
 <2>2. steady' \in [Conns -> SUBSET Targets] /\ well' \in [Conns -> SUBSET Targets]
  OBVIOUS
 <2> QED BY <2>1, <2>2 DEF sharedVars
<1> QED BY <1>1, <1>2, <1>3, <1>4, <1>5, <1>6 DEF ConnStep, Drop, Shutdown, PeerCloses

\* A step of the prober keeps the types.
LEMMA TypeProbe == TypeOK /\ ProbeStep => TypeOK'
<1> SUFFICES ASSUME TypeOK, ProbeStep PROVE TypeOK'
 OBVIOUS
<1> USE DEF TypeOK, HealthType, ProberType
<1>1. CASE ProbeDial
 <2> DEFINE ok == prober.next \in up
 <2>1. ok \in BOOLEAN
  OBVIOUS
 <2> HIDE DEF ok
 <2>2. [prober EXCEPT !.pc = "mark", !.ok = ok, !.at = clock] \in ProberType
  BY <2>1 DEF ProberType
 <2>3. prober' \in ProberType
  BY <1>1, <2>2 DEF ProbeDial, ok
 <2> QED BY <1>1, <2>3 DEF ProbeDial, sharedVars, historyVars
<1>2. CASE ProbeMark
 <2>1. prober.next \in Targets /\ prober.ok \in BOOLEAN /\ prober.at \in Stamps
  BY DEF ProberType
 <2>2. prober \in ProberType
  OBVIOUS
 <2> USE <1>2 DEF ProbeMark
 <2>3. prober' \in ProberType
  BY <2>2, ProberNextType
 <2>4. health' \in [Targets -> HealthType] /\ failovers' \in 0..(CounterMod - 1)
  BY <2>1, RecordType
 <2>5. well' \in [Conns -> SUBSET Targets]
  BY StillWellType
 <2> QED BY <2>3, <2>4, <2>5
<1>3. CASE ProbeStop
 <2>1. prober' \in ProberType
  BY <1>3 DEF ProbeStop, ProberType
 <2> QED BY <1>3, <2>1 DEF ProbeStop, sharedVars, historyVars
<1> QED BY <1>1, <1>2, <1>3 DEF ProbeStep

\* Removal, the clock and the targets keep the types.
LEMMA TypeRest ==
    ASSUME TypeOK,
           Cancel \/ RemovalStep \/ Tick
               \/ (\E t \in Targets : GoesUp(t) \/ GoesDown(t)) \/ UNCHANGED vars
    PROVE  TypeOK'
<1> USE DEF TypeOK, HealthType, ProberType
<1>1. CASE Cancel
 BY <1>1 DEF Cancel, sharedVars, historyVars
<1>2. CASE AcceptStops
 BY <1>2 DEF AcceptStops, sharedVars, historyVars
<1>3. CASE DrainTimeout
 BY <1>3 DEF DrainTimeout, sharedVars, historyVars
<1>4. CASE Removed
 <2>1. prober' \in ProberType
  BY <1>4 DEF Removed, ProberType
 <2> QED BY <1>4, <2>1 DEF Removed, sharedVars, historyVars
<1>5. CASE Tick
 <2>1. clock' \in Stamps
  BY <1>5, ConstantsAssumption DEF Tick, Stamps
 <2> QED BY <1>5, <2>1 DEF Tick, sharedVars, historyVars
<1>6. ASSUME NEW t \in Targets, GoesUp(t) PROVE TypeOK'
 BY <1>6 DEF GoesUp, sharedVars, historyVars
<1>7. ASSUME NEW t \in Targets, GoesDown(t) PROVE TypeOK'
 BY <1>7 DEF GoesDown, sharedVars
<1>8. CASE UNCHANGED vars
 BY <1>8 DEF vars
<1> QED BY <1>1, <1>2, <1>3, <1>4, <1>5, <1>6, <1>7, <1>8 DEF RemovalStep

\* One step of the specification keeps the types.
LEMMA TypeStep == TypeOK /\ [Next]_vars => TypeOK'
  BY TypeConn, TypeProbe, TypeRest DEF Next

\* The health records, the walks of the connections and the prober keep their
\* types: counters saturate or wrap, no walk leaves the list of targets.
THEOREM TypeCorrect == Spec => []TypeOK
  BY TypeInit, TypeStep, PTL DEF Spec

----
(* The walk of a connection *)

\* What a walk knows about the targets it has passed: those it read before
\* the first Healthy one were not well, those it dialed were not steady.
Walk(k) ==
    LET c == conn[k] IN
    /\ well[k] \subseteq steady[k]
    /\ steady[k] \subseteq up
    /\ \A t \in well[k] : health[t].state = "Healthy"
    /\ c.pc = "snap" =>
           /\ c.first < c.pos
           /\ \A t \in Targets : t < c.pos /\ (c.first = 0 \/ t < c.first) => t \notin well[k]
    /\ c.pc \in Dialing \cup {"serve"} =>
           /\ \A t \in Targets : t < c.first => t \notin well[k]
           /\ \A i \in Targets : i < c.pos => DialOrder(c.first)[i] \notin steady[k]
    /\ c.pc = "mark" /\ ~c.ok => Candidate(c) \notin steady[k]
    /\ c.pc = "exhausted" => steady[k] = {}

WalkInv == \A k \in Conns : Walk(k)

\* A connection that does not move keeps what it knows while its history sets
\* only shrink.
LEMMA WalkStable ==
    ASSUME NEW k \in Conns, Walk(k), conn'[k] = conn[k],
           steady'[k] \subseteq steady[k], well'[k] \subseteq well[k],
           steady'[k] \subseteq up', well'[k] \subseteq steady'[k],
           \A t \in well'[k] : health'[t].state = "Healthy"
    PROVE  Walk(k)'
  BY DEF Walk, Candidate

\* Recording an outcome only shrinks the history sets.
LEMMA WellShrinks ==
    ASSUME TypeOK, WalkInv, NEW k \in Conns, well' = StillWell(well),
           UNCHANGED <<up, steady>>
    PROVE  /\ well'[k] \subseteq well[k]
           /\ well'[k] \subseteq steady'[k]
           /\ steady'[k] \subseteq steady[k] /\ steady'[k] \subseteq up'
           /\ \A t \in well'[k] : health'[t].state = "Healthy"
  BY DEF StillWell, WalkInv, Walk, TypeOK

\* A connection that moves, while health, targets and history stay.
LEMMA WalkOthers ==
    ASSUME TypeOK, WalkInv, NEW k \in Conns, NEW d, conn' = [conn EXCEPT ![k] = d],
           UNCHANGED <<up, health, steady, well>>, Walk(k)'
    PROVE  WalkInv'
<1> SUFFICES ASSUME NEW j \in Conns PROVE Walk(j)'
 BY DEF WalkInv
<1>1. CASE j = k
 BY <1>1
<1>2. CASE j # k
 <2>1. Walk(j) /\ conn'[j] = conn[j]
  BY <1>2 DEF WalkInv, TypeOK
 <2> QED BY <2>1, WalkStable DEF Walk
<1> QED BY <1>1, <1>2

\* No connection has walked yet.
LEMMA WalkInit == Init => WalkInv
  BY DEF Init, WalkInv, Walk, FreshConn, Dialing

\* accept: the history sets start with what is up, and up and Healthy.
LEMMA WalkAccept ==
    ASSUME TypeOK, WalkInv, NEW k \in Conns, Accept(k) PROVE WalkInv'
<1> SUFFICES ASSUME NEW j \in Conns PROVE Walk(j)'
 BY DEF WalkInv
<1>1. CASE j = k
 <2>1. /\ conn'[k] = [FreshConn EXCEPT !.pc = "snap"]
       /\ steady'[k] = up /\ well'[k] = up \cap Healthy
       /\ up' = up /\ health' = health
  BY DEF Accept, TypeOK, sharedVars
 <2>2. conn'[k].pc = "snap" /\ conn'[k].pos = 1 /\ conn'[k].first = 0
  BY <2>1 DEF FreshConn
 <2> QED BY <1>1, <2>1, <2>2 DEF Walk, Healthy, Targets, Dialing
<1>2. CASE j # k
 <2>1. Walk(j) /\ conn'[j] = conn[j] /\ steady'[j] = steady[j] /\ well'[j] = well[j]
  BY <1>2 DEF WalkInv, TypeOK, Accept
 <2> QED BY <2>1, WalkStable DEF Walk, Accept, sharedVars
<1> QED BY <1>1, <1>2

\* snapshot: a target read as Failed is not well.
LEMMA WalkSnapshot ==
    ASSUME TypeOK, WalkInv, NEW k \in Conns, Snapshot(k) PROVE WalkInv'
<1> DEFINE c == conn[k]
           f == IF c.first = 0 /\ health[c.pos].state = "Healthy" THEN c.pos ELSE c.first
           d == IF c.pos < N THEN [c EXCEPT !.pos = @ + 1, !.first = f]
                ELSE [c EXCEPT !.pc = "dial", !.pos = 1,
                               !.first = IF f = 0 THEN 1 ELSE f]
<1>1. /\ conn' = [conn EXCEPT ![k] = d] /\ c.pc = "snap"
      /\ UNCHANGED <<up, health, steady, well>>
 BY DEF Snapshot, sharedVars, historyVars
<1>2. c \in ConnType /\ Walk(k)
 BY DEF TypeOK, WalkInv
<1>3. c.pos \in 1..N /\ c.first \in 0..N /\ c.pos \in Nat /\ c.first \in Nat
 BY <1>2, ConstantsAssumption DEF ConnType, Targets
<1>4. /\ c.first < c.pos
      /\ \A t \in Targets : t < c.pos /\ (c.first = 0 \/ t < c.first) => t \notin well[k]
 BY <1>1, <1>2 DEF Walk
<1>5. c.first = 0 /\ f = 0 => c.pos \notin well[k]
 BY <1>2, <1>3 DEF Walk
<1>6. f \in 0..N /\ f \in Nat /\ f <= c.pos
 BY <1>3, <1>4
<1>7. \A t \in Targets : t <= c.pos /\ (f = 0 \/ t < f) => t \notin well[k]
 BY <1>3, <1>4, <1>5 DEF Targets
<1>8. conn'[k] = d
 BY <1>1 DEF TypeOK
<1> HIDE DEF f
<1>9. Walk(k)'
 <2>1. CASE c.pos < N
  <3>1. /\ conn'[k].pc = "snap" /\ conn'[k].pos = c.pos + 1 /\ conn'[k].first = f
   <4>1. conn'[k] = [c EXCEPT !.pos = c.pos + 1, !.first = f]
    BY <1>8, <2>1
   <4> QED BY <1>1, <1>2, <4>1 DEF ConnType
  <3>2. f < c.pos + 1
   BY <1>3, <1>6
  <3>3. \A t \in Targets : t < c.pos + 1 /\ (f = 0 \/ t < f) => t \notin well[k]
   BY <1>3, <1>7 DEF Targets
  <3> QED BY <1>1, <1>2, <3>1, <3>2, <3>3 DEF Walk, Dialing
 <2>2. CASE ~(c.pos < N)
  <3>1. /\ conn'[k].pc = "dial" /\ conn'[k].pos = 1
        /\ conn'[k].first = IF f = 0 THEN 1 ELSE f
   BY <1>2, <1>8, <2>2 DEF ConnType
  <3>2. \A t \in Targets : t < conn'[k].first => t \notin well[k]
   <4> SUFFICES ASSUME NEW t \in Targets, t < conn'[k].first PROVE t \notin well[k]
    OBVIOUS
   <4>1. c.pos = N /\ t \in 1..N
    BY <1>3, <2>2, ConstantsAssumption DEF Targets
   <4>2. CASE f = 0
    BY <1>3, <3>1, <4>1, <4>2
   <4>3. CASE f # 0
    <5>1. t < f
     BY <3>1, <4>3
    <5>2. t <= c.pos
     BY <4>1, ConstantsAssumption
    <5> QED BY <1>7, <5>1, <5>2
   <4> QED BY <4>2, <4>3
  <3>3. \A i \in Targets : ~(i < conn'[k].pos)
   BY <3>1 DEF Targets
  <3> QED BY <1>1, <1>2, <3>1, <3>2, <3>3 DEF Walk, Dialing
 <2> QED BY <2>1, <2>2
<1> HIDE DEF d
<1> QED BY <1>1, <1>9, WalkOthers

\* connect: a target that refuses is not steady.
LEMMA WalkDial ==
    ASSUME TypeOK, WalkInv, NEW k \in Conns, Dial(k) \/ Prelude(k) PROVE WalkInv'
<1> DEFINE c == conn[k]
           d == conn'[k]
<1>1. /\ c \in ConnType /\ Walk(k) /\ c.pc \in {"dial", "prelude"}
      /\ UNCHANGED <<up, health, steady, well>>
 BY DEF TypeOK, WalkInv, Dial, Prelude, sharedVars, historyVars
<1>2. /\ conn' = [conn EXCEPT ![k] = d]
      /\ d.pc \in {"prelude", "mark"} /\ d.pos = c.pos /\ d.first = c.first
      /\ d.ok = (Candidate(c) \in up)
 <2>1. CASE Dial(k)
  BY <1>1, <2>1 DEF Dial, TypeOK, ConnType
 <2>2. CASE Prelude(k)
  BY <1>1, <2>2 DEF Prelude, TypeOK, ConnType
 <2> QED BY <2>1, <2>2
<1>3. Candidate(d) = Candidate(c)
 BY <1>2 DEF Candidate
<1>4. Walk(k)'
 BY <1>1, <1>2, <1>3 DEF Walk, Dialing
<1> QED BY <1>1, <1>2, <1>4, WalkOthers

\* record: the walk goes on past a target that is not steady, or ends.
LEMMA WalkMark ==
    ASSUME TypeOK, WalkInv, NEW k \in Conns, Mark(k) PROVE WalkInv'
<1> SUFFICES ASSUME NEW j \in Conns PROVE Walk(j)'
 BY DEF WalkInv
<1>0. UNCHANGED <<up, steady>> /\ well' = StillWell(well)
 BY DEF Mark
<1>1. CASE j # k
 <2>1. Walk(j) /\ conn'[j] = conn[j]
  BY <1>1 DEF WalkInv, TypeOK, Mark
 <2> QED BY <1>0, <2>1, WellShrinks, WalkStable
<1>2. CASE j = k
 <2> DEFINE c == conn[k]
            d == conn'[k]
 <2>1. c \in ConnType /\ Walk(k) /\ c.pc = "mark" /\ d = MarkNext(c)
  BY DEF TypeOK, WalkInv, Mark
 <2>2. /\ well'[k] \subseteq well[k] /\ well'[k] \subseteq steady'[k]
       /\ steady'[k] = steady[k] /\ steady'[k] \subseteq up'
       /\ \A t \in well'[k] : health'[t].state = "Healthy"
  BY <1>0, WellShrinks
 <2>3. /\ \A t \in Targets : t < c.first => t \notin well'[k]
       /\ \A i \in Targets : i < c.pos => DialOrder(c.first)[i] \notin steady[k]
  BY <2>1, <2>2 DEF Walk, Dialing
 <2>4. c.first \in Targets /\ c.pos \in Targets /\ c.pos \in Nat
  BY <2>1, CandidateType, ConstantsAssumption DEF Targets
 <2>5. CASE c.ok
  <3>1. d.pc = "serve" /\ d.pos = c.pos /\ d.first = c.first
   BY <2>1, <2>5 DEF MarkNext, ConnType
  <3> QED BY <1>2, <2>2, <2>3, <3>1 DEF Walk, Dialing
 <2>6. CASE ~c.ok /\ c.pos < N
  <3>1. d.pc = "dial" /\ d.pos = c.pos + 1 /\ d.first = c.first
   BY <2>1, <2>6 DEF MarkNext, ConnType
  <3>2. DialOrder(c.first)[c.pos] \notin steady[k]
   BY <2>1, <2>6 DEF Walk, Candidate
  <3>3. \A i \in Targets : i < d.pos => DialOrder(c.first)[i] \notin steady[k]
   <4> SUFFICES ASSUME NEW i \in Targets, i < c.pos + 1 PROVE DialOrder(c.first)[i] \notin steady[k]
    BY <3>1
   <4>1. i < c.pos \/ i = c.pos
    BY <2>4 DEF Targets
   <4> QED BY <2>3, <3>2, <4>1
  <3> QED BY <1>2, <2>2, <2>3, <3>1, <3>3 DEF Walk, Dialing
 <2>7. CASE ~c.ok /\ ~(c.pos < N)
  <3>1. d.pc = "exhausted"
   BY <2>1, <2>7 DEF MarkNext, ConnType
  <3>2. DialOrder(c.first)[c.pos] \notin steady[k]
   BY <2>1, <2>7 DEF Walk, Candidate
  <3>3. \A i \in Targets : DialOrder(c.first)[i] \notin steady[k]
   <4> SUFFICES ASSUME NEW i \in Targets PROVE DialOrder(c.first)[i] \notin steady[k]
    OBVIOUS
   <4>1. i < c.pos \/ i = c.pos
    BY <2>4, <2>7, ConstantsAssumption DEF Targets
   <4> QED BY <2>3, <3>2, <4>1
  <3>4. steady[k] = {}
   <4>1. \A t \in Targets : t \notin steady[k]
    BY <2>4, <3>3, OrderCovers
   <4>2. steady[k] \subseteq Targets
    BY DEF TypeOK
   <4> QED BY <4>1, <4>2
  <3> QED BY <1>2, <2>2, <3>1, <3>4 DEF Walk, Dialing
 <2> QED BY <2>5, <2>6, <2>7
<1> QED BY <1>1, <1>2

\* A connection that ends forgets its walk.
LEMMA WalkEnds ==
    ASSUME TypeOK, WalkInv, NEW k \in Conns, Ends(k) PROVE WalkInv'
<1> SUFFICES ASSUME NEW j \in Conns PROVE Walk(j)'
 BY DEF WalkInv
<1>1. CASE j = k
 <2>1. conn'[k].pc = "none" /\ steady'[k] = {} /\ well'[k] = {}
  BY DEF Ends, TypeOK, FreshConn
 <2> QED BY <1>1, <2>1 DEF Walk, Dialing
<1>2. CASE j # k
 <2>1. Walk(j) /\ conn'[j] = conn[j] /\ steady'[j] = steady[j] /\ well'[j] = well[j]
  BY <1>2 DEF WalkInv, TypeOK, Ends
 <2> QED BY <2>1, WalkStable DEF Walk, Ends, sharedVars
<1> QED BY <1>1, <1>2

\* Steps of others: the history sets only shrink.
LEMMA WalkRest ==
    ASSUME TypeOK, WalkInv,
           ProbeStep \/ Cancel \/ RemovalStep \/ Tick
               \/ (\E t \in Targets : GoesUp(t) \/ GoesDown(t)) \/ UNCHANGED vars
    PROVE  WalkInv'
<1> SUFFICES ASSUME NEW k \in Conns PROVE Walk(k)'
 BY DEF WalkInv
<1>0. Walk(k)
 BY DEF WalkInv
<1>1. CASE ProbeMark
 <2>1. UNCHANGED <<up, steady, conn>> /\ well' = StillWell(well)
  BY <1>1 DEF ProbeMark
 <2> QED BY <1>0, <2>1, WellShrinks, WalkStable
<1>2. CASE UNCHANGED <<up, health, steady, well, conn>>
 BY <1>0, <1>2, WalkStable DEF Walk
<1>3. ASSUME NEW t \in Targets, GoesUp(t) PROVE Walk(k)'
 BY <1>0, <1>3, WalkStable DEF Walk, GoesUp, sharedVars, historyVars
<1>4. ASSUME NEW t \in Targets, GoesDown(t) PROVE Walk(k)'
 <2>1. /\ steady'[k] = steady[k] \ {t} /\ well'[k] = well[k] \ {t}
       /\ up' = up \ {t} /\ UNCHANGED <<conn, health>>
  BY <1>4 DEF GoesDown, sharedVars
 <2>2. /\ steady'[k] \subseteq steady[k] /\ well'[k] \subseteq well[k]
       /\ steady'[k] \subseteq up' /\ well'[k] \subseteq steady'[k]
       /\ \A u \in well'[k] : health'[u].state = "Healthy"
  BY <1>0, <2>1 DEF Walk
 <2> QED BY <1>0, <2>1, <2>2, WalkStable
<1> QED BY <1>1, <1>2, <1>3, <1>4 DEF ProbeStep, ProbeDial, ProbeStop, Cancel, RemovalStep,
  AcceptStops, DrainTimeout, Removed, Tick, vars, sharedVars, historyVars

\* One step keeps what the walks know.
LEMMA WalkStep == TypeOK /\ WalkInv /\ [Next]_vars => WalkInv'
<1> SUFFICES ASSUME TypeOK, WalkInv, [Next]_vars PROVE WalkInv'
 OBVIOUS
<1>1. ASSUME NEW k \in Conns, Accept(k) \/ ConnStep(k) \/ PeerCloses(k) PROVE WalkInv'
 BY <1>1, WalkAccept, WalkSnapshot, WalkDial, WalkMark, WalkEnds DEF ConnStep, Drop, Shutdown,
  PeerCloses
<1> QED BY <1>1, WalkRest DEF Next

\* A served connection is where it should be.
LEMMA WalkServes == TypeOK /\ WalkInv => NoNeedlessDemotion
<1> SUFFICES ASSUME TypeOK, WalkInv, NEW k \in Conns, conn[k].pc = "serve",
                    NEW t \in Targets, t < Candidate(conn[k])
             PROVE  /\ t \notin well[k]
                    /\ conn[k].pos > 1 => t \notin steady[k]
 BY DEF NoNeedlessDemotion
<1> DEFINE c == conn[k]
<1>1. c.first \in Targets /\ c.pos \in Targets
 BY CandidateType
<1>2. /\ \A u \in Targets : u < c.first => u \notin well[k]
      /\ \A i \in Targets : i < c.pos => DialOrder(c.first)[i] \notin steady[k]
      /\ well[k] \subseteq steady[k]
 BY DEF WalkInv, Walk, Dialing
<1>3. CASE c.pos > 1
 <2>1. \E j \in Targets : j < c.pos /\ DialOrder(c.first)[j] = t
  BY <1>1, <1>3, OrderByPriority DEF Candidate
 <2> QED BY <1>2, <2>1
<1>4. CASE ~(c.pos > 1)
 <2>1. c.pos = 1
  BY <1>1, <1>4 DEF Targets
 <2>2. Candidate(c) = c.first
  BY <1>1, <2>1, ConstantsAssumption DEF Candidate, DialOrder, Targets
 <2> QED BY <1>2, <1>4, <2>2
<1> QED BY <1>3, <1>4

\* For any number of targets and of concurrent connections, a connection is
\* served by a target only when each target above it was down or Failed at
\* some moment of its walk, and was down if the first choice failed.
THEOREM DemotionJustified == Spec => []NoNeedlessDemotion
<1>1. Init => TypeOK /\ WalkInv
 BY TypeInit, WalkInit
<1>2. TypeOK /\ WalkInv /\ [Next]_vars => (TypeOK /\ WalkInv)'
 BY TypeStep, WalkStep
<1> QED BY <1>1, <1>2, WalkServes, PTL DEF Spec

\* For any number of targets and of concurrent connections, a connection is
\* dropped only when no target stayed up during its walk.
THEOREM DropJustified == Spec => []DroppedOnlyIfNoneUp
<1>1. Init => TypeOK /\ WalkInv
 BY TypeInit, WalkInit
<1>2. TypeOK /\ WalkInv /\ [Next]_vars => (TypeOK /\ WalkInv)'
 BY TypeStep, WalkStep
<1>3. WalkInv => DroppedOnlyIfNoneUp
 BY DEF WalkInv, Walk, DroppedOnlyIfNoneUp
<1> QED BY <1>1, <1>2, <1>3, PTL DEF Spec

\* A connection is neither demoted nor dropped without cause, over well-formed
\* health records (dial_with_failover).
THEOREM WalkIsSound == Spec => []WalkSound
  BY TypeCorrect, DemotionJustified, DropJustified, PTL DEF WalkSound

----
(* The marks and their counter *)

\* A step leaves the health records alone or records one outcome.
LEMMA OneRecord ==
    ASSUME TypeOK, [Next]_vars
    PROVE  \/ UNCHANGED <<health, failovers, streak>>
           \/ \E t \in Targets, ok \in BOOLEAN, now \in Stamps : Record(t, ok, now)
<1>1. ASSUME NEW k \in Conns, Mark(k)
      PROVE  \E t \in Targets, ok \in BOOLEAN, now \in Stamps : Record(t, ok, now)
 <2>1. conn[k].pc = "mark" /\ Record(Candidate(conn[k]), conn[k].ok, conn[k].at)
  BY <1>1 DEF Mark
 <2>2. Candidate(conn[k]) \in Targets
  BY <2>1, CandidateType DEF Dialing
 <2>3. conn[k].ok \in BOOLEAN /\ conn[k].at \in Stamps
  BY DEF TypeOK, ConnType
 <2> QED BY <2>1, <2>2, <2>3
<1>2. ASSUME ProbeMark PROVE \E t \in Targets, ok \in BOOLEAN, now \in Stamps : Record(t, ok, now)
 <2>1. Record(prober.next, prober.ok, prober.at)
  BY <1>2 DEF ProbeMark
 <2>2. prober.next \in Targets /\ prober.ok \in BOOLEAN /\ prober.at \in Stamps
  BY DEF TypeOK
 <2> QED BY <2>1, <2>2
<1> USE DEF sharedVars
<1>3. ASSUME NEW k \in Conns,
             Accept(k) \/ Snapshot(k) \/ Dial(k) \/ Prelude(k) \/ Drop(k) \/ Shutdown(k) \/ PeerCloses(k)
      PROVE  UNCHANGED <<health, failovers, streak>>
 BY <1>3 DEF Accept, Snapshot, Dial, Prelude, Drop, Shutdown, PeerCloses, Ends
<1>4. ASSUME NEW t \in Targets, GoesUp(t) \/ GoesDown(t) PROVE UNCHANGED <<health, failovers, streak>>
 BY <1>4 DEF GoesUp, GoesDown
<1>5. ASSUME ProbeDial \/ ProbeStop \/ Cancel \/ RemovalStep \/ Tick \/ UNCHANGED vars
      PROVE  UNCHANGED <<health, failovers, streak>>
 BY <1>5 DEF ProbeDial, ProbeStop, Cancel, RemovalStep, AcceptStops, DrainTimeout, Removed, Tick,
  vars
<1> QED BY <1>1, <1>2, <1>3, <1>4, <1>5 DEF Next, ConnStep, ProbeStep

FailedTargets == {t \in Targets : health[t].state = "Failed"}

\* The counter wraps at an even modulus: its parity alternates.
LEMMA BumpParity ==
    ASSUME NEW n, n \in 0..(CounterMod - 1), CounterMod % 2 = 0
    PROVE  Bump(n, TRUE) % 2 = 1 - (n % 2) /\ Bump(n, FALSE) = n /\ n % 2 \in {0, 1}
<1>1. CounterMod \in Nat /\ n \in Nat /\ n < CounterMod
 BY ConstantsAssumption
<1> USE <1>1
<1>2. CASE n + 1 = CounterMod
 <2>1. (n + 1) % CounterMod = 0
  BY <1>2
 <2>2. n % 2 = 1
  BY <1>2
 <2> QED BY <2>1, <2>2 DEF Bump
<1>3. CASE n + 1 # CounterMod
 <2>1. n + 1 < CounterMod
  BY <1>3
 <2>2. (n + 1) % CounterMod = n + 1
  BY <2>1
 <2>3. (n + 1) % 2 = 1 - (n % 2)
  OBVIOUS
 <2> QED BY <2>2, <2>3 DEF Bump
<1> QED BY <1>2, <1>3

\* The Failed targets are finitely many.
LEMMA FailedFinite == IsFiniteSet(FailedTargets) /\ Cardinality(FailedTargets) \in Nat
<1>1. IsFiniteSet(Targets)
 BY ConstantsAssumption, FS_Interval DEF Targets
<1>2. FailedTargets \subseteq Targets
 BY DEF FailedTargets
<1>3. IsFiniteSet(FailedTargets)
 BY <1>1, <1>2, FS_Subset
<1> QED BY <1>3, FS_CardinalityType

\* An outcome is counted exactly when it changes a mark.
LEMMA RecordCounted ==
    ASSUME TypeOK, NEW t \in Targets, NEW ok \in BOOLEAN, NEW now \in Stamps, Record(t, ok, now)
    PROVE  /\ failovers' = Bump(failovers, health'[t].state # health[t].state)
           /\ health'[t].state \in {"Healthy", "Failed"} /\ health[t].state \in {"Healthy", "Failed"}
           /\ \A u \in Targets : u # t => health'[u] = health[u]
<1>1. health \in [Targets -> HealthType] /\ health[t] \in HealthType
 BY DEF TypeOK, HealthType
<1>2. health[t].state \in {"Healthy", "Failed"}
 BY <1>1 DEF HealthType
<1>3. CASE ok
 <2>1. /\ health' = [health EXCEPT ![t] = SuccessRecorded(health[t])]
       /\ failovers' = Bump(failovers, Recovers(health[t]))
  BY <1>3 DEF Record, RecordSuccess
 <2>2. health'[t] = SuccessRecorded(health[t])
  BY <1>1, <2>1
 <2>3. SuccessRecorded(health[t]).state =
         IF health[t].state = "Healthy" \/ Recovers(health[t]) THEN "Healthy" ELSE health[t].state
  BY <1>1 DEF SuccessRecorded, FreshHealth, HealthType
 <2>4. (health'[t].state # health[t].state) <=> Recovers(health[t])
  BY <1>2, <2>2, <2>3 DEF Recovers
 <2>5. (health'[t].state # health[t].state) = Recovers(health[t])
  BY <2>4 DEF Recovers
 <2> QED BY <1>1, <1>2, <2>1, <2>2, <2>3, <2>5
<1>4. CASE ~ok
 <2>1. /\ health' = [health EXCEPT ![t] = FailureRecorded(health[t], now)]
       /\ failovers' = Bump(failovers, Trips(health[t], now))
  BY <1>4 DEF Record, RecordFailure
 <2>2. health'[t] = FailureRecorded(health[t], now)
  BY <1>1, <2>1
 <2>3. FailureRecorded(health[t], now).state = IF Trips(health[t], now) THEN "Failed" ELSE health[t].state
  BY DEF FailureRecorded
 <2>4. (health'[t].state # health[t].state) <=> Trips(health[t], now)
  BY <1>2, <2>2, <2>3 DEF Trips
 <2>5. (health'[t].state # health[t].state) = Trips(health[t], now)
  BY <2>4 DEF Trips
 <2> QED BY <1>1, <1>2, <2>1, <2>2, <2>3, <2>5
<1> QED BY <1>3, <1>4

\* A step turns as many states as it counts transitions.
LEMMA CountedStep ==
    ASSUME TypeOK, FailoversCounted, [Next]_vars PROVE FailoversCounted'
<1> SUFFICES ASSUME CounterMod % 2 = 0,
                    failovers % 2 = Cardinality(FailedTargets) % 2
             PROVE  failovers' % 2 = Cardinality(FailedTargets') % 2
 BY DEF FailoversCounted, FailedTargets
<1>1. CASE UNCHANGED <<health, failovers, streak>>
 BY <1>1 DEF FailedTargets
<1>2. CASE \E t \in Targets, ok \in BOOLEAN, now \in Stamps : Record(t, ok, now)
 <2>1. PICK t \in Targets, ok \in BOOLEAN, now \in Stamps : Record(t, ok, now)
  BY <1>2
 <2>2. /\ failovers' = Bump(failovers, health'[t].state # health[t].state)
       /\ health'[t].state \in {"Healthy", "Failed"} /\ health[t].state \in {"Healthy", "Failed"}
       /\ \A u \in Targets : u # t => health'[u] = health[u]
  BY <2>1, RecordCounted
 <2>3. failovers \in 0..(CounterMod - 1)
  BY DEF TypeOK
 <2>4. Bump(failovers, TRUE) % 2 = 1 - (failovers % 2) /\ Bump(failovers, FALSE) = failovers
       /\ failovers % 2 \in {0, 1}
  BY <2>3, BumpParity
 <2>5. IsFiniteSet(FailedTargets) /\ Cardinality(FailedTargets) \in Nat
  BY FailedFinite
 <2> DEFINE F == FailedTargets
            n == Cardinality(F)
            b == health'[t].state # health[t].state
 <2>6. CASE health'[t].state = health[t].state
  <3>1. FailedTargets' = F
   BY <2>2, <2>6 DEF FailedTargets
  <3>2. b = FALSE
   BY <2>6
  <3> HIDE DEF b
  <3>3. failovers' = failovers
   BY <2>2, <2>4, <3>2 DEF b
  <3> QED BY <3>1, <3>3
 <2>7. CASE health'[t].state # health[t].state
  <3>0. b = TRUE
   BY <2>7
  <3>1. failovers' % 2 = 1 - (failovers % 2)
   <4> HIDE DEF b
   <4> QED BY <2>2, <2>4, <3>0 DEF b
  <3>2. CASE health[t].state = "Healthy"
   <4>1. t \notin F /\ FailedTargets' = F \cup {t}
    BY <2>2, <2>7, <3>2 DEF FailedTargets
   <4> HIDE DEF F
   <4>2. Cardinality(F \cup {t}) = n + 1
    BY <2>5, <4>1, FS_AddElement DEF F
   <4>3. n \in Nat
    BY <2>5 DEF F
   <4> HIDE DEF n
   <4>4. (n + 1) % 2 = 1 - (n % 2)
    BY <4>3
   <4> QED BY <3>1, <4>1, <4>2, <4>4 DEF n, F
  <3>3. CASE health[t].state # "Healthy"
   <4>1. t \in F /\ FailedTargets' = F \ {t}
    BY <2>2, <2>7, <3>3 DEF FailedTargets
   <4> HIDE DEF F
   <4>2. Cardinality(F \ {t}) = n - 1 /\ IsFiniteSet(F \ {t})
    BY <2>5, <4>1, FS_RemoveElement DEF F
   <4>3. n \in Nat /\ n - 1 \in Nat
    BY <2>5, <4>2, FS_CardinalityType DEF F
   <4> HIDE DEF n
   <4>4. (n - 1) % 2 = 1 - (n % 2)
    BY <4>3
   <4> QED BY <3>1, <4>1, <4>2, <4>4 DEF n, F
  <3> QED BY <3>2, <3>3
 <2> QED BY <2>6, <2>7
<1> QED BY <1>1, <1>2, OneRecord

\* target_failovers_total counts every change of a mark once, whoever records
\* it and however often it wraps (FR-010).
THEOREM FailoversAreCounted == Spec => []FailoversCounted
<1>1. Init => FailoversCounted
 <2> SUFFICES ASSUME Init PROVE FailoversCounted
  OBVIOUS
 <2>1. {t \in Targets : health[t].state = "Failed"} = {} /\ failovers = 0
  BY DEF Init, FreshHealth
 <2>2. Cardinality({}) = 0
  BY FS_EmptySet
 <2> QED BY <2>1, <2>2 DEF FailoversCounted
<1> QED BY <1>1, TypeInit, TypeStep, CountedStep, PTL DEF Spec


----
(* The evidence behind a mark *)

\* The i-th stamp from the end of a streak.
FromEnd(s, i) == s[Len(s) - i + 1]

\* A stamp appended to what is remembered: the others move back by one, and
\* at most the oldest is forgotten.
LEMMA RememberedEnd ==
    ASSUME NEW s, NEW now, s \in Seq(Nat), now \in Nat, StreakLen \in Nat \ {0}, Len(s) <= StreakLen
    PROVE  LET r == Remembered(Append(s, now)) IN
           /\ r \in Seq(Nat)
           /\ Len(r) = IF Len(s) < StreakLen THEN Len(s) + 1 ELSE StreakLen
           /\ FromEnd(r, 1) = now
           /\ \A i \in 1..Len(s) : i + 1 <= Len(r) => FromEnd(r, i + 1) = FromEnd(s, i)
<1> DEFINE a == Append(s, now)
           r == Remembered(a)
<1>1. a \in Seq(Nat) /\ Len(a) = Len(s) + 1 /\ a[Len(s) + 1] = now
      /\ (\A i \in 1..Len(s) : a[i] = s[i]) /\ Len(s) \in Nat
 OBVIOUS
<1> HIDE DEF a
<1>2. CASE Len(s) < StreakLen
 <2> USE <1>1
 <2>1. r = a
  BY <1>2 DEF Remembered
 <2> HIDE DEF r
 <2>2. FromEnd(r, 1) = now
  BY <2>1 DEF FromEnd
 <2>3. ASSUME NEW i \in 1..Len(s) PROVE FromEnd(r, i + 1) = FromEnd(s, i)
  <3>1. Len(s) - i + 1 \in 1..Len(s) /\ Len(a) - (i + 1) + 1 = Len(s) - i + 1
   OBVIOUS
  <3> QED BY <2>1, <3>1 DEF FromEnd
 <2> QED BY <1>2, <2>1, <2>2, <2>3 DEF r, a
<1>3. CASE ~ (Len(s) < StreakLen)
 <2>1. Len(s) = StreakLen /\ r = SubSeq(a, 2, Len(a))
  <3>1. Len(s) = StreakLen /\ ~ (Len(a) <= StreakLen) /\ Len(a) - StreakLen + 1 = 2
   BY <1>1, <1>3
  <3> QED BY <3>1 DEF Remembered
 <2> HIDE DEF r
 <2>2. r \in Seq(Nat) /\ Len(r) = StreakLen /\ \A j \in 1..StreakLen : r[j] = a[j + 1]
  BY <1>1, <2>1, SubSeqProperties
 <2>3. FromEnd(r, 1) = now
  BY <1>1, <2>1, <2>2 DEF FromEnd
 <2>4. ASSUME NEW i \in 1..Len(s), i + 1 <= Len(r) PROVE FromEnd(r, i + 1) = FromEnd(s, i)
  <3> DEFINE n == StreakLen
  <3>0. n \in Nat /\ Len(s) = n /\ Len(r) = n /\ i \in 1..n /\ i + 1 <= n
   BY <2>1, <2>2, <2>4
  <3> HIDE DEF n
  <3>1. n - (i + 1) + 1 = n - i /\ n - i \in 1..n /\ (n - i) + 1 \in 1..n /\ (n - i) + 1 = n - i + 1
   BY <3>0
  <3>2. r[n - i] = a[(n - i) + 1] /\ a[(n - i) + 1] = s[(n - i) + 1]
   BY <1>1, <2>2, <3>0, <3>1 DEF n
  <3> QED BY <3>0, <3>1, <3>2 DEF FromEnd
 <2> QED BY <1>3, <2>1, <2>2, <2>3, <2>4 DEF r, a
<1> QED BY <1>2, <1>3

\* What the streak of a target shows of its record while it is Healthy: the
\* window's failures are its last ones, the first of them the anchor; before
\* the window there is another one, too old for it, or nothing.
Evidence(h, s) ==
    /\ s \in Seq(Nat) /\ Len(s) <= StreakLen
    /\ h.state = "Healthy" =>
         /\ h.fails < FailThreshold /\ h.fails <= Len(s)
         /\ h.start = None => h.fails = 0
         /\ h.fails = 0 => h.start = None /\ Len(s) = 0
         /\ h.fails > 0 =>
              /\ FromEnd(s, h.fails) = h.start
              /\ \A i \in 1..h.fails : FromEnd(s, i) <= h.start + Window
         /\ Len(s) > h.fails =>
              \E m \in 1..(FailThreshold - 1) :
                 m + h.fails <= Len(s) => FromEnd(s, h.fails) > FromEnd(s, h.fails + m) + Window

EvidenceInv == DOMAIN streak = Targets /\ \A t \in Targets : Evidence(health[t], streak[t])

\* A failure of a Healthy target: the evidence follows, and a mark has its
\* FailThreshold failures.
LEMMA FailureEvidence ==
    ASSUME NEW h, NEW s, NEW now, h \in HealthType, now \in Stamps,
           FailThreshold >= 2, StreakLen >= FailThreshold, Evidence(h, s)
    PROVE  LET r == Remembered(Append(s, now)) IN
           /\ Evidence(FailureRecorded(h, now), r)
           /\ Trips(h, now) =>
                /\ Len(r) >= FailThreshold
                /\ \A i \in 1..FailThreshold : FromEnd(r, i) <= FromEnd(r, FailThreshold) + Window
<1> DEFINE r == Remembered(Append(s, now))
           g == FailureRecorded(h, now)
<1>0. /\ FailThreshold \in Nat /\ StreakLen \in Nat \ {0} /\ now \in Nat /\ CountMax \in Nat
      /\ CountMax >= FailThreshold /\ Window \in Nat /\ now # None /\ None \in Nat
 BY ConstantsAssumption DEF Stamps, None
<1>1. s \in Seq(Nat) /\ Len(s) \in Nat /\ Len(s) <= StreakLen
 BY DEF Evidence
<1>2. /\ r \in Seq(Nat)
      /\ Len(r) = IF Len(s) < StreakLen THEN Len(s) + 1 ELSE StreakLen
      /\ FromEnd(r, 1) = now
      /\ \A i \in 1..Len(s) : i + 1 <= Len(r) => FromEnd(r, i + 1) = FromEnd(s, i)
 BY <1>0, <1>1, RememberedEnd
<1> HIDE DEF r
<1>3. /\ g.state = (IF Trips(h, now) THEN "Failed" ELSE h.state)
      /\ g.fails = CountedFailures(h, now)
      /\ g.start = (IF WindowOpen(h, now) THEN h.start ELSE now)
 BY DEF FailureRecorded
<1> HIDE DEF g
<1>4. h.fails \in Nat /\ h.start \in Nat /\ h.fails <= CountMax
 BY <1>0 DEF HealthType
<1>5. Len(r) \in Nat /\ Len(r) <= StreakLen
 BY <1>0, <1>1, <1>2
<1>6. CASE h.state # "Healthy"
 <2>1. ~ Trips(h, now) /\ g.state # "Healthy"
  BY <1>3, <1>6 DEF Trips
 <2> QED BY <1>2, <1>5, <2>1 DEF Evidence, r, g
<1>7. CASE h.state = "Healthy"
 <2>1. /\ h.fails < FailThreshold /\ h.fails <= Len(s)
       /\ h.start = None => h.fails = 0
       /\ h.fails = 0 => h.start = None /\ Len(s) = 0
       /\ h.fails > 0 =>
            /\ FromEnd(s, h.fails) = h.start
            /\ \A i \in 1..h.fails : FromEnd(s, i) <= h.start + Window
  BY <1>7 DEF Evidence
 <2>2. CASE WindowOpen(h, now)
  <3>1. h.start # None /\ now <= h.start + Window /\ h.fails > 0
   BY <1>4, <2>1, <2>2 DEF WindowOpen
  <3>2. g.fails = h.fails + 1 /\ g.start = h.start
   BY <1>0, <1>3, <1>4, <2>1, <2>2 DEF CountedFailures
  <3>3. h.fails + 1 <= Len(r)
   BY <1>0, <1>1, <1>2, <1>4, <2>1
  <3>4. FromEnd(r, h.fails + 1) = h.start
   <4>1. h.fails \in 1..Len(s)
    BY <1>1, <1>4, <2>1, <3>1
   <4> QED BY <1>2, <2>1, <3>1, <3>3, <4>1
  <3>5. ASSUME NEW i \in 1..(h.fails + 1) PROVE FromEnd(r, i) <= h.start + Window
   <4>1. CASE i = 1
    BY <1>2, <3>1, <4>1
   <4>2. CASE i # 1
    <5>1. i - 1 \in 1..Len(s) /\ (i - 1) + 1 <= Len(r) /\ i - 1 \in 1..h.fails /\ (i - 1) + 1 = i
     BY <1>1, <1>4, <1>5, <2>1, <3>3, <4>2
    <5>2. FromEnd(r, (i - 1) + 1) = FromEnd(s, i - 1)
     BY <1>2, <5>1
    <5> QED BY <2>1, <3>1, <5>1, <5>2
   <4> QED BY <4>1, <4>2
  <3>6. Trips(h, now) <=> h.fails + 1 >= FailThreshold
   BY <1>3, <1>7, <3>2 DEF Trips
  <3>7. Trips(h, now) => h.fails + 1 = FailThreshold
   BY <1>0, <1>4, <2>1, <3>6
  <3>8. ASSUME ~ Trips(h, now), Len(r) > h.fails + 1
        PROVE  \E m \in 1..(FailThreshold - 1) :
                  m + (h.fails + 1) <= Len(r) =>
                     FromEnd(r, h.fails + 1) > FromEnd(r, (h.fails + 1) + m) + Window
   <4>1. Len(s) > h.fails
    BY <1>0, <1>1, <1>2, <1>4, <3>8
   <4>2. PICK m \in 1..(FailThreshold - 1) :
            m + h.fails <= Len(s) => FromEnd(s, h.fails) > FromEnd(s, h.fails + m) + Window
    BY <1>7, <4>1 DEF Evidence
   <4>3. ASSUME m + (h.fails + 1) <= Len(r)
         PROVE  FromEnd(r, h.fails + 1) > FromEnd(r, (h.fails + 1) + m) + Window
    <5>1. m \in Nat /\ m >= 1
     BY <1>0
    <5>0. Len(r) <= Len(s) + 1 /\ Len(r) \in Nat /\ Len(s) \in Nat /\ h.fails \in Nat
     BY <1>0, <1>1, <1>2, <1>4
    <5>2. h.fails + m \in 1..Len(s) /\ (h.fails + m) + 1 <= Len(r) /\ m + h.fails <= Len(s)
          /\ (h.fails + m) + 1 = (h.fails + 1) + m /\ h.fails \in 1..Len(s)
     BY <2>1, <3>1, <4>3, <5>0, <5>1
    <5>3. FromEnd(r, (h.fails + m) + 1) = FromEnd(s, h.fails + m)
     BY <1>2, <5>2
    <5>4. FromEnd(r, h.fails + 1) = FromEnd(s, h.fails)
     BY <1>2, <3>3, <5>2
    <5> QED BY <4>2, <5>2, <5>3, <5>4
   <4> QED BY <4>3
  <3>9. Evidence(g, r)
   <4>1. CASE Trips(h, now)
    BY <1>2, <1>3, <1>5, <4>1 DEF Evidence
   <4>2. CASE ~ Trips(h, now)
    <5>1. g.fails < FailThreshold /\ g.fails \in Nat /\ g.fails # 0 /\ g.start # None
     BY <1>0, <1>4, <3>1, <3>2, <3>6, <4>2
    <5> QED BY <1>2, <1>5, <3>2, <3>3, <3>4, <3>5, <3>8, <4>2, <5>1 DEF Evidence
   <4> QED BY <4>1, <4>2
  <3>10. ASSUME Trips(h, now)
         PROVE  /\ Len(r) >= FailThreshold
                /\ \A i \in 1..FailThreshold : FromEnd(r, i) <= FromEnd(r, FailThreshold) + Window
   BY <3>3, <3>4, <3>5, <3>7, <3>10
  <3> QED BY <3>9, <3>10 DEF r, g
 <2>3. CASE ~ WindowOpen(h, now)
  <3>1. g.fails = 1 /\ g.start = now
   BY <1>3, <2>3 DEF CountedFailures
  <3>2. ~ Trips(h, now)
   BY <1>0, <2>3 DEF Trips, CountedFailures
  <3>3. Len(r) >= 1
   BY <1>0, <1>1, <1>2
  <3>4. FromEnd(r, 1) = now /\ \A i \in 1..1 : FromEnd(r, i) <= now + Window
   BY <1>0, <1>2
  <3>5. ASSUME Len(r) > 1
        PROVE  \E m \in 1..(FailThreshold - 1) :
                  m + 1 <= Len(r) => FromEnd(r, 1) > FromEnd(r, 1 + m) + Window
   <4>1. h.fails > 0
    BY <1>0, <1>1, <1>2, <1>4, <2>1, <3>5
   <4>2. now > h.start + Window
    BY <1>0, <1>4, <2>1, <2>3, <4>1 DEF WindowOpen
   <4>3. h.fails \in 1..(FailThreshold - 1) /\ h.fails \in 1..Len(s)
    BY <1>0, <1>1, <1>4, <2>1, <4>1
   <4>4. ASSUME h.fails + 1 <= Len(r) PROVE FromEnd(r, 1) > FromEnd(r, 1 + h.fails) + Window
    <5>1. FromEnd(r, h.fails + 1) = FromEnd(s, h.fails) /\ h.fails + 1 = 1 + h.fails
     BY <1>2, <1>4, <4>3, <4>4
    <5> QED BY <1>2, <2>1, <4>1, <4>2, <5>1
   <4> QED BY <4>3, <4>4
  <3>6. Evidence(g, r)
   BY <1>0, <1>2, <1>5, <3>1, <3>3, <3>4, <3>5 DEF Evidence
  <3> QED BY <3>2, <3>6 DEF r, g
 <2> QED BY <2>2, <2>3
<1> QED BY <1>6, <1>7


\* A success: nothing is left of the streak, nor of a Healthy record.
LEMMA SuccessEvidence ==
    ASSUME NEW h, NEW s, h \in HealthType, FailThreshold >= 2, StreakLen \in Nat
    PROVE  Evidence(SuccessRecorded(h), <<>>) /\ (h.state = "Healthy" => SuccessRecorded(h).state = "Healthy")
<1>1. <<>> \in Seq(Nat) /\ Len(<<>>) = 0
 OBVIOUS
<1>2. CASE h.state = "Healthy" \/ Recovers(h)
 BY <1>1, <1>2, ConstantsAssumption DEF SuccessRecorded, FreshHealth, Evidence
<1>3. CASE ~ (h.state = "Healthy" \/ Recovers(h))
 <2>1. SuccessRecorded(h).state = h.state /\ h.state # "Healthy"
  BY <1>3 DEF SuccessRecorded, HealthType
 <2> QED BY <1>1, <2>1 DEF Evidence
<1> QED BY <1>2, <1>3

\* The streak behind a new mark.
Marked(s) ==
    /\ Len(s) >= FailThreshold
    /\ \A i \in (Len(s) - FailThreshold + 1)..Len(s) :
           s[i] <= s[Len(s) - FailThreshold + 1] + Window

\* A step keeps the evidence, and a target it marks has failed often enough.
LEMMA EvidenceStep ==
    ASSUME TypeOK, EvidenceInv, [Next]_vars, FailThreshold >= 2, StreakLen >= FailThreshold
    PROVE  /\ EvidenceInv'
           /\ \A t \in Targets :
                 health[t].state = "Healthy" /\ health'[t].state = "Failed" => Marked(streak'[t])
<1>0. FailThreshold \in Nat /\ StreakLen \in Nat
 BY ConstantsAssumption
<1>1. CASE UNCHANGED <<health, failovers, streak>>
 BY <1>1 DEF EvidenceInv
<1>2. CASE \E t \in Targets, ok \in BOOLEAN, now \in Stamps : Record(t, ok, now)
 <2>1. PICK t \in Targets, ok \in BOOLEAN, now \in Stamps : Record(t, ok, now)
  BY <1>2
 <2>2. health \in [Targets -> HealthType] /\ health[t] \in HealthType
  BY DEF TypeOK, HealthType
 <2>3. DOMAIN streak = Targets /\ \A u \in Targets : Evidence(health[u], streak[u])
  BY DEF EvidenceInv
 <2>4. CASE ok
  <3>1. /\ health' = [health EXCEPT ![t] = SuccessRecorded(health[t])]
        /\ streak' = [streak EXCEPT ![t] = <<>>]
   BY <2>1, <2>4 DEF Record, RecordSuccess
  <3>2. /\ health'[t] = SuccessRecorded(health[t]) /\ streak'[t] = <<>>
        /\ \A u \in Targets : u # t => health'[u] = health[u] /\ streak'[u] = streak[u]
        /\ DOMAIN streak' = Targets
   BY <2>2, <2>3, <3>1
  <3>3. /\ Evidence(health'[t], streak'[t])
        /\ health[t].state = "Healthy" => health'[t].state = "Healthy"
   BY <1>0, <2>2, <3>2, SuccessEvidence
  <3> QED BY <2>3, <3>2, <3>3 DEF EvidenceInv
 <2>5. CASE ~ok
  <3>1. /\ health' = [health EXCEPT ![t] = FailureRecorded(health[t], now)]
        /\ streak' = [streak EXCEPT ![t] = Remembered(Append(streak[t], now))]
   BY <2>1, <2>5 DEF Record, RecordFailure
  <3> DEFINE r == Remembered(Append(streak[t], now))
  <3>2. /\ health'[t] = FailureRecorded(health[t], now) /\ streak'[t] = r
        /\ \A u \in Targets : u # t => health'[u] = health[u] /\ streak'[u] = streak[u]
        /\ DOMAIN streak' = Targets
   BY <2>2, <2>3, <3>1
  <3>3. /\ Evidence(FailureRecorded(health[t], now), r)
        /\ Trips(health[t], now) =>
             /\ Len(r) >= FailThreshold
             /\ \A i \in 1..FailThreshold : FromEnd(r, i) <= FromEnd(r, FailThreshold) + Window
   BY <2>2, <2>3, FailureEvidence
  <3> HIDE DEF r
  <3>4. health[t].state = "Healthy" /\ health'[t].state = "Failed" => Trips(health[t], now)
   BY <3>2 DEF FailureRecorded
  <3>5. ASSUME Trips(health[t], now) PROVE Marked(r)
   <4>1. Len(r) \in Nat /\ Len(r) >= FailThreshold
    BY <3>3, <3>5 DEF Evidence
   <4>2. ASSUME NEW i \in (Len(r) - FailThreshold + 1)..Len(r)
         PROVE  r[i] <= r[Len(r) - FailThreshold + 1] + Window
    <5>1. Len(r) - i + 1 \in 1..FailThreshold /\ Len(r) - (Len(r) - i + 1) + 1 = i
     BY <1>0, <4>1
    <5>2. FromEnd(r, Len(r) - i + 1) = r[i]
     BY <5>1 DEF FromEnd
    <5> QED BY <3>3, <3>5, <5>1, <5>2 DEF FromEnd
   <4> QED BY <4>1, <4>2 DEF Marked
  <3> QED BY <2>3, <3>2, <3>3, <3>4, <3>5 DEF EvidenceInv
 <2> QED BY <2>4, <2>5
<1> QED BY <1>1, <1>2, OneRecord

\* 2 * FailThreshold - 2 failures within Window do not leave a target Healthy:
\* they would have to hold the anchors of two windows.
LEMMA EvidenceNotices ==
    ASSUME TypeOK, EvidenceInv, FailThreshold >= 2 PROVE BurstIsNoticed
<1> SUFFICES ASSUME NEW t \in Targets, WithinWindow(streak[t], 2 * FailThreshold - 2),
                    health[t].state # "Failed"
             PROVE  FALSE
 BY DEF BurstIsNoticed
<1> DEFINE h == health[t]  s == streak[t]  n == Len(s)
<1>1. h \in HealthType /\ h.state = "Healthy" /\ h.fails \in Nat
 BY DEF TypeOK, HealthType
<1>2. Evidence(h, s) /\ n \in Nat /\ FailThreshold \in Nat /\ Window \in Nat /\ s \in Seq(Nat)
 BY ConstantsAssumption DEF EvidenceInv, Evidence
<1>3. n >= 2 * FailThreshold - 2
      /\ \A i, j \in (n - (2 * FailThreshold - 2) + 1)..n : s[j] <= s[i] + Window
 BY DEF WithinWindow
<1>4. h.fails < FailThreshold /\ h.fails > 0 /\ n > h.fails
 <2>1. h.fails < FailThreshold /\ (h.fails = 0 => n = 0)
  BY <1>1, <1>2 DEF Evidence
 <2> HIDE DEF n
 <2> QED BY <1>1, <1>2, <1>3, <2>1
<1>5. PICK m \in 1..(FailThreshold - 1) :
         m + h.fails <= n => FromEnd(s, h.fails) > FromEnd(s, h.fails + m) + Window
 BY <1>1, <1>2, <1>4 DEF Evidence
<1> DEFINE i == n - (h.fails + m) + 1  j == n - h.fails + 1
<1>6. FromEnd(s, h.fails) = s[j] /\ FromEnd(s, h.fails + m) = s[i]
 BY DEF FromEnd
<1>n. \A k \in 1..n : s[k] \in Nat
 <2> HIDE DEF s
 <2> QED BY <1>2
<1> HIDE DEF h, n
<1>7. /\ m + h.fails <= n
      /\ i \in (n - (2 * FailThreshold - 2) + 1)..n /\ j \in (n - (2 * FailThreshold - 2) + 1)..n
      /\ i \in 1..n /\ j \in 1..n
 BY <1>1, <1>2, <1>3, <1>4, <1>5
<1> HIDE DEF i, j
<1>8. s[i] \in Nat /\ s[j] \in Nat
 BY <1>n, <1>7
<1> QED BY <1>2, <1>3, <1>5, <1>6, <1>7, <1>8

\* A target is marked only by FailThreshold failures in a row stamped within
\* Window of the first, and 2 * FailThreshold - 2 failures within Window do
\* mark it, with any stamps, in any order of the records (HealthState).
THEOREM HealthIsSound ==
    ASSUME FailThreshold >= 2, StreakLen >= FailThreshold PROVE Spec => HealthSound
<1>1. Init => EvidenceInv
 <2> SUFFICES ASSUME Init PROVE EvidenceInv
  OBVIOUS
 <2>1. <<>> \in Seq(Nat) /\ Len(<<>>) = 0
  OBVIOUS
 <2>2. DOMAIN streak = Targets
  BY DEF Init
 <2>3. ASSUME NEW t \in Targets PROVE Evidence(health[t], streak[t])
  BY <2>1, ConstantsAssumption DEF Init, FreshHealth, Evidence
 <2> QED BY <2>2, <2>3 DEF EvidenceInv
<1>2. TypeOK /\ EvidenceInv /\ [Next]_vars => EvidenceInv'
 BY EvidenceStep
<1>3. TypeOK /\ EvidenceInv /\ [Next]_vars =>
        [\A t \in Targets :
          health[t].state = "Healthy" /\ health'[t].state = "Failed" =>
              LET s == streak'[t] IN
              /\ Len(s) >= FailThreshold
              /\ \A i \in (Len(s) - FailThreshold + 1)..Len(s) :
                     s[i] <= s[Len(s) - FailThreshold + 1] + Window]_vars
 BY EvidenceStep DEF Marked
<1>4. TypeOK /\ EvidenceInv => BurstIsNoticed
 BY EvidenceNotices
<1> QED BY <1>1, <1>2, <1>3, <1>4, TypeInit, TypeStep, PTL DEF Spec, HealthSound, FailedOnEvidence

=============================================================================
