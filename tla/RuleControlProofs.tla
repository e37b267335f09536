------------------------- MODULE RuleControlProofs -------------------------
(***************************************************************************)
(* Proofs about RuleControl, for any number of requests, ports, rules, *)
(* sessions, forwarders and restarts: the types, and that a crash never *)
(* loses a rule the operator can see; and, where no request changes a *)
(* rate limit, that the client can stop every listener it has and that *)
(* what the operator reads of a rule is what the client did. *)
(***************************************************************************)
EXTENDS RuleControl, SequenceTheorems, FiniteSetTheorems, TLAPS

USE BoundsAssumption, SentinelAssumption, CapableAssumption, PortsAssumption

\* The bounds are numbers.
LEMMA Constants ==
  /\ MaxRules \in Nat /\ MaxRequests \in Nat /\ MaxSpawns \in Nat /\ MaxSessions \in Nat
  /\ MaxRestarts \in Nat /\ EventCap \in Nat
  OBVIOUS

\* There are n numbers from 1 to n.
LEMMA CountTo == ASSUME NEW n \in Nat PROVE Cardinality(1 .. n) = n
<1>1. 1 \in Int /\ n \in Int
  OBVIOUS
<1>2. Cardinality(1 .. n) = IF 1 > n THEN 0 ELSE n - 1 + 1
  BY ONLY <1>1, FS_Interval
<1> QED BY <1>2

\* A rule id may stand where none is recorded as 0.
LEMMA RuleRange == \A r \in RuleIds : r \in 0 .. MaxRules
  BY Constants DEF RuleIds

\* A request past its conflict check knows its rule, and carries a copy of it
\* while one is to be stored or sent.
GoodTask ==
    {k \in Task : /\ k.pc \notin {"idle", "insert"} => k.rule \in RuleIds
                  /\ k.pc \in {"persist", "write"} \/ (k.pc = "send" /\ k.op # "remove") => k.snap \in Rule}

\* So does a session that replays a rule or applies a status to it.
GoodPump ==
    {k \in Pump : /\ k.pc \in {"replayRead", "replayWrite", "serveRead", "serveWrite"} => k.rule \in RuleIds
                  /\ k.pc \in {"replayWrite", "serveWrite"} => k.snap \in Rule}

\* A forwarder that was spawned serves a rule.
GoodForwarder == {k \in ForwarderTask : k.phase # "none" => k.rule \in RuleIds}

\* The types, as an inductive invariant.
TypeInv ==
    /\ ServerTypes /\ WireTypes /\ ClientTypes
    /\ task \in [Tasks -> GoodTask]
    /\ pump \in [Sessions -> GoodPump]
    /\ fw \in [Spawns -> GoodForwarder]

LEMMA IdleType == IdleTask \in GoodTask /\ FreshPump \in GoodPump /\ NoForwarder \in GoodForwarder
  BY DEF IdleTask, FreshPump, NoForwarder, Task, TaskPCs, Pump, PumpPCs, ForwarderTask, RuleOrNone,
   Limit, Requests, Outcomes, GoodTask, GoodPump, GoodForwarder

LEMMA TaskStep ==
  ASSUME NEW t \in Tasks, NEW k \in GoodTask, task \in [Tasks -> GoodTask], Step(t, k)
  PROVE  task' \in [Tasks -> GoodTask]
  BY DEF Step

LEMMA PumpTypeStep ==
  ASSUME NEW s \in Sessions, NEW k \in GoodPump, pump \in [Sessions -> GoodPump], PumpStep(s, k)
  PROVE  pump' \in [Sessions -> GoodPump]
  BY DEF PumpStep

LEMMA MarkType ==
  ASSUME NEW r, NEW state \in States, mem \in [RuleIds -> RuleOrNone], Mark(r, state)
  PROVE  mem' \in [RuleIds -> RuleOrNone]
  BY DEF Mark, Known, RuleOrNone, Rule

LEMMA UpsertType ==
  ASSUME NEW r, NEW rule \in RuleOrNone, db \in [RuleIds -> RuleOrNone], Upsert(r, rule)
  PROVE  db' \in [RuleIds -> RuleOrNone]
  BY DEF Upsert

LEMMA DeleteType ==
  ASSUME NEW r, db \in [RuleIds -> RuleOrNone], Delete(r) PROVE db' \in [RuleIds -> RuleOrNone]
  BY DEF Delete, RuleOrNone

LEMMA SendType ==
  ASSUME NEW s, NEW m \in Update \cup {Welcome},
         toClient \in [Sessions -> Seq(Update \cup {Welcome})], Send(s, m)
  PROVE  toClient' \in [Sessions -> Seq(Update \cup {Welcome})]
<1> DEFINE M == Update \cup {Welcome}
<1>1. \A q \in Seq(M) : Append(q, m) \in Seq(M)
 OBVIOUS
<1> HIDE DEF M
<1>2. toClient \in [Sessions -> Seq(M)]
 BY DEF M
<1>3. toClient' \in [Sessions -> Seq(M)]
 BY <1>1, <1>2 DEF Send
<1> QED BY <1>3 DEF M

\* Parts a step leaves alone.
LEMMA ServerKept ==
  ASSUME ServerTypes, UNCHANGED <<mem, db, nextId, nextReq, restarts, current, caps>>
  PROVE  ServerTypes'
  BY DEF ServerTypes

LEMMA WireKept == ASSUME WireTypes, UNCHANGED wireVars PROVE WireTypes'
  BY DEF WireTypes, wireVars

LEMMA ClientKept == ASSUME ClientTypes, UNCHANGED clientVars PROVE ClientTypes'
  BY DEF ClientTypes, clientVars

LEMMA InitTypes == Init => TypeInv
<1> SUFFICES ASSUME Init PROVE TypeInv
 OBVIOUS
<1> USE DEF Init
<1>1. ServerTypes
 <2>1. mem \in [RuleIds -> RuleOrNone] /\ db \in [RuleIds -> RuleOrNone]
  BY DEF RuleOrNone
 <2>2. /\ nextId \in 1 .. MaxRules + 1 /\ nextReq \in 1 .. MaxRequests + 1
       /\ restarts \in 0 .. MaxRestarts /\ current \in 0 .. MaxSessions
  BY Constants
 <2>3. caps \in BOOLEAN
  OBVIOUS
 <2> QED BY <2>1, <2>2, <2>3 DEF ServerTypes
<1>2. WireTypes
 BY DEF WireTypes
<1>3. ClientTypes
 BY Constants, IdleType DEF ClientTypes, Limit, GoodForwarder
<1> QED BY <1>1, <1>2, <1>3, IdleType DEF TypeInv


\* A new request.
LEMMA RequestTypes ==
  ASSUME TypeInv, NEW t \in Tasks, NEW p \in Ports, NEW l \in Limit, NEW r \in RuleIds,
         PushResolve(t, p, l) \/ RemoveMem(t, r) \/ UpdateResolve(t, r, l)
  PROVE  TypeInv'
<1> USE Constants DEF TypeInv
<1>1. CASE PushResolve(t, p, l)
 <2> USE <1>1 DEF PushResolve
 <2>1. IdleTask \in GoodTask /\ IdleTask \in Task
  BY IdleType DEF GoodTask
 <2>2. [IdleTask EXCEPT !.op = "push", !.pc = "insert", !.port = p,
                             !.limit = l, !.session = current] \in GoodTask
  BY <2>1 DEF GoodTask, Task, TaskPCs, ServerTypes
 <2>3. task' \in [Tasks -> GoodTask]
  BY <2>1, <2>2, TaskStep
 <2> QED BY <2>3, ServerKept, WireKept, ClientKept DEF TypeInv, wireVars, clientVars
<1>2. CASE RemoveMem(t, r)
 <2> USE <1>2 DEF RemoveMem
 <2>1. IdleTask \in GoodTask /\ IdleTask \in Task
  BY IdleType DEF GoodTask
 <2> USE <2>1
 <2>2. mem[r] \in Rule
  BY DEF ServerTypes, Known, RuleOrNone
 <2> USE <2>2
 <2>3. mem[r].port \in Ports
  BY DEF Rule
 <2>4. [IdleTask EXCEPT !.op = "remove", !.pc = "delete", !.rule = r, !.port = mem[r].port] \in Task
  BY <2>3, RuleRange DEF Task, TaskPCs
 <2>5. [IdleTask EXCEPT !.op = "remove", !.pc = "delete", !.rule = r, !.port = mem[r].port] \in GoodTask
  BY <2>3, <2>4 DEF GoodTask, Task, TaskPCs, Rule
 <2>6. ServerTypes'
  BY <2>3, <2>4, <2>5 DEF ServerTypes, RuleOrNone, wireVars, clientVars
 <2>7. task' \in [Tasks -> GoodTask]
  BY <2>3, <2>4, <2>5, TaskStep
 <2> QED BY <2>6, <2>7, WireKept, ClientKept DEF TypeInv, wireVars, clientVars
<1> USE DEF UpdateResolve
<1>3. CASE UpdateResolve(t, r, l)
 <2> USE <1>3
 <2>1. IdleTask \in GoodTask /\ IdleTask \in Task
  BY IdleType DEF GoodTask
 <2>2. [IdleTask EXCEPT !.op = "update", !.pc = "change", !.rule = r,
                             !.limit = l, !.session = current] \in Task
  BY <2>1, RuleRange DEF Task, TaskPCs, ServerTypes
 <2>3. [IdleTask EXCEPT !.op = "update", !.pc = "change", !.rule = r,
                             !.limit = l, !.session = current] \in GoodTask
  BY <2>1, <2>2 DEF GoodTask, Task, TaskPCs, ServerTypes
 <2>4. task' \in [Tasks -> GoodTask]
  BY <2>1, <2>2, <2>3, TaskStep
 <2> QED BY <2>4, ServerKept, WireKept, ClientKept DEF TypeInv, wireVars, clientVars
<1> QED BY <1>1, <1>2, <1>3

\* A step of a request.
LEMMA ProgressTypes ==
  ASSUME TypeInv, NEW t \in Tasks, Progress(t) PROVE TypeInv'
<1> USE Constants DEF TypeInv, At, wireVars, clientVars
<1>1. /\ task[t] \in GoodTask /\ task[t] \in Task /\ IdleTask \in GoodTask
      /\ mem \in [RuleIds -> RuleOrNone] /\ nextReq \in 1 .. MaxRequests + 1
 BY IdleType DEF GoodTask, ServerTypes
<1>2. ASSUME NEW k \in GoodTask, Step(t, k), pump' = pump, ServerTypes', WireTypes', UNCHANGED clientVars
      PROVE  TypeInv'
 BY <1>2, TaskStep, ClientKept
<1>3. \A pc \in {"send", "read", "expired"} :
        /\ Goto(t, pc) \in Task /\ Goto(t, pc).pc = pc /\ Goto(t, pc).rule = task[t].rule
        /\ Goto(t, pc).op = task[t].op /\ Goto(t, pc).snap = task[t].snap
 BY <1>1 DEF Goto, Task, TaskPCs
<1>4. CASE PushInsert(t)
 <2> DEFINE rule == [port |-> task[t].port, limit |-> task[t].limit, state |-> "Pending"]
            k == [task[t] EXCEPT !.pc = "persist", !.rule = nextId, !.snap = rule]
 <2>1. rule \in Rule /\ nextId \in Nat /\ (nextId <= MaxRules => nextId \in RuleIds)
  BY <1>1 DEF Task, Rule, States, ServerTypes, RuleIds
 <2> USE <2>1
 <2>2. nextId <= MaxRules => k \in Task
  BY <1>1, RuleRange DEF Task, TaskPCs, RuleOrNone
 <2>3. nextId <= MaxRules => k \in GoodTask
  BY <1>1, <2>2 DEF GoodTask, Task
 <2> USE <1>4 DEF PushInsert
 <2>4. CASE UNCHANGED <<mem, nextId>> /\ Step(t, IdleTask)
  BY <1>1, <1>2, <2>4, ServerKept, WireKept
 <2>5. CASE nextId <= MaxRules /\ nextId' = nextId + 1 /\ mem' = [mem EXCEPT ![nextId] = rule] /\ Step(t, k)
  <3>1. mem' \in [RuleIds -> RuleOrNone]
   BY <1>1, <2>5 DEF RuleOrNone
  <3>2. ServerTypes'
   BY <2>5, <3>1 DEF ServerTypes
  <3> QED BY <1>2, <2>3, <2>5, <3>2, WireKept
 <2> QED BY <2>4, <2>5
<1>5. ASSUME NEW op, Persist(t, op) PROVE TypeInv'
 <2> USE <1>5 DEF Persist
 <2>1. task[t].snap \in Rule
  BY <1>1 DEF GoodTask
 <2>2. Goto(t, "send") \in GoodTask
  BY <1>1, <1>3, <2>1 DEF GoodTask
 <2>3. ServerTypes'
  BY <2>1, UpsertType DEF ServerTypes, RuleOrNone
 <2> QED BY <1>2, <2>2, <2>3, WireKept
<1>6. ASSUME NEW op \in {"push", "update"}, RequestSend(t, op) PROVE TypeInv'
 <2> DEFINE m == [action |-> "PUSH", rule |-> task[t].rule, req |-> nextReq,
                  port |-> task[t].snap.port, limit |-> task[t].snap.limit]
            k == [task[t] EXCEPT !.pc = "wait", !.req = nextReq, !.snap = NoRule]
 <2>1. /\ task[t].snap \in Rule /\ task[t].rule \in RuleIds
       /\ nextReq \in Requests /\ nextReq + 1 \in 1 .. MaxRequests + 1
  BY <1>1, <1>6 DEF RequestSend, GoodTask, Requests
 <2>2. m \in Update \cup {Welcome}
  BY <2>1 DEF Update, Rule
 <2>3. k \in GoodTask
  BY <1>1, <2>1 DEF GoodTask, Task, TaskPCs, RuleOrNone
 <2> USE <1>6 DEF RequestSend
 <2>4. ServerTypes'
  BY <2>1 DEF ServerTypes
 <2>5. WireTypes'
  BY <2>2, SendType DEF WireTypes
 <2> QED BY <1>2, <2>3, <2>4, <2>5
<1>7. CASE PushUndo(t)
 <2>1. ServerTypes'
  BY <1>7, DeleteType DEF PushUndo, ServerTypes, RuleOrNone
 <2> QED BY <1>1, <1>2, <1>7, <2>1, WireKept DEF PushUndo
<1>8. CASE PushAcked(t)
 <2> USE <1>8 DEF PushAcked
 <2>1. Goto(t, "read") \in GoodTask
  BY <1>1, <1>3 DEF GoodTask
 <2>2. ServerTypes'
  BY MarkType DEF ServerTypes, StateAfter, States
 <2> QED BY <1>1, <1>2, <2>1, <2>2, WireKept
<1>9. CASE PushRead(t)
 <2> DEFINE k == [task[t] EXCEPT !.pc = "write", !.snap = mem[task[t].rule]]
 <2> USE <1>1, <1>9 DEF PushRead
 <2>1. Known(task[t].rule) => mem[task[t].rule] \in Rule
  BY DEF GoodTask, Known, RuleOrNone
 <2>2. Known(task[t].rule) => k \in GoodTask
  BY <2>1 DEF GoodTask, Task, TaskPCs, RuleOrNone
 <2> QED BY <1>2, <2>2, ServerKept, WireKept
<1>10. CASE PushWrite(t)
 <2>1. ServerTypes'
  BY <1>1, <1>10, UpsertType DEF PushWrite, GoodTask, ServerTypes, RuleOrNone
 <2> QED BY <1>1, <1>2, <1>10, <2>1, WireKept DEF PushWrite
<1>11. CASE AckTimeout(t)
 <2>1. Goto(t, "expired") \in GoodTask
  BY <1>1, <1>3, <1>11 DEF AckTimeout, GoodTask
 <2> QED BY <1>2, <1>11, <2>1, ServerKept, WireKept DEF AckTimeout
<1>12. CASE UpsertFails(t) \/ DropWaiter(t) \/ UpdateSendFails(t) \/ UpdateAcked(t)
 BY <1>1, <1>2, <1>12, ServerKept, WireKept DEF UpsertFails, DropWaiter, UpdateSendFails, UpdateAcked
<1>13. CASE RemoveDb(t)
 <2> USE <1>13 DEF RemoveDb
 <2>1. Goto(t, "send") \in GoodTask
  BY <1>1, <1>3 DEF GoodTask
 <2>2. ServerTypes'
  BY DeleteType DEF ServerTypes
 <2> QED BY <1>2, <2>1, <2>2, WireKept
<1>14. CASE RemoveSend(t)
 <2> DEFINE m == [action |-> "REMOVE", rule |-> task[t].rule, req |-> 0, port |-> task[t].port, limit |-> NoLimit]
 <2> USE <1>14 DEF RemoveSend
 <2>1. m \in Update \cup {Welcome}
  BY <1>1 DEF GoodTask, Task, Update, Requests, Limit
 <2>2. WireTypes'
  BY <2>1, SendType DEF WireTypes
 <2> QED BY <1>1, <1>2, <2>2, ServerKept
<1> USE DEF UpdateMem
<1>15. CASE UpdateMem(t)
 <2> DEFINE rule == [mem[task[t].rule] EXCEPT !.limit = task[t].limit]
            k == [task[t] EXCEPT !.pc = "persist", !.snap = rule]
 <2> USE <1>1, <1>15 DEF RuleOrNone
 <2>1. Known(task[t].rule) => rule \in Rule
  BY DEF GoodTask, Known, Rule, Task
 <2>2. Known(task[t].rule) => k \in GoodTask
  BY <2>1 DEF GoodTask, Task, TaskPCs
 <2>3. ServerTypes'
  BY <2>1 DEF ServerTypes
 <2> QED BY <1>2, <2>2, <2>3, WireKept
<1> QED BY <1>4, <1>5, <1>6, <1>7, <1>8, <1>9, <1>10, <1>11, <1>12, <1>13, <1>14, <1>15
  DEF Progress, PushPersist, UpdatePersist, PushSend, UpdateSend

\* Changes of the client's entry in the connection map.
LEMMA SessionRange == \A s \in Sessions : s \in 0 .. MaxSessions
  BY Constants DEF Sessions

LEMMA EntryType ==
  ASSUME ServerTypes, UNCHANGED <<mem, db, nextId, nextReq, restarts>>,
         current' \in 0 .. MaxSessions, caps' \in BOOLEAN
  PROVE  ServerTypes'
  BY DEF ServerTypes

LEMMA UnregisterType ==
  ASSUME ServerTypes, NEW s, Unregister(s) PROVE current' \in 0 .. MaxSessions /\ caps' \in BOOLEAN
<1>1. current' \in 0 .. MaxSessions
 BY Constants DEF Unregister, ServerTypes
<1>2. caps' \in BOOLEAN
 BY DEF Unregister, ServerTypes
<1> QED BY <1>1, <1>2

\* A step of a session's server side, apart from an answered request.
LEMMA SessionTypes ==
  ASSUME TypeInv, NEW s \in Sessions,
         \/ Connect(s) \/ Cut(s) \/ Hello(s) \/ HelloFails(s)
         \/ ReplayList(s) \/ ReplayMark(s) \/ ReplayRead(s) \/ ReplayWrite(s) \/ ReplayDone(s)
         \/ StatusUnsolicited(s) \/ ServeRead(s) \/ ServeWrite(s) \/ PumpEnd(s)
  PROVE  TypeInv'
<1> USE Constants DEF TypeInv, PumpAt, wireVars, clientVars
<1> DEFINE fresh(pc) == [FreshPump EXCEPT !.pc = pc]
<1>1. /\ pump[s] \in GoodPump /\ pump[s] \in Pump /\ FreshPump \in Pump
      /\ mem \in [RuleIds -> RuleOrNone] /\ caps \in BOOLEAN
 BY IdleType DEF GoodPump, ServerTypes
<1>2. ASSUME NEW k \in GoodPump, PumpStep(s, k), task' = task, ServerTypes', WireTypes', UNCHANGED clientVars
      PROVE  TypeInv'
 BY <1>2, PumpTypeStep, ClientKept
<1>3. \A pc \in {"serve", "done"} : fresh(pc) \in GoodPump
 BY <1>1 DEF GoodPump, Pump, PumpPCs
<1>4. pump[s].pc \in {"replayRead", "serveRead"} /\ Known(pump[s].rule) => mem[pump[s].rule] \in Rule
 BY <1>1 DEF GoodPump, Known, RuleOrNone
<1>5. CASE Connect(s)
 <2>1. \A c \in Capable : [FreshPump EXCEPT !.pc = "hello", !.capable = c] \in GoodPump
  BY <1>1 DEF GoodPump, Pump, PumpPCs
 <2> USE <1>5 DEF Connect
 <2>2. ServerTypes'
  BY SessionRange, EntryType
 <2>3. pump' \in [Sessions -> GoodPump]
  BY <2>1, PumpTypeStep
 <2>4. WireTypes'
  BY DEF WireTypes
 <2>5. ClientTypes'
  BY SessionRange DEF ClientTypes
 <2> QED BY <2>2, <2>3, <2>4, <2>5
<1>6. CASE Hello(s)
 <2>1. [pump[s] EXCEPT !.pc = "list"] \in GoodPump
  BY <1>1 DEF GoodPump, Pump, PumpPCs
 <2> USE <1>6 DEF Hello
 <2>2. ServerTypes'
  BY <1>1 DEF ServerTypes, Pump
 <2>3. WireTypes'
  BY SendType DEF WireTypes
 <2> QED BY <1>2, <2>1, <2>2, <2>3
<1>7. CASE HelloFails(s) \/ PumpEnd(s)
 <2>1. ServerTypes'
  BY <1>7, UnregisterType, EntryType DEF HelloFails, PumpEnd
 <2> QED BY <1>2, <1>3, <1>7, <2>1, WireKept DEF HelloFails, PumpEnd
<1>8. CASE ReplayList(s)
 <2> DEFINE todo == {[rule |-> x, limit |-> mem[x].limit] : x \in {y \in RuleIds : Known(y) /\ mem[y].state = "Active"}}
            k == [pump[s] EXCEPT !.pc = "replay", !.capable = caps, !.todo = todo]
 <2>1. \A x \in RuleIds : Known(x) => mem[x].limit \in Limit
  BY <1>1 DEF Known, RuleOrNone, Rule
 <2>2. todo \in SUBSET [rule : RuleIds, limit : Limit]
  BY <2>1
 <2> HIDE DEF todo
 <2>3. k \in GoodPump
  BY <1>1, <2>2 DEF GoodPump, Pump, PumpPCs
 <2>4. PumpStep(s, k)
  BY <1>8 DEF ReplayList, todo
 <2> QED BY <1>2, <1>8, <2>3, <2>4, ServerKept, WireKept DEF ReplayList
<1>9. CASE ReplayMark(s)
 <2>1. \A e \in pump[s].todo : e.rule \in RuleIds
  BY <1>1 DEF Pump
 <2>2. \A e \in pump[s].todo, m \in {"Pending", "Failed"} :
         [pump[s] EXCEPT !.pc = "replayRead", !.rule = e.rule, !.mark = m, !.todo = @ \ {e}] \in GoodPump
  BY <1>1, <2>1, RuleRange DEF GoodPump, Pump, PumpPCs
 <2> USE <1>9 DEF ReplayMark
 <2>3. ServerTypes'
  BY <2>1, MarkType DEF ServerTypes, States
 <2>4. pump' \in [Sessions -> GoodPump]
  BY <2>2, PumpTypeStep
 <2> QED BY <2>3, <2>4, WireKept, ClientKept
<1>10. CASE ReplayRead(s)
 <2>1. /\ Known(pump[s].rule) => [pump[s] EXCEPT !.pc = "replayWrite", !.snap = mem[pump[s].rule]] \in GoodPump
       /\ [pump[s] EXCEPT !.pc = "replay"] \in GoodPump
  BY <1>1, <1>4, <1>10 DEF ReplayRead, GoodPump, Pump, PumpPCs, RuleOrNone
 <2> QED BY <1>2, <1>10, <2>1, ServerKept, WireKept DEF ReplayRead
<1>11. CASE ReplayWrite(s)
 <2> DEFINE m == [action |-> "PUSH", rule |-> pump[s].rule, req |-> 0,
                  port |-> pump[s].snap.port, limit |-> pump[s].snap.limit]
            k == [pump[s] EXCEPT !.pc = "replay", !.snap = NoRule]
 <2> USE <1>11 DEF ReplayWrite
 <2>1. pump[s].snap \in Rule /\ pump[s].rule \in RuleIds
  BY <1>1 DEF GoodPump
 <2>2. m \in Update \cup {Welcome}
  BY <2>1 DEF Update, Rule, Requests
 <2>3. k \in GoodPump /\ [k EXCEPT !.todo = {}] \in GoodPump
  BY <1>1 DEF GoodPump, Pump, PumpPCs, RuleOrNone
 <2>4. ServerTypes'
  BY <2>1, UpsertType DEF ServerTypes, RuleOrNone
 <2>5. WireTypes'
  BY <2>2, SendType DEF WireTypes
 <2>6. PumpStep(s, k) \/ PumpStep(s, [k EXCEPT !.todo = {}])
  OBVIOUS
 <2> QED BY <1>2, <2>3, <2>4, <2>5, <2>6
<1>12. CASE ReplayDone(s)
 BY <1>2, <1>3, <1>12, ServerKept, WireKept DEF ReplayDone
<1>13. CASE StatusUnsolicited(s)
 <2> USE <1>13 DEF StatusUnsolicited
 <2>1. Head(toServer[s]) \in Status /\ Tail(toServer[s]) \in Seq(Status)
  BY HeadTailProperties DEF WireTypes
 <2>2. Head(toServer[s]).rule \in RuleIds
  BY <2>1 DEF Status
 <2>3. [pump[s] EXCEPT !.pc = "serveRead", !.rule = Head(toServer[s]).rule] \in GoodPump
  BY <1>1, <2>2, RuleRange DEF GoodPump, Pump, PumpPCs
 <2>4. ServerTypes'
  BY MarkType DEF ServerTypes, StateAfter, States
 <2>5. pump' \in [Sessions -> GoodPump]
  BY <2>3, PumpTypeStep
 <2>6. WireTypes'
  BY <2>1 DEF WireTypes
 <2> QED BY <2>4, <2>5, <2>6, ClientKept
<1>14. CASE ServeRead(s)
 <2>1. Known(pump[s].rule) => [pump[s] EXCEPT !.pc = "serveWrite", !.snap = mem[pump[s].rule]] \in GoodPump
  BY <1>1, <1>4, <1>14 DEF ServeRead, GoodPump, Pump, PumpPCs, RuleOrNone
 <2> QED BY <1>2, <1>3, <1>14, <2>1, ServerKept, WireKept DEF ServeRead
<1>15. CASE ServeWrite(s)
 <2>1. ServerTypes'
  BY <1>1, <1>15, UpsertType DEF ServeWrite, GoodPump, ServerTypes, RuleOrNone
 <2> QED BY <1>2, <1>3, <1>15, <2>1, WireKept DEF ServeWrite
<1>16. CASE Cut(s)
 <2>1. \A n \in 0 .. Len(toServer[s]) : SubSeq(toServer[s], 1, n) \in Seq(Status)
  BY SubSeqProperties DEF WireTypes
 <2>2. WireTypes'
  BY <1>16, <2>1 DEF Cut, WireTypes
 <2> QED BY <1>16, <2>2, ServerKept, ClientKept DEF Cut
<1> QED BY <1>5, <1>6, <1>7, <1>8, <1>9, <1>10, <1>11, <1>12, <1>13, <1>14, <1>15, <1>16

\* An answer reaches the request that waits for it.
LEMMA WaiterTypes ==
  ASSUME TypeInv, NEW s \in Sessions, NEW t \in Tasks, StatusToWaiter(s, t) PROVE TypeInv'
<1> USE Constants DEF TypeInv
<1> USE DEF StatusToWaiter
<1>1. CASE StatusToWaiter(s, t)
 <2> USE <1>1
 <2>1. task[t] \in GoodTask /\ task[t] \in Task
  BY DEF GoodTask
 <2> USE <2>1
 <2>2. Head(toServer[s]) \in Status /\ Tail(toServer[s]) \in Seq(Status)
  BY HeadTailProperties DEF WireTypes
 <2> USE <2>2
 <2>3. Head(toServer[s]).outcome \in Outcomes
  BY DEF Status
 <2> USE <2>3
 <2>4. 0 \in Requests
  BY DEF Requests
 <2> USE <2>4
 <2>5. [task[t] EXCEPT !.pc = "acked", !.ack = Head(toServer[s]).outcome] \in Task
  BY DEF Task, TaskPCs
 <2> USE <2>5
 <2>6. [task[t] EXCEPT !.req = 0] \in Task
  BY DEF Task
 <2> USE <2>6
 <2>7. task[t].pc \in {"wait", "expired"}
  BY DEF Waits
 <2>8. [task[t] EXCEPT !.pc = "acked", !.ack = Head(toServer[s]).outcome] \in GoodTask
  BY <2>7 DEF GoodTask, Task, TaskPCs
 <2>9. [task[t] EXCEPT !.req = 0] \in GoodTask
  BY <2>7, <2>8 DEF GoodTask, Task, TaskPCs
 <2>10. task' \in [Tasks -> GoodTask]
  BY <2>7, <2>8, <2>9, TaskStep
 <2>11. WireTypes'
  BY <2>7, <2>8, <2>9 DEF WireTypes
 <2> QED BY <2>10, <2>11, ServerKept, ClientKept DEF TypeInv, wireVars, clientVars
<1> QED BY <1>1

\* Sequences the wire and the event channel are made of.
LEMMA IncomingType ==
  ASSUME WireTypes, NEW s \in Sessions, Incoming(s)
  PROVE  /\ Head(toClient[s]) \in Update \cup {Welcome}
         /\ Tail(toClient[s]) \in Seq(Update \cup {Welcome})
         /\ Head(toClient[s]).action \in {"PUSH", "REMOVE"} => Head(toClient[s]) \in Update
<1>1. toClient[s] \in Seq(Update \cup {Welcome}) /\ toClient[s] # <<>>
 BY DEF WireTypes, Incoming
<1>2. Head(toClient[s]) \in Update \cup {Welcome} /\ Tail(toClient[s]) \in Seq(Update \cup {Welcome})
 BY <1>1, HeadTailProperties
<1>3. Welcome.action = "WELCOME"
 BY DEF Welcome
<1> QED BY <1>2, <1>3

LEMMA ReceivedType ==
  ASSUME WireTypes, NEW s \in Sessions, Incoming(s), Received(s), UNCHANGED <<link, toServer>>
  PROVE  WireTypes'
  BY IncomingType DEF Received, WireTypes

LEMMA TryEventType ==
  ASSUME events \in Seq(Event), Len(events) <= EventCap, NEW e \in Event, TryEvent(e)
  PROVE  events' \in Seq(Event) /\ Len(events') <= EventCap
  BY Constants DEF TryEvent

LEMMA ReportType ==
  ASSUME events \in Seq(Event), Len(events) <= EventCap, NEW f \in Spawns, NEW o \in Outcomes,
         fw[f].rule \in RuleIds, Report(f, o)
  PROVE  events' \in Seq(Event) /\ Len(events') <= EventCap
<1>1. [rule |-> fw[f].rule, outcome |-> o] \in Event
 BY DEF Event
<1> QED BY <1>1, Constants DEF Report

LEMMA CutType ==
  ASSUME WireTypes, NEW s, link' = [link EXCEPT ![s] = "cut"],
         toClient' = [toClient EXCEPT ![s] = <<>>], UNCHANGED toServer
  PROVE  WireTypes'
<1>1. link' \in [Sessions -> {"new", "up", "cut"}]
 BY DEF WireTypes
<1>2. <<>> \in Seq(Update \cup {Welcome})
 OBVIOUS
<1>3. toClient' \in [Sessions -> Seq(Update \cup {Welcome})]
 BY <1>2 DEF WireTypes
<1> QED BY <1>1, <1>3 DEF WireTypes

LEMMA StatusType ==
  ASSUME WireTypes, NEW s, NEW m \in Status,
         toServer' = IF link[s] = "up" THEN [toServer EXCEPT ![s] = Append(@, m)] ELSE toServer
  PROVE  toServer' \in [Sessions -> Seq(Status)]
<1>1. \A q \in Seq(Status) : Append(q, m) \in Seq(Status)
 OBVIOUS
<1> QED BY <1>1 DEF WireTypes

LEMMA SlotType ==
  ASSUME slots \in [RuleIds -> Slot \cup {NoSlot}], NEW r \in RuleIds, NEW q \in Requests,
         slots[r] # NoSlot
  PROVE  [slots EXCEPT ![r].removeReq = q] \in [RuleIds -> Slot \cup {NoSlot}]
<1>1. slots[r] \in Slot
 OBVIOUS
<1>2. [slots[r] EXCEPT !.removeReq = q] \in Slot
 BY <1>1 DEF Slot
<1> QED BY <1>2

\* Updates of a forwarder's record.
LEMMA ForwarderFacts ==
  ASSUME NEW k \in ForwarderTask,
         NEW p \in {"none", "binding", "bound", "failed", "dropped", "draining", "closed"}, NEW b \in BOOLEAN
  PROVE  [k EXCEPT !.phase = p] \in ForwarderTask /\ [k EXCEPT !.cancelled = b] \in ForwarderTask
  BY DEF ForwarderTask

LEMMA PhaseType ==
  ASSUME fw \in [Spawns -> GoodForwarder], NEW f \in Spawns, fw[f].rule \in RuleIds,
         NEW p \in {"bound", "failed", "dropped", "draining", "closed"}, fw' = [fw EXCEPT ![f].phase = p]
  PROVE  fw' \in [Spawns -> GoodForwarder] /\ fw' \in [Spawns -> ForwarderTask]
<1>1. \A g \in Spawns : fw[g] \in GoodForwarder /\ fw[g] \in ForwarderTask
 BY DEF GoodForwarder
<1>2. [fw[f] EXCEPT !.phase = p] \in ForwarderTask
 BY <1>1, ForwarderFacts
<1>3. [fw[f] EXCEPT !.phase = p].rule = fw[f].rule
 BY <1>1 DEF ForwarderTask
<1>4. [fw[f] EXCEPT !.phase = p] \in GoodForwarder
 BY <1>2, <1>3 DEF GoodForwarder
<1> QED BY <1>1, <1>2, <1>4

LEMMA CancelType ==
  ASSUME NEW k \in GoodForwarder, NEW b \in BOOLEAN
  PROVE  [k EXCEPT !.cancelled = b] \in GoodForwarder /\ [k EXCEPT !.cancelled = b] \in ForwarderTask
<1>1. k \in ForwarderTask
 BY DEF GoodForwarder
<1>2. [k EXCEPT !.cancelled = b] \in ForwarderTask
 BY <1>1, ForwarderFacts
<1>3. [k EXCEPT !.cancelled = b].rule = k.rule /\ [k EXCEPT !.cancelled = b].phase = k.phase
 BY <1>1 DEF ForwarderTask
<1> QED BY <1>2, <1>3 DEF GoodForwarder

LEMMA CancelStep ==
  ASSUME fw \in [Spawns -> GoodForwarder], NEW f, Cancel(f)
  PROVE  fw' \in [Spawns -> GoodForwarder] /\ fw' \in [Spawns -> ForwarderTask]
<1>1. \A g \in Spawns : fw[g] \in GoodForwarder /\ fw[g] \in ForwarderTask
 BY DEF GoodForwarder
<1>2. \A g \in Spawns : /\ [fw[g] EXCEPT !.cancelled = TRUE] \in GoodForwarder
                        /\ [fw[g] EXCEPT !.cancelled = TRUE] \in ForwarderTask
 BY CancelType
<1> QED BY <1>1, <1>2 DEF Cancel

\* A message arrives at the client.
LEMMA ClientSessionTypes ==
  ASSUME TypeInv, NEW s \in Sessions, ClientSession(s) PROVE TypeInv'
<1> USE Constants DEF TypeInv, wireVars, clientVars
<1> DEFINE m == Head(toClient[s])
<1>1. CASE JoinWelcomed(s)
 <2> USE <1>1 DEF JoinWelcomed
 <2>1. WireTypes'
  BY ReceivedType
 <2>2. ClientTypes'
  BY DEF ClientTypes
 <2> QED BY <2>1, <2>2, ServerKept
<1>2. CASE JoinFails(s)
 <2> USE <1>2 DEF JoinFails
 <2>1. WireTypes'
  BY DEF WireTypes
 <2>2. ClientTypes'
  BY DEF ClientTypes
 <2> QED BY <2>1, <2>2, ServerKept
<1>3. ASSUME NEW action \in {"PUSH", "REMOVE"}, Handling(s, action)
      PROVE  /\ m.rule \in RuleIds /\ m.req \in Requests /\ m.limit \in Limit /\ m.port \in Ports
             /\ \A o \in Outcomes : [rule |-> m.rule, outcome |-> o] \in Event
             /\ ServerTypes' /\ WireTypes' /\ UNCHANGED <<task, pump, client>>
 <2>1. Incoming(s) /\ Received(s) /\ m \in Update
  BY <1>3, IncomingType DEF Handling
 <2>2. m.rule \in RuleIds /\ m.req \in Requests /\ m.limit \in Limit /\ m.port \in Ports
  BY <2>1 DEF Update
 <2> QED BY <1>3, <2>1, <2>2, ServerKept, ReceivedType DEF Handling, Event
<1> USE DEF ClientTypes
<1>4. CASE ReceiveUpdate(s)
 <2> USE <1>3, <1>4 DEF ReceiveUpdate
 <2>1. events' \in Seq(Event) /\ Len(events') <= EventCap
  BY TryEventType DEF Outcomes
 <2>2. slots' \in [RuleIds -> Slot \cup {NoSlot}]
  BY DEF Slot
 <2>3. scope' \in [RuleIds -> Limit]
  BY DEF SwapLimit
 <2> QED BY <2>1, <2>2, <2>3
<1>5. CASE ReceivePush(s)
 <2> DEFINE k == [phase |-> "binding", rule |-> m.rule, port |-> m.port,
                  cancelled |-> FALSE, session |-> s]
 <2> USE <1>5 DEF ReceivePush
 <2>1. spawned + 1 \in Spawns /\ spawned + 1 \in 0 .. MaxSpawns
  BY DEF Spawns
 <2> USE <1>3
 <2>2. k \in ForwarderTask /\ k \in GoodForwarder
  BY SessionRange, RuleRange DEF ForwarderTask, GoodForwarder
 <2>3. [req |-> m.req, removeReq |-> -1, fw |-> spawned + 1] \in Slot
  BY <2>1 DEF Slot
 <2>4. fw' \in [Spawns -> GoodForwarder] /\ fw' \in [Spawns -> ForwarderTask]
  BY <2>1, <2>2
 <2>5. slots' \in [RuleIds -> Slot \cup {NoSlot}]
  BY <2>3
 <2>6. scope' \in [RuleIds -> Limit]
  OBVIOUS
 <2> QED BY <2>1, <2>4, <2>5, <2>6
<1> USE DEF ReceiveRemove
<1>6. CASE ReceiveRemove(s)
 <2> USE <1>6
 <2>1. \/ slots' = slots /\ fw' = fw
       \/ /\ slots[m.rule] # NoSlot
          /\ slots' = [slots EXCEPT ![m.rule].removeReq = m.req] /\ Cancel(slots[m.rule].fw)
  OBVIOUS
 <2> USE <1>3
 <2>2. events' \in Seq(Event) /\ Len(events') <= EventCap
  BY TryEventType DEF Outcomes
 <2>3. slots' \in [RuleIds -> Slot \cup {NoSlot}]
  BY <2>1, SlotType, SMTT(60)
 <2>4. scope' \in [RuleIds -> Limit]
  BY DEF Limit
 <2>5. fw' \in [Spawns -> GoodForwarder] /\ fw' \in [Spawns -> ForwarderTask]
  BY <2>1, CancelStep DEF GoodForwarder
 <2> QED BY <2>2, <2>3, <2>4, <2>5
<1> QED BY <1>1, <1>2, <1>4, <1>5, <1>6 DEF ClientSession

\* A step of a forwarder.
LEMMA ForwarderTypes ==
  ASSUME TypeInv, NEW f \in Spawns, Forwarder(f) PROVE TypeInv'
<1> USE Constants DEF TypeInv
<1>1. CASE Bind(f) \/ BindFails(f) \/ Drained(f)
 <2> USE <1>1 DEF Bind, BindFails, Drained
 <2>1. fw[f].rule \in RuleIds
  BY DEF GoodForwarder
 <2> USE <2>1 DEF ClientTypes
 <2>2. fw' \in [Spawns -> GoodForwarder] /\ fw' \in [Spawns -> ForwarderTask]
  BY PhaseType
 <2>3. events' \in Seq(Event) /\ Len(events') <= EventCap
  BY <2>2, ReportType DEF Outcomes
 <2>4. ClientTypes'
  BY <2>2, <2>3
 <2> QED BY <2>2, <2>4, ServerKept, WireKept DEF TypeInv, wireVars, clientVars
<1>2. CASE StopListening(f)
 <2> USE <1>2 DEF StopListening
 <2>1. fw[f].rule \in RuleIds
  BY DEF GoodForwarder, Listening
 <2>2. fw' \in [Spawns -> GoodForwarder] /\ fw' \in [Spawns -> ForwarderTask]
  BY <2>1, PhaseType DEF ClientTypes
 <2>3. ClientTypes'
  BY <2>1, <2>2 DEF ClientTypes
 <2> QED BY <2>2, <2>3, ServerKept, WireKept DEF TypeInv, wireVars, clientVars
<1> QED BY <1>1, <1>2 DEF Forwarder

\* The status made of an event.
LEMMA RelayType ==
  ASSUME ClientTypes, events # <<>>
  PROVE  /\ [rule |-> Head(events).rule, req |-> RelayRequest(Head(events), slots[Head(events).rule]),
             outcome |-> Head(events).outcome] \in Status
         /\ Head(events).rule \in RuleIds
         /\ Tail(events) \in Seq(Event) /\ Len(Tail(events)) <= EventCap
<1>1. Head(events) \in Event /\ Tail(events) \in Seq(Event) /\ Len(Tail(events)) = Len(events) - 1
 BY HeadTailProperties DEF ClientTypes
<1>2. Head(events).rule \in RuleIds /\ Head(events).outcome \in Outcomes
 BY <1>1 DEF Event
<1>3. slots[Head(events).rule] \in Slot \cup {NoSlot}
 BY <1>2 DEF ClientTypes
<1>4. RelayRequest(Head(events), slots[Head(events).rule]) \in Requests
 <2>1. 0 \in Requests
  BY Constants DEF Requests
 <2>2. CASE slots[Head(events).rule] = NoSlot
  BY <2>1, <2>2 DEF RelayRequest
 <2>3. CASE slots[Head(events).rule] # NoSlot
  <3>1. /\ slots[Head(events).rule].req \in Requests
        /\ slots[Head(events).rule].removeReq \in {-1} \cup Requests
   BY <1>3, <2>3 DEF Slot
  <3> QED BY <2>3, <3>1 DEF RelayRequest
 <2> QED BY <2>2, <2>3
<1>5. Len(Tail(events)) <= EventCap
 BY <1>1, Constants DEF ClientTypes
<1> QED BY <1>1, <1>2, <1>4, <1>5 DEF Status

\* The client's pump, and a restart of the server.
LEMMA ProcessTypes ==
  ASSUME TypeInv, Relay \/ Leave \/ Left \/ Restart PROVE TypeInv'
<1> USE Constants DEF TypeInv
<1>1. CASE Relay
 <2> USE <1>1 DEF Relay
 <2>1. ClientTypes /\ events # <<>>
  BY DEF TypeInv
 <2> USE <2>1
 <2>2. [rule |-> Head(events).rule, req |-> RelayRequest(Head(events), slots[Head(events).rule]),
          outcome |-> Head(events).outcome] \in Status
  BY RelayType
 <2>3. toServer' \in [Sessions -> Seq(Status)]
  BY <2>2, StatusType
 <2>4. slots' \in [RuleIds -> Slot \cup {NoSlot}]
  BY <2>2, <2>3, RelayType DEF ClientTypes
 <2>5. WireTypes'
  BY <2>2, <2>3, <2>4 DEF WireTypes
 <2>6. ClientTypes'
  BY <2>2, <2>3, <2>4, RelayType DEF ClientTypes
 <2> QED BY <2>5, <2>6, ServerKept DEF TypeInv, wireVars, clientVars
<1>2. CASE Leave
 <2> USE <1>2 DEF Leave
 <2>1. \A f \in Spawns : fw[f] \in GoodForwarder /\ fw[f].cancelled \in BOOLEAN
  BY DEF GoodForwarder, ForwarderTask
 <2>2. fw' \in [Spawns -> GoodForwarder] /\ fw' \in [Spawns -> ForwarderTask]
  BY <2>1, CancelType DEF ClientTypes
 <2>3. ClientTypes'
  BY <2>1, <2>2 DEF ClientTypes
 <2> QED BY <2>2, <2>3, ServerKept, WireKept DEF TypeInv, wireVars, clientVars
<1>3. CASE Left
 <2> USE <1>3 DEF Left
 <2>1. WireTypes'
  BY CutType
 <2>2. ClientTypes'
  BY DEF ClientTypes
 <2> QED BY <2>1, <2>2, ServerKept DEF TypeInv, wireVars, clientVars
<1> USE DEF Restart
<1>4. CASE Restart
 <2> USE <1>4
 <2>1. FreshPump \in GoodPump /\ FreshPump \in Pump
  BY IdleType DEF GoodPump
 <2> USE <2>1
 <2>2. [FreshPump EXCEPT !.pc = "done"] \in Pump
  BY RuleRange DEF Pump, PumpPCs
 <2> USE <2>2
 <2>3. [FreshPump EXCEPT !.pc = "done"] \in GoodPump
  BY DEF GoodPump, Pump
 <2> USE <2>3
 <2>4. nextId' \in 1 .. MaxRules + 1
  OBVIOUS
 <2> USE <2>4
 <2>5. restarts < MaxRestarts /\ restarts' = restarts + 1 /\ current' = 0
  OBVIOUS
 <2> USE <2>5
 <2>6. restarts \in 0 .. MaxRestarts
  BY DEF ServerTypes
 <2> USE <2>6
 <2>7. restarts' \in 0 .. MaxRestarts /\ current' \in 0 .. MaxSessions
  BY SMTT(60)
 <2> USE <2>7
 <2>8. caps' \in BOOLEAN
  OBVIOUS
 <2>9. ServerTypes'
  BY <2>8 DEF ServerTypes
 <2>10. task' \in [Tasks -> GoodTask]
  BY <2>8, IdleType
 <2>11. pump' \in [Sessions -> GoodPump]
  BY <2>8
 <2>12. WireTypes'
  BY <2>8 DEF WireTypes
 <2> QED BY <2>9, <2>10, <2>11, <2>12, ClientKept DEF TypeInv, wireVars, clientVars
<1> QED BY <1>1, <1>2, <1>3, <1>4

LEMMA TypeStep == TypeInv /\ [Next]_vars => TypeInv'
<1> SUFFICES ASSUME TypeInv, [Next]_vars PROVE TypeInv'
 OBVIOUS
<1>1. CASE UNCHANGED vars
 BY <1>1, ServerKept, WireKept, ClientKept DEF vars, TypeInv, wireVars, clientVars
<1>2. CASE \E t \in Tasks : Request(t) \/ Progress(t)
 <2>1. PICK t \in Tasks : Request(t) \/ Progress(t)
  BY <1>2
 <2>2. CASE Progress(t)
  BY <2>2, ProgressTypes
 <2>3. CASE \E p \in Ports, l \in Limit : PushResolve(t, p, l)
  <3>1. PICK p \in Ports, l \in Limit : PushResolve(t, p, l)
   BY <2>3
  <3>2. CASE RuleIds = {}
   BY <3>1, <3>2, Constants DEF PushResolve, TypeInv, ServerTypes, RuleIds
  <3>3. CASE RuleIds # {}
   BY <3>1, <3>3, RequestTypes
  <3> QED BY <3>2, <3>3
 <2>4. CASE \E r \in RuleIds : RemoveMem(t, r)
  <3>1. NoLimit \in Limit /\ \E p \in Ports : TRUE
   BY DEF Limit
  <3> QED BY <2>4, <3>1, RequestTypes
 <2>5. CASE \E r \in RuleIds, l \in Limit : UpdateResolve(t, r, l)
  <3>1. \E p \in Ports : TRUE
   OBVIOUS
  <3> QED BY <2>5, <3>1, RequestTypes
 <2> QED BY <2>1, <2>2, <2>3, <2>4, <2>5 DEF Request
<1>3. CASE \E s \in Sessions : Connect(s) \/ ServerSession(s) \/ ClientSession(s) \/ Cut(s)
 <2>1. PICK s \in Sessions : Connect(s) \/ ServerSession(s) \/ ClientSession(s) \/ Cut(s)
  BY <1>3
 <2>2. CASE ClientSession(s)
  BY <2>2, ClientSessionTypes
 <2>3. CASE \E t \in Tasks : StatusToWaiter(s, t)
  BY <2>3, WaiterTypes
 <2> QED BY <2>1, <2>2, <2>3, SessionTypes DEF ServerSession
<1>4. CASE Relay \/ Leave \/ Left \/ Restart
 BY <1>4, ProcessTypes
<1>5. CASE \E f \in Spawns : Forwarder(f)
 BY <1>5, ForwarderTypes
<1> QED BY <1>1, <1>2, <1>3, <1>4, <1>5 DEF Next

LEMMA TypeInvTypes == TypeInv => TypeOK
  BY DEF TypeInv, TypeOK, GoodTask, GoodPump

\* Every variable keeps its type, and the client's event channel its capacity,
\* through every interleaving, cut and restart.
THEOREM TypeCorrect == Spec => []TypeOK
<1>1. Init => TypeInv
 BY InitTypes
<1>2. TypeInv /\ [Next]_vars => TypeInv'
 BY TypeStep
<1> QED BY <1>1, <1>2, TypeInvTypes, PTL DEF Spec

----
(* Sessions *)

\* What a session's two ends know of each other.  Only the client's latest
\* session can be up; a message waits for the client only while it is; the
\* server's side ends only after a cut.
SessionOK(s) ==
    /\ link[s] = "up" => s = client.session /\ client.phase # "off"
    /\ toClient[s] # <<>> => link[s] = "up"
    /\ pump[s].pc = "none" <=> link[s] = "new"
    /\ pump[s].pc = "done" => link[s] = "cut"
    /\ link[s] = "new" => toServer[s] = <<>>

\* Sessions are opened in order, and a client that is not in a session has
\* neither slots nor events.
ClientOK ==
    /\ Opened = 1 .. client.session
    /\ client.phase # "off" => client.session \in Sessions
    /\ client.phase \in {"off", "joining"} => events = <<>> /\ \A r \in RuleIds : slots[r] = NoSlot

SessInv == ClientOK /\ \A s \in Sessions : SessionOK(s)

LEMMA InitSess == Init => SessInv
<1> SUFFICES ASSUME Init PROVE SessInv
 OBVIOUS
<1>1. \A s \in Sessions : SessionOK(s)
 BY DEF Init, SessionOK, FreshPump
<1>2. Opened = {}
 BY DEF Init, Opened
<1>3. client.session = 0 /\ client.phase = "off"
 BY DEF Init
<1> QED BY <1>1, <1>2, <1>3 DEF Init, SessInv, ClientOK

\* A step that opens, cuts and leaves no session.
LEMMA SessKept ==
  ASSUME TypeInv, SessInv, UNCHANGED <<link, client>>,
         \A s \in Sessions : toClient'[s] = toClient[s] \/ link[s] = "up",
         \A s \in Sessions : link[s] = "new" => toServer'[s] = toServer[s] /\ pump'[s].pc = "none",
         \A s \in Sessions : link[s] # "new" => pump'[s].pc # "none",
         \A s \in Sessions : pump'[s].pc = "done" => pump[s].pc = "done" \/ link[s] = "cut",
         client.phase \in {"off", "joining"} => UNCHANGED <<events, slots>>
  PROVE  SessInv'
<1>1. \A s \in Sessions : SessionOK(s)'
 BY DEF SessInv, SessionOK
<1>2. ClientOK'
 BY DEF SessInv, ClientOK, Opened
<1> QED BY <1>1, <1>2 DEF SessInv

LEMMA SendKeeps ==
  ASSUME TypeInv, NEW s, NEW m, Send(s, m)
  PROVE  \A u \in Sessions : toClient'[u] = toClient[u] \/ link[u] = "up"
  BY DEF TypeInv, WireTypes, Send, SendReaches

LEMMA PumpPoint ==
  ASSUME TypeInv, NEW s \in Sessions, NEW k, PumpStep(s, k)
  PROVE  pump'[s] = k /\ \A u \in Sessions : u # s => pump'[u] = pump[u]
  BY DEF TypeInv, PumpStep

\* What a request and a session of the server leave alone.
LEMMA ProgressFrame ==
  ASSUME NEW t \in Tasks, Progress(t)
  PROVE  /\ UNCHANGED <<pump, toServer, link, restarts, client, slots, events, fw, spawned>>
         /\ toClient' = toClient \/ \E s, m : Send(s, m)
 BY DEF Progress, PushInsert, PushPersist, Persist, PushSend, RequestSend, PushUndo, PushAcked,
  PushRead, PushWrite, AckTimeout, UpsertFails, DropWaiter, RemoveDb, RemoveSend, UpdateMem,
  UpdatePersist, UpdateSend, UpdateSendFails, UpdateAcked, wireVars, clientVars

LEMMA ServerFrame ==
  ASSUME NEW s \in Sessions, ServerSession(s)
  PROVE  /\ UNCHANGED <<nextReq, link, restarts, client, slots, events, fw, spawned>>
         /\ toClient' = toClient \/ \E m : Send(s, m)
         /\ \/ toServer' = toServer
            \/ toServer[s] # <<>> /\ toServer' = [toServer EXCEPT ![s] = Tail(@)]
         /\ task' = task \/ \E t \in Tasks : StatusToWaiter(s, t)
         /\ pump[s].pc \notin {"none", "done"}
 BY DEF ServerSession, Hello, HelloFails, ReplayList, ReplayMark, ReplayRead, ReplayWrite,
  ReplayDone, StatusToWaiter, StatusUnsolicited, ServeRead, ServeWrite, PumpEnd, PumpAt, wireVars,
  clientVars

\* A request.
LEMMA ProgressSess ==
  ASSUME TypeInv, SessInv, NEW t \in Tasks, Progress(t) PROVE SessInv'
<1>3. \A s \in Sessions : toClient'[s] = toClient[s] \/ link[s] = "up"
 BY ProgressFrame, SendKeeps
<1> QED BY <1>3, ProgressFrame, SessKept DEF SessInv, SessionOK

\* The server's side of a session.
LEMMA ServerSess ==
  ASSUME TypeInv, SessInv, NEW s \in Sessions, ServerSession(s) PROVE SessInv'
<1>1. UNCHANGED <<link, client, events, slots>>
 BY ServerFrame
<1>3. \A u \in Sessions : toClient'[u] = toClient[u] \/ link[u] = "up"
 BY ServerFrame, SendKeeps
<1>4. pump[s].pc \notin {"none", "done"} /\ \A u \in Sessions : u # s => toServer'[u] = toServer[u]
 BY ServerFrame DEF TypeInv, WireTypes
<1>5. /\ \A u \in Sessions : u # s => pump'[u] = pump[u]
      /\ pump'[s].pc # "none"
      /\ pump'[s].pc = "done" => HelloFails(s) \/ PumpEnd(s)
 <2>1. pump \in [Sessions -> GoodPump] /\ pump[s] \in Pump
  BY DEF TypeInv, GoodPump
 <2>2. \A x \in PumpPCs : [pump[s] EXCEPT !.pc = x].pc = x /\ [FreshPump EXCEPT !.pc = x].pc = x
  BY <2>1 DEF Pump, FreshPump
 <2>3. CASE Hello(s) \/ HelloFails(s) \/ ReplayDone(s) \/ ServeWrite(s) \/ PumpEnd(s)
  BY <2>1, <2>2, <2>3 DEF Hello, HelloFails, ReplayDone, ServeWrite, PumpEnd, PumpPCs, PumpStep
 <2>4. CASE ReplayList(s)
  BY <2>1, <2>4 DEF ReplayList, Pump, PumpStep
 <2>5. CASE ReplayMark(s)
  BY <2>1, <2>5 DEF ReplayMark, Pump, PumpStep
 <2>6. CASE ReplayRead(s)
  BY <2>1, <2>6 DEF ReplayRead, Pump, PumpStep
 <2>7. CASE ReplayWrite(s)
  <3>1. PICK k1, k2 : k1 = [pump[s] EXCEPT !.pc = "replay", !.snap = NoRule] /\ k2 = [k1 EXCEPT !.todo = {}]
   OBVIOUS
  <3>2. PumpStep(s, k1) \/ PumpStep(s, k2)
   BY <2>7, <3>1 DEF ReplayWrite
  <3>3. k1.pc = "replay" /\ k2.pc = "replay"
   BY <2>1, <3>1 DEF Pump
  <3> QED BY <3>2, <3>3, PumpPoint
 <2>8. CASE StatusUnsolicited(s)
  BY <1>4, <2>1, <2>8, ZenonT(60) DEF StatusUnsolicited, Pump, PumpStep
 <2>9. CASE ServeRead(s)
  BY <2>1, <2>2, <2>9 DEF ServeRead, Pump, PumpPCs, PumpStep
 <2>10. CASE \E t \in Tasks : StatusToWaiter(s, t)
  BY <1>4, <2>10 DEF StatusToWaiter
 <2> QED BY <2>3, <2>4, <2>5, <2>6, <2>7, <2>8, <2>9, <2>10 DEF ServerSession
<1>6. HelloFails(s) \/ PumpEnd(s) => link[s] = "cut"
 <2>1. \A n \in Opened : n > s => link[s] # "up"
  BY DEF SessInv, SessionOK, ClientOK, Opened, Sessions
 <2>2. link[s] \in {"new", "up", "cut"} /\ link[s] # "new"
  BY <1>4 DEF TypeInv, WireTypes, SessInv, SessionOK
 <2> QED BY <2>1, <2>2 DEF HelloFails, PumpEnd, Replaced
<1>7. \A u \in Sessions : /\ u # s => pump'[u].pc = pump[u].pc
                          /\ pump'[s].pc # "none"
                          /\ pump'[s].pc = "done" => link[s] = "cut"
 BY <1>5, <1>6
<1>8. link[s] # "new"
 BY <1>4 DEF SessInv, SessionOK
<1> QED BY <1>1, <1>3, <1>4, <1>7, <1>8, SessKept DEF SessInv, SessionOK

\* The client's side, cuts and restarts.
LEMMA ConnectSess ==
  ASSUME TypeInv, SessInv, NEW s \in Sessions, Connect(s) PROVE SessInv' /\ s = client.session + 1
<1>1. client.session \in 0 .. MaxSessions /\ Opened = 1 .. client.session
 BY DEF TypeInv, ClientTypes, SessInv, ClientOK
<1>2. s = client.session + 1
 <2>1. client.session \in Nat
  BY <1>1, Constants
 <2>2. Cardinality(Opened) = client.session
  BY <1>1, <2>1, CountTo
 <2> QED BY <2>2 DEF Connect
<1>3. client' = [phase |-> "joining", session |-> s]
 BY DEF Connect
<1>4. pump'[s].pc = "hello" /\ \A u \in Sessions : u # s => pump'[u] = pump[u]
 BY DEF Connect, PumpStep, TypeInv, FreshPump
<1>5. link'[s] = "up" /\ \A u \in Sessions : u # s => link'[u] = link[u]
 BY DEF Connect, TypeInv, WireTypes
<1>6. \A u \in Sessions : link[u] # "up"
 BY DEF SessInv, SessionOK, Connect
<1>7. \A u \in Sessions : SessionOK(u)'
 BY <1>3, <1>4, <1>5, <1>6 DEF SessInv, SessionOK, Connect
<1>8. Opened' = Opened \cup {s}
 BY <1>5 DEF Opened
<1>9. ClientOK'
 BY <1>1, <1>2, <1>3, <1>8, Constants DEF SessInv, ClientOK, Connect
<1> QED BY <1>2, <1>7, <1>9 DEF SessInv

LEMMA CutSess ==
  ASSUME TypeInv, SessInv, NEW s \in Sessions, Cut(s) PROVE SessInv'
<1>1. link'[s] = "cut" /\ link[s] = "up" /\ \A u \in Sessions : u # s => link'[u] = link[u]
 BY DEF Cut, TypeInv, WireTypes
<1>2. \A u \in Sessions : /\ toClient'[u] = IF u = s THEN <<>> ELSE toClient[u]
                          /\ u # s => toServer'[u] = toServer[u]
 BY DEF Cut, TypeInv, WireTypes
<1>3. UNCHANGED <<client, slots, events, pump>>
 BY DEF Cut, clientVars
<1>4. Opened' = Opened
 BY <1>1 DEF Opened
<1> QED BY <1>1, <1>2, <1>3, <1>4 DEF SessInv, SessionOK, ClientOK

LEMMA RestartSess ==
  ASSUME TypeInv, SessInv, Restart PROVE SessInv'
<1>1. \A u \in Sessions : /\ link'[u] = IF link[u] = "up" THEN "cut" ELSE link[u]
                          /\ toClient'[u] = <<>> /\ toServer'[u] = <<>>
                          /\ pump'[u].pc = IF pump[u].pc = "none" THEN "none" ELSE "done"
 BY DEF Restart, PumpAt, FreshPump
<1>2. UNCHANGED <<client, slots, events>>
 BY DEF Restart, clientVars
<1>3. Opened' = Opened
 BY <1>1 DEF Opened
<1>4. \A u \in Sessions : link[u] \in {"new", "up", "cut"}
 BY DEF TypeInv, WireTypes
<1> QED BY <1>1, <1>2, <1>3, <1>4 DEF SessInv, SessionOK, ClientOK

LEMMA ReceiveSess ==
  ASSUME TypeInv, SessInv, NEW s \in Sessions, ClientSession(s) PROVE SessInv'
<1>1. CASE JoinWelcomed(s)
 <2>1. /\ client'.phase = "on" /\ client'.session = client.session
       /\ client.phase = "joining" /\ client.session = s /\ link[s] = "up"
       /\ UNCHANGED <<link, pump, toServer, events, slots>>
  BY <1>1 DEF JoinWelcomed, TypeInv, ClientTypes, Incoming, SessInv, SessionOK
 <2>2. \A u \in Sessions : u # s => toClient'[u] = toClient[u]
  BY <1>1 DEF JoinWelcomed, Received, TypeInv, WireTypes
 <2> QED BY <2>1, <2>2 DEF SessInv, SessionOK, ClientOK, Opened
<1>2. CASE JoinFails(s)
 <2>1. /\ client'.phase = "off" /\ client'.session = client.session
       /\ client.phase = "joining" /\ client.session = s
       /\ UNCHANGED <<pump, toServer, events, slots>>
  BY <1>2 DEF JoinFails, TypeInv, ClientTypes
 <2>2. /\ \A u \in Sessions : u # s => toClient'[u] = toClient[u] /\ link'[u] = link[u]
       /\ toClient'[s] = <<>> /\ link'[s] = "cut"
  BY <1>2 DEF JoinFails, TypeInv, WireTypes
 <2>3. s \in Opened
  BY <2>1 DEF SessInv, ClientOK, Sessions
 <2>4. Opened' = Opened
  BY <2>2, <2>3 DEF Opened
 <2>5. pump[s].pc # "none"
  BY <2>3 DEF Opened, SessInv, SessionOK
 <2> QED BY <2>1, <2>2, <2>3, <2>4, <2>5 DEF SessInv, SessionOK, ClientOK
<1>3. CASE ReceiveUpdate(s) \/ ReceivePush(s) \/ ReceiveRemove(s)
 <2>1. UNCHANGED <<link, client, pump, toServer>> /\ client.phase = "on" /\ link[s] = "up"
  BY <1>3 DEF ReceiveUpdate, ReceivePush, ReceiveRemove, Handling, Incoming, SessInv, SessionOK
 <2>2. \A u \in Sessions : u # s => toClient'[u] = toClient[u]
  BY <1>3 DEF ReceiveUpdate, ReceivePush, ReceiveRemove, Handling, Received, TypeInv, WireTypes
 <2> QED BY <2>1, <2>2, SessKept DEF SessInv, SessionOK
<1> QED BY <1>1, <1>2, <1>3 DEF ClientSession

LEMMA ProcessSess ==
  ASSUME TypeInv, SessInv, Relay \/ Leave \/ Left PROVE SessInv'
<1>1. CASE Relay
 <2>1. UNCHANGED <<link, client, pump, toClient>> /\ client.phase \in {"on", "drain"}
  BY <1>1 DEF Relay
 <2>2. \A u \in Sessions : link[u] = "new" => toServer'[u] = toServer[u]
  BY <1>1 DEF Relay, TypeInv, WireTypes
 <2> QED BY <2>1, <2>2, SessKept DEF SessInv, SessionOK
<1>2. CASE Leave
 <2>1. UNCHANGED <<link, pump, toClient, toServer, events, slots>> /\ client.phase = "on"
  BY <1>2 DEF Leave, wireVars
 <2>2. client'.phase = "drain" /\ client'.session = client.session
  BY <1>2 DEF Leave, TypeInv, ClientTypes
 <2> QED BY <2>1, <2>2 DEF SessInv, SessionOK, ClientOK, Opened
<1>3. CASE Left
 <2> DEFINE s == client.session
 <2>1. /\ client'.phase = "off" /\ client'.session = client.session /\ client.phase = "drain"
       /\ UNCHANGED <<pump, toServer>>
  BY <1>3 DEF Left, TypeInv, ClientTypes
 <2>2. s \in Sessions
  BY <2>1 DEF SessInv, ClientOK
 <2>3. /\ \A u \in Sessions : u # s => toClient'[u] = toClient[u] /\ link'[u] = link[u]
       /\ toClient'[s] = <<>> /\ link'[s] = "cut"
  BY <1>3, <2>2 DEF Left, TypeInv, WireTypes
 <2>4. s \in Opened
  BY <2>2 DEF SessInv, ClientOK, Sessions
 <2>5. Opened' = Opened
  BY <2>3, <2>4 DEF Opened
 <2>6. pump[s].pc # "none"
  BY <2>2, <2>4 DEF Opened, SessInv, SessionOK
 <2>7. events' = <<>> /\ \A r \in RuleIds : slots'[r] = NoSlot
  BY <1>3 DEF Left
 <2>8. \A u \in Sessions : SessionOK(u)'
  BY <2>1, <2>2, <2>3, <2>4, <2>6 DEF SessInv, SessionOK, Opened
 <2> QED BY <2>1, <2>5, <2>7, <2>8 DEF SessInv, ClientOK
<1> QED BY <1>1, <1>2, <1>3

LEMMA ForwarderSess ==
  ASSUME TypeInv, SessInv, NEW f \in Spawns, Forwarder(f) PROVE SessInv'
<1>1. UNCHANGED <<pump, link, toClient, toServer, client, slots>>
 BY DEF Forwarder, Bind, BindFails, StopListening, Drained, wireVars
<1>2. client.phase \in {"off", "joining"} => UNCHANGED events
 BY DEF Forwarder, Bind, BindFails, StopListening, Drained, Report, PumpAlive
<1> QED BY <1>1, <1>2, SessKept DEF SessInv, SessionOK

LEMMA SessStep == TypeInv /\ SessInv /\ [Next]_vars => SessInv'
<1> SUFFICES ASSUME TypeInv, SessInv, [Next]_vars PROVE SessInv'
 OBVIOUS
<1>1. CASE UNCHANGED vars
 <2>1. UNCHANGED <<pump, link, toClient, toServer, client, events, slots>>
  BY <1>1 DEF vars
 <2> QED BY <2>1, SessKept DEF SessInv, SessionOK
<1>2. CASE \E t \in Tasks : Request(t) \/ Progress(t)
 <2>1. PICK t \in Tasks : Request(t) \/ Progress(t)
  BY <1>2
 <2>2. CASE Progress(t)
  BY <2>2, ProgressSess
 <2>3. CASE Request(t)
  <3>1. UNCHANGED <<pump, link, toClient, toServer, client, events, slots>>
   BY <2>3 DEF Request, PushResolve, RemoveMem, UpdateResolve, wireVars, clientVars
  <3> QED BY <3>1, SessKept DEF SessInv, SessionOK
 <2> QED BY <2>1, <2>2, <2>3
<1> QED BY <1>1, <1>2, ServerSess, ConnectSess, CutSess, RestartSess, ReceiveSess, ProcessSess,
  ForwarderSess DEF Next

----
(* The two copies of the rules *)

\* KnownIsStored with what makes it inductive.  RuleStore::next_id is beyond
\* every id in memory and every id a request works on, so an id whose removal
\* is under way cannot come back, and a removal at its delete_rule has already
\* taken the rule out of memory.
FreshIds     == \A r \in RuleIds : r >= nextId => mem[r] = NoRule
RequestsOld  == \A t \in Tasks : task[t].pc \notin {"idle", "insert"} => task[t].rule < nextId
RemovedFirst == \A t \in Tasks : At(t, "remove", "delete") => mem[task[t].rule] = NoRule

StoreInv == FreshIds /\ RequestsOld /\ RemovedFirst /\ KnownIsStored

LEMMA InitStore == Init => StoreInv
<1> SUFFICES ASSUME Init PROVE StoreInv
 OBVIOUS
<1>1. \A t \in Tasks : task[t].pc = "idle"
 BY DEF Init, IdleTask
<1>2. \A r \in RuleIds : mem[r] = NoRule
 BY DEF Init
<1> QED BY <1>1, <1>2 DEF StoreInv, FreshIds, RequestsOld, RemovedFirst, KnownIsStored, At, Known

\* A step of the client, or of the wire.
LEMMA QuietStore ==
  ASSUME StoreInv, UNCHANGED <<task, nextId, mem, db, pump>> PROVE StoreInv'
  BY DEF StoreInv, FreshIds, RequestsOld, RemovedFirst, At, KnownIsStored, Known, NeverSent, AboutToWrite

\* A step of a session on the server's side: no rule appears in memory, no row of
\* a rule in memory goes, and a rule without one keeps its state or is the
\* session's to write.
Writing == {"replayRead", "replayWrite", "serveRead", "serveWrite"}
LEMMA PumpStore ==
  ASSUME TypeInv, StoreInv, NEW s \in Sessions, NEW k, PumpStep(s, k), UNCHANGED <<task, nextId>>,
         \A r \in RuleIds : mem'[r] # NoRule => mem[r] # NoRule,
         \A r \in RuleIds : mem'[r] # NoRule /\ db'[r] = NoRule =>
             /\ db[r] = NoRule
             /\ \/ k.rule = r /\ k.pc \in Writing
                \/ mem'[r].state = mem[r].state /\ ~AboutToWrite(s, r)
  PROVE  StoreInv'
<1>1. pump'[s] = k /\ \A u \in Sessions : u # s => pump'[u] = pump[u]
 BY PumpPoint
<1>2. FreshIds' /\ RequestsOld'
 BY DEF StoreInv, FreshIds, RequestsOld
<1>3. RemovedFirst'
 BY DEF StoreInv, RemovedFirst, At, TypeInv, GoodTask
<1>4. KnownIsStored'
 <2> SUFFICES ASSUME NEW r \in RuleIds, mem'[r] # NoRule, db'[r] = NoRule
              PROVE  NeverSent(r)' \/ \E u \in Sessions : AboutToWrite(u, r)'
  BY DEF KnownIsStored, Known
 <2>1. CASE k.rule = r /\ k.pc \in Writing
  BY <1>1, <2>1 DEF AboutToWrite, Writing
 <2>2. CASE mem'[r].state = mem[r].state /\ ~AboutToWrite(s, r)
  <3>1. NeverSent(r) \/ \E u \in Sessions : AboutToWrite(u, r)
   BY DEF StoreInv, KnownIsStored, Known
  <3>2. CASE NeverSent(r)
   BY <2>2, <3>2 DEF NeverSent
  <3>3. CASE \E u \in Sessions : AboutToWrite(u, r)
   BY <1>1, <2>2, <3>3 DEF AboutToWrite
  <3> QED BY <3>1, <3>2, <3>3
 <2> QED BY <2>1, <2>2
<1> QED BY <1>2, <1>3, <1>4 DEF StoreInv

\* A step of a request, other than the insertion of a new rule: past its upsert,
\* a push or an update finds the row in place.
EarlyPCs == {"idle", "insert", "change", "persist"}
LEMMA RequestStore ==
  ASSUME TypeInv, StoreInv, NEW t \in Tasks, NEW k \in GoodTask, Step(t, k), UNCHANGED <<nextId, pump>>,
         \A r \in RuleIds : mem'[r] # NoRule => mem[r] # NoRule,
         \A r \in RuleIds : mem'[r] # NoRule /\ db'[r] = NoRule => db[r] = NoRule,
         \A r \in RuleIds : mem'[r] # NoRule /\ db'[r] = NoRule /\ NeverSent(r) =>
             /\ mem'[r].state = "Pending"
             /\ k.rule = r => k.op = "remove" \/ k.pc \in EarlyPCs,
         k.pc \notin {"idle", "insert"} => k.rule < nextId,
         k.op = "remove" /\ k.pc = "delete" => mem'[k.rule] = NoRule
  PROVE  StoreInv'
<1>1. task \in [Tasks -> GoodTask] /\ task' = [task EXCEPT ![t] = k]
 BY DEF TypeInv, Step
<1>2. task'[t] = k /\ \A u \in Tasks : u # t => task'[u] = task[u]
 BY <1>1
<1> USE <1>2 DEF StoreInv
<1>3. FreshIds' /\ RequestsOld'
 BY DEF FreshIds, RequestsOld
<1>4. RemovedFirst'
 BY <1>1 DEF RemovedFirst, At, GoodTask
<1>5. KnownIsStored'
 <2> SUFFICES ASSUME NEW r \in RuleIds, mem'[r] # NoRule, db'[r] = NoRule
              PROVE  NeverSent(r)' \/ \E u \in Sessions : AboutToWrite(u, r)'
  BY DEF KnownIsStored, Known
 <2>1. NeverSent(r) \/ \E u \in Sessions : AboutToWrite(u, r)
  BY DEF KnownIsStored, Known
 <2>2. CASE NeverSent(r)
  BY <2>2 DEF NeverSent, EarlyPCs
 <2>3. CASE \E u \in Sessions : AboutToWrite(u, r)
  BY <2>3 DEF AboutToWrite
 <2> QED BY <2>1, <2>2, <2>3
<1> QED BY <1>3, <1>4, <1>5

\* What Mark and Upsert do to the two copies.
LEMMA MarkKnown ==
  ASSUME mem \in [RuleIds -> RuleOrNone], NEW q, NEW state, Mark(q, state)
  PROVE  \A r \in RuleIds : mem'[r] # NoRule => mem[r] # NoRule
  BY DEF Mark, Known

LEMMA UpsertStored ==
  ASSUME db \in [RuleIds -> RuleOrNone], NEW q, NEW rule \in Rule, Upsert(q, rule)
  PROVE  \A r \in RuleIds : db'[r] = NoRule => db[r] = NoRule /\ r # q
  BY DEF Upsert

LEMMA IdleFacts == IdleTask.pc = "idle" /\ IdleTask.op = "none"
  BY DEF IdleTask

\* A new request.
LEMMA RequestStores ==
  ASSUME TypeInv, StoreInv, NEW t \in Tasks, NEW p \in Ports, NEW l \in Limit, NEW r \in RuleIds,
         PushResolve(t, p, l) \/ RemoveMem(t, r) \/ UpdateResolve(t, r, l)
  PROVE  StoreInv'
<1> USE Constants DEF TypeInv, At
<1>1. IdleTask \in GoodTask /\ IdleTask \in Task /\ mem \in [RuleIds -> RuleOrNone]
 BY IdleType DEF GoodTask, ServerTypes
<1>2. (Known(r) => r < nextId) /\ \A q \in RuleIds : NeverSent(q) => mem[q].state = "Pending"
 BY DEF StoreInv, FreshIds, Known, RuleIds, ServerTypes, NeverSent
<1> USE DEF EarlyPCs
<1>3. CASE PushResolve(t, p, l)
 <2> DEFINE k == [IdleTask EXCEPT !.op = "push", !.pc = "insert", !.port = p, !.limit = l, !.session = current]
 <2>1. k \in Task /\ k.pc = "insert" /\ k.op = "push"
  BY <1>1 DEF Task, TaskPCs, ServerTypes
 <2>2. k \in GoodTask
  BY <2>1 DEF GoodTask
 <2>3. Step(t, k) /\ UNCHANGED <<mem, db, nextId, pump>>
  BY <1>3 DEF PushResolve
 <2> HIDE DEF k
 <2> QED BY <1>2, <2>1, <2>2, <2>3, RequestStore
<1>4. CASE RemoveMem(t, r)
 <2> DEFINE k == [IdleTask EXCEPT !.op = "remove", !.pc = "delete", !.rule = r, !.port = mem[r].port]
 <2>1. mem[r].port \in Ports
  BY <1>1, <1>4 DEF RemoveMem, Known, RuleOrNone, Rule
 <2>2. k \in Task /\ k.pc = "delete" /\ k.op = "remove" /\ k.rule = r
  BY <1>1, <2>1, RuleRange DEF Task, TaskPCs
 <2>3. k \in GoodTask
  BY <2>2 DEF GoodTask
 <2> USE <1>4 DEF RemoveMem
 <2>4. mem'[r] = NoRule /\ \A x \in RuleIds : mem'[x] # NoRule => mem'[x] = mem[x]
  BY <1>1
 <2>5. Step(t, k) /\ task[t].pc = "idle" /\ UNCHANGED <<db, nextId, pump>>
  OBVIOUS
 <2> HIDE DEF k
 <2> QED BY <1>2, <2>2, <2>3, <2>4, <2>5, RequestStore
<1>5. CASE UpdateResolve(t, r, l)
 <2> DEFINE k == [IdleTask EXCEPT !.op = "update", !.pc = "change", !.rule = r, !.limit = l, !.session = current]
 <2>1. k \in Task /\ k.pc = "change" /\ k.op = "update" /\ k.rule = r
  BY <1>1, RuleRange DEF Task, TaskPCs, ServerTypes
 <2>2. k \in GoodTask
  BY <2>1 DEF GoodTask
 <2>3. Step(t, k) /\ UNCHANGED <<mem, db, nextId, pump>> /\ Known(r)
  BY <1>5 DEF UpdateResolve
 <2> HIDE DEF k
 <2> QED BY <1>2, <2>1, <2>2, <2>3, RequestStore
<1> QED BY <1>3, <1>4, <1>5

\* A step of a request, other than the insertion of a new rule.
LEMMA ProgressStores ==
  ASSUME TypeInv, StoreInv, NEW t \in Tasks, Progress(t), ~PushInsert(t) PROVE StoreInv'
<1> USE Constants DEF TypeInv, At
<1>1. /\ task[t] \in GoodTask /\ task[t] \in Task /\ IdleTask \in GoodTask
      /\ mem \in [RuleIds -> RuleOrNone] /\ db \in [RuleIds -> RuleOrNone]
 BY IdleType DEF GoodTask, ServerTypes
<1>2. task[t].pc \notin {"idle", "insert"} => task[t].rule < nextId /\ task[t].rule \in RuleIds
 BY <1>1 DEF StoreInv, RequestsOld, GoodTask
<1>3. \A pc \in {"send", "read", "expired"} :
        /\ Goto(t, pc) \in Task /\ Goto(t, pc).pc = pc /\ Goto(t, pc).rule = task[t].rule
        /\ Goto(t, pc).op = task[t].op /\ Goto(t, pc).snap = task[t].snap
 BY <1>1 DEF Goto, Task, TaskPCs
<1>a. \A r \in RuleIds : NeverSent(r) =>
        mem[r].state = "Pending" /\ (task[t].rule = r => task[t].op = "remove" \/ task[t].pc \in EarlyPCs)
 BY DEF NeverSent, EarlyPCs
<1>4. ASSUME NEW op, Persist(t, op) PROVE StoreInv'
 <2> USE <1>1, <1>4 DEF Persist
 <2>1. task[t].snap \in Rule
  BY DEF GoodTask
 <2>2. Goto(t, "send") \in GoodTask
  BY <1>2, <1>3, <2>1 DEF GoodTask
 <2>3. \A r \in RuleIds : db'[r] = NoRule => db[r] = NoRule /\ r # task[t].rule
  BY <1>2, <2>1, UpsertStored
 <2>4. UNCHANGED <<mem, nextId, pump>> /\ Step(t, Goto(t, "send"))
  OBVIOUS
 <2> QED BY <1>2, <1>3, <1>a, <2>2, <2>3, <2>4, RequestStore
<1>5. ASSUME NEW op \in {"push", "update"}, RequestSend(t, op) PROVE StoreInv'
 <2> DEFINE k == [task[t] EXCEPT !.pc = "wait", !.req = nextReq, !.snap = NoRule]
 <2> USE <1>5 DEF RequestSend
 <2>1. nextReq \in Requests
  BY DEF ServerTypes, Requests
 <2>2. k \in Task /\ k.pc = "wait" /\ k.rule = task[t].rule /\ k.op = op
  BY <1>1, <2>1 DEF Task, TaskPCs, RuleOrNone
 <2>3. k \in GoodTask
  BY <1>2, <2>2 DEF GoodTask
 <2>4. UNCHANGED <<mem, db, nextId, pump>> /\ Step(t, k) /\ task[t].pc = "send" /\ task[t].op = op
  OBVIOUS
 <2> HIDE DEF k
 <2> QED BY <1>1, <1>2, <1>a, <2>2, <2>3, <2>4, RequestStore DEF EarlyPCs
<1>6. CASE Step(t, IdleTask) /\ UNCHANGED <<mem, db, nextId, pump>>
 BY <1>1, <1>6, <1>a, RequestStore, IdleFacts DEF EarlyPCs
<1>7. CASE PushUndo(t)
 <2>1. \A r \in RuleIds : mem'[r] # NoRule => mem'[r] = mem[r] /\ db'[r] = db[r]
  BY <1>1, <1>7 DEF PushUndo, Delete
 <2>2. UNCHANGED <<nextId, pump>> /\ Step(t, IdleTask)
  BY <1>7 DEF PushUndo
 <2> QED BY <1>1, <1>a, <2>1, <2>2, RequestStore, IdleFacts DEF EarlyPCs
<1>8. CASE PushAcked(t)
 <2>1. /\ UNCHANGED <<db, nextId, pump>> /\ task[t].op = "push" /\ task[t].pc = "acked"
       /\ Step(t, IdleTask) \/ Step(t, Goto(t, "read"))
  BY <1>8 DEF PushAcked
 <2>2. \A r \in RuleIds : /\ mem'[r] # NoRule => mem[r] # NoRule
                          /\ r # task[t].rule => mem'[r] = mem[r]
  BY <1>1, <1>8 DEF PushAcked, Mark, Known
 <2>3. Goto(t, "read") \in GoodTask
  BY <1>2, <1>3, <2>1 DEF GoodTask
 <2>4. ASSUME NEW r \in RuleIds, NeverSent(r) PROVE r # task[t].rule /\ mem'[r].state = "Pending"
  <3>1. mem[r].state = "Pending" /\ r # task[t].rule
   BY <1>a, <2>1, <2>4 DEF EarlyPCs
  <3> QED BY <2>2, <3>1
 <2>5. CASE Step(t, IdleTask)
  BY <1>1, <2>1, <2>2, <2>4, <2>5, RequestStore, IdleFacts DEF EarlyPCs
 <2>6. CASE Step(t, Goto(t, "read"))
  BY <1>2, <1>3, <2>1, <2>2, <2>3, <2>4, <2>6, RequestStore
 <2> QED BY <2>1, <2>5, <2>6
<1>9. CASE PushRead(t) \/ UpdateMem(t)
 <2> DEFINE rule == IF PushRead(t) THEN mem[task[t].rule]
                    ELSE [mem[task[t].rule] EXCEPT !.limit = task[t].limit]
            next == IF PushRead(t) THEN "write" ELSE "persist"
            k == [task[t] EXCEPT !.pc = next, !.snap = rule]
 <2>1. Known(task[t].rule) => rule \in Rule
  BY <1>1, <1>2, <1>9 DEF PushRead, UpdateMem, Known, RuleOrNone, Rule, Task
 <2>2. /\ Known(task[t].rule) => k \in Task
       /\ k.pc = next /\ k.rule = task[t].rule /\ k.snap = rule /\ k.op = task[t].op
  BY <1>1, <2>1 DEF Task, TaskPCs, RuleOrNone
 <2>3. Known(task[t].rule) => k \in GoodTask
  BY <1>2, <1>9, <2>1, <2>2 DEF PushRead, UpdateMem, GoodTask
 <2>4. \A r \in RuleIds : mem'[r] # NoRule => mem[r] # NoRule /\ mem'[r].state = mem[r].state
  BY <1>1, <1>9 DEF PushRead, UpdateMem, Known, RuleOrNone, Rule
 <2>5. UNCHANGED <<db, nextId, pump>>
  BY <1>9 DEF PushRead, UpdateMem
 <2>6. CASE ~Known(task[t].rule)
  <3>1. Step(t, IdleTask)
   BY <1>9, <2>6 DEF PushRead, UpdateMem
  <3> HIDE DEF k, rule, next
  <3> QED BY <1>1, <1>a, <2>4, <2>5, <3>1, RequestStore, IdleFacts DEF EarlyPCs
 <2>7. CASE Known(task[t].rule)
  <3>1. Step(t, k) /\ task[t].pc \in {"read", "change"}
   BY <1>9, <2>7 DEF PushRead, UpdateMem
  <3>2. /\ k.pc \in {"write", "persist"}
        /\ k.pc = "write" => task[t].pc = "read" /\ task[t].op = "push"
   BY <2>2 DEF PushRead
  <3> HIDE DEF k, rule, next
  <3> QED BY <3>2, <1>1, <1>2, <1>a, <2>2, <2>3, <2>4, <2>5, <2>7, <3>1, RequestStore DEF EarlyPCs
 <2> QED BY <2>6, <2>7
<1>10. CASE PushWrite(t)
 <2>1. \A r \in RuleIds : db'[r] = NoRule => db[r] = NoRule
  BY <1>1, <1>10, UpsertStored DEF PushWrite, GoodTask
 <2>2. UNCHANGED <<mem, nextId, pump>> /\ Step(t, IdleTask)
  BY <1>10 DEF PushWrite
 <2> QED BY <1>1, <1>a, <2>1, <2>2, RequestStore, IdleFacts DEF EarlyPCs
<1>11. CASE AckTimeout(t)
 <2>1. Goto(t, "expired") \in GoodTask
  BY <1>2, <1>3, <1>11 DEF AckTimeout, GoodTask
 <2>2. UNCHANGED <<mem, db, nextId, pump>> /\ Step(t, Goto(t, "expired")) /\ task[t].pc = "wait"
  BY <1>11 DEF AckTimeout
 <2> QED BY <1>1, <1>2, <1>3, <1>a, <2>1, <2>2, RequestStore DEF EarlyPCs
<1>12. CASE RemoveDb(t)
 <2>1. /\ mem[task[t].rule] = NoRule /\ task[t].op = "remove" /\ task[t].pc = "delete"
       /\ UNCHANGED <<mem, nextId, pump>> /\ Step(t, Goto(t, "send"))
  BY <1>12 DEF StoreInv, RemovedFirst, RemoveDb
 <2>2. Goto(t, "send") \in GoodTask
  BY <1>2, <1>3, <2>1 DEF GoodTask
 <2>3. \A r \in RuleIds : mem'[r] # NoRule => db'[r] = db[r]
  BY <1>1, <1>12, <2>1 DEF Delete, RemoveDb
 <2> QED BY <1>1, <1>2, <1>3, <1>a, <2>1, <2>2, <2>3, RequestStore
<1>13. CASE UpsertFails(t) \/ DropWaiter(t) \/ RemoveSend(t) \/ UpdateSendFails(t) \/ UpdateAcked(t)
 BY <1>6, <1>13 DEF UpsertFails, DropWaiter, RemoveSend, UpdateSendFails, UpdateAcked
<1> QED BY <1>4, <1>5, <1>7, <1>8, <1>9, <1>10, <1>11, <1>12, <1>13 DEF Progress, PushPersist,
  UpdatePersist, PushSend, UpdateSend

\* push_range: the new rule gets an id nobody works on.
LEMMA InsertStore ==
  ASSUME TypeInv, StoreInv, NEW t \in Tasks, PushInsert(t) PROVE StoreInv'
<1> USE Constants DEF TypeInv
<1> DEFINE rule == [port |-> task[t].port, limit |-> task[t].limit, state |-> "Pending"]
           k == [task[t] EXCEPT !.pc = "persist", !.rule = nextId, !.snap = rule]
<1>1. /\ mem \in [RuleIds -> RuleOrNone] /\ task \in [Tasks -> GoodTask]
      /\ IdleTask \in GoodTask /\ task[t] \in Task
 BY IdleType DEF ServerTypes, GoodTask
<1>2. CASE Step(t, IdleTask) /\ UNCHANGED <<mem, nextId>>
 <2>1. UNCHANGED <<db, pump>>
  BY DEF PushInsert
 <2>2. \A r \in RuleIds : NeverSent(r) => mem[r].state = "Pending"
  BY DEF NeverSent
 <2> QED BY <1>1, <1>2, <2>1, <2>2, RequestStore, IdleFacts DEF EarlyPCs
<1>3. CASE /\ nextId \in RuleIds /\ mem' = [mem EXCEPT ![nextId] = rule]
           /\ nextId' = nextId + 1 /\ Step(t, k) /\ UNCHANGED <<db, pump>>
 <2>1. k.pc = "persist" /\ k.rule = nextId /\ k.op = "push"
  BY <1>1 DEF Task, PushInsert, At
 <2> HIDE DEF k, rule
 <2>2. task'[t] = k /\ \A u \in Tasks : u # t => task'[u] = task[u]
  BY <1>1, <1>3 DEF Step
 <2>3. \A r \in RuleIds : r # nextId => mem'[r] = mem[r]
  BY <1>1, <1>3
 <2>4. nextId \in Nat /\ \A r \in RuleIds : r \in Nat
  BY DEF ServerTypes, RuleIds
 <2>5. FreshIds'
  BY <1>3, <2>3, <2>4 DEF StoreInv, FreshIds
 <2>6. \A u \in Tasks : task[u].rule \in 0 .. MaxRules
  BY DEF GoodTask, Task
 <2>7. RequestsOld'
  BY <1>3, <2>1, <2>2, <2>4, <2>6 DEF StoreInv, RequestsOld
 <2>8. RemovedFirst'
  <3> SUFFICES ASSUME NEW u \in Tasks, At(u, "remove", "delete")' PROVE mem'[task'[u].rule] = NoRule
   BY DEF RemovedFirst
  <3>1. u # t
   BY <2>1, <2>2 DEF At
  <3>2. task'[u] = task[u] /\ task[u].op = "remove" /\ task[u].pc = "delete"
   BY <2>2, <3>1 DEF At
  <3>3. task[u].rule \in RuleIds /\ task[u].rule < nextId /\ mem[task[u].rule] = NoRule
   BY <1>1, <3>2 DEF StoreInv, RequestsOld, RemovedFirst, At, GoodTask
  <3> QED BY <2>3, <2>4, <3>2, <3>3
 <2>9. KnownIsStored'
  <3> SUFFICES ASSUME NEW r \in RuleIds, mem'[r] # NoRule, db'[r] = NoRule
               PROVE  NeverSent(r)' \/ \E u \in Sessions : AboutToWrite(u, r)'
   BY DEF KnownIsStored, Known
  <3>1. CASE r = nextId
   <4>1. mem'[r].state = "Pending"
    BY <1>1, <1>3, <3>1 DEF rule
   <4>2. \A u \in Tasks : task'[u].rule = r => task'[u].pc \in {"idle", "insert", "persist"}
    BY <2>1, <2>2, <2>4, <2>6, <3>1 DEF StoreInv, RequestsOld
   <4> QED BY <4>1, <4>2 DEF NeverSent
  <3>2. CASE r # nextId
   <4>1. NeverSent(r) \/ \E u \in Sessions : AboutToWrite(u, r)
    BY <1>3, <2>3, <3>2 DEF StoreInv, KnownIsStored, Known
   <4>2. CASE NeverSent(r)
    BY <2>1, <2>2, <2>3, <3>2, <4>2 DEF NeverSent
   <4>3. CASE \E u \in Sessions : AboutToWrite(u, r)
    BY <1>3, <4>3 DEF AboutToWrite
   <4> QED BY <4>1, <4>2, <4>3
  <3> QED BY <3>1, <3>2
 <2> QED BY <2>5, <2>7, <2>8, <2>9 DEF StoreInv
<1>4. ~(nextId > MaxRules) => nextId \in RuleIds
 BY DEF ServerTypes, RuleIds
<1> QED BY <1>2, <1>3, <1>4 DEF PushInsert

\* A step of a session on either side, apart from an answered request.
LEMMA SessionStores ==
  ASSUME TypeInv, SessInv, StoreInv, NEW s \in Sessions,
         Connect(s) \/ ServerSession(s) \/ ClientSession(s) \/ Cut(s),
         \A t \in Tasks : ~StatusToWaiter(s, t)
  PROVE  StoreInv'
<1> USE Constants
<1>1. /\ mem \in [RuleIds -> RuleOrNone] /\ db \in [RuleIds -> RuleOrNone]
      /\ pump[s] \in Pump /\ pump[s] \in GoodPump
 BY DEF TypeInv, ServerTypes, GoodPump
<1>2. CASE ClientSession(s) \/ Cut(s)
 BY <1>2, QuietStore DEF ClientSession, Cut, JoinWelcomed, JoinFails, ReceiveUpdate, ReceivePush,
  ReceiveRemove, Handling, clientVars
<1>3. ASSUME NEW k, PumpStep(s, k), UNCHANGED <<mem, db, task, nextId>>, pump[s].pc \notin Writing
      PROVE  StoreInv'
 BY <1>3, PumpStore DEF AboutToWrite, Writing
<1>4. CASE Connect(s)
 <2>1. s \notin Opened
  BY <1>4, ConnectSess DEF SessInv, ClientOK, TypeInv, ClientTypes
 <2>2. pump[s].pc = "none"
  BY <2>1 DEF Opened, SessInv, SessionOK
 <2> QED BY <1>3, <1>4, <2>2 DEF Connect, Writing
<1>5. CASE Hello(s) \/ HelloFails(s) \/ ReplayList(s) \/ ReplayDone(s) \/ PumpEnd(s)
 BY <1>3, <1>5 DEF Hello, HelloFails, ReplayList, ReplayDone, PumpEnd, PumpAt, Writing
<1>6. CASE ReplayRead(s)
 <2>1. PICK k : /\ PumpStep(s, k)
                /\ k = IF Known(pump[s].rule)
                       THEN [pump[s] EXCEPT !.pc = "replayWrite", !.snap = mem[pump[s].rule]]
                       ELSE [pump[s] EXCEPT !.pc = "replay"]
  BY <1>6 DEF ReplayRead
 <2>2. Known(pump[s].rule) => k.rule = pump[s].rule /\ k.pc = "replayWrite"
  BY <1>1, <2>1 DEF Pump
 <2>3. UNCHANGED <<mem, db, task, nextId>>
  BY <1>6 DEF ReplayRead
 <2>4. \A r \in RuleIds : mem'[r] # NoRule => \/ k.rule = r /\ k.pc \in Writing
                                              \/ mem'[r].state = mem[r].state /\ ~AboutToWrite(s, r)
  BY <2>2, <2>3 DEF AboutToWrite, Writing, Known
 <2> QED BY <2>1, <2>3, <2>4, PumpStore
<1>7. CASE ServeRead(s)
 <2>1. PICK k : /\ PumpStep(s, k)
                /\ k = IF Known(pump[s].rule)
                       THEN [pump[s] EXCEPT !.pc = "serveWrite", !.snap = mem[pump[s].rule]]
                       ELSE [FreshPump EXCEPT !.pc = "serve"]
  BY <1>7 DEF ServeRead
 <2>2. Known(pump[s].rule) => k.rule = pump[s].rule /\ k.pc = "serveWrite"
  BY <1>1, <2>1 DEF Pump
 <2>3. UNCHANGED <<mem, db, task, nextId>>
  BY <1>7 DEF ServeRead
 <2>4. \A r \in RuleIds : mem'[r] # NoRule => \/ k.rule = r /\ k.pc \in Writing
                                              \/ mem'[r].state = mem[r].state /\ ~AboutToWrite(s, r)
  BY <2>2, <2>3 DEF AboutToWrite, Writing, Known
 <2> QED BY <2>1, <2>3, <2>4, PumpStore
<1>8. ASSUME NEW k, NEW q, NEW state, Mark(q, state), PumpStep(s, k), k.rule = q, k.pc \in Writing,
             UNCHANGED <<db, task, nextId>>, pump[s].pc \notin Writing
      PROVE  StoreInv'
 <2>1. \A r \in RuleIds : /\ mem'[r] # NoRule => mem[r] # NoRule
                          /\ r # q => mem'[r] = mem[r]
  BY <1>1, <1>8 DEF Mark, Known
 <2>2. \A r \in RuleIds : ~AboutToWrite(s, r)
  BY <1>8 DEF AboutToWrite, Writing
 <2> QED BY <1>8, <2>1, <2>2, PumpStore
<1>9. CASE ReplayMark(s)
 <2>1. PICK e \in pump[s].todo : \E mark :
          Mark(e.rule, mark) /\ PumpStep(s, [pump[s] EXCEPT !.pc = "replayRead", !.rule = e.rule,
                                             !.mark = mark, !.todo = @ \ {e}])
  BY <1>9 DEF ReplayMark
 <2>2. PICK mark : Mark(e.rule, mark) /\ PumpStep(s, [pump[s] EXCEPT !.pc = "replayRead",
                                            !.rule = e.rule, !.mark = mark, !.todo = @ \ {e}])
  BY <2>1
 <2>3. PICK k : k = [pump[s] EXCEPT !.pc = "replayRead", !.rule = e.rule, !.mark = mark, !.todo = @ \ {e}]
  OBVIOUS
 <2>4. k.rule = e.rule /\ k.pc = "replayRead"
  BY <1>1, <2>3 DEF Pump
 <2>5. UNCHANGED <<db, task, nextId>> /\ pump[s].pc = "replay"
  BY <1>9 DEF ReplayMark, PumpAt
 <2> QED BY <1>8, <2>2, <2>3, <2>4, <2>5 DEF Writing
<1>10. CASE StatusUnsolicited(s)
 <2>1. PICK m : m = Head(toServer[s])
  OBVIOUS
 <2>2. UNCHANGED <<db, task, nextId>> /\ pump[s].pc = "serve"
  BY <1>10 DEF StatusUnsolicited, PumpAt
 <2>3. CASE UNCHANGED <<mem, pump>>
  BY <2>2, <2>3, QuietStore
 <2>4. CASE Mark(m.rule, StateAfter(m.outcome)) /\ PumpStep(s, [pump[s] EXCEPT !.pc = "serveRead", !.rule = m.rule])
  <3>1. PICK k : k = [pump[s] EXCEPT !.pc = "serveRead", !.rule = m.rule]
   OBVIOUS
  <3>2. k.rule = m.rule /\ k.pc = "serveRead"
   BY <1>1, <3>1 DEF Pump
  <3> QED BY <1>8, <2>2, <2>4, <3>1, <3>2 DEF Writing
 <2> QED BY <1>10, <2>1, <2>3, <2>4 DEF StatusUnsolicited
<1>11. ASSUME NEW k, Upsert(pump[s].rule, pump[s].snap), PumpStep(s, k), UNCHANGED <<mem, task, nextId>>,
              pump[s].pc \in {"replayWrite", "serveWrite"}
       PROVE  StoreInv'
 <2>1. pump[s].snap \in Rule
  BY <1>1, <1>11 DEF GoodPump
 <2>2. \A r \in RuleIds : db'[r] = NoRule => db[r] = NoRule /\ r # pump[s].rule
  BY <1>1, <1>11, <2>1, UpsertStored
 <2> QED BY <1>11, <2>2, PumpStore DEF AboutToWrite
<1>12. CASE ReplayWrite(s) \/ ServeWrite(s)
 BY <1>11, <1>12 DEF ReplayWrite, ServeWrite, PumpAt
<1> QED BY <1>2, <1>4, <1>5, <1>6, <1>7, <1>9, <1>10, <1>12 DEF ServerSession

\* An answer reaches the request that waits for it.
LEMMA WaiterStore ==
  ASSUME TypeInv, StoreInv, NEW s \in Sessions, NEW t \in Tasks, StatusToWaiter(s, t)
  PROVE  StoreInv'
<1> DEFINE k == IF task[t].pc = "wait"
                THEN [task[t] EXCEPT !.pc = "acked", !.ack = Head(toServer[s]).outcome]
                ELSE [task[t] EXCEPT !.req = 0]
<1>1. task[t] \in GoodTask /\ task[t] \in Task /\ task[t].pc \in {"wait", "expired"} /\ Step(t, k)
 BY DEF TypeInv, GoodTask, StatusToWaiter, Waits
<1>2. k.pc \in {"acked", "expired"} /\ k.rule = task[t].rule /\ k.op = task[t].op
 BY <1>1 DEF Task
<1>3. task[t].rule < nextId
 BY <1>1 DEF StoreInv, RequestsOld
<1> HIDE DEF k
<1>4. k \in GoodTask
 <2>1. task' \in [Tasks -> GoodTask]
  BY WaiterTypes DEF TypeInv
 <2>2. task'[t] = k
  BY <1>1 DEF Step, TypeInv
 <2> QED BY <2>1, <2>2
<1>5. UNCHANGED <<mem, db, nextId, pump>>
 BY DEF StatusToWaiter
<1>6. \A r \in RuleIds : NeverSent(r) => mem[r].state = "Pending" /\ (task[t].rule = r => task[t].op = "remove")
 BY <1>1 DEF NeverSent
<1> QED BY <1>1, <1>2, <1>3, <1>4, <1>5, <1>6, RequestStore

\* Memory is hydrated from the rows and no request survives: next_id is one
\* beyond the largest id stored.
LEMMA RestartStore ==
  ASSUME TypeInv, StoreInv, Restart PROVE StoreInv'
<1>1. \A t \in Tasks : task'[t].pc = "idle"
 BY IdleFacts DEF Restart
<1>2. mem' = db /\ db' = db
 BY DEF Restart
<1>3. RequestsOld' /\ RemovedFirst'
 BY <1>1 DEF RequestsOld, RemovedFirst, At
<1>4. FreshIds'
 <2>1. PICK n \in 0 .. MaxRules : /\ \A r \in RuleIds : db[r] # NoRule => r <= n
                                  /\ nextId' = n + 1
  BY DEF Restart
 <2>2. \A r \in RuleIds : r \in Nat
  BY Constants DEF RuleIds
 <2> QED BY <1>2, <2>1, <2>2 DEF FreshIds
<1>5. KnownIsStored'
 BY <1>2 DEF KnownIsStored, Known
<1> QED BY <1>3, <1>4, <1>5 DEF StoreInv

LEMMA StoreStep == TypeInv /\ SessInv /\ StoreInv /\ [Next]_vars => StoreInv'
<1> SUFFICES ASSUME TypeInv, SessInv, StoreInv, [Next]_vars PROVE StoreInv'
 OBVIOUS
<1>1. task \in [Tasks -> GoodTask]
 BY DEF TypeInv
<1>2. CASE UNCHANGED vars
 BY <1>1, <1>2, QuietStore DEF vars
<1>3. CASE \E t \in Tasks : Request(t) \/ Progress(t)
 <2>1. PICK t \in Tasks : Request(t) \/ Progress(t)
  BY <1>3
 <2>2. CASE Progress(t)
  BY <2>2, InsertStore, ProgressStores
 <2>3. CASE \E p \in Ports, l \in Limit : PushResolve(t, p, l)
  <3>1. PICK p \in Ports, l \in Limit : PushResolve(t, p, l)
   BY <2>3
  <3>2. CASE RuleIds = {}
   BY <3>1, <3>2, Constants DEF PushResolve, TypeInv, ServerTypes, RuleIds
  <3>3. CASE RuleIds # {}
   BY <3>1, <3>3, RequestStores
  <3> QED BY <3>2, <3>3
 <2>4. CASE \E r \in RuleIds : RemoveMem(t, r)
  <3>1. NoLimit \in Limit /\ \E p \in Ports : TRUE
   BY DEF Limit
  <3> QED BY <2>4, <3>1, RequestStores
 <2>5. CASE \E r \in RuleIds, l \in Limit : UpdateResolve(t, r, l)
  <3>1. \E p \in Ports : TRUE
   OBVIOUS
  <3> QED BY <2>5, <3>1, RequestStores
 <2> QED BY <2>1, <2>2, <2>3, <2>4, <2>5 DEF Request
<1>4. CASE \E s \in Sessions : Connect(s) \/ ServerSession(s) \/ ClientSession(s) \/ Cut(s)
 BY <1>4, SessionStores, WaiterStore
<1>5. CASE Relay \/ Leave \/ Left
 <2>1. UNCHANGED <<mem, db, nextId, task, pump>>
  BY <1>5 DEF Relay, Leave, Left
 <2> QED BY <1>1, <2>1, QuietStore
<1>6. CASE \E f \in Spawns : Forwarder(f)
 <2>1. UNCHANGED <<mem, db, nextId, task, pump>>
  BY <1>6 DEF Forwarder, Bind, BindFails, StopListening, Drained
 <2> QED BY <1>1, <2>1, QuietStore
<1> QED BY <1>2, <1>3, <1>4, <1>5, <1>6, RestartStore DEF Next

\* A crash at any point, between any two steps of any number of requests and
\* sessions, and whatever upserts failed before, loses no rule that a push or an
\* update has sent, and no state but one that a session is about to write
\* (push_range, upsert_rule, delete_rule, hydrate).
THEOREM StoredAlways == Spec => []KnownIsStored
<1>1. Init => TypeInv /\ SessInv /\ StoreInv
 BY InitTypes, InitSess, InitStore
<1>2. TypeInv /\ SessInv /\ StoreInv /\ [Next]_vars => TypeInv' /\ SessInv' /\ StoreInv'
 BY TypeStep, SessStep, StoreStep
<1>3. StoreInv => KnownIsStored
 BY DEF StoreInv
<1> QED BY <1>1, <1>2, <1>3, PTL DEF Spec

\* Both copies of the rules are well formed, and nothing is made of a rule
\* before SQLite has it (push_rule, remove_rule, ServerRestart).
THEOREM StoreIsSound == Spec => []StoreSound
  BY TypeCorrect, StoredAlways, PTL DEF StoreSound

----
(* Forwarders and slots *)

Spawned == 1 .. spawned

\* A forwarder that was not told to stop is the one its rule's slot refers to,
\* and a client out of a session has none.
HeldBySlot(f) ==
    fw[f].phase \in {"binding", "bound"} /\ ~fw[f].cancelled =>
        client.phase = "on" /\ slots[fw[f].rule] # NoSlot /\ slots[fw[f].rule].fw = f

\* An event tells what a forwarder of this session has done.
EventTrue(e) ==
    \E f \in Spawned :
        /\ fw[f].rule = e.rule /\ fw[f].session = client.session
        /\ e.outcome = "Activated" => fw[f].phase \in {"bound", "draining", "closed"}
        /\ e.outcome = "Failed" => fw[f].phase = "failed"
        /\ e.outcome = "Removed" => fw[f].cancelled

SlotTrue(r) ==
    slots[r] # NoSlot => /\ slots[r].fw \in Spawned /\ fw[slots[r].fw].rule = r
                         /\ fw[slots[r].fw].session = client.session

OneSpawn ==
    \A f, g \in Spawned : fw[f].rule = fw[g].rule /\ fw[f].session = fw[g].session => f = g

SpawnInv ==
    /\ \A f \in Spawns : f \notin Spawned => fw[f].phase = "none"
    /\ \A f \in Spawned : /\ fw[f].phase # "none" /\ fw[f].session \in 1 .. client.session
                          /\ fw[f].phase \in {"draining", "closed"} => fw[f].cancelled
                          /\ HeldBySlot(f)
    /\ OneSpawn
    /\ client.phase = "joining" => \A f \in Spawned : fw[f].session # client.session
    /\ \A r \in RuleIds : SlotTrue(r)
    /\ \A i \in 1 .. Len(events) : EventTrue(events[i])

\* No forwarder of the rule was spawned in the session.
Unspawned(s, r) == \A g \in Spawned : ~(fw[g].rule = r /\ fw[g].session = s)

LEMMA SpawnTypes ==
  ASSUME TypeInv
  PROVE  /\ spawned \in 0 .. MaxSpawns /\ Spawned \subseteq Spawns
         /\ fw \in [Spawns -> GoodForwarder] /\ fw \in [Spawns -> ForwarderTask]
         /\ \A f \in Spawns : fw[f].phase # "none" => fw[f].rule \in RuleIds
         /\ slots \in [RuleIds -> Slot \cup {NoSlot}]
         /\ events \in Seq(Event)
  BY Constants DEF TypeInv, ClientTypes, Spawned, Spawns, GoodForwarder

LEMMA InitSpawn == Init => SpawnInv
<1> SUFFICES ASSUME Init PROVE SpawnInv
 OBVIOUS
<1>1. Spawned = {} /\ events = <<>>
 BY DEF Init, Spawned
<1> QED BY <1>1 DEF Init, SpawnInv, OneSpawn, SlotTrue, NoForwarder

LEMMA SpawnKept ==
  ASSUME SpawnInv, UNCHANGED <<client, slots, events, fw, spawned>> PROVE SpawnInv'
  BY DEF SpawnInv, OneSpawn, SlotTrue, EventTrue, HeldBySlot, Spawned

\* The client's phase changes.
LEMMA PhaseSpawn ==
  ASSUME TypeInv, SessInv, SpawnInv, UNCHANGED <<slots, events, fw, spawned>>,
         client.phase # "on", client'.session >= client.session, client'.session \in Nat,
         client'.session = client.session \/ client.phase = "off",
         client'.phase = "joining" => client'.session > client.session
  PROVE  SpawnInv'
<1>1. client.session \in Nat
 BY Constants DEF TypeInv, ClientTypes
<1> USE DEF SpawnInv
<1>2. \A f \in Spawned : HeldBySlot(f)' /\ fw[f].session \in 1 .. client'.session
 BY <1>1 DEF HeldBySlot
<1>3. \A r \in RuleIds : SlotTrue(r)'
 BY DEF SlotTrue, Spawned, SessInv, ClientOK
<1>4. \A i \in 1 .. Len(events) : EventTrue(events[i])'
 <2>1. CASE client'.session = client.session
  BY <2>1 DEF EventTrue, Spawned
 <2>2. CASE client.phase = "off"
  BY <2>2 DEF SessInv, ClientOK
 <2> QED BY <2>1, <2>2
<1>5. client'.phase = "joining" => \A f \in Spawned : fw[f].session # client'.session
 BY <1>1
<1> QED BY <1>2, <1>3, <1>4, <1>5 DEF OneSpawn, Spawned

\* The message is a PUSH of a rule the client has no slot for.
LEMMA PushSpawn ==
  ASSUME TypeInv, SessInv, SpawnInv, NEW s \in Sessions, ReceivePush(s),
         Unspawned(s, Head(toClient[s]).rule)
  PROVE  SpawnInv'
<1>0. PICK m, n : m = Head(toClient[s]) /\ n = spawned + 1
 OBVIOUS
<1>1. /\ client.phase = "on" /\ client.session = s /\ UNCHANGED <<client, events>>
      /\ spawned' = n /\ spawned < MaxSpawns /\ slots[m.rule] = NoSlot
 BY <1>0 DEF ReceivePush, Handling, Incoming
<1>2. m \in Update /\ m.rule \in RuleIds
 <2>1. Incoming(s) /\ WireTypes /\ m.action = "PUSH"
  BY <1>0 DEF ReceivePush, Handling, TypeInv
 <2> QED BY <1>0, <2>1, IncomingType DEF Update
<1>3. spawned \in 0 .. MaxSpawns /\ n \in Spawns /\ n \notin Spawned /\ Spawned' = Spawned \cup {n}
 BY <1>0, <1>1, SpawnTypes, Constants DEF Spawns, Spawned
<1>4. /\ fw'[n].phase = "binding" /\ fw'[n].rule = m.rule /\ fw'[n].session = s /\ ~fw'[n].cancelled
      /\ \A g \in Spawns : g # n => fw'[g] = fw[g]
 BY <1>0, <1>3, SpawnTypes DEF ReceivePush
<1>5. slots'[m.rule] # NoSlot /\ slots'[m.rule].fw = n /\ \A r \in RuleIds : r # m.rule => slots'[r] = slots[r]
 <2>1. slots' \in [RuleIds -> Slot \cup {NoSlot}] /\ slots'[m.rule] = [req |-> m.req, removeReq |-> -1, fw |-> n]
  BY <1>0, <1>2, <1>3, SpawnTypes DEF ReceivePush, Slot, Update
 <2>2. [req |-> m.req, removeReq |-> -1, fw |-> n] \in Slot
  BY <1>2, <1>3 DEF Slot, Update
 <2> QED BY <1>0, <1>2, <2>1, <2>2, SpawnTypes, SentinelAssumption DEF ReceivePush
<1>u. Unspawned(s, m.rule)
 BY <1>0
<1>6. \A f \in Spawned : f \in Spawns /\ f # n /\ fw'[f] = fw[f] /\ fw[f].rule \in RuleIds
 BY <1>3, <1>4, SpawnTypes DEF SpawnInv
<1>7. \A f \in Spawned : HeldBySlot(f) => HeldBySlot(f)'
 BY <1>1, <1>5, <1>6 DEF HeldBySlot
<1>8. HeldBySlot(n)'
 BY <1>1, <1>4, <1>5 DEF HeldBySlot
<1>9. OneSpawn'
 <2>1. \A f \in Spawned : ~(fw'[f].rule = fw'[n].rule /\ fw'[f].session = fw'[n].session)
  BY <1>u, <1>4, <1>6 DEF Unspawned
 <2>2. \A f, g \in Spawned : fw'[f].rule = fw'[g].rule /\ fw'[f].session = fw'[g].session => f = g
  BY <1>6 DEF SpawnInv, OneSpawn
 <2> QED BY <1>3, <2>1, <2>2 DEF OneSpawn
<1> USE DEF SpawnInv
<1>10. \A r \in RuleIds : SlotTrue(r)'
 BY <1>1, <1>3, <1>4, <1>5, <1>6 DEF SlotTrue
<1>11. \A e : EventTrue(e) => EventTrue(e)'
 BY <1>1, <1>3, <1>6 DEF EventTrue
<1>12. \A f \in Spawns : f \notin Spawned' => fw'[f].phase = "none"
 BY <1>3, <1>4
<1>13. \A f \in Spawned' : /\ fw'[f].phase # "none" /\ fw'[f].session \in 1 .. client.session
                           /\ fw'[f].phase \in {"draining", "closed"} => fw'[f].cancelled
 <2>1. s \in 1 .. s
  BY Constants DEF Sessions
 <2> QED BY <1>1, <1>3, <1>4, <1>6, <2>1
<1>14. \A f \in Spawned' : HeldBySlot(f)'
 BY <1>3, <1>7, <1>8
<1>15. (\A i \in 1 .. Len(events) : EventTrue(events[i]))'
 BY <1>1, <1>11
<1> QED BY <1>1, <1>9, <1>10, <1>12, <1>13, <1>14, <1>15

\* One forwarder moves on: it does not come back from cancelled, failed or
\* bound.
Onward(f) ==
    /\ \A g \in Spawns : g # f => fw'[g] = fw[g]
    /\ fw'[f].rule = fw[f].rule /\ fw'[f].session = fw[f].session /\ fw'[f].phase # "none"
    /\ fw[f].cancelled => fw'[f].cancelled
    /\ fw[f].phase = "failed" => fw'[f].phase = "failed"
    /\ fw[f].phase \in {"bound", "draining", "closed"} => fw'[f].phase \in {"bound", "draining", "closed"}
    /\ fw'[f].phase \in {"binding", "bound"} => fw[f].phase \in {"binding", "bound"}
    /\ fw'[f].phase \in {"draining", "closed"} => fw'[f].cancelled

LEMMA OnwardSpawn ==
  ASSUME TypeInv, SpawnInv, NEW f \in Spawned, Onward(f), UNCHANGED <<client, slots, spawned>>,
         \A i \in 1 .. Len(events') : \/ \E j \in 1 .. Len(events) : events'[i] = events[j]
                                      \/ EventTrue(events[i])'
  PROVE  SpawnInv'
<1>1. f \in Spawns /\ Spawned' = Spawned /\ \A g \in Spawned : g \in Spawns
 BY SpawnTypes DEF Spawned
<1>2. \A g \in Spawned : fw'[g].rule = fw[g].rule /\ fw'[g].session = fw[g].session
 BY <1>1 DEF Onward
<1>3. \A e : EventTrue(e) => EventTrue(e)'
 BY <1>1, <1>2 DEF EventTrue, Onward
<1>4. (\A i \in 1 .. Len(events) : EventTrue(events[i]))'
 <2> SUFFICES ASSUME NEW i \in 1 .. Len(events') PROVE EventTrue(events[i])'
  OBVIOUS
 <2>1. CASE \E j \in 1 .. Len(events) : events'[i] = events[j]
  <3>1. PICK j \in 1 .. Len(events) : events'[i] = events[j]
   BY <2>1
  <3>2. PICK e : e = events[j]
   OBVIOUS
  <3>3. EventTrue(e)
   BY <3>2 DEF SpawnInv
  <3>4. EventTrue(e)'
   BY <1>3, <3>3
  <3> QED BY <3>1, <3>2, <3>4 DEF EventTrue
 <2> QED BY <2>1
<1> USE <1>1, <1>2 DEF SpawnInv
<1>5. \A g \in Spawned : HeldBySlot(g)'
 BY DEF HeldBySlot, Onward
<1>6. OneSpawn'
 BY DEF OneSpawn
<1>7. \A r \in RuleIds : SlotTrue(r)'
 BY DEF SlotTrue
<1>8. \A g \in Spawns : g \notin Spawned => fw'[g].phase = "none"
 BY DEF Onward
<1>9. \A g \in Spawned : /\ fw'[g].phase # "none" /\ fw'[g].session \in 1 .. client.session
                         /\ fw'[g].phase \in {"draining", "closed"} => fw'[g].cancelled
 BY DEF Onward
<1>10. client'.phase = "joining" => \A g \in Spawned : fw'[g].session # client.session
 OBVIOUS
<1> QED BY <1>4, <1>5, <1>6, <1>7, <1>8, <1>9, <1>10

\* The channel is left alone, read, or written to.
LEMMA SameEvents ==
  ASSUME events' = events
  PROVE  \A i \in 1 .. Len(events') : \E j \in 1 .. Len(events) : events'[i] = events[j]
  OBVIOUS

LEMMA NewEvent ==
  ASSUME TypeInv, NEW e \in Event, events' = events \/ events' = Append(events, e), EventTrue(e)'
  PROVE  \A i \in 1 .. Len(events') : \/ \E j \in 1 .. Len(events) : events'[i] = events[j]
                                      \/ EventTrue(events[i])'
<1>1. events \in Seq(Event)
 BY SpawnTypes
<1>2. CASE events' = events
 BY <1>2
<1>3. CASE events' = Append(events, e)
 <2> SUFFICES ASSUME NEW i \in 1 .. Len(events')
              PROVE  (\E j \in 1 .. Len(events) : events'[i] = events[j]) \/ EventTrue(events[i])'
  OBVIOUS
 <2>1. i \in 1 .. Len(events) + 1 /\ Len(events) \in Nat
  BY <1>1, <1>3
 <2>2. CASE i = Len(events) + 1
  <3>1. events'[i] = e
   BY <1>1, <1>3, <2>2
  <3> QED BY <3>1 DEF EventTrue
 <2>3. CASE i # Len(events) + 1
  <3>1. i \in 1 .. Len(events)
   BY <2>1, <2>3
  <3>2. events'[i] = events[i]
   BY <1>1, <1>3, <3>1
  <3> QED BY <3>1, <3>2
 <2> QED BY <2>2, <2>3
<1> QED BY <1>2, <1>3

\* A forwarder's own step.
LEMMA ForwarderSpawn ==
  ASSUME TypeInv, SpawnInv, NEW f \in Spawns, Forwarder(f)
  PROVE  SpawnInv' /\ f \in Spawned /\ Onward(f) /\ UNCHANGED <<client, slots, spawned>>
<1>1. fw[f].phase \in {"binding", "bound", "draining"} /\ f \in Spawned /\ fw[f].rule \in RuleIds
 <2>1. fw[f].phase \in {"binding", "bound", "draining"}
  BY DEF Forwarder, Bind, BindFails, StopListening, Drained, Listening
 <2> QED BY <2>1, SpawnTypes DEF SpawnInv
<1>2. UNCHANGED <<client, slots, spawned>>
 BY DEF Forwarder, Bind, BindFails, StopListening, Drained
<1>3. fw[f] \in ForwarderTask /\ fw \in [Spawns -> ForwarderTask]
 BY SpawnTypes
<1>4. \A o \in Outcomes : [rule |-> fw[f].rule, outcome |-> o] \in Event
 BY <1>1 DEF Event
<1>5. fw[f].phase = "draining" => fw[f].cancelled
 BY <1>1 DEF SpawnInv
<1>6. CASE Bind(f)
 <2>1. /\ fw'[f] = [fw[f] EXCEPT !.phase = IF PumpAlive(f) THEN "bound" ELSE "dropped"]
       /\ fw[f].phase = "binding" /\ Report(f, "Activated")
       /\ \A g \in Spawns : g # f => fw'[g] = fw[g]
  BY <1>3, <1>6 DEF Bind
 <2>2. /\ fw'[f].phase = IF PumpAlive(f) THEN "bound" ELSE "dropped"
       /\ fw'[f].rule = fw[f].rule /\ fw'[f].session = fw[f].session /\ fw'[f].cancelled = fw[f].cancelled
  BY <1>3, <2>1 DEF ForwarderTask
 <2>3. Onward(f)
  BY <2>1, <2>2 DEF Onward
 <2>4. CASE PumpAlive(f)
  <3>1. PICK e : e = [rule |-> fw[f].rule, outcome |-> "Activated"]
   OBVIOUS
  <3>2. e \in Event /\ events' = Append(events, e)
   BY <1>4, <2>1, <2>4, <3>1 DEF Report, Outcomes
  <3>3. EventTrue(e)'
   BY <1>1, <1>2, <2>2, <2>4, <3>1 DEF EventTrue, PumpAlive, Spawned
  <3> QED BY <1>1, <1>2, <2>3, <3>2, <3>3, NewEvent, OnwardSpawn
 <2>5. CASE ~PumpAlive(f)
  <3>1. events' = events
   BY <2>1, <2>5 DEF Report
  <3> QED BY <1>1, <1>2, <2>3, <3>1, SameEvents, OnwardSpawn
 <2> QED BY <2>4, <2>5
<1>7. CASE BindFails(f)
 <2>1. /\ fw'[f] = [fw[f] EXCEPT !.phase = "failed"]
       /\ fw[f].phase = "binding" /\ Report(f, "Failed")
       /\ \A g \in Spawns : g # f => fw'[g] = fw[g]
  BY <1>3, <1>7 DEF BindFails
 <2>2. /\ fw'[f].phase = "failed"
       /\ fw'[f].rule = fw[f].rule /\ fw'[f].session = fw[f].session /\ fw'[f].cancelled = fw[f].cancelled
  BY <1>3, <2>1 DEF ForwarderTask
 <2>3. Onward(f)
  BY <2>1, <2>2 DEF Onward
 <2>4. CASE PumpAlive(f)
  <3>1. PICK e : e = [rule |-> fw[f].rule, outcome |-> "Failed"]
   OBVIOUS
  <3>2. e \in Event /\ events' = Append(events, e)
   BY <1>4, <2>1, <2>4, <3>1 DEF Report, Outcomes
  <3>3. EventTrue(e)'
   BY <1>1, <1>2, <2>2, <2>4, <3>1 DEF EventTrue, PumpAlive, Spawned
  <3> QED BY <1>1, <1>2, <2>3, <3>2, <3>3, NewEvent, OnwardSpawn
 <2>5. CASE ~PumpAlive(f)
  <3>1. events' = events
   BY <2>1, <2>5 DEF Report
  <3> QED BY <1>1, <1>2, <2>3, <3>1, SameEvents, OnwardSpawn
 <2> QED BY <2>4, <2>5
<1>8. CASE StopListening(f)
 <2>1. /\ fw'[f] = [fw[f] EXCEPT !.phase = "draining"]
       /\ fw[f].phase = "bound" /\ fw[f].cancelled /\ events' = events
       /\ \A g \in Spawns : g # f => fw'[g] = fw[g]
  BY <1>3, <1>8 DEF StopListening, Listening
 <2>2. /\ fw'[f].phase = "draining"
       /\ fw'[f].rule = fw[f].rule /\ fw'[f].session = fw[f].session /\ fw'[f].cancelled = fw[f].cancelled
  BY <1>3, <2>1, ZenonT(60) DEF ForwarderTask
 <2>3. Onward(f)
  BY <2>1, <2>2 DEF Onward
 <2> QED BY <1>1, <1>2, <2>1, <2>3, SameEvents, OnwardSpawn
<1>9. CASE Drained(f)
 <2>1. /\ fw'[f] = [fw[f] EXCEPT !.phase = "closed"]
       /\ fw[f].phase = "draining" /\ Report(f, "Removed")
       /\ \A g \in Spawns : g # f => fw'[g] = fw[g]
  BY <1>3, <1>9 DEF Drained
 <2>2. /\ fw'[f].phase = "closed"
       /\ fw'[f].rule = fw[f].rule /\ fw'[f].session = fw[f].session /\ fw'[f].cancelled = fw[f].cancelled
  BY <1>3, <2>1 DEF ForwarderTask
 <2>3. Onward(f)
  BY <1>5, <2>1, <2>2 DEF Onward
 <2>4. CASE PumpAlive(f)
  <3>1. PICK e : e = [rule |-> fw[f].rule, outcome |-> "Removed"]
   OBVIOUS
  <3>2. e \in Event /\ events' = Append(events, e)
   BY <1>4, <2>1, <2>4, <3>1 DEF Report, Outcomes
  <3>3. EventTrue(e)'
   BY <1>1, <1>2, <1>5, <2>1, <2>2, <2>4, <3>1 DEF EventTrue, PumpAlive, Spawned
  <3> QED BY <1>1, <1>2, <2>3, <3>2, <3>3, NewEvent, OnwardSpawn
 <2>5. CASE ~PumpAlive(f)
  <3>1. events' = events
   BY <2>1, <2>5 DEF Report
  <3> QED BY <1>1, <1>2, <2>3, <3>1, SameEvents, OnwardSpawn
 <2> QED BY <2>4, <2>5
<1> QED BY <1>1, <1>2, <1>6, <1>7, <1>8, <1>9 DEF Forwarder

LEMMA RemoveSpawn ==
  ASSUME TypeInv, SpawnInv, NEW s \in Sessions, ReceiveRemove(s) PROVE SpawnInv'
<1>0. PICK m : m = Head(toClient[s])
 OBVIOUS
<1>1. UNCHANGED <<client, spawned>>
 BY DEF ReceiveRemove, Handling
<1>2. m.rule \in RuleIds
 <2>1. Incoming(s) /\ WireTypes /\ m.action = "REMOVE"
  BY <1>0 DEF ReceiveRemove, Handling, TypeInv
 <2> QED BY <1>0, <2>1, IncomingType DEF Update
<1>3. CASE slots[m.rule] = NoSlot
 BY <1>0, <1>1, <1>3, SpawnKept DEF ReceiveRemove
<1>4. CASE slots[m.rule] # NoSlot
 <2>0. PICK f : f = slots[m.rule].fw
  OBVIOUS
 <2>1. f \in Spawned /\ f \in Spawns /\ fw[f].rule = m.rule /\ fw[f].session = client.session
  BY <1>2, <1>4, <2>0, SpawnTypes DEF SpawnInv, SlotTrue
 <2>2. fw[f] \in ForwarderTask /\ fw \in [Spawns -> ForwarderTask]
  BY <2>1, SpawnTypes
 <2>3. fw'[f] = [fw[f] EXCEPT !.cancelled = TRUE] /\ \A g \in Spawns : g # f => fw'[g] = fw[g]
  BY <1>0, <1>4, <2>0, <2>1, <2>2 DEF ReceiveRemove, Cancel
 <2>4. /\ fw'[f].phase = fw[f].phase /\ fw'[f].cancelled
       /\ fw'[f].rule = fw[f].rule /\ fw'[f].session = fw[f].session
  BY <2>2, <2>3 DEF ForwarderTask
 <2>5. Onward(f)
  BY <2>1, <2>3, <2>4 DEF Onward, SpawnInv
 <2>a. \A g \in Spawns : g # f => fw'[g] = fw[g]
  BY <2>3
 <2>b. \A g \in Spawns : /\ fw'[g].phase = fw[g].phase /\ fw'[g].rule = fw[g].rule
                         /\ fw'[g].session = fw[g].session
  BY <2>4, <2>a
 <2>c. \A g \in Spawns : fw[g].cancelled => fw'[g].cancelled
  BY <2>4, <2>a
 <2>6. /\ \A r \in RuleIds : r # m.rule => slots'[r] = slots[r]
       /\ slots'[m.rule] # NoSlot /\ slots'[m.rule].fw = f
  <3>1. slots' = [slots EXCEPT ![m.rule].removeReq = m.req]
   BY <1>0, <1>4 DEF ReceiveRemove
  <3>2. slots[m.rule] \in Slot /\ slots \in [RuleIds -> Slot \cup {NoSlot}]
   BY <1>2, <1>4, SpawnTypes
  <3>3. slots'[m.rule] = [slots[m.rule] EXCEPT !.removeReq = m.req]
   BY <1>2, <3>1, <3>2
  <3>4. slots'[m.rule].fw = f
   BY <2>0, <3>2, <3>3 DEF Slot
  <3>5. slots'[m.rule] # NoSlot
   <4>1. m.req \in Requests
    <5>1. Incoming(s) /\ WireTypes /\ m.action = "REMOVE"
     BY <1>0 DEF ReceiveRemove, Handling, TypeInv
    <5> QED BY <1>0, <5>1, IncomingType DEF Update
   <4>2. [slots[m.rule] EXCEPT !.removeReq = m.req] \in Slot
    BY <3>2, <4>1 DEF Slot
   <4> QED BY <3>3, <4>2, SentinelAssumption
  <3> QED BY <1>2, <3>1, <3>2, <3>4, <3>5
 <2>7. PICK e : e = [rule |-> m.rule, outcome |-> "Removed"]
  OBVIOUS
 <2>8. e \in Event /\ (events' = events \/ events' = Append(events, e))
  BY <1>0, <1>2, <1>4, <2>7 DEF ReceiveRemove, TryEvent, Event, Outcomes
 <2>9. Spawned' = Spawned /\ \A g \in Spawned : g \in Spawns
  BY <1>1, SpawnTypes DEF Spawned
 <2>10. EventTrue(e)'
  BY <1>1, <2>1, <2>4, <2>7, <2>9 DEF EventTrue
 <2>11. \A d : EventTrue(d) => EventTrue(d)'
  BY <1>1, <2>b, <2>c, <2>9 DEF EventTrue
 <2>12. \A i \in 1 .. Len(events') : \/ \E j \in 1 .. Len(events) : events'[i] = events[j]
                                     \/ EventTrue(events[i])'
  BY <2>8, <2>10, NewEvent
 <2>13. (\A i \in 1 .. Len(events) : EventTrue(events[i]))'
  <3> SUFFICES ASSUME NEW i \in 1 .. Len(events') PROVE EventTrue(events[i])'
   OBVIOUS
  <3>1. CASE \E j \in 1 .. Len(events) : events'[i] = events[j]
   <4>1. PICK j \in 1 .. Len(events) : events'[i] = events[j]
    BY <3>1
   <4>2. PICK d : d = events[j]
    OBVIOUS
   <4>3. EventTrue(d)'
    BY <2>11, <4>2 DEF SpawnInv
   <4> QED BY <4>1, <4>2, <4>3 DEF EventTrue
  <3> QED BY <2>12, <3>1
 <2> USE DEF SpawnInv
 <2>14. \A g \in Spawned : HeldBySlot(g)'
  <3> SUFFICES ASSUME NEW g \in Spawned, fw'[g].phase \in {"binding", "bound"}, ~fw'[g].cancelled
               PROVE  client'.phase = "on" /\ slots'[fw'[g].rule] # NoSlot /\ slots'[fw'[g].rule].fw = g
   BY DEF HeldBySlot
  <3>1. fw[g].phase \in {"binding", "bound"} /\ ~fw[g].cancelled /\ fw'[g].rule = fw[g].rule /\ g # f
   BY <2>4, <2>b, <2>c, <2>9
  <3>2. client.phase = "on" /\ slots[fw[g].rule] # NoSlot /\ slots[fw[g].rule].fw = g
   BY <3>1 DEF HeldBySlot
  <3>3. fw[g].rule # m.rule /\ fw[g].rule \in RuleIds
   BY <2>0, <3>1, <3>2, SpawnTypes
  <3> QED BY <1>1, <2>6, <3>1, <3>2, <3>3
 <2>15. OneSpawn'
  BY <2>b, <2>9 DEF OneSpawn
 <2>16. \A r \in RuleIds : SlotTrue(r)'
  BY <1>1, <2>1, <2>b, <2>6, <2>9 DEF SlotTrue
 <2>17. \A g \in Spawned : /\ fw'[g].phase # "none" /\ fw'[g].session \in 1 .. client.session
                           /\ fw'[g].phase \in {"draining", "closed"} => fw'[g].cancelled
  BY <2>b, <2>c, <2>9
 <2>18. \A g \in Spawns : g \notin Spawned => fw'[g].phase = "none"
  BY <2>1, <2>3
 <2>19. client'.phase = "joining" => \A g \in Spawned : fw'[g].session # client.session
  BY <1>1, <2>b, SpawnTypes
 <2> QED BY <1>1, <2>9, <2>13, <2>14, <2>15, <2>16, <2>17, <2>18, <2>19
<1> QED BY <1>3, <1>4

LEMMA RelaySpawn ==
  ASSUME TypeInv, SpawnInv, Relay PROVE SpawnInv'
<1>0. PICK e : e = Head(events)
 OBVIOUS
<1>1. UNCHANGED <<client, spawned, fw>> /\ events \in Seq(Event) /\ events # <<>> /\ events' = Tail(events)
 BY SpawnTypes DEF Relay
<1>2. e = events[1] /\ Len(events) >= 1 /\ e \in Event
 BY <1>0, <1>1
<1>3. EventTrue(e) /\ e.rule \in RuleIds
 BY <1>2 DEF SpawnInv, Event
<1>4. slots' = slots \/ (e.outcome \in {"Failed", "Removed"} /\ slots' = [slots EXCEPT ![e.rule] = NoSlot])
 BY <1>0 DEF Relay, DropsSlot
<1>5. \A r \in RuleIds : SlotTrue(r)'
 BY <1>1, <1>3, <1>4, SpawnTypes DEF SpawnInv, SlotTrue, Spawned
<1>6. \A f \in Spawned : HeldBySlot(f)'
 <2> SUFFICES ASSUME NEW f \in Spawned, fw[f].phase \in {"binding", "bound"}, ~fw[f].cancelled
              PROVE  client.phase = "on" /\ slots'[fw[f].rule] # NoSlot /\ slots'[fw[f].rule].fw = f
  BY <1>1 DEF HeldBySlot
 <2>1. client.phase = "on" /\ slots[fw[f].rule] # NoSlot /\ slots[fw[f].rule].fw = f
  BY DEF SpawnInv, HeldBySlot
 <2>2. fw[f].rule \in RuleIds
  BY SpawnTypes DEF SpawnInv
 <2>3. fw[f].session = client.session
  BY <2>1, <2>2 DEF SpawnInv, SlotTrue
 <2>4. CASE e.outcome \in {"Failed", "Removed"} /\ e.rule = fw[f].rule
  <3>1. PICK g \in Spawned : /\ fw[g].rule = e.rule /\ fw[g].session = client.session
                             /\ e.outcome = "Failed" => fw[g].phase = "failed"
                             /\ e.outcome = "Removed" => fw[g].cancelled
   BY <1>3 DEF EventTrue
  <3>2. g = f
   BY <2>3, <2>4, <3>1 DEF SpawnInv, OneSpawn
  <3> QED BY <2>4, <3>1, <3>2
 <2>5. CASE ~(e.outcome \in {"Failed", "Removed"} /\ e.rule = fw[f].rule)
  BY <1>3, <1>4, <2>1, <2>2, <2>5, SpawnTypes
 <2> QED BY <2>4, <2>5
<1>7. (\A i \in 1 .. Len(events) : EventTrue(events[i]))'
 <2> SUFFICES ASSUME NEW i \in 1 .. Len(events') PROVE EventTrue(events[i])'
  OBVIOUS
 <2>1. i + 1 \in 1 .. Len(events) /\ events'[i] = events[i + 1]
  BY <1>1
 <2>2. PICK d : d = events[i + 1]
  OBVIOUS
 <2>3. EventTrue(d)
  BY <2>1, <2>2 DEF SpawnInv
 <2>4. EventTrue(d)'
  BY <1>1, <2>3 DEF EventTrue, Spawned
 <2> QED BY <2>1, <2>2, <2>4 DEF EventTrue
<1> QED BY <1>1, <1>5, <1>6, <1>7 DEF SpawnInv, OneSpawn, Spawned

LEMMA LeaveSpawn ==
  ASSUME TypeInv, SpawnInv, Leave
  PROVE  SpawnInv' /\ \A f \in Spawns : /\ fw'[f].phase = fw[f].phase /\ fw'[f].rule = fw[f].rule
                                        /\ fw'[f].session = fw[f].session /\ fw'[f].port = fw[f].port
<1>1. UNCHANGED <<slots, events, spawned>> /\ client'.session = client.session /\ client'.phase = "drain"
 BY DEF Leave, TypeInv, ClientTypes
<1>2. \A f \in Spawns : /\ fw'[f].phase = fw[f].phase /\ fw'[f].rule = fw[f].rule
                        /\ fw'[f].session = fw[f].session /\ fw'[f].port = fw[f].port
                        /\ fw'[f].cancelled = (fw[f].cancelled \/ \E r \in RuleIds : slots[r] # NoSlot /\ slots[r].fw = f)
 <2> SUFFICES ASSUME NEW f \in Spawns
              PROVE  /\ fw'[f].phase = fw[f].phase /\ fw'[f].rule = fw[f].rule
                     /\ fw'[f].session = fw[f].session /\ fw'[f].port = fw[f].port
                     /\ fw'[f].cancelled = (fw[f].cancelled \/ \E r \in RuleIds : slots[r] # NoSlot /\ slots[r].fw = f)
  OBVIOUS
 <2>1. fw[f] \in ForwarderTask
  BY SpawnTypes
 <2>2. fw'[f] = [fw[f] EXCEPT !.cancelled = fw[f].cancelled \/ \E r \in RuleIds : slots[r] # NoSlot /\ slots[r].fw = f]
  BY DEF Leave
 <2> QED BY <2>1, <2>2 DEF ForwarderTask
<1>3. Spawned' = Spawned /\ \A f \in Spawned : f \in Spawns /\ fw[f].rule \in RuleIds
 BY <1>1, SpawnTypes DEF Spawned, SpawnInv
<1>4. \A f \in Spawned : HeldBySlot(f)'
 <2> SUFFICES ASSUME NEW f \in Spawned, fw'[f].phase \in {"binding", "bound"}, ~fw'[f].cancelled PROVE FALSE
  BY DEF HeldBySlot
 <2>1. f \in Spawns /\ fw[f].phase \in {"binding", "bound"} /\ ~fw[f].cancelled
  BY <1>2, <1>3
 <2>2. fw[f].rule \in RuleIds /\ slots[fw[f].rule] # NoSlot /\ slots[fw[f].rule].fw = f
  BY <1>3, <2>1 DEF SpawnInv, HeldBySlot
 <2> QED BY <1>2, <2>1, <2>2
<1>5. \A e : EventTrue(e) => EventTrue(e)'
 <2>1. \A f \in Spawns : fw[f].cancelled => fw'[f].cancelled
  BY <1>2
 <2>2. \A f \in Spawns : /\ fw'[f].phase = fw[f].phase /\ fw'[f].rule = fw[f].rule
                         /\ fw'[f].session = fw[f].session
  BY <1>2
 <2> QED BY <1>1, <1>3, <2>1, <2>2 DEF EventTrue
<1>6. (\A i \in 1 .. Len(events) : EventTrue(events[i]))'
 <2> SUFFICES ASSUME NEW i \in 1 .. Len(events) PROVE EventTrue(events[i])'
  BY <1>1
 <2>1. PICK d : d = events[i]
  OBVIOUS
 <2>2. EventTrue(d)'
  BY <1>5, <2>1 DEF SpawnInv
 <2> QED BY <1>1, <2>1, <2>2 DEF EventTrue
<1> USE <1>2, <1>3 DEF SpawnInv
<1>7. OneSpawn' /\ \A r \in RuleIds : SlotTrue(r)'
 BY <1>1 DEF OneSpawn, SlotTrue
<1>8. \A g \in Spawned : /\ fw'[g].phase # "none" /\ fw'[g].session \in 1 .. client.session
                         /\ fw'[g].phase \in {"draining", "closed"} => fw'[g].cancelled
 BY ZenonT(60)
<1>9. SpawnInv'
 BY <1>1, <1>4, <1>6, <1>7, <1>8
<1> QED BY <1>9

LEMMA LeftSpawn ==
  ASSUME TypeInv, SpawnInv, Left PROVE SpawnInv'
<1>1. /\ UNCHANGED <<fw, spawned>> /\ client'.session = client.session /\ client.phase = "drain"
      /\ client'.phase = "off"
      /\ events' = <<>> /\ \A r \in RuleIds : slots'[r] = NoSlot
 BY DEF Left, TypeInv, ClientTypes
<1>2. \A f \in Spawned : HeldBySlot(f)'
 BY <1>1 DEF SpawnInv, HeldBySlot
<1> QED BY <1>1, <1>2 DEF SpawnInv, OneSpawn, SlotTrue, Spawned

----
(* Who carries the outcome of a rule *)

IsPush(m, r)   == m.action = "PUSH" /\ m.rule = r
NoPush(q, r)   == \A i \in 1 .. Len(q) : ~IsPush(q[i], r)
OncePush(q, r) == \A i, j \in 1 .. Len(q) : IsPush(q[i], r) /\ IsPush(q[j], r) => i = j

Told(e, r)     == e.rule = r /\ e.outcome \in {"Activated", "Failed"}
Untold(q, r)   == \A i \in 1 .. Len(q) : ~Told(q[i], r)
OnceTold(q, r) == \A i, j \in 1 .. Len(q) : Told(q[i], r) /\ Told(q[j], r) => i = j

Pushing(t, pcs, r) == task[t].op = "push" /\ task[t].pc \in pcs /\ task[t].rule = r
Answering(t, r)    == Pushing(t, {"acked"}, r) /\ task[t].ack # "Removed"
Current(s, r)      == pump[s].pc \in {"replayRead", "replayWrite"} /\ pump[s].mark = "Pending" /\ pump[s].rule = r

\* From the moment it is inserted or listed for a replay until its outcome is
\* written to memory, a rule is in one place: a push that has not sent it, a
\* PUSH, a forwarder that binds, an event, a status, an acknowledged push, or a
\* replay.
Unsent(r)      == \E t \in Tasks : Pushing(t, {"persist", "send"}, r)
Acked(r)       == \E t \in Tasks : Answering(t, r)
Pushed(s, r)   == ~NoPush(toClient[s], r)
Starting(s, r) == link[s] = "up" /\ \E f \in Spawned : fw[f].session = s /\ fw[f].rule = r /\ fw[f].phase = "binding"
Reported(s, r) == link[s] = "up" /\ ~Untold(events, r)
Answered(s, r) == pump[s].pc # "done" /\ ~Untold(toServer[s], r)
Replayed(s, r) == link[s] = "up" /\ ((\E e \in pump[s].todo : e.rule = r) \/ Current(s, r))

Kinds == {"unsent", "push", "starting", "event", "status", "acked", "replay"}
Places == 0 .. MaxSessions
Carries(c, s, r) ==
    \/ c = "unsent" /\ s = 0 /\ Unsent(r)
    \/ c = "acked" /\ s = 0 /\ Acked(r)
    \/ /\ s \in Sessions
       /\ \/ c = "push" /\ Pushed(s, r)
          \/ c = "starting" /\ Starting(s, r)
          \/ c = "event" /\ Reported(s, r)
          \/ c = "status" /\ Answered(s, r)
          \/ c = "replay" /\ Replayed(s, r)

Carried(K, r) == \E c \in K, s \in Places : Carries(c, s, r)
OneCarrier ==
    \A r \in RuleIds : \A c, d \in Kinds : \A s, u \in Places :
        Carries(c, s, r) /\ Carries(d, u, r) => c = d /\ s = u

\* Each of these holds it once.
PushOnce   == \A s \in Sessions, r \in RuleIds : OncePush(toClient[s], r)
AnswerOnce == \A s \in Sessions, r \in RuleIds : pump[s].pc # "done" => OnceTold(toServer[s], r)
EventOnce  == \A r \in RuleIds : OnceTold(events, r)
Carrying(t, r) == Pushing(t, {"persist", "send"}, r) \/ Answering(t, r)
TaskOnce   == \A t, u \in Tasks, r \in RuleIds : Carrying(t, r) /\ Carrying(u, r) => t = u
ReplayOnce ==
    \A s \in Sessions : /\ pump[s].pc \notin {"replay", "replayRead", "replayWrite"} => pump[s].todo = {}
                        /\ \A e, g \in pump[s].todo : e.rule = g.rule => e = g
                        /\ \A r \in RuleIds : Current(s, r) => \A e \in pump[s].todo : e.rule # r

\* An outcome that stands: only a replay can follow it.
Final(rule) == rule # NoRule /\ (rule.state = "Active" \/ (rule.state = "Failed" /\ rule.limit = NoLimit))
Decided == \A r \in RuleIds : Final(mem[r]) => ~Carried(Kinds \ {"replay"}, r)
Marked  == \A s \in Sessions, r \in RuleIds : link[s] = "up" /\ Current(s, r) => ~Final(mem[r])

\* The live session has, or had, a forwarder of the rule: it is not sent again.
SpawnedIn(s, r) == \E f \in Spawned : fw[f].session = s /\ fw[f].rule = r
Here(r)         == \E s \in Sessions : link[s] = "up" /\ SpawnedIn(s, r)
Early           == {"unsent", "push", "replay"}
SpawnedOnce     == \A r \in RuleIds : Here(r) => ~Carried(Early, r)

\* Nothing says Failed of a rule that was bound in the live session.
BoundIn(s, r)   == \E f \in Spawned : /\ fw[f].session = s /\ fw[f].rule = r
                                     /\ fw[f].phase \in {"bound", "draining", "closed"}
BoundHere(r)    == \E s \in Sessions : link[s] = "up" /\ BoundIn(s, r)
NotFailed(q, r) == \A i \in 1 .. Len(q) : q[i].rule = r => q[i].outcome # "Failed"
FailedTold(r) ==
    \/ \E s \in Sessions : pump[s].pc # "done" /\ ~NotFailed(toServer[s], r)
    \/ \E t \in Tasks : Answering(t, r) /\ task[t].ack # "Activated"
    \/ mem[r] # NoRule /\ mem[r].limit = NoLimit /\ mem[r].state = "Failed"
Spared(r) == NotFailed(events, r) /\ ~FailedTold(r)
BoundTold == \A r \in RuleIds : BoundHere(r) => Spared(r)

\* Until a session has listed what to replay, it has read no status.
Heard(s, r) == Starting(s, r) \/ Reported(s, r) \/ Answered(s, r)
Unheard ==
    \A s \in Sessions, r \in RuleIds :
        link[s] = "up" /\ pump[s].pc \in {"hello", "list"} /\ SpawnedIn(s, r) => Heard(s, r)

\* A replay's list agrees with memory on the limits, and RuleStore::next_id is
\* beyond every id under way.
LimitsKept ==
    \A s \in Sessions : \A e \in pump[s].todo : mem[e.rule] # NoRule => mem[e.rule].limit = e.limit
OldTodo == \A s \in Sessions : \A e \in pump[s].todo : e.rule < nextId
OldIds  == \A r \in RuleIds : r >= nextId => ~Here(r) /\ ~Carried(Kinds, r)

OnlyPushes == \A t \in Tasks : task[t].op # "update"

SimpleInv == PushOnce /\ AnswerOnce /\ EventOnce /\ TaskOnce /\ ReplayOnce /\ LimitsKept /\ OldTodo /\ OnlyPushes
CarryInv  == OneCarrier /\ Decided /\ Marked /\ SpawnedOnce /\ BoundTold /\ Unheard /\ OldIds /\ SimpleInv

----
(* Sequences *)

LEMMA PushAppend ==
  ASSUME NEW X, NEW q \in Seq(X), NEW m \in X, NEW r
  PROVE  /\ NoPush(Append(q, m), r) <=> NoPush(q, r) /\ ~IsPush(m, r)
         /\ OncePush(q, r) /\ (NoPush(q, r) \/ ~IsPush(m, r)) => OncePush(Append(q, m), r)
<1>1. /\ Append(q, m) \in Seq(X) /\ Len(q) \in Nat /\ Len(Append(q, m)) = Len(q) + 1
      /\ \A i \in 1 .. Len(q) : Append(q, m)[i] = q[i]
      /\ Append(q, m)[Len(q) + 1] = m
 OBVIOUS
<1>2. \A i \in 1 .. Len(q) + 1 : i \in 1 .. Len(q) \/ i = Len(q) + 1
 BY <1>1
<1>3. \A i \in 1 .. Len(q) : i \in 1 .. Len(q) + 1
 BY <1>1
<1>4. Len(q) + 1 \in 1 .. Len(q) + 1
 BY <1>1
<1>5. NoPush(Append(q, m), r) <=> NoPush(q, r) /\ ~IsPush(m, r)
 BY <1>1, <1>2, <1>3, <1>4 DEF NoPush
<1>6. OncePush(q, r) /\ (NoPush(q, r) \/ ~IsPush(m, r)) => OncePush(Append(q, m), r)
 BY <1>1, <1>2 DEF NoPush, OncePush
<1> QED BY <1>5, <1>6

LEMMA PushTail ==
  ASSUME NEW X, NEW q \in Seq(X), q # <<>>, NEW r
  PROVE  /\ NoPush(q, r) => NoPush(Tail(q), r)
         /\ OncePush(q, r) => OncePush(Tail(q), r)
         /\ OncePush(q, r) /\ IsPush(Head(q), r) => NoPush(Tail(q), r)
         /\ NoPush(q, r) => ~IsPush(Head(q), r)
<1>1. /\ Len(q) \in Nat \ {0} /\ Len(Tail(q)) = Len(q) - 1 /\ Head(q) = q[1]
      /\ \A i \in 1 .. Len(q) - 1 : Tail(q)[i] = q[i + 1] /\ i + 1 \in 1 .. Len(q)
 OBVIOUS
<1>2. 1 \in 1 .. Len(q)
 BY <1>1
<1>3. NoPush(q, r) => NoPush(Tail(q), r) /\ ~IsPush(Head(q), r)
 BY <1>1, <1>2 DEF NoPush
<1>4. OncePush(q, r) => OncePush(Tail(q), r)
 BY <1>1 DEF OncePush
<1>5. OncePush(q, r) /\ IsPush(Head(q), r) => NoPush(Tail(q), r)
 BY <1>1, <1>2 DEF OncePush, NoPush
<1> QED BY <1>3, <1>4, <1>5

LEMMA ToldAppend ==
  ASSUME NEW X, NEW q \in Seq(X), NEW m \in X, NEW r
  PROVE  /\ Untold(Append(q, m), r) <=> Untold(q, r) /\ ~Told(m, r)
         /\ OnceTold(q, r) /\ (Untold(q, r) \/ ~Told(m, r)) => OnceTold(Append(q, m), r)
         /\ NotFailed(q, r) /\ (m.rule = r => m.outcome # "Failed") => NotFailed(Append(q, m), r)
<1>1. /\ Append(q, m) \in Seq(X) /\ Len(q) \in Nat /\ Len(Append(q, m)) = Len(q) + 1
      /\ \A i \in 1 .. Len(q) : Append(q, m)[i] = q[i]
      /\ Append(q, m)[Len(q) + 1] = m
 OBVIOUS
<1> USE <1>1
<1>2. \A i \in 1 .. Len(q) + 1 : i \in 1 .. Len(q) \/ i = Len(q) + 1
 OBVIOUS
<1>3. \A i \in 1 .. Len(q) : i \in 1 .. Len(q) + 1
 OBVIOUS
<1>4. Len(q) + 1 \in 1 .. Len(q) + 1
 OBVIOUS
<1>5. Untold(Append(q, m), r) <=> Untold(q, r) /\ ~Told(m, r)
 BY <1>2, <1>3, <1>4 DEF Untold
<1>6. OnceTold(q, r) /\ (Untold(q, r) \/ ~Told(m, r)) => OnceTold(Append(q, m), r)
 BY <1>2 DEF Untold, OnceTold
<1>7. NotFailed(q, r) /\ (m.rule = r => m.outcome # "Failed") => NotFailed(Append(q, m), r)
 BY <1>2 DEF NotFailed
<1> QED BY <1>5, <1>6, <1>7

LEMMA ToldTail ==
  ASSUME NEW X, NEW q \in Seq(X), q # <<>>, NEW r
  PROVE  /\ Untold(q, r) => Untold(Tail(q), r)
         /\ OnceTold(q, r) => OnceTold(Tail(q), r)
         /\ OnceTold(q, r) /\ Told(Head(q), r) => Untold(Tail(q), r)
         /\ Untold(q, r) => ~Told(Head(q), r)
         /\ NotFailed(q, r) => NotFailed(Tail(q), r) /\ (Head(q).rule = r => Head(q).outcome # "Failed")
<1>1. /\ Len(q) \in Nat \ {0} /\ Len(Tail(q)) = Len(q) - 1 /\ Head(q) = q[1]
      /\ \A i \in 1 .. Len(q) - 1 : Tail(q)[i] = q[i + 1] /\ i + 1 \in 1 .. Len(q)
 OBVIOUS
<1> USE <1>1
<1>2. 1 \in 1 .. Len(q)
 OBVIOUS
<1>3. Untold(q, r) => Untold(Tail(q), r) /\ ~Told(Head(q), r)
 BY <1>2 DEF Untold
<1>4. OnceTold(q, r) => OnceTold(Tail(q), r)
 BY DEF OnceTold
<1>5. OnceTold(q, r) /\ Told(Head(q), r) => Untold(Tail(q), r)
 BY <1>2 DEF OnceTold, Untold
<1>6. NotFailed(q, r) => NotFailed(Tail(q), r) /\ (Head(q).rule = r => Head(q).outcome # "Failed")
 BY <1>2 DEF NotFailed
<1> QED BY <1>3, <1>4, <1>5, <1>6

LEMMA ToldPrefix ==
  ASSUME NEW X, NEW q \in Seq(X), NEW n \in 0 .. Len(q), NEW r
  PROVE  /\ Untold(q, r) => Untold(SubSeq(q, 1, n), r)
         /\ OnceTold(q, r) => OnceTold(SubSeq(q, 1, n), r)
         /\ NotFailed(q, r) => NotFailed(SubSeq(q, 1, n), r)
<1>1. /\ Len(SubSeq(q, 1, n)) = n /\ Len(q) \in Nat
      /\ \A i \in 1 .. n : SubSeq(q, 1, n)[i] = q[i] /\ i \in 1 .. Len(q)
 OBVIOUS
<1> QED BY <1>1 DEF Untold, OnceTold, NotFailed

LEMMA NothingIn ==
  ASSUME NEW r PROVE NoPush(<<>>, r) /\ OncePush(<<>>, r) /\ Untold(<<>>, r) /\ OnceTold(<<>>, r) /\ NotFailed(<<>>, r)
  BY DEF NoPush, OncePush, Untold, OnceTold, NotFailed

----
(* Steps, conjunct by conjunct *)

\* No rule is carried that was not carried before, or one moves on.
Fewer(r) == \A c \in Kinds, s \in Places : Carries(c, s, r)' => Carries(c, s, r)
Moves(r, c0, s0, c1, s1) ==
    /\ Carries(c0, s0, r) /\ ~Carries(c0, s0, r)'
    /\ \A c \in Kinds, s \in Places : Carries(c, s, r)' => Carries(c, s, r) \/ (c = c1 /\ s = s1)

\* No outcome is written, no forwarder starts or binds, and no failure is told.
FinalLess == \A r \in RuleIds : Final(mem[r])' => Final(mem[r])
HereLess  == \A r \in RuleIds : (Here(r)' => Here(r)) /\ (BoundHere(r)' => BoundHere(r))
ToldLess  == \A r \in RuleIds : Spared(r) => Spared(r)'

LEMMA KeptCarry ==
  ASSUME CarryInv, TypeInv, \A r \in RuleIds : Fewer(r), Decided', HereLess, ToldLess, nextId' >= nextId, nextId' \in Nat,
         Marked', Unheard', SimpleInv'
  PROVE  CarryInv'
<1> USE DEF CarryInv
<1>1. OneCarrier'
 BY DEF OneCarrier, Fewer
<1>2. SpawnedOnce'
 BY DEF SpawnedOnce, Fewer, HereLess, Carried, Kinds, Early
<1>3. BoundTold'
 BY DEF BoundTold, HereLess, ToldLess
<1>4. \A r \in RuleIds : r \in Nat /\ nextId \in Nat
 BY Constants DEF TypeInv, ServerTypes, RuleIds
<1>5. \A r \in RuleIds : r >= nextId' => r >= nextId
 BY <1>4
<1>6. OldIds'
 BY <1>5 DEF OldIds, Fewer, HereLess, Carried
<1> QED BY <1>1, <1>2, <1>3, <1>6

LEMMA KeptDecided ==
  ASSUME CarryInv, \A r \in RuleIds : Fewer(r), FinalLess PROVE Decided'
  BY DEF CarryInv, Decided, Fewer, FinalLess, Carried

\* A carrier of q passes it on.
LEMMA MovedOne ==
  ASSUME OneCarrier, NEW q \in RuleIds, \A r \in RuleIds \ {q} : Fewer(r),
         NEW c0 \in Kinds, NEW s0 \in Places, NEW c1, NEW s1, Moves(q, c0, s0, c1, s1)
  PROVE  OneCarrier' /\ \A c \in Kinds, s \in Places : Carries(c, s, q)' => c = c1 /\ s = s1
<1> USE DEF OneCarrier
<1>1. \A c \in Kinds, s \in Places : Carries(c, s, q)' => c = c1 /\ s = s1
 BY DEF Moves
<1>2. \A r \in RuleIds \ {q} : \A c, d \in Kinds : \A s, u \in Places :
          Carries(c, s, r)' /\ Carries(d, u, r)' => c = d /\ s = u
 BY DEF Fewer
<1>3. OneCarrier'
 BY <1>1, <1>2
<1> QED BY <1>1, <1>3

LEMMA MovedCarry ==
  ASSUME CarryInv, TypeInv, NEW q \in RuleIds, \A r \in RuleIds \ {q} : Fewer(r),
         NEW c0 \in Kinds, NEW s0 \in Places, NEW c1, NEW s1, Moves(q, c0, s0, c1, s1),
         FinalLess, ~Final(mem[q]), c1 \in Early => c0 \in Early, HereLess, ToldLess, nextId' = nextId,
         Marked', Unheard', SimpleInv'
  PROVE  CarryInv'
<1>0. OneCarrier
 BY DEF CarryInv
<1>1. OneCarrier' /\ \A c \in Kinds, s \in Places : Carries(c, s, q)' => c = c1 /\ s = s1
 BY <1>0, MovedOne
<1>2. SpawnedOnce'
 <2> USE DEF SpawnedOnce
 <2>1. \A r \in RuleIds \ {q} : Here(r)' => ~Carried(Early, r)'
  BY DEF CarryInv, Fewer, HereLess, Carried, Kinds, Early
 <2>2. Here(q)' => ~Carried(Early, q)'
  <3>1. Carried(Early, q)' => Carried(Early, q)
   BY <1>1 DEF Carried, Early, Kinds, Moves
  <3> QED BY <3>1 DEF CarryInv, HereLess
 <2> QED BY <2>1, <2>2
<1>3. BoundTold'
 BY DEF CarryInv, BoundTold, HereLess, ToldLess
<1>4. Decided'
 <2>1. \A r \in RuleIds \ {q} : Final(mem[r])' => ~Carried(Kinds \ {"replay"}, r)'
  BY DEF CarryInv, Decided, Fewer, FinalLess, Carried
 <2>2. ~Final(mem[q])'
  BY DEF FinalLess
 <2> QED BY <2>1, <2>2 DEF Decided
<1> USE DEF CarryInv, OldIds
<1>5. OldIds'
 <2>1. \A r \in RuleIds \ {q} : r >= nextId => ~Here(r)' /\ ~Carried(Kinds, r)'
  BY DEF Fewer, HereLess, Carried
 <2>2. ~(q >= nextId)
  BY DEF Carried, Moves
 <2> QED BY <2>1, <2>2
<1> QED BY <1>1, <1>2, <1>3, <1>4, <1>5

LEMMA KeptUnheard ==
  ASSUME CarryInv,
         \A s \in Sessions, r \in RuleIds :
            link'[s] = "up" /\ pump'[s].pc \in {"hello", "list"} /\ SpawnedIn(s, r)' =>
                /\ link[s] = "up" /\ pump[s].pc \in {"hello", "list"} /\ SpawnedIn(s, r)
                /\ Heard(s, r) => Heard(s, r)'
  PROVE  Unheard'
  BY DEF CarryInv, Unheard

LEMMA Open ==
  ASSUME CarryInv, NEW r \in RuleIds, NEW c \in Kinds \ {"replay"}, NEW s \in Places, Carries(c, s, r)
  PROVE  ~Final(mem[r])
  BY DEF CarryInv, Decided, Carried

----
(* Kind by kind *)

LEMMA KindsFewer ==
  ASSUME NEW r, Unsent(r)' => Unsent(r), Acked(r)' => Acked(r),
         \A s \in Sessions : /\ Pushed(s, r)' => Pushed(s, r)
                             /\ Starting(s, r)' => Starting(s, r)
                             /\ Reported(s, r)' => Reported(s, r)
                             /\ Answered(s, r)' => Answered(s, r)
                             /\ Replayed(s, r)' => Replayed(s, r)
  PROVE  Fewer(r)
  BY DEF Fewer, Carries

LEMMA TaskKinds == ASSUME UNCHANGED task, NEW r PROVE (Unsent(r)' <=> Unsent(r)) /\ (Acked(r)' <=> Acked(r))
  BY DEF Unsent, Acked, Answering, Pushing

LEMMA WireKinds == ASSUME UNCHANGED toClient, NEW s, NEW r PROVE Pushed(s, r)' <=> Pushed(s, r)
  BY DEF Pushed

LEMMA StatusKinds == ASSUME UNCHANGED <<pump, toServer>>, NEW s, NEW r PROVE Answered(s, r)' <=> Answered(s, r)
  BY DEF Answered

LEMMA ReplayKinds == ASSUME UNCHANGED <<pump, link>>, NEW s, NEW r PROVE Replayed(s, r)' <=> Replayed(s, r)
  BY DEF Replayed, Current

\* A step of the client that neither binds nor tells.
QuietClient ==
    /\ link' = link /\ Spawned' = Spawned
    /\ \A f \in Spawned : /\ fw'[f].rule = fw[f].rule /\ fw'[f].session = fw[f].session
                          /\ (fw'[f].phase = "binding") = (fw[f].phase = "binding")
                          /\ (fw'[f].phase \in {"bound", "draining", "closed"}) = (fw[f].phase \in {"bound", "draining", "closed"})
    /\ \A r \in RuleIds : /\ Untold(events, r)' = Untold(events, r)
                          /\ OnceTold(events, r) => OnceTold(events, r)'
                          /\ NotFailed(events, r) => NotFailed(events, r)'

LEMMA SameClient ==
  ASSUME UNCHANGED <<link, events, fw, spawned>> PROVE QuietClient
  BY DEF QuietClient, Spawned

LEMMA QuietKinds ==
  ASSUME QuietClient, NEW s, NEW r \in RuleIds
  PROVE  /\ Starting(s, r)' <=> Starting(s, r)
         /\ Reported(s, r)' <=> Reported(s, r)
         /\ SpawnedIn(s, r)' <=> SpawnedIn(s, r)
         /\ Here(r)' <=> Here(r)
         /\ BoundHere(r)' <=> BoundHere(r)
<1> USE DEF QuietClient
<1>1. \A u : SpawnedIn(u, r)' <=> SpawnedIn(u, r)
 BY DEF SpawnedIn
<1>2. \A u : BoundIn(u, r)' <=> BoundIn(u, r)
 BY DEF BoundIn
<1>3. Starting(s, r)' <=> Starting(s, r)
 BY DEF Starting
<1>4. Reported(s, r)' <=> Reported(s, r)
 BY DEF Reported
<1> QED BY <1>1, <1>2, <1>3, <1>4 DEF Here, BoundHere

----
(* Quiet steps *)

MemLess ==
    \A r \in RuleIds : mem'[r] # NoRule =>
        /\ mem[r] # NoRule /\ mem'[r].limit = mem[r].limit
        /\ mem'[r].state = "Active" => mem[r].state = "Active"
        /\ mem'[r].state = "Failed" /\ mem'[r].limit = NoLimit => mem[r].state = "Failed"

LEMMA MemFinal == ASSUME MemLess PROVE FinalLess
  BY DEF MemLess, FinalLess, Final

LEMMA QuietCarry ==
  ASSUME TypeInv, CarryInv, QuietClient, nextId' = nextId, FinalLess,
         \A r \in RuleIds : (Unsent(r)' => Unsent(r)) /\ (Acked(r)' => Acked(r)),
         \A s \in Sessions, r \in RuleIds : /\ Pushed(s, r)' => Pushed(s, r)
                                            /\ Answered(s, r)' => Answered(s, r)
                                            /\ Replayed(s, r)' => Replayed(s, r),
         \A r \in RuleIds : FailedTold(r)' => FailedTold(r),
         \A s \in Sessions : pump'[s].pc \in {"hello", "list"} =>
             pump[s].pc \in {"hello", "list"} /\ toServer'[s] = toServer[s],
         Marked', PushOnce', AnswerOnce', TaskOnce', ReplayOnce', LimitsKept', OldTodo', OnlyPushes'
  PROVE  CarryInv'
<1>1. \A r \in RuleIds : Fewer(r)
 BY QuietKinds, KindsFewer
<1>2. Decided'
 BY <1>1, KeptDecided
<1>3. HereLess
 <2>1. \A r \in RuleIds : (Here(r)' <=> Here(r)) /\ (BoundHere(r)' <=> BoundHere(r))
  BY QuietKinds
 <2> QED BY <2>1 DEF HereLess
<1>4. ToldLess
 BY DEF ToldLess, Spared, QuietClient
<1>5. Unheard'
 <2>1. \A s \in Sessions, r \in RuleIds : pump'[s].pc \in {"hello", "list"} =>
           (Answered(s, r) => Answered(s, r)')
  BY DEF Answered
 <2>2. \A s \in Sessions, r \in RuleIds : pump'[s].pc \in {"hello", "list"} =>
           (Heard(s, r) => Heard(s, r)')
  BY <2>1, QuietKinds DEF Heard
 <2>3. \A s \in Sessions, r \in RuleIds : SpawnedIn(s, r)' => SpawnedIn(s, r)
  BY QuietKinds
 <2> QED BY <2>2, <2>3, KeptUnheard DEF QuietClient
<1>6. EventOnce'
 BY DEF CarryInv, SimpleInv, EventOnce, QuietClient
<1>7. SimpleInv'
 BY <1>6 DEF SimpleInv
<1>8. nextId' >= nextId /\ nextId' \in Nat
 BY Constants DEF TypeInv, ServerTypes
<1> QED BY <1>1, <1>2, <1>3, <1>4, <1>5, <1>7, <1>8, KeptCarry

\* A request that neither inserts, sends nor is answered.
LEMMA TaskPoint ==
  ASSUME TypeInv, NEW t \in Tasks, NEW k, Step(t, k)
  PROVE  task'[t] = k /\ \A u \in Tasks : u # t => task'[u] = task[u]
  BY DEF TypeInv, Step

LEMMA TaskQuiet ==
  ASSUME TypeInv, CarryInv, NEW t \in Tasks, NEW k, Step(t, k), k.op # "update",
         k.op = "push" /\ k.pc \in {"persist", "send"} => Pushing(t, {"persist", "send"}, k.rule),
         ~(k.op = "push" /\ k.pc = "acked"),
         UNCHANGED <<pump, toServer, nextId>>, QuietClient, MemLess,
         \A s \in Sessions, r \in RuleIds : Pushed(s, r)' => Pushed(s, r), PushOnce'
  PROVE  CarryInv'
<1>1. task'[t] = k /\ \A u \in Tasks : u # t => task'[u] = task[u]
 BY TaskPoint
<1>2. \A u \in Tasks, r \in RuleIds : /\ Pushing(u, {"persist", "send"}, r)' => Pushing(u, {"persist", "send"}, r)
                                      /\ Answering(u, r)' => Answering(u, r) /\ task'[u].ack = task[u].ack
 BY <1>1 DEF Pushing, Answering
<1>3. \A r \in RuleIds : (Unsent(r)' => Unsent(r)) /\ (Acked(r)' => Acked(r))
 BY <1>2 DEF Unsent, Acked
<1>4. TaskOnce'
 BY <1>2 DEF CarryInv, SimpleInv, TaskOnce, Carrying
<1>5. OnlyPushes'
 BY <1>1 DEF CarryInv, SimpleInv, OnlyPushes
<1>6. FinalLess
 BY MemFinal
<1>7. \A r \in RuleIds : FailedTold(r)' => FailedTold(r)
 BY <1>2 DEF FailedTold, MemLess
<1>8. \A s, r : (Answered(s, r)' <=> Answered(s, r)) /\ (Replayed(s, r)' <=> Replayed(s, r))
 BY DEF Answered, Replayed, Current, QuietClient
<1>9. Marked'
 BY <1>6 DEF CarryInv, Marked, FinalLess, Current, QuietClient
<1>10. AnswerOnce' /\ ReplayOnce' /\ OldTodo'
 BY DEF CarryInv, SimpleInv, AnswerOnce, ReplayOnce, OldTodo, Current
<1>11. LimitsKept'
 <2>1. \A s \in Sessions : \A e \in pump[s].todo : e.rule \in RuleIds
  BY DEF TypeInv, GoodPump, Pump
 <2> QED BY <2>1 DEF CarryInv, SimpleInv, LimitsKept, MemLess
<1>12. \A s \in Sessions : pump'[s].pc \in {"hello", "list"} =>
           pump[s].pc \in {"hello", "list"} /\ toServer'[s] = toServer[s]
 OBVIOUS
<1> QED BY <1>3, <1>4, <1>5, <1>6, <1>7, <1>8, <1>9, <1>10, <1>11, <1>12, QuietCarry

\* A session that sends nothing and is told nothing.
LEMMA PumpQuiet ==
  ASSUME TypeInv, CarryInv, NEW s \in Sessions, NEW k, PumpStep(s, k), pump[s].pc # "done",
         k.todo \subseteq pump[s].todo, k.pc # "hello", k.pc = "list" => pump[s].pc = "hello",
         k.pc \in {"replay", "replayRead", "replayWrite"} \/ k.todo = {},
         k.pc \in {"replayRead", "replayWrite"} /\ k.mark = "Pending" =>
             /\ Current(s, k.rule) \/ \E e \in pump[s].todo : e.rule = k.rule
             /\ \A e \in k.todo : e.rule # k.rule
             /\ link[s] = "up" => ~Final(mem'[k.rule]),
         UNCHANGED <<task, toServer, nextId>>, QuietClient, MemLess,
         \A u \in Sessions, r \in RuleIds : Pushed(u, r)' => Pushed(u, r), PushOnce'
  PROVE  CarryInv'
<1>1. pump'[s] = k /\ \A u \in Sessions : u # s => pump'[u] = pump[u]
 BY PumpPoint
<1>2. \A r \in RuleIds : (Unsent(r)' => Unsent(r)) /\ (Acked(r)' => Acked(r))
 BY TaskKinds
<1>3. \A u \in Sessions, r \in RuleIds : Answered(u, r)' => Answered(u, r)
 BY <1>1 DEF Answered
<1>4. \A u \in Sessions : /\ \A e \in pump'[u].todo : e \in pump[u].todo
                          /\ \A r \in RuleIds : Current(u, r)' => \/ Current(u, r)
                                                                 \/ \E e \in pump[u].todo : e.rule = r
 BY <1>1 DEF Current
<1>5. \A u \in Sessions, r \in RuleIds : Replayed(u, r)' => Replayed(u, r)
 BY <1>4 DEF Replayed, QuietClient
<1>6. FinalLess
 BY MemFinal
<1>7. Marked'
 <2> SUFFICES ASSUME NEW u \in Sessions, NEW r \in RuleIds, link[u] = "up", Current(u, r)'
              PROVE  ~Final(mem[r])'
  BY DEF Marked, QuietClient
 <2>1. CASE u = s
  BY <1>1, <2>1 DEF Current
 <2>2. CASE u # s
  BY <1>1, <1>6, <2>2 DEF Current, CarryInv, Marked, FinalLess
 <2> QED BY <2>1, <2>2
<1>8. AnswerOnce'
 BY <1>1 DEF CarryInv, SimpleInv, AnswerOnce
<1>9. ReplayOnce'
 BY <1>1 DEF CarryInv, SimpleInv, ReplayOnce, Current
<1>10. OldTodo'
 BY <1>4 DEF CarryInv, SimpleInv, OldTodo
<1>11. LimitsKept'
 <2>1. \A u \in Sessions : \A e \in pump[u].todo : e.rule \in RuleIds
  BY DEF TypeInv, GoodPump, Pump
 <2> QED BY <1>4, <2>1 DEF CarryInv, SimpleInv, LimitsKept, MemLess
<1>12. TaskOnce' /\ OnlyPushes'
 BY DEF CarryInv, SimpleInv, TaskOnce, OnlyPushes, Carrying, Pushing, Answering
<1>13. \A r \in RuleIds : FailedTold(r)' => FailedTold(r)
 BY <1>1 DEF FailedTold, MemLess, Answering, Pushing
<1>14. \A u \in Sessions : pump'[u].pc \in {"hello", "list"} =>
           pump[u].pc \in {"hello", "list"} /\ toServer'[u] = toServer[u]
 BY <1>1
<1> QED BY <1>2, <1>3, <1>5, <1>6, <1>7, <1>8, <1>9, <1>10, <1>11, <1>12, <1>13, <1>14, QuietCarry

----
(* Requests *)

LEMMA SendMany ==
  ASSUME TypeInv, CarryInv, NEW s, NEW m \in Update \cup {Welcome}, Send(s, m),
         NEW r \in RuleIds, ~IsPush(m, r) \/ \A u \in Sessions : ~Pushed(u, r)
  PROVE  /\ \A u \in Sessions : Pushed(u, r)' => Pushed(u, r) \/ (u = s /\ IsPush(m, r))
         /\ \A u \in Sessions : OncePush(toClient'[u], r)
<1>1. toClient \in [Sessions -> Seq(Update \cup {Welcome})]
 BY DEF TypeInv, WireTypes
<1>2. \A u \in Sessions : toClient'[u] = toClient[u] \/ (u = s /\ toClient'[u] = Append(toClient[u], m))
 BY <1>1 DEF Send
<1>3. \A u \in Sessions : OncePush(toClient[u], r)
 BY DEF CarryInv, SimpleInv, PushOnce
<1> SUFFICES ASSUME NEW u \in Sessions
             PROVE  /\ Pushed(u, r)' => Pushed(u, r) \/ (u = s /\ IsPush(m, r))
                    /\ OncePush(toClient'[u], r)
 OBVIOUS
<1>4. CASE toClient'[u] = toClient[u]
 BY <1>3, <1>4 DEF Pushed
<1>5. CASE u = s /\ toClient'[u] = Append(toClient[u], m)
 <2>1. PICK q : q = toClient[u] /\ q \in Seq(Update \cup {Welcome})
  BY <1>1
 <2> USE <2>1
 <2>2. NoPush(Append(q, m), r) <=> NoPush(q, r) /\ ~IsPush(m, r)
  BY PushAppend
 <2>3. OncePush(q, r) /\ (NoPush(q, r) \/ ~IsPush(m, r)) => OncePush(Append(q, m), r)
  BY PushAppend
 <2>4. Pushed(u, r)' => ~NoPush(Append(q, m), r)
  BY <1>5 DEF Pushed
 <2>5. Pushed(u, r) <=> ~NoPush(q, r)
  BY DEF Pushed
 <2> QED BY <1>3, <1>5, <2>2, <2>3, <2>4, <2>5
<1> QED BY <1>2, <1>4, <1>5

LEMMA SendOther ==
  ASSUME TypeInv, CarryInv, NEW s, NEW m \in Update \cup {Welcome}, Send(s, m), m.action # "PUSH"
  PROVE  (\A u \in Sessions, r \in RuleIds : Pushed(u, r)' => Pushed(u, r)) /\ PushOnce'
  BY SendMany DEF IsPush, PushOnce

LEMMA SentNothing ==
  ASSUME CarryInv, toClient' = toClient
  PROVE  (\A u \in Sessions, r \in RuleIds : Pushed(u, r)' => Pushed(u, r)) /\ PushOnce'
  BY DEF CarryInv, SimpleInv, PushOnce, Pushed

LEMMA MemSame == ASSUME mem' = mem PROVE MemLess
  BY DEF MemLess

LEMMA MemGone == ASSUME TypeInv, NEW r, mem' = [mem EXCEPT ![r] = NoRule] PROVE MemLess
  BY DEF MemLess, TypeInv, ServerTypes

LEMMA TaskFields ==
  ASSUME TypeInv, NEW t \in Tasks
  PROVE  /\ task[t] \in Task
         /\ \A x \in TaskPCs : /\ Goto(t, x).pc = x /\ Goto(t, x).op = task[t].op
                               /\ Goto(t, x).rule = task[t].rule /\ Goto(t, x).ack = task[t].ack
         /\ IdleTask.op = "none" /\ IdleTask.pc = "idle"
<1>1. task[t] \in Task
 BY DEF TypeInv, GoodTask
<1> QED BY <1>1 DEF Goto, Task, IdleTask

LEMMA RequestCarry ==
  ASSUME TypeInv, CarryInv, NEW t \in Tasks,
         (\E p \in Ports, l \in Limit : PushResolve(t, p, l)) \/ (\E r \in RuleIds : RemoveMem(t, r))
  PROVE  CarryInv'
<1>1. UNCHANGED <<link, events, fw, spawned>> /\ UNCHANGED <<pump, toServer, nextId>> /\ toClient' = toClient
 BY DEF PushResolve, RemoveMem, wireVars, clientVars
<1>2. QuietClient
 BY <1>1, SameClient
<1>3. (\A u \in Sessions, r \in RuleIds : Pushed(u, r)' => Pushed(u, r)) /\ PushOnce'
 BY <1>1, SentNothing
<1>4. CASE \E p \in Ports, l \in Limit : PushResolve(t, p, l)
 <2>1. PICK p \in Ports, l \in Limit : PushResolve(t, p, l)
  BY <1>4
 <2>2. PICK k : k = [IdleTask EXCEPT !.op = "push", !.pc = "insert", !.port = p, !.limit = l, !.session = current]
  OBVIOUS
 <2>3. Step(t, k) /\ k.op = "push" /\ k.pc = "insert"
  BY <2>1, <2>2 DEF PushResolve, IdleTask
 <2>4. MemLess
  BY <2>1, MemSame DEF PushResolve
 <2> QED BY <1>1, <1>2, <1>3, <2>3, <2>4, TaskQuiet
<1>5. CASE \E r \in RuleIds : RemoveMem(t, r)
 <2>1. PICK r \in RuleIds : RemoveMem(t, r)
  BY <1>5
 <2>2. PICK k : k = [IdleTask EXCEPT !.op = "remove", !.pc = "delete", !.rule = r, !.port = mem[r].port]
  OBVIOUS
 <2>3. Step(t, k) /\ k.op = "remove"
  BY <2>1, <2>2 DEF RemoveMem, IdleTask
 <2>4. MemLess
  BY <2>1, MemGone DEF RemoveMem
 <2> QED BY <1>1, <1>2, <1>3, <2>3, <2>4, TaskQuiet
<1> QED BY <1>4, <1>5

LEMMA ProgressCarry ==
  ASSUME TypeInv, CarryInv, NEW t \in Tasks,
         \/ PushPersist(t) \/ PushUndo(t) \/ PushRead(t) \/ PushWrite(t) \/ AckTimeout(t) \/ UpsertFails(t) \/ DropWaiter(t)
         \/ RemoveDb(t) \/ RemoveSend(t)
         \/ (PushInsert(t) /\ nextId' = nextId)
  PROVE  CarryInv'
<1>1. /\ UNCHANGED <<link, events, fw, spawned>> /\ UNCHANGED <<pump, toServer>>
      /\ RemoveSend(t) \/ toClient' = toClient
 BY DEF PushPersist, Persist, PushUndo, PushRead, PushWrite, AckTimeout, UpsertFails, DropWaiter, RemoveDb,
  RemoveSend, PushInsert, wireVars, clientVars
<1>2. QuietClient
 BY <1>1, SameClient
<1>3. task[t].op # "update" /\ task[t] \in Task
 BY TaskFields DEF CarryInv, SimpleInv, OnlyPushes
<1>4. CASE RemoveSend(t)
 <2>1. PICK m : m = [action |-> "REMOVE", rule |-> task[t].rule, req |-> 0, port |-> task[t].port, limit |-> NoLimit]
  OBVIOUS
 <2>2. task[t].rule \in RuleIds
  BY <1>4 DEF RemoveSend, At, TypeInv, GoodTask
 <2>3. m \in Update /\ m.action = "REMOVE"
  BY <1>3, <2>1, <2>2, Constants DEF Update, Requests, Limit, Task
 <2>4. toClient' = toClient \/ Send(current, m)
  BY <1>4, <2>1 DEF RemoveSend
 <2>5. (\A u \in Sessions, r \in RuleIds : Pushed(u, r)' => Pushed(u, r)) /\ PushOnce'
  BY <2>3, <2>4, SentNothing, SendOther
 <2>6. Step(t, IdleTask) /\ mem' = mem /\ nextId' = nextId
  BY <1>4 DEF RemoveSend
 <2> QED BY <1>1, <1>2, <2>5, <2>6, MemSame, TaskFields, TaskQuiet
<1>5. toClient' = toClient => (\A u \in Sessions, r \in RuleIds : Pushed(u, r)' => Pushed(u, r)) /\ PushOnce'
 BY SentNothing
<1>6. CASE PushInsert(t) /\ nextId' = nextId
 <2>1. CASE current = 0 \/ Conflict(task[t].port) \/ nextId > MaxRules
  <3>1. Step(t, IdleTask) /\ mem' = mem /\ toClient' = toClient
   BY <1>6, <2>1 DEF PushInsert, wireVars
  <3> QED BY <1>1, <1>2, <1>5, <1>6, <3>1, MemSame, TaskFields, TaskQuiet
 <2>2. CASE ~(current = 0 \/ Conflict(task[t].port) \/ nextId > MaxRules)
  <3>1. nextId' = nextId + 1 /\ nextId \in Nat
   BY <1>6, <2>2, Constants DEF PushInsert, TypeInv, ServerTypes
  <3> QED BY <1>6, <3>1
 <2> QED BY <2>1, <2>2
<1>7. CASE PushPersist(t)
 <2>1. Step(t, Goto(t, "send")) /\ mem' = mem /\ nextId' = nextId /\ toClient' = toClient /\ At(t, "push", "persist")
  BY <1>7 DEF PushPersist, Persist, wireVars
 <2>2. PICK k : k = Goto(t, "send")
  OBVIOUS
 <2>3. k.pc = "send" /\ k.op = "push" /\ k.rule = task[t].rule
  BY <2>1, <2>2, TaskFields DEF TaskPCs, At
 <2>4. Pushing(t, {"persist", "send"}, k.rule)
  BY <2>1, <2>3 DEF Pushing, At
 <2> QED BY <1>1, <1>2, <1>5, <2>1, <2>2, <2>3, <2>4, MemSame, TaskQuiet
<1>8. CASE PushUndo(t)
 <2>1. Step(t, IdleTask) /\ mem' = [mem EXCEPT ![task[t].rule] = NoRule] /\ nextId' = nextId /\ toClient' = toClient
  BY <1>8 DEF PushUndo, wireVars
 <2> QED BY <1>1, <1>2, <1>5, <2>1, MemGone, TaskFields, TaskQuiet
<1>9. CASE PushRead(t)
 <2>1. PICK k : /\ k = IF Known(task[t].rule) THEN [task[t] EXCEPT !.pc = "write", !.snap = mem[task[t].rule]] ELSE IdleTask
                /\ Step(t, k) /\ mem' = mem /\ nextId' = nextId /\ toClient' = toClient
  BY <1>9 DEF PushRead, wireVars
 <2>2. k.pc \in {"write", "idle"} /\ k.op # "update"
  BY <1>3, <2>1 DEF Task, IdleTask
 <2> QED BY <1>1, <1>2, <1>5, <2>1, <2>2, MemSame, TaskQuiet
<1>10. CASE PushWrite(t) \/ UpsertFails(t) \/ DropWaiter(t)
 <2>1. Step(t, IdleTask) /\ mem' = mem /\ nextId' = nextId /\ toClient' = toClient
  BY <1>10 DEF PushWrite, UpsertFails, DropWaiter, wireVars
 <2> QED BY <1>1, <1>2, <1>5, <2>1, MemSame, TaskFields, TaskQuiet
<1>11. CASE AckTimeout(t) \/ RemoveDb(t)
 <2>1. PICK x \in {"expired", "send"} : /\ Step(t, Goto(t, x)) /\ mem' = mem /\ nextId' = nextId /\ toClient' = toClient
                                        /\ x = "expired" \/ task[t].op = "remove"
  BY <1>11 DEF AckTimeout, RemoveDb, At, wireVars
 <2>2. PICK k : k = Goto(t, x)
  OBVIOUS
 <2>3. k.pc = x /\ k.op = task[t].op
  BY <2>2, TaskFields DEF TaskPCs
 <2> QED BY <1>1, <1>2, <1>3, <1>5, <2>1, <2>2, <2>3, MemSame, TaskQuiet
<1> QED BY <1>4, <1>6, <1>7, <1>8, <1>9, <1>10, <1>11

----
(* Sessions *)

LEMMA PumpFields ==
  ASSUME TypeInv, NEW s \in Sessions
  PROVE  /\ pump[s] \in Pump /\ pump[s].todo \in SUBSET [rule : RuleIds, limit : Limit]
         /\ \A x \in PumpPCs : /\ [FreshPump EXCEPT !.pc = x].pc = x /\ [FreshPump EXCEPT !.pc = x].todo = {}
         /\ {} \subseteq pump[s].todo
<1>1. pump[s] \in Pump
 BY DEF TypeInv, GoodPump
<1> QED BY <1>1 DEF FreshPump, Pump

LEMMA SessionCarry ==
  ASSUME TypeInv, CarryInv, NEW s \in Sessions,
         \/ Hello(s) \/ HelloFails(s) \/ ReplayMark(s) \/ ReplayRead(s) \/ ReplayDone(s)
         \/ (ReplayWrite(s) /\ toClient' = toClient)
         \/ ServeRead(s) \/ ServeWrite(s) \/ PumpEnd(s)
  PROVE  CarryInv'
<1>1. /\ UNCHANGED <<link, events, fw, spawned>> /\ UNCHANGED <<task, toServer, nextId>>
      /\ Hello(s) \/ toClient' = toClient
      /\ pump[s].pc # "done"
 BY DEF Hello, HelloFails, ReplayMark, ReplayRead, ReplayDone, ReplayWrite, ServeRead, ServeWrite,
  PumpEnd, PumpAt, wireVars, clientVars
<1>2. QuietClient
 BY <1>1, SameClient
<1>3. pump[s] \in Pump /\ \A e \in pump[s].todo : e \in [rule : RuleIds, limit : Limit]
 BY PumpFields
<1>4. toClient' = toClient => (\A u \in Sessions, r \in RuleIds : Pushed(u, r)' => Pushed(u, r)) /\ PushOnce'
 BY SentNothing
<1>5. CASE Hello(s)
 <2>1. PICK k : k = [pump[s] EXCEPT !.pc = "list"]
  OBVIOUS
 <2>2. PumpStep(s, k) /\ Send(s, Welcome) /\ mem' = mem /\ pump[s].pc = "hello"
  BY <1>5, <2>1 DEF Hello, PumpAt
 <2>3. k.pc = "list" /\ k.todo = pump[s].todo /\ pump[s].todo = {}
  BY <1>3, <2>1, <2>2 DEF Pump, CarryInv, SimpleInv, ReplayOnce
 <2>4. (\A u \in Sessions, r \in RuleIds : Pushed(u, r)' => Pushed(u, r)) /\ PushOnce'
  BY <2>2, SendOther DEF Welcome
 <2> QED BY <1>1, <1>2, <2>2, <2>3, <2>4, MemSame, PumpQuiet
<1>6. CASE HelloFails(s) \/ ReplayDone(s) \/ ServeWrite(s) \/ PumpEnd(s)
 <2>1. PICK x \in {"serve", "done"} : PumpStep(s, [FreshPump EXCEPT !.pc = x])
  BY <1>6 DEF HelloFails, ReplayDone, ServeWrite, PumpEnd
 <2>2. PICK k : k = [FreshPump EXCEPT !.pc = x]
  OBVIOUS
 <2>3. k.pc = x /\ k.todo = {} /\ mem' = mem /\ toClient' = toClient
  BY <1>6, <2>2 DEF FreshPump, HelloFails, ReplayDone, ServeWrite, PumpEnd, wireVars
 <2> QED BY <1>1, <1>2, <1>4, <2>1, <2>2, <2>3, MemSame, PumpQuiet
<1>7. CASE ServeRead(s)
 <2>1. PICK k : /\ k = IF Known(pump[s].rule) THEN [pump[s] EXCEPT !.pc = "serveWrite", !.snap = mem[pump[s].rule]]
                                              ELSE [FreshPump EXCEPT !.pc = "serve"]
                /\ PumpStep(s, k) /\ mem' = mem /\ toClient' = toClient /\ pump[s].pc = "serveRead"
  BY <1>7 DEF ServeRead, PumpAt, wireVars
 <2>2. pump[s].todo = {}
  BY <2>1 DEF CarryInv, SimpleInv, ReplayOnce
 <2>3. k.pc \in {"serveWrite", "serve"} /\ k.todo = {}
  BY <1>3, <2>1, <2>2 DEF Pump, FreshPump
 <2> QED BY <1>1, <1>2, <1>4, <2>1, <2>2, <2>3, MemSame, PumpQuiet
<1>8. CASE ReplayRead(s)
 <2>1. PICK k : /\ k = IF Known(pump[s].rule) THEN [pump[s] EXCEPT !.pc = "replayWrite", !.snap = mem[pump[s].rule]]
                                              ELSE [pump[s] EXCEPT !.pc = "replay"]
                /\ PumpStep(s, k) /\ mem' = mem /\ toClient' = toClient /\ pump[s].pc = "replayRead"
  BY <1>8 DEF ReplayRead, PumpAt, wireVars
 <2> USE <2>1
 <2>2. /\ k.pc \in {"replayWrite", "replay"} /\ k.todo = pump[s].todo /\ k.rule = pump[s].rule
       /\ k.mark = pump[s].mark
  BY <1>3 DEF Pump
 <2>3. pump[s].rule \in RuleIds
  BY DEF TypeInv, GoodPump
 <2>4. k.mark = "Pending" => Current(s, k.rule)
  BY <2>2 DEF Current
 <2>5. Current(s, k.rule) => (\A e \in k.todo : e.rule # k.rule) /\ (link[s] = "up" => ~Final(mem'[k.rule]))
  BY <2>2, <2>3 DEF CarryInv, SimpleInv, ReplayOnce, Marked
 <2> QED BY <1>1, <1>2, <1>4, <2>2, <2>4, <2>5, MemSame, PumpQuiet
<1>9. CASE ReplayWrite(s) /\ toClient' = toClient
 <2>1. PICK k : /\ PumpStep(s, k) /\ mem' = mem
                /\ k.pc = "replay" /\ k.todo \subseteq pump[s].todo
  <3>1. PICK k : /\ PumpStep(s, k) /\ mem' = mem
                 /\ \/ k = [pump[s] EXCEPT !.pc = "replay", !.snap = NoRule]
                    \/ k = [pump[s] EXCEPT !.pc = "replay", !.snap = NoRule, !.todo = {}]
   BY <1>3, <1>9 DEF ReplayWrite, Pump
  <3> QED BY <1>3, <3>1 DEF Pump
 <2> QED BY <1>1, <1>2, <1>4, <1>9, <2>1, MemSame, PumpQuiet
<1>10. CASE ReplayMark(s)
 <2>1. PICK e, mark, k :
           /\ e \in pump[s].todo /\ mark \in {"Pending", "Failed"}
           /\ mark = IF e.limit = NoLimit \/ pump[s].capable THEN "Pending" ELSE "Failed"
           /\ Mark(e.rule, mark)
           /\ k = [pump[s] EXCEPT !.pc = "replayRead", !.rule = e.rule, !.mark = mark, !.todo = @ \ {e}]
           /\ PumpStep(s, k) /\ toClient' = toClient
  BY <1>10 DEF ReplayMark, wireVars
 <2>2. k.pc = "replayRead" /\ k.rule = e.rule /\ k.mark = mark /\ k.todo = pump[s].todo \ {e}
  BY <1>3, <2>1 DEF Pump
 <2>3. e.rule \in RuleIds /\ (mem[e.rule] # NoRule => mem[e.rule].limit = e.limit)
  BY <1>3, <2>1 DEF CarryInv, SimpleInv, LimitsKept
 <2>4. /\ \A r \in RuleIds : r # e.rule => mem'[r] = mem[r]
       /\ mem[e.rule] = NoRule => mem'[e.rule] = NoRule
       /\ mem[e.rule] # NoRule => mem'[e.rule].limit = e.limit /\ mem'[e.rule].state = mark
  <3>1. mem \in [RuleIds -> RuleOrNone]
   BY DEF TypeInv, ServerTypes
  <3>2. mem[e.rule] # NoRule => mem[e.rule] \in Rule
   BY <2>3, <3>1 DEF RuleOrNone
  <3>3. mem[e.rule] # NoRule => mem'[e.rule] = [mem[e.rule] EXCEPT !.state = mark]
   BY <2>1, <2>3, <3>1 DEF Mark, Known
  <3> QED BY <2>1, <2>3, <3>1, <3>2, <3>3 DEF Mark, Known, Rule
 <2>5. MemLess
  <3> SUFFICES ASSUME NEW r \in RuleIds, mem'[r] # NoRule
               PROVE  /\ mem[r] # NoRule /\ mem'[r].limit = mem[r].limit
                      /\ mem'[r].state = "Active" => mem[r].state = "Active"
                      /\ mem'[r].state = "Failed" /\ mem'[r].limit = NoLimit => mem[r].state = "Failed"
   BY DEF MemLess
  <3>1. CASE r = e.rule
   BY <2>1, <2>3, <2>4, <3>1
  <3>2. CASE r # e.rule
   BY <2>4, <3>2
  <3> QED BY <3>1, <3>2
 <2>6. \A g \in k.todo : g.rule # k.rule
  BY <2>1, <2>2 DEF CarryInv, SimpleInv, ReplayOnce
 <2>7. k.mark = "Pending" => ~Final(mem'[k.rule])
  BY <2>2, <2>4 DEF Final
 <2> QED BY <1>1, <1>2, <1>4, <2>1, <2>2, <2>5, <2>6, <2>7, PumpQuiet
<1> QED BY <1>5, <1>6, <1>7, <1>8, <1>9, <1>10

----
(* Steps of the server that take a rule on *)

LEMMA QuietHere ==
  ASSUME CarryInv, QuietClient PROVE HereLess /\ EventOnce'
<1>1. \A r \in RuleIds : (Here(r)' <=> Here(r)) /\ (BoundHere(r)' <=> BoundHere(r))
 BY QuietKinds
<1> QED BY <1>1 DEF HereLess, CarryInv, SimpleInv, EventOnce, QuietClient

LEMMA QuietUnheard ==
  ASSUME CarryInv, QuietClient,
         \A s \in Sessions : pump'[s].pc \in {"hello", "list"} =>
             pump[s].pc \in {"hello", "list"} /\ toServer'[s] = toServer[s]
  PROVE  Unheard'
<1>1. \A s \in Sessions, r \in RuleIds : pump'[s].pc \in {"hello", "list"} =>
          (Answered(s, r) => Answered(s, r)')
 BY DEF Answered
<1>2. \A s \in Sessions, r \in RuleIds : pump'[s].pc \in {"hello", "list"} =>
          (Heard(s, r) => Heard(s, r)')
 BY <1>1, QuietKinds DEF Heard
<1>3. \A s \in Sessions, r \in RuleIds : SpawnedIn(s, r)' => SpawnedIn(s, r)
 BY QuietKinds
<1> QED BY <1>2, <1>3, KeptUnheard DEF QuietClient

LEMMA QuietTold ==
  ASSUME QuietClient, \A r \in RuleIds : FailedTold(r)' => FailedTold(r) PROVE ToldLess
  BY DEF ToldLess, Spared, QuietClient

LEMMA BoundIsHere == ASSUME NEW r, BoundHere(r) PROVE Here(r)
  BY DEF BoundHere, Here, BoundIn, SpawnedIn

LEMMA SomePlace == 0 \in Places /\ \A s \in Sessions : s \in Places
  BY Constants DEF Places, Sessions

LEMMA Only ==
  ASSUME CarryInv, NEW r \in RuleIds, NEW c \in Kinds, NEW s \in Places, Carries(c, s, r),
         NEW d \in Kinds, NEW u \in Places, c # d \/ s # u
  PROVE  ~Carries(d, u, r)
  BY DEF CarryInv, OneCarrier

LEMMA InsertCarry ==
  ASSUME TypeInv, CarryInv, NEW t \in Tasks, PushInsert(t), nextId' # nextId PROVE CarryInv'
<1>1. /\ UNCHANGED <<link, events, fw, spawned>> /\ UNCHANGED <<pump, toServer, toClient>>
      /\ At(t, "push", "insert")
 BY DEF PushInsert, wireVars, clientVars
<1>2. QuietClient
 BY <1>1, SameClient
<1>3. PICK q, rule : /\ q = nextId /\ rule = [port |-> task[t].port, limit |-> task[t].limit, state |-> "Pending"]
                     /\ mem' = [mem EXCEPT ![q] = rule] /\ nextId' = q + 1
                     /\ Step(t, [task[t] EXCEPT !.pc = "persist", !.rule = q, !.snap = rule])
                     /\ ~(q > MaxRules)
 BY DEF PushInsert
<1>4. q \in RuleIds /\ q \in Nat /\ \A r \in RuleIds : r \in Nat
 BY <1>3, Constants DEF TypeInv, ServerTypes, RuleIds
<1>5. ~Here(q) /\ \A c \in Kinds, s \in Places : ~Carries(c, s, q)
 BY <1>3, <1>4 DEF CarryInv, OldIds, Carried
<1>6. /\ task'[t].op = "push" /\ task'[t].pc = "persist" /\ task'[t].rule = q
      /\ \A u \in Tasks : u # t => task'[u] = task[u]
 <2>1. PICK k : k = [task[t] EXCEPT !.pc = "persist", !.rule = q, !.snap = rule]
  OBVIOUS
 <2>2. k.op = task[t].op /\ k.pc = "persist" /\ k.rule = q
  BY <2>1, TaskFields DEF Task
 <2>3. task'[t] = k /\ \A u \in Tasks : u # t => task'[u] = task[u]
  BY <1>3, <2>1, TaskPoint
 <2> QED BY <1>1, <2>2, <2>3 DEF At
<1>7. \A r \in RuleIds \ {q} : mem'[r] = mem[r]
 BY <1>3 DEF TypeInv, ServerTypes
<1>8. mem'[q] = rule /\ rule.state = "Pending"
 BY <1>3, <1>4 DEF TypeInv, ServerTypes
<1>9. \A u \in Tasks, r \in RuleIds : /\ Pushing(u, {"persist", "send"}, r)' => Pushing(u, {"persist", "send"}, r) \/ (u = t /\ r = q)
                                      /\ Answering(u, r)' => Answering(u, r) /\ task'[u].ack = task[u].ack
 BY <1>6 DEF Pushing, Answering
<1>10. \A r \in RuleIds : (Unsent(r)' => Unsent(r) \/ r = q) /\ (Acked(r)' => Acked(r))
 BY <1>9 DEF Unsent, Acked
<1>11. \A s \in Sessions, r \in RuleIds : /\ Pushed(s, r)' => Pushed(s, r)
                                          /\ Answered(s, r)' => Answered(s, r)
                                          /\ Replayed(s, r)' => Replayed(s, r)
                                          /\ Starting(s, r)' => Starting(s, r)
                                          /\ Reported(s, r)' => Reported(s, r)
 BY <1>1, <1>2, QuietKinds, WireKinds, StatusKinds, ReplayKinds
<1>12. \A r \in RuleIds \ {q} : Fewer(r)
 BY <1>10, <1>11, KindsFewer
<1>13. \A c \in Kinds, s \in Places : Carries(c, s, q)' => c = "unsent" /\ s = 0
 <2> SUFFICES ASSUME NEW c \in Kinds, NEW s \in Places, Carries(c, s, q)' PROVE c = "unsent" /\ s = 0
  OBVIOUS
 <2>1. ~Carries(c, s, q)
  BY <1>5
 <2> QED BY <1>4, <1>10, <1>11, <2>1 DEF Carries
<1>14. OneCarrier'
 BY <1>4, <1>12, <1>13 DEF CarryInv, OneCarrier, Fewer
<1>15. Decided'
 <2>1. ~Final(mem[q])'
  BY <1>8 DEF Final
 <2>2. \A r \in RuleIds \ {q} : Final(mem[r])' => Final(mem[r])
  BY <1>7
 <2> QED BY <1>12, <2>1, <2>2 DEF CarryInv, Decided, Fewer, Carried
<1>16. HereLess /\ EventOnce'
 BY <1>2, QuietHere
<1>17. SpawnedOnce'
 BY <1>5, <1>12, <1>16 DEF CarryInv, SpawnedOnce, Fewer, HereLess, Carried, Early, Kinds
<1>18. BoundTold'
 <2>1. \A r \in RuleIds \ {q} : FailedTold(r)' => FailedTold(r)
  BY <1>1, <1>7, <1>9 DEF FailedTold
 <2>2. ~BoundHere(q)'
  BY <1>4, <1>5, <1>16, BoundIsHere DEF HereLess
 <2>3. \A r \in RuleIds \ {q} : Spared(r) => Spared(r)'
  BY <1>1, <2>1 DEF Spared
 <2> QED BY <1>16, <2>2, <2>3 DEF CarryInv, BoundTold, HereLess
<1>19. Unheard'
 BY <1>1, <1>2, QuietUnheard
<1>20. OldIds'
 <2>1. \A r \in RuleIds : r >= nextId' => r # q /\ r >= nextId
  BY <1>3, <1>4
 <2> QED BY <1>12, <1>16, <2>1 DEF CarryInv, OldIds, HereLess, Fewer, Carried
<1>21. Marked'
 <2>1. ~Final(mem[q])'
  BY <1>8 DEF Final
 <2> QED BY <1>1, <1>7, <2>1 DEF CarryInv, Marked, Current
<1>22. TaskOnce'
 <2>1. \A u \in Tasks : ~Carrying(u, q)
  <3>1. ~Carries("unsent", 0, q) /\ ~Carries("acked", 0, q)
   BY <1>5, SomePlace DEF Kinds
  <3> QED BY <3>1 DEF Carries, Unsent, Acked, Carrying
 <2>2. \A u \in Tasks, r \in RuleIds : Carrying(u, r)' => Carrying(u, r) \/ (u = t /\ r = q)
  BY <1>9 DEF Carrying
 <2>3. \A r \in RuleIds : ~Carrying(t, r)
  BY <1>1 DEF At, Carrying, Answering, Pushing
 <2> QED BY <2>1, <2>2 DEF CarryInv, SimpleInv, TaskOnce
<1>23. OnlyPushes'
 BY <1>6 DEF CarryInv, SimpleInv, OnlyPushes
<1>24. PushOnce' /\ AnswerOnce' /\ ReplayOnce'
 BY <1>1 DEF CarryInv, SimpleInv, PushOnce, AnswerOnce, ReplayOnce, Current
<1>25. OldTodo' /\ LimitsKept'
 <2>1. \A s \in Sessions : \A e \in pump[s].todo : e.rule \in RuleIds /\ e.rule < q
  BY <1>3, PumpFields DEF CarryInv, SimpleInv, OldTodo
 <2>2. \A s \in Sessions : \A e \in pump[s].todo : e.rule # q /\ e.rule < q + 1
  <3>1. \A a \in RuleIds : a < q => a # q /\ a < q + 1
   BY <1>4
  <3> QED BY <2>1, <3>1
 <2>3. OldTodo'
  BY <1>1, <1>3, <2>2 DEF OldTodo
 <2>4. LimitsKept'
  <3> SUFFICES ASSUME NEW s \in Sessions, NEW e \in pump[s].todo, mem'[e.rule] # NoRule
               PROVE  mem'[e.rule].limit = e.limit
   BY <1>1 DEF LimitsKept
  <3>1. e.rule \in RuleIds \ {q}
   BY <2>1, <2>2
  <3>2. mem'[e.rule] = mem[e.rule]
   BY <1>7, <3>1
  <3> QED BY <3>2 DEF CarryInv, SimpleInv, LimitsKept
 <2> QED BY <2>3, <2>4
<1> QED BY <1>14, <1>15, <1>16, <1>17, <1>18, <1>19, <1>20, <1>21, <1>22, <1>23, <1>24, <1>25
  DEF CarryInv, SimpleInv

LEMMA SendCarry ==
  ASSUME TypeInv, CarryInv, NEW t \in Tasks, PushSend(t) PROVE CarryInv'
<1>1. /\ UNCHANGED <<link, events, fw, spawned>> /\ UNCHANGED <<pump, toServer, nextId, mem>>
      /\ At(t, "push", "send")
 BY DEF PushSend, RequestSend, clientVars
<1>2. QuietClient
 BY <1>1, SameClient
<1>3. PICK m, q, s : /\ m = [action |-> "PUSH", rule |-> task[t].rule, req |-> nextReq,
                            port |-> task[t].snap.port, limit |-> task[t].snap.limit]
                     /\ q = task[t].rule /\ s = task[t].session
 OBVIOUS
<1>4. Send(s, m) /\ nextReq <= MaxRequests
 BY <1>3 DEF PushSend, RequestSend
<1>5. PICK k : k = [task[t] EXCEPT !.pc = "wait", !.req = nextReq, !.snap = NoRule]
 OBVIOUS
<1>6. Step(t, k) /\ k.op = "push" /\ k.pc = "wait"
 BY <1>1, <1>5, TaskFields DEF PushSend, RequestSend, Task, At
<1>7. q \in RuleIds /\ task[t].snap \in Rule
 BY <1>1, <1>3 DEF At, TypeInv, GoodTask
<1>8. m \in Update /\ \A r : IsPush(m, r) <=> r = q
 BY <1>3, <1>4, <1>7, Constants DEF Update, Rule, TypeInv, ServerTypes, Requests, IsPush
<1>9. CASE s \notin Sessions \/ link[s] # "up"
 <2>1. toClient' = toClient
  BY <1>4, <1>9 DEF Send, SendReaches, TypeInv, WireTypes
 <2> QED BY <1>1, <1>2, <1>6, <2>1, SentNothing, MemSame, TaskQuiet
<1>10. CASE s \in Sessions /\ link[s] = "up"
 <2>1. Carries("unsent", 0, q)
  BY <1>1, <1>3 DEF Carries, Unsent, Pushing, At
 <2>2. \A u \in Sessions : ~Pushed(u, q)
  <3>1. \A u \in Sessions : ~Carries("push", u, q)
   BY <1>7, <2>1, SomePlace, Only DEF Kinds
  <3> QED BY <3>1 DEF Carries
 <2>3. \A r \in RuleIds : /\ \A u \in Sessions : Pushed(u, r)' => Pushed(u, r) \/ (u = s /\ r = q)
                          /\ \A u \in Sessions : OncePush(toClient'[u], r)
  BY <1>4, <1>8, <2>2, SendMany
 <2>4. task'[t] = k /\ \A u \in Tasks : u # t => task'[u] = task[u]
  BY <1>6, TaskPoint
 <2>5. \A u \in Tasks, r \in RuleIds : /\ Pushing(u, {"persist", "send"}, r)' => u # t /\ Pushing(u, {"persist", "send"}, r)
                                       /\ Answering(u, r)' => u # t /\ Answering(u, r) /\ task'[u].ack = task[u].ack
  BY <1>6, <2>4 DEF Pushing, Answering
 <2>6. ~Unsent(q)' /\ \A r \in RuleIds : (Unsent(r)' => Unsent(r)) /\ (Acked(r)' => Acked(r))
  <3>1. Carrying(t, q)
   BY <1>1, <1>3 DEF Carrying, Pushing, At
  <3>2. \A u \in Tasks : u # t => ~Pushing(u, {"persist", "send"}, q)
   BY <1>7, <3>1 DEF CarryInv, SimpleInv, TaskOnce, Carrying
  <3> QED BY <1>7, <2>5, <3>2 DEF Unsent, Acked
 <2>7. \A u \in Sessions, r \in RuleIds : /\ Answered(u, r)' => Answered(u, r)
                                          /\ Replayed(u, r)' => Replayed(u, r)
                                          /\ Starting(u, r)' => Starting(u, r)
                                          /\ Reported(u, r)' => Reported(u, r)
  BY <1>1, <1>2, QuietKinds, StatusKinds, ReplayKinds
 <2>8. \A r \in RuleIds \ {q} : Fewer(r)
  BY <2>3, <2>6, <2>7, KindsFewer
 <2>9. Moves(q, "unsent", 0, "push", s)
  <3>1. ~Carries("unsent", 0, q)'
   BY <2>6, Constants DEF Carries, Sessions
  <3>2. \A c \in Kinds, u \in Places : Carries(c, u, q)' => Carries(c, u, q) \/ (c = "push" /\ u = s)
   BY <1>7, <2>3, <2>6, <2>7 DEF Carries
  <3> QED BY <2>1, <3>1, <3>2 DEF Moves
 <2>10. ~Final(mem[q])
  BY <1>7, <2>1, SomePlace, Open DEF Kinds
 <2>11. FinalLess /\ Marked'
  BY <1>1 DEF FinalLess, CarryInv, Marked, Current
 <2>12. HereLess /\ EventOnce'
  BY <1>2, QuietHere
 <2>13. ToldLess
  <3>1. \A r \in RuleIds : FailedTold(r)' => FailedTold(r)
   BY <1>1, <2>5 DEF FailedTold
  <3> QED BY <1>2, <3>1, QuietTold
 <2>14. Unheard'
  BY <1>1, <1>2, QuietUnheard
 <2>15. TaskOnce'
  BY <2>5 DEF CarryInv, SimpleInv, TaskOnce, Carrying
 <2>16. OnlyPushes'
  BY <1>6, <2>4 DEF CarryInv, SimpleInv, OnlyPushes
 <2>17. PushOnce'
  BY <2>3 DEF PushOnce
 <2>18. AnswerOnce' /\ ReplayOnce' /\ LimitsKept' /\ OldTodo'
  BY <1>1 DEF CarryInv, SimpleInv, AnswerOnce, ReplayOnce, Current, LimitsKept, OldTodo
 <2>19. SimpleInv'
  BY <2>12, <2>15, <2>16, <2>17, <2>18 DEF SimpleInv
 <2>20. "unsent" \in Kinds /\ 0 \in Places /\ "unsent" \in Early
  BY SomePlace DEF Kinds, Early
 <2> QED BY <1>1, <1>7, <2>8, <2>9, <2>10, <2>11, <2>12, <2>13, <2>14, <2>19, <2>20, MovedCarry
<1> QED BY <1>9, <1>10

----
(* Outcomes *)

LEMMA MarkFacts ==
  ASSUME TypeInv, NEW q \in RuleIds, NEW st \in States, Mark(q, st)
  PROVE  /\ \A r \in RuleIds : r # q => mem'[r] = mem[r]
         /\ mem[q] = NoRule => mem'[q] = NoRule
         /\ mem[q] # NoRule => /\ mem'[q].limit = mem[q].limit /\ mem'[q].port = mem[q].port
                               /\ mem'[q].state = st
<1>1. mem \in [RuleIds -> RuleOrNone]
 BY DEF TypeInv, ServerTypes
<1>2. mem[q] # NoRule => mem[q] \in Rule
 BY <1>1 DEF RuleOrNone
<1>3. mem[q] # NoRule => mem'[q] = [mem[q] EXCEPT !.state = st]
 BY <1>1 DEF Mark, Known
<1> QED BY <1>1, <1>2, <1>3 DEF Mark, Known, Rule

\* The carrier of q writes its outcome to memory.
LEMMA WrittenCarry ==
  ASSUME TypeInv, CarryInv, NEW q \in RuleIds, NEW st \in States, Mark(q, st), \A r \in RuleIds : Fewer(r),
         NEW c0 \in Kinds \ {"replay"}, NEW s0 \in Places, Carries(c0, s0, q), ~Carries(c0, s0, q)',
         link' = link, \A s \in Sessions, r \in RuleIds : Current(s, r)' => Current(s, r),
         \A s \in Sessions : pump'[s].todo = pump[s].todo
  PROVE  Decided' /\ Marked' /\ LimitsKept'
<1>1. \A c \in Kinds, s \in Places : Carries(c, s, q) => c = c0 /\ s = s0
 BY Only
<1>2. ~Carried(Kinds \ {"replay"}, q)'
 BY <1>1 DEF Carried, Fewer
<1>3. \A r \in RuleIds : r # q => mem'[r] = mem[r]
 BY MarkFacts
<1>4. Decided'
 BY <1>2, <1>3 DEF CarryInv, Decided, Fewer, Carried
<1>5. \A s \in Sessions : link[s] = "up" => ~Current(s, q)
 <2>1. \A s \in Sessions : ~Carries("replay", s, q)
  BY <1>1, SomePlace DEF Kinds
 <2> QED BY <2>1 DEF Carries, Replayed
<1>6. Marked'
 <2>1. \A s \in Sessions, r \in RuleIds : link'[s] = "up" /\ Current(s, r)' => r # q /\ ~Final(mem[r])
  BY <1>5 DEF CarryInv, Marked
 <2> QED BY <1>3, <2>1 DEF Marked
<1>7. LimitsKept'
 <2> SUFFICES ASSUME NEW s \in Sessions, NEW e \in pump[s].todo, mem'[e.rule] # NoRule
              PROVE  mem'[e.rule].limit = e.limit
  BY DEF LimitsKept
 <2>1. e.rule \in RuleIds
  BY PumpFields
 <2>2. mem[e.rule] # NoRule /\ mem'[e.rule].limit = mem[e.rule].limit
  BY <2>1, MarkFacts
 <2> QED BY <2>2 DEF CarryInv, SimpleInv, LimitsKept
<1> QED BY <1>4, <1>6, <1>7

LEMMA AckedCarry ==
  ASSUME TypeInv, CarryInv, NEW t \in Tasks, PushAcked(t) PROVE CarryInv'
<1>1. /\ UNCHANGED <<link, events, fw, spawned>> /\ UNCHANGED <<pump, toServer, nextId>> /\ toClient' = toClient
      /\ At(t, "push", "acked")
 BY DEF PushAcked, wireVars, clientVars
<1>2. QuietClient
 BY <1>1, SameClient
<1>3. CASE task[t].ack = "Removed" \/ (task[t].ack = "Activated" /\ ~Known(task[t].rule))
 <2>1. Step(t, IdleTask) /\ mem' = mem
  BY <1>3 DEF PushAcked
 <2> QED BY <1>1, <1>2, <2>1, SentNothing, MemSame, TaskFields, TaskQuiet
<1>4. CASE ~(task[t].ack = "Removed" \/ (task[t].ack = "Activated" /\ ~Known(task[t].rule)))
 <2>1. PICK q, st, k : q = task[t].rule /\ st = StateAfter(task[t].ack) /\ k = Goto(t, "read")
  OBVIOUS
 <2>2. Mark(q, st) /\ Step(t, k)
  BY <1>4, <2>1 DEF PushAcked
 <2>3. q \in RuleIds /\ st \in States /\ k.pc = "read" /\ k.op = "push" /\ (st = "Failed" => task[t].ack # "Activated")
  BY <1>1, <2>1, TaskFields DEF At, TypeInv, GoodTask, StateAfter, States, TaskPCs
 <2>4. Answering(t, q) /\ Carries("acked", 0, q)
  BY <1>1, <1>4, <2>1 DEF Answering, Pushing, At, Carries, Acked
 <2>5. task'[t] = k /\ \A u \in Tasks : u # t => task'[u] = task[u]
  BY <2>2, TaskPoint
 <2>6. \A u \in Tasks, r \in RuleIds : /\ Pushing(u, {"persist", "send"}, r)' => u # t /\ Pushing(u, {"persist", "send"}, r)
                                       /\ Answering(u, r)' => u # t /\ Answering(u, r) /\ task'[u].ack = task[u].ack
  BY <2>3, <2>5 DEF Pushing, Answering
 <2>7. ~Acked(q)' /\ \A r \in RuleIds : (Unsent(r)' => Unsent(r)) /\ (Acked(r)' => Acked(r))
  <3>1. \A u \in Tasks : u # t => ~Answering(u, q)
   BY <2>3, <2>4 DEF CarryInv, SimpleInv, TaskOnce, Carrying
  <3> QED BY <2>3, <2>6, <3>1 DEF Unsent, Acked
 <2>8. \A u \in Sessions, r \in RuleIds : /\ Pushed(u, r)' => Pushed(u, r)
                                          /\ Answered(u, r)' => Answered(u, r)
                                          /\ Replayed(u, r)' => Replayed(u, r)
                                          /\ Starting(u, r)' => Starting(u, r)
                                          /\ Reported(u, r)' => Reported(u, r)
  BY <1>1, <1>2, QuietKinds, StatusKinds, ReplayKinds, WireKinds
 <2>9. \A r \in RuleIds : Fewer(r)
  BY <2>7, <2>8, KindsFewer
 <2>10. ~Carries("acked", 0, q)'
  BY <2>7, Constants DEF Carries, Sessions
 <2>11. \A s \in Sessions, r \in RuleIds : Current(s, r)' => Current(s, r)
  BY <1>1 DEF Current
 <2>12. Decided' /\ Marked' /\ LimitsKept'
  <3>1. "acked" \in Kinds \ {"replay"} /\ 0 \in Places
   BY SomePlace DEF Kinds
  <3>2. \A s \in Sessions : pump'[s].todo = pump[s].todo
   BY <1>1
  <3> QED BY <1>1, <2>2, <2>3, <2>4, <2>9, <2>10, <2>11, <3>1, <3>2, WrittenCarry
 <2>13. HereLess /\ EventOnce'
  BY <1>2, QuietHere
 <2>14. ToldLess
  <3>1. \A r \in RuleIds : r # q => (FailedTold(r)' => FailedTold(r))
   BY <1>1, <2>2, <2>3, <2>6, MarkFacts DEF FailedTold
  <3>2. FailedTold(q)' => FailedTold(q)
   <4>1. CASE st = "Failed"
    BY <2>3, <2>4, <4>1 DEF FailedTold
   <4>2. CASE st # "Failed"
    BY <1>1, <2>2, <2>3, <2>6, <4>2, MarkFacts DEF FailedTold
   <4> QED BY <4>1, <4>2
  <3> QED BY <1>2, <3>1, <3>2, QuietTold
 <2>15. Unheard'
  BY <1>1, <1>2, QuietUnheard
 <2>16. TaskOnce'
  BY <2>6 DEF CarryInv, SimpleInv, TaskOnce, Carrying
 <2>17. OnlyPushes'
  BY <2>3, <2>5 DEF CarryInv, SimpleInv, OnlyPushes
 <2>18. PushOnce' /\ AnswerOnce' /\ ReplayOnce' /\ OldTodo'
  BY <1>1 DEF CarryInv, SimpleInv, PushOnce, AnswerOnce, ReplayOnce, Current, OldTodo
 <2>19. SimpleInv'
  BY <2>12, <2>13, <2>16, <2>17, <2>18 DEF SimpleInv
 <2>20. nextId' >= nextId /\ nextId' \in Nat
  BY <1>1, Constants DEF TypeInv, ServerTypes
 <2> QED BY <2>9, <2>12, <2>13, <2>14, <2>15, <2>19, <2>20, KeptCarry
<1> QED BY <1>3, <1>4

\* A status is taken off the wire.
LEMMA TakenStatus ==
  ASSUME TypeInv, CarryInv, NEW s \in Sessions, toServer[s] # <<>>, pump[s].pc # "done",
         toServer' = [toServer EXCEPT ![s] = Tail(@)],
         \A u \in Sessions : pump'[u].pc # "done" <=> pump[u].pc # "done"
  PROVE  /\ Head(toServer[s]) \in Status
         /\ \A u \in Sessions, r \in RuleIds : Answered(u, r)' => Answered(u, r)
         /\ \A r \in RuleIds : Told(Head(toServer[s]), r) => Answered(s, r) /\ ~Answered(s, r)'
         /\ \A u \in Sessions, r \in RuleIds : NotFailed(toServer[u], r) => NotFailed(toServer'[u], r)
         /\ Head(toServer[s]).outcome = "Failed" => ~NotFailed(toServer[s], Head(toServer[s]).rule)
         /\ AnswerOnce'
         /\ \A u \in Sessions : u # s => toServer'[u] = toServer[u]
<1>1. PICK q : q = toServer[s] /\ q \in Seq(Status) /\ q # <<>>
 BY DEF TypeInv, WireTypes
<1>2. toServer'[s] = Tail(q) /\ \A u \in Sessions : u # s => toServer'[u] = toServer[u]
 BY <1>1 DEF TypeInv, WireTypes
<1>3. Head(q) \in Status
 BY <1>1
<1>4. \A r : /\ Untold(q, r) => Untold(Tail(q), r)
             /\ OnceTold(q, r) => OnceTold(Tail(q), r)
             /\ OnceTold(q, r) /\ Told(Head(q), r) => Untold(Tail(q), r)
             /\ Untold(q, r) => ~Told(Head(q), r)
             /\ NotFailed(q, r) => NotFailed(Tail(q), r) /\ (Head(q).rule = r => Head(q).outcome # "Failed")
 BY <1>1, ToldTail
<1>5. \A u \in Sessions, r \in RuleIds : Answered(u, r)' => Answered(u, r)
 <2> SUFFICES ASSUME NEW u \in Sessions, NEW r \in RuleIds, Answered(u, r)' PROVE Answered(u, r)
  OBVIOUS
 <2>1. CASE u = s
  BY <1>1, <1>2, <1>4, <2>1 DEF Answered
 <2>2. CASE u # s
  BY <1>2, <2>2 DEF Answered
 <2> QED BY <2>1, <2>2
<1>6. \A r \in RuleIds : Told(Head(q), r) => Answered(s, r) /\ ~Answered(s, r)'
 <2>1. \A r \in RuleIds : OnceTold(q, r)
  BY <1>1 DEF CarryInv, SimpleInv, AnswerOnce
 <2> QED BY <1>1, <1>2, <1>4, <2>1 DEF Answered
<1>7. \A u \in Sessions, r \in RuleIds : NotFailed(toServer[u], r) => NotFailed(toServer'[u], r)
 BY <1>1, <1>2, <1>4
<1>8. Head(q).outcome = "Failed" => ~NotFailed(q, Head(q).rule)
 BY <1>4
<1>9. AnswerOnce'
 <2> SUFFICES ASSUME NEW u \in Sessions, NEW r \in RuleIds, pump'[u].pc # "done" PROVE OnceTold(toServer'[u], r)
  BY DEF AnswerOnce
 <2>1. OnceTold(toServer[u], r)
  BY DEF CarryInv, SimpleInv, AnswerOnce
 <2> QED BY <1>1, <1>2, <1>4, <2>1
<1> QED BY <1>1, <1>2, <1>3, <1>5, <1>6, <1>7, <1>8, <1>9

LEMMA UnsolicitedCarry ==
  ASSUME TypeInv, CarryInv, NEW s \in Sessions, StatusUnsolicited(s) PROVE CarryInv'
<1>1. /\ UNCHANGED <<link, events, fw, spawned>> /\ UNCHANGED <<task, nextId>> /\ toClient' = toClient
      /\ pump[s].pc = "serve" /\ toServer[s] # <<>> /\ toServer' = [toServer EXCEPT ![s] = Tail(@)]
 BY DEF StatusUnsolicited, PumpAt, clientVars
<1>2. QuietClient
 BY <1>1, SameClient
<1>3. PICK m : m = Head(toServer[s])
 OBVIOUS
<1>4. pump[s] \in Pump /\ pump[s].todo = {}
 BY <1>1, PumpFields DEF CarryInv, SimpleInv, ReplayOnce
<1>5. \A u \in Sessions : /\ pump'[u].todo = pump[u].todo
                          /\ pump'[u].pc # "done" <=> pump[u].pc # "done"
                          /\ \A r : Current(u, r)' <=> Current(u, r)
                          /\ pump'[u] = pump[u] \/ (u = s /\ pump'[u].pc = "serveRead")
 <2>1. CASE UNCHANGED <<mem, pump>>
  BY <2>1 DEF Current
 <2>2. CASE PumpStep(s, [pump[s] EXCEPT !.pc = "serveRead", !.rule = m.rule])
  <3>1. PICK k : k = [pump[s] EXCEPT !.pc = "serveRead", !.rule = m.rule]
   OBVIOUS
  <3>2. k.pc = "serveRead" /\ k.todo = pump[s].todo
   BY <1>4, <3>1 DEF Pump
  <3>3. pump'[s] = k /\ \A u \in Sessions : u # s => pump'[u] = pump[u]
   BY <2>2, <3>1, PumpPoint
  <3> QED BY <1>1, <3>2, <3>3 DEF Current
 <2> QED BY <1>3, <2>1, <2>2 DEF StatusUnsolicited
<1>6. /\ m \in Status
      /\ \A u \in Sessions, r \in RuleIds : Answered(u, r)' => Answered(u, r)
      /\ \A r \in RuleIds : Told(m, r) => Answered(s, r) /\ ~Answered(s, r)'
      /\ \A u \in Sessions, r \in RuleIds : NotFailed(toServer[u], r) => NotFailed(toServer'[u], r)
      /\ m.outcome = "Failed" => ~NotFailed(toServer[s], m.rule)
      /\ AnswerOnce'
      /\ \A u \in Sessions : u # s => toServer'[u] = toServer[u]
 BY <1>1, <1>3, <1>5, TakenStatus
<1>7. \A r \in RuleIds : (Unsent(r)' => Unsent(r)) /\ (Acked(r)' => Acked(r))
 BY <1>1, TaskKinds
<1>8. \A u \in Sessions, r \in RuleIds : /\ Pushed(u, r)' => Pushed(u, r)
                                         /\ Answered(u, r)' => Answered(u, r)
                                         /\ Replayed(u, r)' => Replayed(u, r)
 BY <1>1, <1>5, <1>6, WireKinds DEF Replayed
<1>9. \A u \in Sessions : pump'[u].pc \in {"hello", "list"} =>
           pump[u].pc \in {"hello", "list"} /\ toServer'[u] = toServer[u]
 BY <1>1, <1>5, <1>6
<1>10. PushOnce' /\ TaskOnce' /\ ReplayOnce' /\ OldTodo' /\ OnlyPushes'
 <2>1. ReplayOnce'
  BY <1>4, <1>5 DEF CarryInv, SimpleInv, ReplayOnce
 <2> QED BY <1>1, <1>5, <2>1 DEF CarryInv, SimpleInv, PushOnce, OldTodo, TaskOnce, OnlyPushes, Carrying, Answering, Pushing
<1>11. \A r \in RuleIds : FailedTold(r)' => \/ FailedTold(r)
                                            \/ mem'[r] # NoRule /\ mem'[r].limit = NoLimit /\ mem'[r].state = "Failed"
 BY <1>1, <1>5, <1>6 DEF FailedTold, Answering, Pushing
<1>12. CASE ~(Known(m.rule) /\ m.outcome # "Removed")
 <2>1. UNCHANGED <<mem, pump>>
  BY <1>3, <1>12 DEF StatusUnsolicited
 <2>2. FinalLess /\ LimitsKept' /\ Marked'
  BY <1>1, <2>1 DEF FinalLess, CarryInv, SimpleInv, LimitsKept, Marked, Current
 <2>3. \A r \in RuleIds : FailedTold(r)' => FailedTold(r)
  BY <1>11, <2>1 DEF FailedTold
 <2> QED BY <1>1, <1>2, <1>6, <1>7, <1>8, <1>9, <1>10, <2>2, <2>3, QuietCarry
<1>13. CASE Known(m.rule) /\ m.outcome # "Removed"
 <2>1. PICK q, st : q = m.rule /\ st = StateAfter(m.outcome)
  OBVIOUS
 <2>2. Mark(q, st) /\ q \in RuleIds /\ st \in States /\ Told(m, q) /\ (st = "Failed" => m.outcome = "Failed")
  BY <1>3, <1>6, <1>13, <2>1 DEF StatusUnsolicited, Status, StateAfter, States, Told, Outcomes
 <2>3. Carries("status", s, q) /\ ~Carries("status", s, q)' /\ "status" \in Kinds \ {"replay"} /\ s \in Places
  BY <1>6, <2>2, SomePlace DEF Carries, Kinds
 <2>4. \A r \in RuleIds : Fewer(r)
  BY <1>2, <1>7, <1>8, QuietKinds, KindsFewer
 <2>5. Decided' /\ Marked' /\ LimitsKept'
  BY <1>1, <1>5, <2>2, <2>3, <2>4, WrittenCarry
 <2>6. HereLess /\ EventOnce'
  BY <1>2, QuietHere
 <2>7. ToldLess
  <3>1. \A r \in RuleIds : r # q => (FailedTold(r)' => FailedTold(r))
   BY <1>11, <2>2, MarkFacts DEF FailedTold
  <3>2. FailedTold(q)' => FailedTold(q)
   <4>1. CASE st = "Failed"
    BY <1>1, <1>6, <2>1, <2>2, <4>1 DEF FailedTold
   <4>2. CASE st # "Failed"
    BY <1>11, <2>2, <4>2, MarkFacts
   <4> QED BY <4>1, <4>2
  <3> QED BY <1>2, <3>1, <3>2, QuietTold
 <2>8. Unheard'
  BY <1>2, <1>9, QuietUnheard
 <2>9. SimpleInv'
  BY <1>6, <1>10, <2>5, <2>6 DEF SimpleInv
 <2>10. nextId' >= nextId /\ nextId' \in Nat
  BY <1>1, Constants DEF TypeInv, ServerTypes
 <2> QED BY <2>4, <2>5, <2>6, <2>7, <2>8, <2>9, <2>10, KeptCarry
<1> QED BY <1>12, <1>13

LEMMA WaiterCarry ==
  ASSUME TypeInv, CarryInv, NEW s \in Sessions, NEW t \in Tasks, StatusToWaiter(s, t),
         task[t].rule = Head(toServer[s]).rule
  PROVE  CarryInv'
<1>1. /\ UNCHANGED <<link, events, fw, spawned>> /\ UNCHANGED <<pump, mem, nextId>> /\ toClient' = toClient
      /\ pump[s].pc = "serve" /\ toServer[s] # <<>> /\ toServer' = [toServer EXCEPT ![s] = Tail(@)]
 BY DEF StatusToWaiter, PumpAt, clientVars
<1>2. QuietClient
 BY <1>1, SameClient
<1>3. PICK m, q : m = Head(toServer[s]) /\ q = m.rule
 OBVIOUS
<1>4. PICK k : /\ k = IF task[t].pc = "wait" THEN [task[t] EXCEPT !.pc = "acked", !.ack = m.outcome]
                                             ELSE [task[t] EXCEPT !.req = 0]
               /\ Step(t, k) /\ task[t].pc \in {"wait", "expired"}
 BY <1>3 DEF StatusToWaiter, Waits
<1>5. /\ k.op = task[t].op /\ k.rule = q /\ task[t].op # "update"
      /\ task[t].pc = "wait" => k.pc = "acked" /\ k.ack = m.outcome
      /\ task[t].pc = "expired" => k.pc = "expired"
 BY <1>3, <1>4, TaskFields DEF Task, CarryInv, SimpleInv, OnlyPushes
<1>6. /\ m \in Status
      /\ \A u \in Sessions, r \in RuleIds : Answered(u, r)' => Answered(u, r)
      /\ \A r \in RuleIds : Told(m, r) => Answered(s, r) /\ ~Answered(s, r)'
      /\ \A u \in Sessions, r \in RuleIds : NotFailed(toServer[u], r) => NotFailed(toServer'[u], r)
      /\ m.outcome = "Failed" => ~NotFailed(toServer[s], m.rule)
      /\ AnswerOnce'
      /\ \A u \in Sessions : u # s => toServer'[u] = toServer[u]
 BY <1>1, <1>3, TakenStatus
<1>7. q \in RuleIds /\ m.outcome \in Outcomes
 BY <1>3, <1>6 DEF Status
<1>8. task'[t] = k /\ \A u \in Tasks : u # t => task'[u] = task[u]
 BY <1>4, TaskPoint
<1>9. \A u \in Tasks, r \in RuleIds : /\ Pushing(u, {"persist", "send"}, r)' => u # t /\ Pushing(u, {"persist", "send"}, r)
                                      /\ Answering(u, r)' => \/ u # t /\ Answering(u, r) /\ task'[u].ack = task[u].ack
                                                             \/ /\ u = t /\ r = q /\ Told(m, q)
                                                                /\ task'[u].ack = m.outcome
 BY <1>3, <1>4, <1>5, <1>7, <1>8, ZenonT(60) DEF Pushing, Answering, Told, Outcomes
<1>10. \A u \in Sessions, r \in RuleIds : /\ Pushed(u, r)' => Pushed(u, r)
                                          /\ Answered(u, r)' => Answered(u, r)
                                          /\ Replayed(u, r)' => Replayed(u, r)
 BY <1>1, <1>6, WireKinds, ReplayKinds
<1>11. \A u \in Sessions : pump'[u].pc \in {"hello", "list"} =>
           pump[u].pc \in {"hello", "list"} /\ toServer'[u] = toServer[u]
 BY <1>1, <1>6
<1>12. \A r \in RuleIds : FailedTold(r)' => FailedTold(r)
 <2> SUFFICES ASSUME NEW r \in RuleIds, FailedTold(r)' PROVE FailedTold(r)
  OBVIOUS
 <2>1. CASE \E u \in Tasks : Answering(u, r)' /\ task'[u].ack # "Activated"
  <3>1. PICK u \in Tasks : Answering(u, r)' /\ task'[u].ack # "Activated"
   BY <2>1
  <3>2. CASE u # t /\ Answering(u, r) /\ task'[u].ack = task[u].ack
   BY <3>1, <3>2 DEF FailedTold
  <3>3. CASE u = t /\ r = q /\ Told(m, q) /\ task'[u].ack = m.outcome
   <4>1. m.outcome = "Failed"
    BY <3>1, <3>3 DEF Told
   <4> QED BY <1>1, <1>3, <1>6, <3>3, <4>1 DEF FailedTold
  <3> QED BY <1>9, <3>1, <3>2, <3>3
 <2>2. CASE ~\E u \in Tasks : Answering(u, r)' /\ task'[u].ack # "Activated"
  BY <1>1, <1>6, <2>2 DEF FailedTold
 <2> QED BY <2>1, <2>2
<1>13. PushOnce' /\ ReplayOnce' /\ LimitsKept' /\ OldTodo' /\ Marked' /\ FinalLess
 BY <1>1 DEF CarryInv, SimpleInv, PushOnce, ReplayOnce, Current, LimitsKept, OldTodo, Marked,
  FinalLess
<1>14. OnlyPushes'
 BY <1>5, <1>8 DEF CarryInv, SimpleInv, OnlyPushes
<1>15. CASE ~Told(m, q)
 <2>1. \A r \in RuleIds : (Unsent(r)' => Unsent(r)) /\ (Acked(r)' => Acked(r))
  BY <1>9, <1>15 DEF Unsent, Acked
 <2>2. TaskOnce'
  BY <1>9, <1>15 DEF CarryInv, SimpleInv, TaskOnce, Carrying
 <2> QED BY <1>1, <1>2, <1>6, <1>10, <1>11, <1>12, <1>13, <1>14, <2>1, <2>2, QuietCarry
<1>16. CASE Told(m, q)
 <2>1. Carries("status", s, q) /\ ~Carries("status", s, q)'
  BY <1>6, <1>7, <1>16 DEF Carries
 <2>2. "status" \in Kinds /\ "status" \notin Early /\ "acked" \notin Early /\ s \in Places /\ "status" \in Kinds \ {"replay"}
  BY SomePlace DEF Kinds, Early
 <2>3. ~Carries("unsent", 0, q) /\ ~Carries("acked", 0, q)
  BY <1>7, <2>1, <2>2, SomePlace, Only DEF Kinds
 <2>4. ~Unsent(q) /\ ~Acked(q)
  BY <2>3 DEF Carries
 <2>5. TaskOnce'
  <3>1. \A u \in Tasks : ~Carrying(u, q)
   BY <2>4 DEF Carrying, Unsent, Acked
  <3>2. \A u \in Tasks, r \in RuleIds : Carrying(u, r)' => Carrying(u, r) \/ (u = t /\ r = q)
   BY <1>9 DEF Carrying
  <3> QED BY <3>1, <3>2 DEF CarryInv, SimpleInv, TaskOnce
 <2>6. \A r \in RuleIds : (Unsent(r)' => Unsent(r)) /\ (Acked(r)' => Acked(r) \/ r = q)
  BY <1>9 DEF Unsent, Acked
 <2>7. \A u \in Sessions, r \in RuleIds : (Starting(u, r)' => Starting(u, r)) /\ (Reported(u, r)' => Reported(u, r))
  BY <1>2, QuietKinds
 <2>8. \A r \in RuleIds \ {q} : Fewer(r)
  BY <1>10, <2>6, <2>7, KindsFewer
 <2>9. Moves(q, "status", s, "acked", 0)
  <3>1. \A c \in Kinds, u \in Places : Carries(c, u, q)' => Carries(c, u, q) \/ (c = "acked" /\ u = 0)
   BY <1>7, <1>10, <2>6, <2>7 DEF Carries
  <3> QED BY <2>1, <3>1 DEF Moves
 <2>10. ~Final(mem[q])
  BY <1>7, <2>1, <2>2, Open
 <2>11. HereLess /\ EventOnce'
  BY <1>2, QuietHere
 <2>12. ToldLess
  BY <1>2, <1>12, QuietTold
 <2>13. Unheard'
  BY <1>2, <1>11, QuietUnheard
 <2>14. SimpleInv'
  BY <1>6, <1>13, <1>14, <2>5, <2>11 DEF SimpleInv
 <2> QED BY <1>1, <1>7, <1>13, <2>2, <2>8, <2>9, <2>10, <2>11, <2>12, <2>13, <2>14, MovedCarry
<1> QED BY <1>15, <1>16

----
(* Replay *)

LEMMA ListCarry ==
  ASSUME TypeInv, StoreInv, SessInv, CarryInv, NEW s \in Sessions, ReplayList(s) PROVE CarryInv'
<1>1. /\ UNCHANGED <<link, events, fw, spawned>> /\ UNCHANGED <<task, toServer, toClient, mem, nextId>>
      /\ pump[s].pc = "list"
 BY DEF ReplayList, PumpAt, wireVars, clientVars
<1>2. QuietClient
 BY <1>1, SameClient
<1>3. PICK todo : todo = {[rule |-> r, limit |-> mem[r].limit] : r \in {x \in RuleIds : Known(x) /\ mem[x].state = "Active"}}
 OBVIOUS
<1>4. PICK k : k = [pump[s] EXCEPT !.pc = "replay", !.capable = caps, !.todo = todo] /\ PumpStep(s, k)
 BY <1>3 DEF ReplayList
<1>5. k.pc = "replay" /\ k.todo = todo
 BY <1>4, PumpFields DEF Pump
<1>6. pump'[s] = k /\ \A u \in Sessions : u # s => pump'[u] = pump[u]
 BY <1>4, PumpPoint
<1>7. /\ \A e \in todo : e.rule \in RuleIds /\ mem[e.rule] # NoRule /\ mem[e.rule].state = "Active" /\ e.limit = mem[e.rule].limit
      /\ \A e, g \in todo : e.rule = g.rule => e = g
 BY <1>3 DEF Known
<1>8. \A u \in Sessions, r \in RuleIds : Replayed(u, r)' => Replayed(u, r) \/ (u = s /\ link[s] = "up" /\ Final(mem[r]) /\ mem[r] # NoRule)
 BY <1>1, <1>5, <1>6, <1>7 DEF Replayed, Current, Final
<1>9. \A u \in Sessions, r \in RuleIds : Answered(u, r)' => Answered(u, r)
 BY <1>1, <1>5, <1>6 DEF Answered
<1>10. \A c \in Kinds, u \in Places, r \in RuleIds : Carries(c, u, r)' =>
           Carries(c, u, r) \/ (c = "replay" /\ u = s /\ link[s] = "up" /\ Final(mem[r]) /\ mem[r] # NoRule)
 <2>1. \A r \in RuleIds : (Unsent(r)' <=> Unsent(r)) /\ (Acked(r)' <=> Acked(r))
  BY <1>1, TaskKinds
 <2>2. \A u \in Sessions, r \in RuleIds : /\ Pushed(u, r)' => Pushed(u, r)
                                          /\ Starting(u, r)' => Starting(u, r)
                                          /\ Reported(u, r)' => Reported(u, r)
  BY <1>1, <1>2, QuietKinds, WireKinds
 <2> QED BY <1>8, <1>9, <2>1, <2>2 DEF Carries
<1>11. \A u \in Sessions : link[s] = "up" /\ link[u] = "up" => u = s
 BY DEF SessInv, SessionOK
<1>12. \A c \in Kinds, u \in Places, r \in RuleIds : Final(mem[r]) /\ link[s] = "up" /\ Carries(c, u, r) => c = "replay" /\ u = s
 <2> SUFFICES ASSUME NEW c \in Kinds, NEW u \in Places, NEW r \in RuleIds, Final(mem[r]), link[s] = "up", Carries(c, u, r)
              PROVE  c = "replay" /\ u = s
  OBVIOUS
 <2>1. c = "replay"
  BY DEF CarryInv, Decided, Carried
 <2> QED BY <1>11, <2>1 DEF Carries, Replayed
<1>13. OneCarrier'
 <2> SUFFICES ASSUME NEW r \in RuleIds, NEW c \in Kinds, NEW d \in Kinds, NEW u \in Places, NEW v \in Places,
                     Carries(c, u, r)', Carries(d, v, r)'
              PROVE  c = d /\ u = v
  BY DEF OneCarrier
 <2>1. CASE Final(mem[r]) /\ link[s] = "up"
  BY <1>10, <1>12, <2>1
 <2>2. CASE ~(Final(mem[r]) /\ link[s] = "up")
  BY <1>10, <2>2 DEF CarryInv, OneCarrier
 <2> QED BY <2>1, <2>2
<1>14. Decided'
 BY <1>1, <1>10 DEF CarryInv, Decided, Carried
<1>15. HereLess /\ EventOnce'
 BY <1>2, QuietHere
<1>16. SpawnedOnce'
 <2> SUFFICES ASSUME NEW r \in RuleIds, Here(r), NEW c \in Early, NEW u \in Places, Carries(c, u, r)'
              PROVE  FALSE
  BY <1>15 DEF SpawnedOnce, HereLess, Carried
 <2>1. link[s] = "up" /\ Final(mem[r])
  <3>1. ~Carries(c, u, r) /\ c \in Kinds
   BY DEF CarryInv, SpawnedOnce, Carried, Early, Kinds
  <3> QED BY <1>10, <3>1
 <2>2. SpawnedIn(s, r)
  BY <1>11, <2>1 DEF Here
 <2>3. Heard(s, r)
  BY <1>1, <2>1, <2>2 DEF CarryInv, Unheard
 <2>4. \E d \in {"starting", "event", "status"} : Carries(d, s, r)
  BY <2>3 DEF Heard, Carries
 <2> QED BY <2>1, <2>4, SomePlace DEF CarryInv, Decided, Carried, Kinds
<1>17. BoundTold'
 <2>1. \A r \in RuleIds : FailedTold(r)' => FailedTold(r)
  BY <1>1, <1>5, <1>6 DEF FailedTold, Answering, Pushing
 <2>2. ToldLess
  BY <1>2, <2>1, QuietTold
 <2> QED BY <1>15, <2>2 DEF CarryInv, BoundTold, HereLess, ToldLess
<1>18. Unheard'
 BY <1>1, <1>2, <1>5, <1>6, QuietUnheard
<1> USE DEF CarryInv
<1>19. OldIds' /\ OldTodo'
 <2>1. \A r \in RuleIds : mem[r] # NoRule => r < nextId
  BY Constants DEF StoreInv, FreshIds, TypeInv, ServerTypes, RuleIds
 <2>2. \A r \in RuleIds : r >= nextId => ~(mem[r] # NoRule)
  BY DEF StoreInv, FreshIds
 <2>3. OldIds'
  BY <1>1, <1>10, <1>15, <2>2 DEF OldIds, HereLess, Carried
 <2>4. OldTodo'
  BY <1>1, <1>5, <1>6, <1>7, <2>1 DEF SimpleInv, OldTodo
 <2> QED BY <2>3, <2>4
<1> USE <1>5, <1>6
<1>20. Marked'
 BY <1>1 DEF Marked, Current
<1> USE DEF SimpleInv
<1>21. PushOnce' /\ AnswerOnce' /\ TaskOnce' /\ OnlyPushes'
 BY <1>1 DEF PushOnce, AnswerOnce, TaskOnce, OnlyPushes, Carrying, Answering, Pushing
<1>22. ReplayOnce'
 BY <1>7 DEF ReplayOnce, Current
<1>23. LimitsKept'
 BY <1>1, <1>7 DEF LimitsKept
<1> QED BY <1>13, <1>14, <1>15, <1>16, <1>17, <1>18, <1>19, <1>20, <1>21, <1>22, <1>23

LEMMA ReplaySendCarry ==
  ASSUME TypeInv, CarryInv, NEW s \in Sessions, ReplayWrite(s), toClient' # toClient PROVE CarryInv'
<1>1. /\ UNCHANGED <<link, events, fw, spawned>> /\ UNCHANGED <<task, toServer, mem, nextId>>
      /\ pump[s].pc = "replayWrite"
 BY DEF ReplayWrite, PumpAt, clientVars
<1>2. QuietClient
 BY <1>1, SameClient
<1>3. PICK m, q : /\ m = [action |-> "PUSH", rule |-> pump[s].rule, req |-> 0,
                          port |-> pump[s].snap.port, limit |-> pump[s].snap.limit]
                  /\ q = pump[s].rule
 OBVIOUS
<1>4. PICK k : k = [pump[s] EXCEPT !.pc = "replay", !.snap = NoRule]
 OBVIOUS
<1>5. Send(s, m) /\ PumpStep(s, k) /\ pump[s].mark = "Pending" /\ link[s] = "up"
 <2>1. Send(s, m) /\ PumpStep(s, k) /\ pump[s].mark = "Pending"
  BY <1>3, <1>4 DEF ReplayWrite
 <2> QED BY <2>1 DEF Send, SendReaches
<1>6. k.pc = "replay" /\ k.todo = pump[s].todo
 BY <1>4, PumpFields DEF Pump
<1>7. q \in RuleIds /\ pump[s].snap \in Rule
 BY <1>1, <1>3 DEF TypeInv, GoodPump
<1>8. m \in Update /\ \A r : IsPush(m, r) <=> r = q
 BY <1>3, <1>7, Constants DEF Update, Rule, Requests, IsPush
<1>9. Current(s, q) /\ Carries("replay", s, q)
 BY <1>1, <1>3, <1>5 DEF Current, Carries, Replayed
<1>10. \A u \in Sessions : ~Pushed(u, q)
 <2>1. \A u \in Sessions : ~Carries("push", u, q)
  BY <1>7, <1>9, SomePlace, Only DEF Kinds
 <2> QED BY <2>1 DEF Carries
<1>11. \A r \in RuleIds : /\ \A u \in Sessions : Pushed(u, r)' => Pushed(u, r) \/ (u = s /\ r = q)
                          /\ \A u \in Sessions : OncePush(toClient'[u], r)
 BY <1>5, <1>8, <1>10, SendMany
<1>12. pump'[s] = k /\ \A u \in Sessions : u # s => pump'[u] = pump[u]
 BY <1>5, PumpPoint
<1>13. \A u \in Sessions : /\ pump'[u].todo = pump[u].todo
                           /\ \A r \in RuleIds : Current(u, r)' => Current(u, r) /\ u # s
 BY <1>6, <1>12 DEF Current
<1>14. \A u \in Sessions, r \in RuleIds : /\ Answered(u, r)' => Answered(u, r)
                                          /\ Replayed(u, r)' => Replayed(u, r)
                                          /\ Starting(u, r)' => Starting(u, r)
                                          /\ Reported(u, r)' => Reported(u, r)
 <2>1. \A u \in Sessions, r \in RuleIds : Answered(u, r)' => Answered(u, r)
  BY <1>1, <1>6, <1>12 DEF Answered
 <2>2. \A u \in Sessions, r \in RuleIds : Replayed(u, r)' => Replayed(u, r)
  BY <1>1, <1>13 DEF Replayed
 <2> QED BY <1>2, <2>1, <2>2, QuietKinds
<1>15. \A r \in RuleIds : (Unsent(r)' => Unsent(r)) /\ (Acked(r)' => Acked(r))
 BY <1>1, TaskKinds
<1>16. \A r \in RuleIds \ {q} : Fewer(r)
 BY <1>11, <1>14, <1>15, KindsFewer
<1>17. Moves(q, "replay", s, "push", s)
 <2>1. \A e \in pump[s].todo : e.rule # q
  BY <1>7, <1>9 DEF CarryInv, SimpleInv, ReplayOnce
 <2>2. ~Replayed(s, q)'
  BY <1>6, <1>7, <1>12, <1>13, <2>1 DEF Replayed
 <2>3. ~Carries("replay", s, q)'
  BY <2>2 DEF Carries
 <2>4. \A c \in Kinds, u \in Places : Carries(c, u, q)' => Carries(c, u, q) \/ (c = "push" /\ u = s)
  BY <1>7, <1>11, <1>14, <1>15 DEF Carries
 <2> QED BY <1>9, <2>3, <2>4 DEF Moves
<1>18. ~Final(mem[q]) /\ FinalLess
 BY <1>1, <1>5, <1>7, <1>9 DEF CarryInv, Marked, FinalLess
<1>19. Marked'
 BY <1>1, <1>13 DEF CarryInv, Marked
<1>20. HereLess /\ EventOnce'
 BY <1>2, QuietHere
<1>21. ToldLess
 <2>1. \A r \in RuleIds : FailedTold(r)' => FailedTold(r)
  BY <1>1, <1>6, <1>12 DEF FailedTold, Answering, Pushing
 <2> QED BY <1>2, <2>1, QuietTold
<1>22. Unheard'
 BY <1>1, <1>2, <1>6, <1>12, QuietUnheard
<1>23. PushOnce' /\ AnswerOnce' /\ TaskOnce' /\ OnlyPushes'
 <2>1. PushOnce'
  BY <1>11 DEF PushOnce
 <2> QED BY <1>1, <1>6, <1>12, <2>1 DEF CarryInv, SimpleInv, AnswerOnce, TaskOnce, OnlyPushes, Carrying, Answering, Pushing
<1>24. ReplayOnce'
 BY <1>6, <1>12, <1>13 DEF CarryInv, SimpleInv, ReplayOnce
<1>25. LimitsKept' /\ OldTodo'
 BY <1>1, <1>13 DEF CarryInv, SimpleInv, LimitsKept, OldTodo
<1>26. SimpleInv'
 BY <1>20, <1>23, <1>24, <1>25 DEF SimpleInv
<1>27. "replay" \in Kinds /\ "replay" \in Early /\ s \in Places
 BY SomePlace DEF Kinds, Early
<1> QED BY <1>1, <1>7, <1>16, <1>17, <1>18, <1>19, <1>20, <1>21, <1>22, <1>26, <1>27, MovedCarry

----
(* Quiet steps of the client *)

LEMMA ClientQuiet ==
  ASSUME TypeInv, CarryInv, QuietClient, UNCHANGED <<mem, nextId, task, pump, toServer>>,
         \A s \in Sessions, r \in RuleIds : Pushed(s, r)' => Pushed(s, r), PushOnce'
  PROVE  CarryInv'
<1>1. \A r \in RuleIds : (Unsent(r)' => Unsent(r)) /\ (Acked(r)' => Acked(r))
 BY TaskKinds
<1>2. \A s \in Sessions, r \in RuleIds : /\ Answered(s, r)' => Answered(s, r)
                                         /\ Replayed(s, r)' => Replayed(s, r)
 BY DEF Answered, Replayed, Current, QuietClient
<1>3. FinalLess /\ Marked' /\ \A r \in RuleIds : FailedTold(r)' => FailedTold(r)
 BY DEF FinalLess, Marked, CarryInv, FailedTold, Answering, Pushing, Current, QuietClient
<1>4. AnswerOnce' /\ TaskOnce' /\ ReplayOnce' /\ LimitsKept' /\ OldTodo' /\ OnlyPushes'
 BY DEF CarryInv, SimpleInv, AnswerOnce, TaskOnce, ReplayOnce, LimitsKept, OldTodo, OnlyPushes,
  Current, Carrying, Answering, Pushing
<1>5. \A s \in Sessions : pump'[s].pc \in {"hello", "list"} =>
           pump[s].pc \in {"hello", "list"} /\ toServer'[s] = toServer[s]
 OBVIOUS
<1> QED BY <1>1, <1>2, <1>3, <1>4, <1>5, QuietCarry

\* A message is taken off the wire.
LEMMA TakenPush ==
  ASSUME TypeInv, CarryInv, NEW s \in Sessions, toClient[s] # <<>>, Received(s)
  PROVE  /\ \A u \in Sessions, r \in RuleIds : Pushed(u, r)' => Pushed(u, r)
         /\ PushOnce'
         /\ \A r \in RuleIds : IsPush(Head(toClient[s]), r) => Pushed(s, r) /\ ~Pushed(s, r)'
<1>1. PICK q : q = toClient[s] /\ q \in Seq(Update \cup {Welcome}) /\ q # <<>>
 BY DEF TypeInv, WireTypes
<1>2. toClient'[s] = Tail(q) /\ \A u \in Sessions : u # s => toClient'[u] = toClient[u]
 BY <1>1 DEF Received, TypeInv, WireTypes
<1>3. \A r : /\ NoPush(q, r) => NoPush(Tail(q), r)
             /\ OncePush(q, r) => OncePush(Tail(q), r)
             /\ OncePush(q, r) /\ IsPush(Head(q), r) => NoPush(Tail(q), r)
             /\ NoPush(q, r) => ~IsPush(Head(q), r)
 BY <1>1, PushTail
<1>4. \A u \in Sessions, r \in RuleIds : OncePush(toClient[u], r)
 BY DEF CarryInv, SimpleInv, PushOnce
<1>5. \A u \in Sessions, r \in RuleIds : Pushed(u, r)' => Pushed(u, r)
 <2> SUFFICES ASSUME NEW u \in Sessions, NEW r \in RuleIds, Pushed(u, r)' PROVE Pushed(u, r)
  OBVIOUS
 <2>1. CASE u = s
  BY <1>1, <1>2, <1>3, <2>1 DEF Pushed
 <2>2. CASE u # s
  BY <1>2, <2>2 DEF Pushed
 <2> QED BY <2>1, <2>2
<1>6. PushOnce'
 BY <1>1, <1>2, <1>3, <1>4 DEF PushOnce
<1>7. \A r \in RuleIds : IsPush(Head(q), r) => Pushed(s, r) /\ ~Pushed(s, r)'
 BY <1>1, <1>2, <1>3, <1>4 DEF Pushed
<1> QED BY <1>1, <1>5, <1>6, <1>7

LEMMA RemovedTold ==
  ASSUME TypeInv, NEW e \in Event, e.outcome = "Removed", events' = events \/ events' = Append(events, e)
  PROVE  \A r \in RuleIds : /\ Untold(events, r)' = Untold(events, r)
                            /\ OnceTold(events, r) => OnceTold(events, r)'
                            /\ NotFailed(events, r) => NotFailed(events, r)'
<1>1. PICK q : q = events /\ q \in Seq(Event)
 BY SpawnTypes
<1>2. \A r : ~Told(e, r)
 BY DEF Told
<1>3. \A r : /\ Untold(Append(q, e), r) <=> Untold(q, r) /\ ~Told(e, r)
             /\ OnceTold(q, r) /\ (Untold(q, r) \/ ~Told(e, r)) => OnceTold(Append(q, e), r)
             /\ NotFailed(q, r) /\ (e.rule = r => e.outcome # "Failed") => NotFailed(Append(q, e), r)
 BY <1>1, ToldAppend
<1>4. \A r \in RuleIds : Untold(Append(q, e), r) = Untold(q, r)
 BY <1>2, <1>3 DEF Untold
<1>5. CASE events' = events
 BY <1>5
<1>6. CASE events' = Append(events, e)
 <2>1. \A r \in RuleIds : Untold(events, r)' = Untold(Append(q, e), r)
  BY <1>1, <1>6
 <2>2. \A r \in RuleIds : (OnceTold(events, r)' <=> OnceTold(Append(q, e), r)) /\ (NotFailed(events, r)' <=> NotFailed(Append(q, e), r))
  BY <1>1, <1>6
 <2> QED BY <1>1, <1>2, <1>3, <1>4, <2>1, <2>2
<1> QED BY <1>5, <1>6

LEMMA WelcomedCarry ==
  ASSUME TypeInv, CarryInv, NEW s \in Sessions, JoinWelcomed(s) PROVE CarryInv'
<1>1. UNCHANGED <<link, events, fw, spawned>> /\ UNCHANGED <<mem, nextId, task, pump, toServer>> /\ toClient[s] # <<>> /\ Received(s)
 BY DEF JoinWelcomed, Incoming
<1> QED BY <1>1, SameClient, TakenPush, ClientQuiet

LEMMA LeaveCarry ==
  ASSUME TypeInv, SpawnInv, CarryInv, Leave PROVE CarryInv'
<1>1. UNCHANGED <<link, events, spawned>> /\ UNCHANGED <<mem, nextId, task, pump, toServer>> /\ toClient' = toClient
 BY DEF Leave, wireVars
<1>2. Spawned' = Spawned /\ \A f \in Spawned : f \in Spawns
 BY <1>1, SpawnTypes DEF Spawned
<1>3. \A f \in Spawns : fw'[f].phase = fw[f].phase /\ fw'[f].rule = fw[f].rule /\ fw'[f].session = fw[f].session
 BY LeaveSpawn
<1>4. QuietClient
 BY <1>1, <1>2, <1>3 DEF QuietClient
<1> QED BY <1>1, <1>4, SentNothing, ClientQuiet

LEMMA StopCarry ==
  ASSUME TypeInv, SpawnInv, CarryInv, NEW f \in Spawns, StopListening(f) \/ Drained(f)
  PROVE  CarryInv'
<1>1. /\ link' = link /\ UNCHANGED <<mem, nextId, task, pump, toServer>> /\ toClient' = toClient /\ spawned' = spawned
 BY DEF StopListening, Drained, wireVars
<1>2. fw[f] \in ForwarderTask /\ fw \in [Spawns -> ForwarderTask] /\ Spawned' = Spawned /\ Spawned \subseteq Spawns
 BY <1>1, SpawnTypes DEF Spawned
<1>3. PICK p \in {"draining", "closed"} : fw' = [fw EXCEPT ![f].phase = p]
 BY DEF StopListening, Drained
<1>4. fw[f].phase \in {"bound", "draining"}
 BY DEF StopListening, Drained, Listening
<1>5. fw'[f].phase = p /\ fw'[f].rule = fw[f].rule /\ fw'[f].session = fw[f].session /\ \A g \in Spawns : g # f => fw'[g] = fw[g]
 BY <1>2, <1>3 DEF ForwarderTask
<1>6. fw[f].rule \in RuleIds
 BY <1>4, SpawnTypes
<1>7. PICK e : e = [rule |-> fw[f].rule, outcome |-> "Removed"] /\ e \in Event /\ e.outcome = "Removed"
 <2>1. PICK e : e = [rule |-> fw[f].rule, outcome |-> "Removed"]
  OBVIOUS
 <2>2. e \in Event /\ e.outcome = "Removed"
  BY <1>6, <2>1 DEF Event, Outcomes
 <2> QED BY <2>1, <2>2
<1>8. events' = events \/ events' = Append(events, e)
 <2>1. CASE StopListening(f)
  BY <2>1 DEF StopListening
 <2>2. CASE Drained(f)
  <3>1. Report(f, "Removed")
   BY <2>2 DEF Drained
  <3>2. events' = IF PumpAlive(f) THEN Append(events, e) ELSE events
   BY <1>7, <3>1 DEF Report
  <3> QED BY <3>2
 <2> QED BY <2>1, <2>2
<1>9. \A r \in RuleIds : /\ Untold(events, r)' = Untold(events, r)
                         /\ OnceTold(events, r) => OnceTold(events, r)'
                         /\ NotFailed(events, r) => NotFailed(events, r)'
 BY <1>7, <1>8, RemovedTold
<1>10. \A g \in Spawned : /\ fw'[g].rule = fw[g].rule /\ fw'[g].session = fw[g].session
                          /\ (fw'[g].phase = "binding") = (fw[g].phase = "binding")
                          /\ (fw'[g].phase \in {"bound", "draining", "closed"}) = (fw[g].phase \in {"bound", "draining", "closed"})
 <2> SUFFICES ASSUME NEW g \in Spawned
              PROVE  /\ fw'[g].rule = fw[g].rule /\ fw'[g].session = fw[g].session
                     /\ (fw'[g].phase = "binding") = (fw[g].phase = "binding")
                     /\ (fw'[g].phase \in {"bound", "draining", "closed"}) = (fw[g].phase \in {"bound", "draining", "closed"})
  OBVIOUS
 <2>1. CASE g = f
  BY <1>3, <1>4, <1>5, <2>1
 <2>2. CASE g # f
  BY <1>2, <1>5, <2>2
 <2> QED BY <2>1, <2>2
<1>11. QuietClient
 BY <1>1, <1>2, <1>9, <1>10 DEF QuietClient
<1> QED BY <1>1, <1>11, SentNothing, ClientQuiet

LEMMA RemoveCarry ==
  ASSUME TypeInv, SpawnInv, CarryInv, NEW s \in Sessions, ReceiveRemove(s) PROVE CarryInv'
<1>1. /\ link' = link /\ UNCHANGED <<mem, nextId, task, pump, toServer>> /\ spawned' = spawned
      /\ Incoming(s) /\ Received(s) /\ toClient[s] # <<>>
 BY DEF ReceiveRemove, Handling, Incoming
<1>2. PICK m : m = Head(toClient[s])
 OBVIOUS
<1>3. m.rule \in RuleIds
 <2>1. Incoming(s) /\ WireTypes /\ m.action = "REMOVE"
  BY <1>2 DEF ReceiveRemove, Handling, TypeInv
 <2> QED BY <1>2, <2>1, IncomingType DEF Update
<1>4. PICK e : e = [rule |-> m.rule, outcome |-> "Removed"] /\ e \in Event /\ e.outcome = "Removed"
 <2>1. PICK e : e = [rule |-> m.rule, outcome |-> "Removed"]
  OBVIOUS
 <2>2. e \in Event /\ e.outcome = "Removed"
  BY <1>3, <2>1 DEF Event, Outcomes
 <2> QED BY <2>1, <2>2
<1>5. events' = events \/ events' = Append(events, e)
 <2>1. CASE slots[m.rule] = NoSlot
  BY <1>2, <2>1 DEF ReceiveRemove
 <2>2. CASE slots[m.rule] # NoSlot
  <3>1. TryEvent(e)
   BY <1>2, <1>4, <2>2 DEF ReceiveRemove
  <3> QED BY <3>1 DEF TryEvent
 <2> QED BY <2>1, <2>2
<1>6. \A r \in RuleIds : /\ Untold(events, r)' = Untold(events, r)
                         /\ OnceTold(events, r) => OnceTold(events, r)'
                         /\ NotFailed(events, r) => NotFailed(events, r)'
 BY <1>4, <1>5, RemovedTold
<1>7. fw \in [Spawns -> ForwarderTask] /\ Spawned' = Spawned /\ Spawned \subseteq Spawns
 BY <1>1, SpawnTypes DEF Spawned
<1>8. \A g \in Spawns : fw'[g].phase = fw[g].phase /\ fw'[g].rule = fw[g].rule /\ fw'[g].session = fw[g].session
 <2>1. CASE fw' = fw
  BY <2>1
 <2>2. CASE Cancel(slots[m.rule].fw)
  <3>1. PICK f : fw' = [fw EXCEPT ![f].cancelled = TRUE]
   BY <2>2 DEF Cancel
  <3>2. \A g \in Spawns : fw'[g] = fw[g] \/ fw'[g] = [fw[g] EXCEPT !.cancelled = TRUE]
   BY <1>7, <3>1
  <3>3. \A g \in Spawns : fw[g] \in ForwarderTask
   BY <1>7
  <3> QED BY <3>2, <3>3, ZenonT(60) DEF ForwarderTask
 <2> QED BY <1>2, <2>1, <2>2 DEF ReceiveRemove
<1>9. QuietClient
 BY <1>1, <1>6, <1>7, <1>8 DEF QuietClient
<1> QED BY <1>1, <1>9, TakenPush, ClientQuiet

----
(* Steps of the client that take a rule on *)

\* What a step that touches only the client's side leaves alone.
LEMMA ServerSame ==
  ASSUME CarryInv, UNCHANGED <<mem, nextId, task, pump, link>>
  PROVE  /\ \A r \in RuleIds : (Unsent(r)' => Unsent(r)) /\ (Acked(r)' => Acked(r))
         /\ \A s \in Sessions, r \in RuleIds : Replayed(s, r)' => Replayed(s, r)
         /\ FinalLess /\ Marked' /\ TaskOnce' /\ ReplayOnce' /\ LimitsKept' /\ OldTodo' /\ OnlyPushes'
<1>1. \A r \in RuleIds : (Unsent(r)' => Unsent(r)) /\ (Acked(r)' => Acked(r))
 BY TaskKinds
<1>2. \A s \in Sessions, r \in RuleIds : Replayed(s, r)' => Replayed(s, r)
 BY DEF Replayed, Current
<1>3. FinalLess /\ Marked'
 BY DEF FinalLess, Marked, CarryInv, Current
<1>4. TaskOnce' /\ ReplayOnce' /\ LimitsKept' /\ OldTodo' /\ OnlyPushes'
 BY DEF CarryInv, SimpleInv, TaskOnce, ReplayOnce, LimitsKept, OldTodo, OnlyPushes, Current,
  Carrying, Answering, Pushing
<1> QED BY <1>1, <1>2, <1>3, <1>4

LEMMA PushFacts ==
  ASSUME TypeInv, SessInv, CarryInv, NEW s \in Sessions, Handling(s, "PUSH")
  PROVE  /\ Head(toClient[s]) \in Update /\ Head(toClient[s]).rule \in RuleIds
         /\ link[s] = "up" /\ Carries("push", s, Head(toClient[s]).rule)
         /\ Unspawned(s, Head(toClient[s]).rule)
<1>1. PICK m, q : m = Head(toClient[s]) /\ q = m.rule
 OBVIOUS
<1>2. m \in Update /\ q \in RuleIds /\ IsPush(m, q)
 <2>1. Incoming(s) /\ WireTypes /\ m.action = "PUSH"
  BY <1>1 DEF Handling, TypeInv
 <2> QED BY <1>1, <2>1, IncomingType DEF Update, IsPush
<1>3. toClient[s] # <<>> /\ Received(s) /\ link[s] = "up"
 BY DEF Handling, Incoming, SessInv, SessionOK
<1>4. Carries("push", s, q)
 <2>1. Pushed(s, q)
  BY <1>1, <1>2, <1>3, TakenPush
 <2> QED BY <2>1 DEF Carries
<1>5. ~Here(q)
 BY <1>2, <1>4, SomePlace DEF CarryInv, SpawnedOnce, Carried, Early
<1>6. Unspawned(s, q)
 BY <1>3, <1>5 DEF Here, SpawnedIn, Unspawned
<1> QED BY <1>1, <1>2, <1>3, <1>4, <1>6

LEMMA PushCarry ==
  ASSUME TypeInv, SessInv, SpawnInv, CarryInv, NEW s \in Sessions, ReceivePush(s) PROVE CarryInv'
<1>1. /\ UNCHANGED <<mem, nextId, task, pump, link>> /\ toServer' = toServer /\ events' = events
      /\ Incoming(s) /\ Received(s) /\ toClient[s] # <<>> /\ Handling(s, "PUSH")
 BY DEF ReceivePush, Handling, Incoming
<1>2. PICK m, q, n : m = Head(toClient[s]) /\ q = m.rule /\ n = spawned + 1
 OBVIOUS
<1>3. q \in RuleIds /\ link[s] = "up" /\ Carries("push", s, q) /\ Unspawned(s, q) /\ IsPush(m, q)
 <2>1. IsPush(m, q)
  BY <1>1, <1>2 DEF Handling, IsPush
 <2> QED BY <1>1, <1>2, <2>1, PushFacts
<1>4. spawned \in 0 .. MaxSpawns /\ n \in Spawns /\ n \notin Spawned /\ Spawned' = Spawned \cup {n} /\ Spawned \subseteq Spawns
 <2>1. spawned < MaxSpawns /\ spawned' = n
  BY <1>2 DEF ReceivePush
 <2> QED BY <1>2, <2>1, SpawnTypes, Constants DEF Spawns, Spawned
<1>5. /\ fw'[n].phase = "binding" /\ fw'[n].rule = q /\ fw'[n].session = s
      /\ \A g \in Spawned : fw'[g] = fw[g]
 <2>1. fw' = [fw EXCEPT ![n] = [phase |-> "binding", rule |-> m.rule, port |-> m.port,
                 cancelled |-> FALSE, session |-> s]]
  BY <1>2 DEF ReceivePush
 <2> QED BY <1>2, <1>4, <2>1, SpawnTypes
<1>6. \A u \in Sessions, r \in RuleIds :
          /\ SpawnedIn(u, r)' => SpawnedIn(u, r) \/ (u = s /\ r = q)
          /\ BoundIn(u, r)' => BoundIn(u, r)
          /\ Starting(u, r)' => Starting(u, r) \/ (u = s /\ r = q)
          /\ Starting(u, r) => Starting(u, r)'
 BY <1>1, <1>4, <1>5 DEF SpawnedIn, BoundIn, Starting
<1>7. Starting(s, q)'
 BY <1>1, <1>3, <1>4, <1>5 DEF Starting
<1>8. \A r \in RuleIds : (Here(r)' => Here(r) \/ r = q) /\ (BoundHere(r)' => BoundHere(r))
 BY <1>1, <1>6 DEF Here, BoundHere
<1>9. \A u \in Sessions, r \in RuleIds : /\ Reported(u, r)' <=> Reported(u, r)
                                         /\ Answered(u, r)' <=> Answered(u, r)
 BY <1>1 DEF Reported, Answered
<1>10. /\ \A u \in Sessions, r \in RuleIds : Pushed(u, r)' => Pushed(u, r)
       /\ PushOnce' /\ ~Pushed(s, q)'
 BY <1>1, <1>2, <1>3, TakenPush
<1>11. /\ \A r \in RuleIds : (Unsent(r)' => Unsent(r)) /\ (Acked(r)' => Acked(r))
       /\ \A u \in Sessions, r \in RuleIds : Replayed(u, r)' => Replayed(u, r)
       /\ FinalLess /\ Marked' /\ TaskOnce' /\ ReplayOnce' /\ LimitsKept' /\ OldTodo' /\ OnlyPushes'
 BY <1>1, ServerSame
<1>12. \A r \in RuleIds \ {q} : Fewer(r)
 BY <1>6, <1>9, <1>10, <1>11, KindsFewer
<1>13. Moves(q, "push", s, "starting", s)
 <2>1. ~Carries("push", s, q)'
  BY <1>10 DEF Carries
 <2>2. \A c \in Kinds, u \in Places : Carries(c, u, q)' => Carries(c, u, q) \/ (c = "starting" /\ u = s)
  BY <1>3, <1>6, <1>9, <1>10, <1>11 DEF Carries
 <2> QED BY <1>3, <2>1, <2>2 DEF Moves
<1>14. OneCarrier' /\ \A c \in Kinds, u \in Places : Carries(c, u, q)' => c = "starting" /\ u = s
 <2>1. "push" \in Kinds /\ s \in Places /\ OneCarrier
  BY SomePlace DEF Kinds, CarryInv
 <2> QED BY <1>3, <1>12, <1>13, <2>1, MovedOne
<1>15. SpawnedOnce'
 BY <1>3, <1>8, <1>12, <1>14 DEF CarryInv, SpawnedOnce, Fewer, Carried, Early, Kinds
<1>16. Decided'
 <2>1. ~Final(mem[q])
  BY <1>3, SomePlace, Open DEF Kinds
 <2> QED BY <1>11, <1>12, <2>1 DEF CarryInv, Decided, FinalLess, Fewer, Carried
<1>17. BoundTold'
 <2>1. \A r \in RuleIds : Spared(r)' <=> Spared(r)
  BY <1>1 DEF Spared, FailedTold, Answering, Pushing
 <2> QED BY <1>8, <2>1 DEF CarryInv, BoundTold
<1>18. Unheard'
 <2> SUFFICES ASSUME NEW u \in Sessions, NEW r \in RuleIds, link[u] = "up", pump[u].pc \in {"hello", "list"}, SpawnedIn(u, r)'
              PROVE  Heard(u, r)'
  BY <1>1 DEF Unheard
 <2>1. CASE u = s /\ r = q
  BY <1>7, <2>1 DEF Heard
 <2>2. CASE ~(u = s /\ r = q)
  <3>1. Heard(u, r)
   BY <1>6, <2>2 DEF CarryInv, Unheard
  <3> QED BY <1>6, <1>9, <3>1 DEF Heard
 <2> QED BY <2>1, <2>2
<1> USE DEF CarryInv
<1>19. OldIds'
 <2>1. ~(q >= nextId)
  BY <1>3, SomePlace DEF OldIds, Carried, Kinds
 <2> QED BY <1>1, <1>8, <1>12, <2>1 DEF OldIds, Fewer, Carried
<1>20. EventOnce' /\ AnswerOnce'
 BY <1>1 DEF SimpleInv, EventOnce, AnswerOnce
<1> QED BY <1>10, <1>11, <1>14, <1>15, <1>16, <1>17, <1>18, <1>19, <1>20 DEF SimpleInv

\* A forwarder has bound, or failed to.
LEMMA ReportCarry ==
  ASSUME TypeInv, SessInv, SpawnInv, CarryInv, NEW f \in Spawned, fw[f].phase = "binding",
         NEW p \in {"bound", "dropped", "failed"}, NEW o \in {"Activated", "Failed"},
         p = "bound" => o = "Activated",
         fw' = [fw EXCEPT ![f].phase = p], UNCHANGED <<mem, nextId, task, pump, link>>,
         UNCHANGED <<toClient, toServer, client, spawned>>,
         NEW e \in Event, e.rule = fw[f].rule, e.outcome = o,
         events' = IF PumpAlive(f) THEN Append(events, e) ELSE events
  PROVE  CarryInv'
<1>1. PICK q, s : q = fw[f].rule /\ s = fw[f].session
 OBVIOUS
<1>2. f \in Spawns /\ Spawned' = Spawned /\ Spawned \subseteq Spawns /\ q \in RuleIds /\ s \in Sessions
 <2>1. f \in Spawns /\ Spawned' = Spawned /\ Spawned \subseteq Spawns /\ q \in RuleIds
  BY <1>1, SpawnTypes DEF Spawned
 <2>2. s \in 1 .. client.session /\ client.session \in 0 .. MaxSessions
  BY <1>1 DEF SpawnInv, TypeInv, ClientTypes
 <2> QED BY <2>1, <2>2, Constants DEF Sessions
<1>3. /\ fw'[f].phase = p /\ fw'[f].rule = q /\ fw'[f].session = s
      /\ \A g \in Spawned : g # f => fw'[g] = fw[g]
 <2>1. fw[f] \in ForwarderTask /\ fw \in [Spawns -> ForwarderTask]
  BY <1>2, SpawnTypes
 <2> QED BY <1>1, <1>2, <2>1 DEF ForwarderTask
<1>4. \A g \in Spawned : fw[g].rule = q /\ fw[g].session = s => g = f
 BY <1>1 DEF SpawnInv, OneSpawn
<1>5. \A u \in Sessions, r \in RuleIds :
          /\ SpawnedIn(u, r)' <=> SpawnedIn(u, r)
          /\ BoundIn(u, r)' => BoundIn(u, r) \/ (u = s /\ r = q /\ p = "bound")
          /\ ~(u = s /\ r = q) => (Starting(u, r)' <=> Starting(u, r))
 BY <1>1, <1>2, <1>3 DEF SpawnedIn, BoundIn, Starting
<1>6. ~Starting(s, q)' /\ ~BoundIn(s, q)
 BY <1>1, <1>2, <1>3, <1>4 DEF Starting, BoundIn
<1>7. \A r \in RuleIds : Here(r)' <=> Here(r)
 BY <1>5 DEF Here
<1>8. \A u \in Sessions, r \in RuleIds : Answered(u, r)' <=> Answered(u, r)
 BY DEF Answered
<1>9. /\ \A u \in Sessions, r \in RuleIds : Pushed(u, r)' => Pushed(u, r)
      /\ PushOnce'
 BY SentNothing
<1>10. /\ \A r \in RuleIds : (Unsent(r)' => Unsent(r)) /\ (Acked(r)' => Acked(r))
       /\ \A u \in Sessions, r \in RuleIds : Replayed(u, r)' => Replayed(u, r)
       /\ FinalLess /\ Marked' /\ TaskOnce' /\ ReplayOnce' /\ LimitsKept' /\ OldTodo' /\ OnlyPushes'
 BY ServerSame
<1>11. PICK es : es = events /\ es \in Seq(Event)
 BY SpawnTypes
<1>12. \A r : /\ Untold(Append(es, e), r) <=> Untold(es, r) /\ ~Told(e, r)
              /\ OnceTold(es, r) /\ (Untold(es, r) \/ ~Told(e, r)) => OnceTold(Append(es, e), r)
              /\ NotFailed(es, r) /\ (e.rule = r => e.outcome # "Failed") => NotFailed(Append(es, e), r)
 BY <1>11, ToldAppend
<1>13. \A r : Told(e, r) <=> r = q
 BY <1>1 DEF Told
<1>14. PumpAlive(f) => Untold(events, q)
 <2> SUFFICES ASSUME PumpAlive(f), NEW i \in 1 .. Len(events), Told(events[i], q) PROVE FALSE
  BY DEF Untold
 <2>1. PICK d : d = events[i]
  OBVIOUS
 <2>2. EventTrue(d) /\ d.rule = q /\ d.outcome \in {"Activated", "Failed"} /\ s = client.session
  BY <1>1, <2>1 DEF SpawnInv, Told, PumpAlive
 <2>3. PICK g \in Spawned : /\ fw[g].rule = q /\ fw[g].session = s
                            /\ d.outcome = "Activated" => fw[g].phase \in {"bound", "draining", "closed"}
                            /\ d.outcome = "Failed" => fw[g].phase = "failed"
  BY <2>2 DEF EventTrue
 <2>4. g = f
  BY <1>4, <2>3
 <2> QED BY <2>2, <2>3, <2>4
<1>15. EventOnce' /\ AnswerOnce'
 <2>1. \A r \in RuleIds : OnceTold(es, r)
  BY <1>11 DEF CarryInv, SimpleInv, EventOnce
 <2>2. CASE PumpAlive(f)
  <3>1. events' = Append(es, e)
   BY <1>11, <2>2
  <3> QED BY <1>11, <1>12, <1>13, <1>14, <2>1, <2>2, <3>1 DEF EventOnce, CarryInv, SimpleInv, AnswerOnce
 <2>3. CASE ~PumpAlive(f)
  BY <2>3 DEF EventOnce, CarryInv, SimpleInv, AnswerOnce
 <2> QED BY <2>2, <2>3
<1>16. \A u \in Sessions : link[u] = "up" => u = client.session /\ client.phase # "off"
 BY DEF SessInv, SessionOK
<1>17. CASE link[s] # "up"
 <2>1. \A u \in Sessions : link[u] = "up" => events' = events
  BY <1>1, <1>16, <1>17 DEF PumpAlive
 <2>2. \A u \in Sessions, r \in RuleIds : /\ Reported(u, r)' <=> Reported(u, r)
                                          /\ Starting(u, r)' => Starting(u, r)
  BY <1>5, <1>6, <2>1 DEF Reported
 <2>3. \A r \in RuleIds : Fewer(r)
  BY <1>8, <1>9, <1>10, <2>2, KindsFewer
 <2>4. Decided'
  BY <1>10, <2>3, KeptDecided
 <2>5. HereLess
  BY <1>5, <1>7, <1>17 DEF HereLess, BoundHere
 <2>6. SimpleInv'
  BY <1>9, <1>10, <1>15 DEF SimpleInv
 <2>7. Unheard'
  <3>1. \A u \in Sessions, r \in RuleIds : link[u] = "up" => (Starting(u, r)' <=> Starting(u, r))
   BY <1>5, <1>17
  <3>2. \A u \in Sessions, r \in RuleIds : link[u] = "up" => (Heard(u, r) => Heard(u, r)')
   BY <1>8, <2>2, <3>1 DEF Heard
  <3> QED BY <1>5, <3>2 DEF Unheard, CarryInv
 <2>8. BoundTold'
  <3>1. \A r \in RuleIds : BoundHere(r) => events' = events
   BY <2>1 DEF BoundHere
  <3>2. \A r \in RuleIds : FailedTold(r)' <=> FailedTold(r)
   BY DEF FailedTold, Answering, Pushing
  <3> QED BY <2>5, <3>1, <3>2 DEF CarryInv, BoundTold, HereLess, Spared
 <2>9. OneCarrier' /\ SpawnedOnce' /\ OldIds'
  BY <1>7, <2>3 DEF CarryInv, OneCarrier, SpawnedOnce, OldIds, Fewer, Carried, Early, Kinds
 <2> QED BY <1>10, <2>4, <2>6, <2>7, <2>8, <2>9 DEF CarryInv
<1>18. CASE link[s] = "up"
 <2>1. PumpAlive(f) /\ events' = Append(es, e)
  <3>1. s = client.session /\ client.phase # "off"
   BY <1>2, <1>16, <1>18
  <3>2. client.phase # "joining"
   BY <1>1, <3>1 DEF SpawnInv
  <3>3. client.phase \in {"on", "drain"}
   BY <3>1, <3>2 DEF TypeInv, ClientTypes
  <3>4. PumpAlive(f)
   BY <1>1, <3>1, <3>3 DEF PumpAlive
  <3> QED BY <1>11, <3>4
 <2>2. Carries("starting", s, q)
  BY <1>1, <1>2, <1>18 DEF Carries, Starting
 <2>3. /\ \A r \in RuleIds : ~Untold(events, r)' => ~Untold(events, r) \/ r = q
       /\ \A r \in RuleIds : ~Untold(events, r) => ~Untold(events, r)'
       /\ ~Untold(events, q)'
  BY <1>11, <1>12, <1>13, <2>1
 <2>4. \A u \in Sessions, r \in RuleIds : Reported(u, r)' => Reported(u, r) \/ (u = s /\ r = q)
  BY <1>2, <1>16, <1>18, <2>3 DEF Reported
 <2>5. \A u \in Sessions, r \in RuleIds : Starting(u, r)' => Starting(u, r)
  BY <1>5, <1>6
 <2>6. \A r \in RuleIds \ {q} : Fewer(r)
  BY <1>8, <1>9, <1>10, <2>4, <2>5, KindsFewer
 <2>7. Moves(q, "starting", s, "event", s)
  <3>1. ~Carries("starting", s, q)'
   BY <1>6 DEF Carries
  <3>2. \A c \in Kinds, u \in Places : Carries(c, u, q)' => Carries(c, u, q) \/ (c = "event" /\ u = s)
   BY <1>2, <1>8, <1>9, <1>10, <2>4, <2>5 DEF Carries
  <3> QED BY <2>2, <3>1, <3>2 DEF Moves
 <2>8. OneCarrier' /\ \A c \in Kinds, u \in Places : Carries(c, u, q)' => c = "event" /\ u = s
  <3>1. "starting" \in Kinds /\ s \in Places /\ OneCarrier
   BY <1>2, SomePlace DEF Kinds, CarryInv
  <3> QED BY <1>2, <2>6, <2>7, <3>1, MovedOne
 <2>9. SpawnedOnce'
  BY <1>2, <1>7, <2>6, <2>8 DEF CarryInv, SpawnedOnce, Fewer, Carried, Early, Kinds
 <2>10. ~Final(mem[q])
  BY <1>2, <2>2, SomePlace, Open DEF Kinds
 <2>11. Decided'
  BY <1>10, <2>6, <2>10 DEF CarryInv, Decided, FinalLess, Fewer, Carried
 <2>12. OldIds'
  <3>1. ~(q >= nextId)
   BY <1>2, <2>2, SomePlace DEF CarryInv, OldIds, Carried, Kinds
  <3> QED BY <1>7, <2>6, <3>1 DEF CarryInv, OldIds, Fewer, Carried
 <2>13. Unheard'
  <3> SUFFICES ASSUME NEW u \in Sessions, NEW r \in RuleIds, link[u] = "up", pump[u].pc \in {"hello", "list"}, SpawnedIn(u, r)
               PROVE  Heard(u, r)'
   BY <1>5 DEF Unheard
  <3>1. CASE u = s /\ r = q
   BY <1>18, <2>3, <3>1 DEF Heard, Reported
  <3>2. CASE ~(u = s /\ r = q)
   <4>1. Heard(u, r)
    BY DEF CarryInv, Unheard
   <4>2. Reported(u, r) => Reported(u, r)'
    BY <2>3 DEF Reported
   <4> QED BY <1>5, <1>8, <3>2, <4>1, <4>2 DEF Heard
  <3> QED BY <3>1, <3>2
 <2>14. \A r \in RuleIds : FailedTold(r)' <=> FailedTold(r)
  BY DEF FailedTold, Answering, Pushing
 <2>15. \A r \in RuleIds : r # q => (BoundHere(r)' => BoundHere(r)) /\ (Spared(r) => Spared(r)')
  BY <1>1, <1>5, <1>11, <1>12, <2>1, <2>14 DEF BoundHere, Spared
 <2>16. BoundHere(q)' => Spared(q)'
  <3>1. CASE p # "bound"
   <4>1. \A u \in Sessions : link[u] = "up" => u = s
    BY <1>2, <1>16, <1>18
   <4> QED BY <1>2, <1>5, <1>6, <3>1, <4>1 DEF BoundHere
  <3>2. CASE p = "bound"
   <4>1. ~FailedTold(q)
    <5>1. /\ ~Carries("acked", 0, q) /\ \A u \in Sessions : ~Carries("status", u, q)
     BY <1>2, <2>2, SomePlace, Only DEF Kinds
    <5>2. \A u \in Sessions : pump[u].pc # "done" => NotFailed(toServer[u], q)
     <6>1. \A u \in Sessions : pump[u].pc # "done" => Untold(toServer[u], q)
      BY <5>1 DEF Carries, Answered
     <6> QED BY <6>1 DEF Untold, NotFailed, Told
    <5>3. \A u \in Tasks : ~Answering(u, q)
     BY <5>1 DEF Carries, Acked
    <5> QED BY <2>10, <5>2, <5>3 DEF FailedTold, Final
   <4>2. NotFailed(es, q)
    BY <1>11, <1>14, <2>1 DEF Untold, NotFailed, Told
   <4>3. NotFailed(Append(es, e), q)
    BY <1>12, <3>2, <4>2
   <4> QED BY <1>2, <2>1, <2>14, <4>1, <4>3 DEF Spared
  <3> QED BY <3>1, <3>2
 <2>17. BoundTold'
  BY <2>15, <2>16 DEF CarryInv, BoundTold
 <2>18. SimpleInv'
  BY <1>9, <1>10, <1>15 DEF SimpleInv
 <2> QED BY <1>10, <2>8, <2>9, <2>11, <2>12, <2>13, <2>17, <2>18 DEF CarryInv
<1> QED BY <1>17, <1>18

LEMMA BindCarry ==
  ASSUME TypeInv, SessInv, SpawnInv, CarryInv, NEW f \in Spawns, Bind(f) \/ BindFails(f)
  PROVE  CarryInv'
<1>1. fw[f].phase = "binding" /\ f \in Spawned /\ fw[f].rule \in RuleIds
 <2>1. fw[f].phase = "binding"
  BY DEF Bind, BindFails
 <2> QED BY <2>1, SpawnTypes DEF SpawnInv
<1>2. UNCHANGED <<mem, nextId, task, pump, link>> /\ UNCHANGED <<toClient, toServer, client, spawned>>
 BY DEF Bind, BindFails, wireVars
<1>3. CASE Bind(f)
 <2>1. PICK p \in {"bound", "dropped"} : fw' = [fw EXCEPT ![f].phase = p]
  BY <1>3 DEF Bind
 <2>2. PICK e : e = [rule |-> fw[f].rule, outcome |-> "Activated"]
  OBVIOUS
 <2>3. e \in Event /\ e.rule = fw[f].rule /\ e.outcome = "Activated"
  BY <1>1, <2>2 DEF Event, Outcomes
 <2>4. events' = IF PumpAlive(f) THEN Append(events, e) ELSE events
  BY <1>3, <2>2 DEF Bind, Report
 <2> QED BY <1>1, <1>2, <2>1, <2>3, <2>4, ReportCarry
<1>4. CASE BindFails(f)
 <2>1. fw' = [fw EXCEPT ![f].phase = "failed"]
  BY <1>4 DEF BindFails
 <2>2. PICK e : e = [rule |-> fw[f].rule, outcome |-> "Failed"]
  OBVIOUS
 <2>3. e \in Event /\ e.rule = fw[f].rule /\ e.outcome = "Failed"
  BY <1>1, <2>2 DEF Event, Outcomes
 <2>4. events' = IF PumpAlive(f) THEN Append(events, e) ELSE events
  BY <1>4, <2>2 DEF BindFails, Report
 <2> QED BY <1>1, <1>2, <2>1, <2>3, <2>4, ReportCarry
<1> QED BY <1>3, <1>4

----
(* The client's pump passes an event on *)

LEMMA ToldBack ==
  ASSUME NEW X, NEW q \in Seq(X), q # <<>>, NEW r, Untold(Tail(q), r), ~Told(Head(q), r)
  PROVE  Untold(q, r)
<1>1. /\ Len(q) \in Nat \ {0} /\ Len(Tail(q)) = Len(q) - 1 /\ Head(q) = q[1]
      /\ \A i \in 1 .. Len(q) : i = 1 \/ (i - 1 \in 1 .. Len(q) - 1 /\ Tail(q)[i - 1] = q[i])
 OBVIOUS
<1> QED BY <1>1 DEF Untold

LEMMA RelayFacts ==
  ASSUME TypeInv, SessInv, Relay
  PROVE  /\ UNCHANGED <<mem, nextId, task, pump, link>> /\ UNCHANGED <<toClient, fw, spawned, client>>
         /\ client.session \in Sessions
         /\ events \in Seq(Event) /\ events # <<>> /\ events' = Tail(events)
         /\ Head(events) \in Event /\ Head(events).rule \in RuleIds
         /\ \A u \in Sessions : u # client.session => toServer'[u] = toServer[u] /\ link[u] # "up"
         /\ link[client.session] # "up" => toServer' = toServer
         /\ link[client.session] = "up" =>
                \E m \in Status : /\ m.rule = Head(events).rule /\ m.outcome = Head(events).outcome
                                  /\ toServer'[client.session] = Append(toServer[client.session], m)
<1>1. UNCHANGED <<mem, nextId, task, pump, link>> /\ UNCHANGED <<toClient, fw, spawned, client>>
 BY DEF Relay
<1>2. client.session \in Sessions
 BY DEF Relay, SessInv, ClientOK
<1>3. events \in Seq(Event) /\ events # <<>> /\ events' = Tail(events)
 BY SpawnTypes DEF Relay
<1>4. Head(events) \in Event /\ Head(events).rule \in RuleIds
 <2>1. Head(events) \in Event
  BY <1>3
 <2> QED BY <2>1 DEF Event
<1>5. PICK e, s, m : /\ e = Head(events) /\ s = client.session
                     /\ m = [rule |-> e.rule, req |-> RelayRequest(e, slots[e.rule]), outcome |-> e.outcome]
 OBVIOUS
<1> USE <1>5
<1>6. m \in Status /\ m.rule = e.rule /\ m.outcome = e.outcome
 <2>1. ClientTypes
  BY DEF TypeInv
 <2>2. RelayRequest(e, slots[e.rule]) \in Requests
  BY <1>3, <1>4, <2>1, Constants DEF ClientTypes, RelayRequest, Slot, Requests
 <2> QED BY <1>4, <2>2 DEF Status, Event
<1>7. toServer' = IF link[s] = "up" THEN [toServer EXCEPT ![s] = Append(@, m)] ELSE toServer
 BY DEF Relay
<1>8. /\ \A u \in Sessions : u # s => toServer'[u] = toServer[u] /\ link[u] # "up"
      /\ link[s] # "up" => toServer' = toServer
      /\ link[s] = "up" => toServer'[s] = Append(toServer[s], m)
 BY <1>2, <1>7 DEF TypeInv, WireTypes, SessInv, SessionOK
<1> QED BY <1>1, <1>2, <1>3, <1>4, <1>6, <1>8

LEMMA RelayCarry ==
  ASSUME TypeInv, SessInv, SpawnInv, CarryInv, Relay PROVE CarryInv'
<1>1. /\ UNCHANGED <<mem, nextId, task, pump, link>> /\ toClient' = toClient
      /\ fw' = fw /\ spawned' = spawned
      /\ client.session \in Sessions
      /\ events \in Seq(Event) /\ events # <<>> /\ events' = Tail(events)
      /\ Head(events) \in Event /\ Head(events).rule \in RuleIds
 BY RelayFacts
<1>2. PICK es, e, q, s : es = events /\ e = Head(events) /\ q = e.rule /\ s = client.session
 OBVIOUS
<1>3. \A u \in Sessions : u # s => toServer'[u] = toServer[u] /\ link[u] # "up"
 BY <1>2, RelayFacts
<1>4. \A r : /\ Untold(es, r) => Untold(Tail(es), r)
             /\ OnceTold(es, r) => OnceTold(Tail(es), r)
             /\ OnceTold(es, r) /\ Told(e, r) => Untold(Tail(es), r)
             /\ Untold(es, r) => ~Told(e, r)
             /\ NotFailed(es, r) => NotFailed(Tail(es), r) /\ (e.rule = r => e.outcome # "Failed")
 BY <1>1, <1>2, ToldTail
<1>5. \A r : Untold(Tail(es), r) /\ ~Told(e, r) => Untold(es, r)
 BY <1>1, <1>2, ToldBack
<1>6. /\ \A r \in RuleIds : (Unsent(r)' => Unsent(r)) /\ (Acked(r)' => Acked(r))
      /\ \A u \in Sessions, r \in RuleIds : Replayed(u, r)' => Replayed(u, r)
      /\ FinalLess /\ Marked' /\ TaskOnce' /\ ReplayOnce' /\ LimitsKept' /\ OldTodo' /\ OnlyPushes'
 BY <1>1, ServerSame
<1>7. /\ \A u \in Sessions, r \in RuleIds : Pushed(u, r)' => Pushed(u, r)
      /\ PushOnce'
 BY <1>1, SentNothing
<1>8. \A u, r : /\ SpawnedIn(u, r)' <=> SpawnedIn(u, r)
                /\ BoundIn(u, r)' <=> BoundIn(u, r)
                /\ Starting(u, r)' <=> Starting(u, r)
 BY <1>1 DEF SpawnedIn, BoundIn, Starting, Spawned
<1>9. HereLess
 BY <1>1, <1>8 DEF HereLess, Here, BoundHere
<1>10. EventOnce'
 BY <1>1, <1>2, <1>4 DEF CarryInv, SimpleInv, EventOnce
<1>11. \A u \in Sessions, r \in RuleIds : Reported(u, r)' => Reported(u, r)
 BY <1>1, <1>2, <1>4 DEF Reported
<1>12. nextId' >= nextId /\ nextId' \in Nat
 BY <1>1, Constants DEF TypeInv, ServerTypes
<1>13. CASE link[s] # "up"
 <2>1. toServer' = toServer /\ \A u \in Sessions : link[u] # "up"
  BY <1>2, <1>3, <1>13, RelayFacts
 <2>2. \A u \in Sessions, r \in RuleIds : Answered(u, r)' <=> Answered(u, r)
  BY <1>1, <2>1 DEF Answered
 <2>3. \A r \in RuleIds : Fewer(r)
  BY <1>6, <1>7, <1>8, <1>11, <2>2, KindsFewer
 <2>4. Decided'
  BY <1>6, <2>3, KeptDecided
 <2>5. \A r \in RuleIds : FailedTold(r)' <=> FailedTold(r)
  BY <1>1, <2>1 DEF FailedTold, Answering, Pushing
 <2>6. ToldLess
  BY <1>1, <1>2, <1>4, <2>5 DEF ToldLess, Spared
 <2>7. Unheard'
  BY <1>1, <2>1 DEF Unheard
 <2>8. AnswerOnce'
  BY <1>1, <2>1 DEF CarryInv, SimpleInv, AnswerOnce
 <2> QED BY <1>6, <1>7, <1>9, <1>10, <1>12, <2>3, <2>4, <2>6, <2>7, <2>8, KeptCarry DEF SimpleInv
<1>14. CASE link[s] = "up"
 <2>1. PICK m \in Status : m.rule = q /\ m.outcome = e.outcome /\ toServer'[s] = Append(toServer[s], m)
  BY <1>2, <1>14, RelayFacts
 <2>2. s \in Sessions /\ q \in RuleIds /\ pump[s].pc # "done"
  BY <1>1, <1>2, <1>14 DEF SessInv, SessionOK
 <2>3. PICK ts : ts = toServer[s] /\ ts \in Seq(Status)
  BY <2>2 DEF TypeInv, WireTypes
 <2>4. \A r : /\ Untold(Append(ts, m), r) <=> Untold(ts, r) /\ ~Told(m, r)
              /\ OnceTold(ts, r) /\ (Untold(ts, r) \/ ~Told(m, r)) => OnceTold(Append(ts, m), r)
              /\ NotFailed(ts, r) /\ (m.rule = r => m.outcome # "Failed") => NotFailed(Append(ts, m), r)
  BY <2>3, ToldAppend
 <2>5. \A r : (Told(m, r) <=> Told(e, r)) /\ (Told(e, r) => r = q)
  BY <1>2, <2>1 DEF Told
 <2>6. \A u \in Sessions, r \in RuleIds :
           /\ Answered(u, r) => Answered(u, r)'
           /\ Answered(u, r)' => Answered(u, r) \/ (u = s /\ r = q /\ Told(e, q))
           /\ u = s /\ r = q /\ Told(e, q) => Answered(u, r)'
  <3>1. \A r \in RuleIds : /\ Answered(s, r) => Answered(s, r)'
                           /\ Answered(s, r)' => Answered(s, r) \/ (r = q /\ Told(e, q))
                           /\ r = q /\ Told(e, q) => Answered(s, r)'
   BY <1>1, <2>1, <2>2, <2>3, <2>4, <2>5 DEF Answered
  <3>2. \A u \in Sessions, r \in RuleIds : u # s => (Answered(u, r)' <=> Answered(u, r))
   BY <1>1, <1>3 DEF Answered
  <3> QED BY <3>1, <3>2
 <2>7. ToldLess
  <3> SUFFICES ASSUME NEW r \in RuleIds, Spared(r) PROVE Spared(r)'
   BY DEF ToldLess
  <3>1. NotFailed(events, r)' /\ (e.rule = r => e.outcome # "Failed")
   BY <1>1, <1>2, <1>4 DEF Spared
  <3>2. NotFailed(toServer[s], r)
   BY <2>2 DEF Spared, FailedTold
  <3>3. NotFailed(toServer'[s], r)
   BY <1>2, <2>1, <2>3, <2>4, <3>1, <3>2
  <3>4. ~FailedTold(r)'
   BY <1>1, <1>3, <3>3 DEF Spared, FailedTold, Answering, Pushing
  <3> QED BY <3>1, <3>4 DEF Spared
 <2>8. Unheard'
  <3>1. \A u \in Sessions, r \in RuleIds : Heard(u, r) => Heard(u, r)'
   <4> SUFFICES ASSUME NEW u \in Sessions, NEW r \in RuleIds, Reported(u, r) PROVE Reported(u, r)' \/ Answered(u, r)'
    BY <1>8, <2>6 DEF Heard
   <4>1. u = s /\ ~Untold(es, r)
    BY <1>2, <1>3 DEF Reported
   <4>2. CASE Told(e, r)
    BY <2>5, <2>6, <4>1, <4>2
   <4>3. CASE ~Told(e, r)
    BY <1>1, <1>2, <1>5, <1>14, <4>1, <4>3 DEF Reported
   <4> QED BY <4>2, <4>3
  <3> QED BY <1>1, <1>8, <3>1, KeptUnheard
 <2>9. \A r \in RuleIds : r # q \/ ~Told(e, q) => Fewer(r)
  BY <1>6, <1>7, <1>8, <1>11, <2>6, KindsFewer
 <2>10. CASE ~Told(e, q)
  <3>1. \A r \in RuleIds : Fewer(r)
   BY <2>9, <2>10
  <3>2. Decided'
   BY <1>6, <3>1, KeptDecided
  <3>3. AnswerOnce'
   <4>1. \A r \in RuleIds : OnceTold(Append(ts, m), r)
    BY <2>2, <2>3, <2>4, <2>5, <2>10 DEF CarryInv, SimpleInv, AnswerOnce
   <4> QED BY <1>1, <1>3, <2>1, <2>3, <4>1 DEF CarryInv, SimpleInv, AnswerOnce
  <3> QED BY <1>6, <1>7, <1>9, <1>10, <1>12, <2>7, <2>8, <3>1, <3>2, <3>3, KeptCarry DEF SimpleInv
 <2>11. CASE Told(e, q)
  <3>1. Carries("event", s, q)
   BY <1>2, <1>4, <1>14, <2>2, <2>11 DEF Carries, Reported
  <3>2. ~Carries("event", s, q)'
   <4>1. Untold(Tail(es), q)
    BY <1>2, <1>4, <2>2, <2>11 DEF CarryInv, SimpleInv, EventOnce
   <4> QED BY <1>1, <1>2, <4>1 DEF Carries, Reported
  <3>3. "event" \in Kinds /\ s \in Places /\ "status" \in Kinds /\ "event" # "status" /\ "status" \notin Early /\ "event" \in Kinds \ {"replay"}
   BY <2>2, SomePlace DEF Kinds, Early
  <3>4. ~Carries("status", s, q)
   BY <2>2, <3>1, <3>3, Only
  <3>5. AnswerOnce'
   <4>1. Untold(ts, q)
    BY <2>2, <2>3, <3>4 DEF Carries, Answered
   <4>2. \A r \in RuleIds : OnceTold(Append(ts, m), r)
    BY <2>2, <2>3, <2>4, <2>5, <4>1 DEF CarryInv, SimpleInv, AnswerOnce
   <4> QED BY <1>1, <1>3, <2>1, <2>3, <4>2 DEF CarryInv, SimpleInv, AnswerOnce
  <3>6. Moves(q, "event", s, "status", s)
   <4>1. \A c \in Kinds, u \in Places : Carries(c, u, q)' => Carries(c, u, q) \/ (c = "status" /\ u = s)
    BY <1>6, <1>7, <1>8, <1>11, <2>2, <2>6 DEF Carries
   <4> QED BY <3>1, <3>2, <4>1 DEF Moves
  <3>7. ~Final(mem[q])
   BY <2>2, <3>1, <3>3, Open
  <3>8. \A r \in RuleIds \ {q} : Fewer(r)
   BY <2>9
  <3>9. SimpleInv'
   BY <1>6, <1>7, <1>10, <3>5 DEF SimpleInv
  <3>10. nextId' = nextId
   BY <1>1
  <3> QED BY <1>6, <1>9, <2>2, <2>7, <2>8, <3>3, <3>6, <3>7, <3>8, <3>9, <3>10, MovedCarry
 <2> QED BY <2>10, <2>11
<1> QED BY <1>13, <1>14

----
(* Sessions that begin and end *)

\* No forwarder of a live session is left.
LEMMA EndedCarry ==
  ASSUME CarryInv, \A r \in RuleIds : Fewer(r), \A r \in RuleIds : ~Here(r)',
         nextId' = nextId \/ \A r \in RuleIds : ~Carried(Kinds, r)',
         Decided', Marked', SimpleInv'
  PROVE  CarryInv'
<1>1. OneCarrier'
 BY DEF CarryInv, OneCarrier, Fewer
<1>2. SpawnedOnce'
 BY DEF SpawnedOnce
<1>3. BoundTold'
 BY DEF BoundTold, BoundHere, Here, BoundIn, SpawnedIn
<1>4. Unheard'
 BY DEF Unheard, Here
<1>5. OldIds'
 BY DEF CarryInv, OldIds, Fewer, Carried
<1> QED BY <1>1, <1>2, <1>3, <1>4, <1>5 DEF CarryInv

\* The session is over; what was under way to the client is lost.
LEMMA CutCarry ==
  ASSUME TypeInv, CarryInv, UNCHANGED <<mem, nextId, task, pump>>,
         \A u \in Sessions : link'[u] # "up",
         \A u \in Sessions : toClient'[u] = toClient[u] \/ toClient'[u] = <<>>,
         \A u \in Sessions, r \in RuleIds :
             /\ Untold(toServer[u], r) => Untold(toServer'[u], r)
             /\ OnceTold(toServer[u], r) => OnceTold(toServer'[u], r),
         EventOnce'
  PROVE  CarryInv'
<1>1. \A u \in Sessions, r \in RuleIds : (Pushed(u, r)' => Pushed(u, r)) /\ OncePush(toClient'[u], r)
 BY NothingIn DEF Pushed, CarryInv, SimpleInv, PushOnce
<1>2. \A u \in Sessions, r \in RuleIds : Answered(u, r)' => Answered(u, r)
 BY DEF Answered
<1>3. \A u \in Sessions, r \in RuleIds : ~Starting(u, r)' /\ ~Reported(u, r)' /\ ~Replayed(u, r)'
 BY DEF Starting, Reported, Replayed
<1>4. \A r \in RuleIds : (Unsent(r)' => Unsent(r)) /\ (Acked(r)' => Acked(r))
 BY TaskKinds
<1>5. \A r \in RuleIds : Fewer(r)
 BY <1>1, <1>2, <1>3, <1>4, KindsFewer
<1>6. \A r \in RuleIds : ~Here(r)'
 BY DEF Here
<1>7. FinalLess
 BY DEF FinalLess
<1>8. Decided'
 BY <1>5, <1>7, KeptDecided
<1>9. Marked'
 BY DEF Marked
<1>10. PushOnce' /\ AnswerOnce'
 BY <1>1 DEF PushOnce, AnswerOnce, CarryInv, SimpleInv
<1>11. TaskOnce' /\ ReplayOnce' /\ LimitsKept' /\ OldTodo' /\ OnlyPushes'
 BY DEF CarryInv, SimpleInv, TaskOnce, ReplayOnce, LimitsKept, OldTodo, OnlyPushes, Current,
  Carrying, Answering, Pushing
<1>12. SimpleInv'
 BY <1>10, <1>11 DEF SimpleInv
<1> QED BY <1>5, <1>6, <1>8, <1>9, <1>12, EndedCarry

LEMMA OverCarry ==
  ASSUME TypeInv, SessInv, CarryInv,
         Left \/ \E s \in Sessions : JoinFails(s) \/ Cut(s)
  PROVE  CarryInv'
<1>1. UNCHANGED <<mem, nextId, task, pump>>
 BY DEF Left, JoinFails, Cut
<1>2. PICK s : s = client.session
 OBVIOUS
<1>3. s \in Sessions /\ \A u \in Sessions : u # s => link[u] # "up"
 <2>1. \A u \in Sessions : u # s => link[u] # "up"
  BY <1>2 DEF SessInv, SessionOK
 <2> QED BY <1>2, <2>1 DEF Left, JoinFails, Cut, SessInv, SessionOK, ClientOK
<1>4. link' = [link EXCEPT ![s] = "cut"] /\ toClient' = [toClient EXCEPT ![s] = <<>>]
 BY <1>2 DEF Left, JoinFails, Cut, SessInv, SessionOK
<1>5. /\ \A u \in Sessions : link'[u] # "up"
      /\ \A u \in Sessions : toClient'[u] = toClient[u] \/ toClient'[u] = <<>>
 BY <1>3, <1>4 DEF TypeInv, WireTypes
<1>6. EventOnce'
 BY NothingIn DEF Left, JoinFails, Cut, clientVars, EventOnce, CarryInv, SimpleInv
<1>7. \A u \in Sessions, r \in RuleIds :
           /\ Untold(toServer[u], r) => Untold(toServer'[u], r)
           /\ OnceTold(toServer[u], r) => OnceTold(toServer'[u], r)
 <2>1. CASE toServer' = toServer
  BY <2>1
 <2>2. CASE \E x \in Sessions : Cut(x)
  <3>0. PICK x \in Sessions : Cut(x)
   BY <2>2
  <3>1. PICK n \in 0 .. Len(toServer[x]) : toServer' = [toServer EXCEPT ![x] = SubSeq(@, 1, n)]
   BY <3>0 DEF Cut
  <3>2. PICK q : q = toServer[x] /\ q \in Seq(Status)
   BY DEF TypeInv, WireTypes
  <3>3. toServer'[x] = SubSeq(q, 1, n) /\ \A u \in Sessions : u # x => toServer'[u] = toServer[u]
   BY <3>1, <3>2 DEF TypeInv, WireTypes
  <3>4. \A r : /\ Untold(q, r) => Untold(SubSeq(q, 1, n), r)
               /\ OnceTold(q, r) => OnceTold(SubSeq(q, 1, n), r)
   BY <3>1, <3>2, ToldPrefix
  <3> QED BY <3>2, <3>3, <3>4
 <2> QED BY <2>1, <2>2 DEF Left, JoinFails
<1> QED BY <1>1, <1>5, <1>6, <1>7, CutCarry

LEMMA RestartCarry ==
  ASSUME TypeInv, CarryInv, Restart PROVE CarryInv'
<1>1. \A u \in Sessions : link'[u] # "up" /\ toClient'[u] = <<>> /\ toServer'[u] = <<>>
 BY DEF Restart
<1>2. \A u \in Sessions : pump'[u].todo = {} /\ pump'[u].pc \in {"none", "done"}
 <2> SUFFICES ASSUME NEW u \in Sessions PROVE pump'[u].todo = {} /\ pump'[u].pc \in {"none", "done"}
  OBVIOUS
 <2>1. pump'[u] = IF pump[u].pc = "none" THEN pump[u] ELSE [FreshPump EXCEPT !.pc = "done"]
  BY DEF Restart, PumpAt
 <2>2. CASE pump[u].pc = "none"
  BY <2>1, <2>2 DEF CarryInv, SimpleInv, ReplayOnce
 <2>3. CASE pump[u].pc # "none"
  BY <2>1, <2>3 DEF FreshPump
 <2> QED BY <2>2, <2>3
<1>3. \A t \in Tasks : task'[t].op = "none" /\ task'[t].pc = "idle"
 BY IdleFacts DEF Restart
<1>4. \A r \in RuleIds : ~Unsent(r)' /\ ~Acked(r)'
 BY <1>3 DEF Unsent, Acked, Answering, Pushing
<1>5. \A u \in Sessions, r \in RuleIds :
          ~Pushed(u, r)' /\ ~Answered(u, r)' /\ ~Starting(u, r)' /\ ~Reported(u, r)' /\ ~Replayed(u, r)'
 BY <1>1, NothingIn DEF Pushed, Answered, Starting, Reported, Replayed
<1>6. \A r \in RuleIds : ~Carried(Kinds, r)'
 <2>1. \A r \in RuleIds : \A c, s : ~Carries(c, s, r)'
  BY <1>4, <1>5 DEF Carries
 <2> QED BY <2>1 DEF Carried
<1>7. \A r \in RuleIds : Fewer(r)
 BY <1>6 DEF Fewer, Carried
<1>8. \A r \in RuleIds : ~Here(r)'
 BY <1>1 DEF Here
<1>9. Decided' /\ Marked'
 BY <1>1, <1>6 DEF Decided, Marked, Carried
<1>10. PushOnce' /\ AnswerOnce'
 BY <1>1, NothingIn DEF PushOnce, AnswerOnce
<1>11. EventOnce'
 BY DEF Restart, clientVars, EventOnce, CarryInv, SimpleInv
<1>12. TaskOnce' /\ OnlyPushes'
 BY <1>3 DEF TaskOnce, OnlyPushes, Carrying, Answering, Pushing
<1>13. ReplayOnce' /\ LimitsKept' /\ OldTodo'
 BY <1>2 DEF ReplayOnce, LimitsKept, OldTodo, Current
<1> QED BY <1>6, <1>7, <1>8, <1>9, <1>10, <1>11, <1>12, <1>13, EndedCarry DEF SimpleInv

LEMMA ConnectCarry ==
  ASSUME TypeInv, SessInv, SpawnInv, CarryInv, NEW s \in Sessions, Connect(s) PROVE CarryInv'
<1>1. /\ UNCHANGED <<mem, nextId, task>> /\ UNCHANGED <<toClient, toServer, events, fw, spawned>>
      /\ client.phase = "off"
 BY DEF Connect
<1>2. /\ pump'[s].pc = "hello" /\ pump'[s].todo = {}
      /\ \A u \in Sessions : u # s => pump'[u] = pump[u]
 BY DEF Connect, PumpStep, TypeInv, FreshPump
<1>3. link'[s] = "up" /\ \A u \in Sessions : u # s => link'[u] = link[u] /\ link[u] # "up"
 BY <1>1 DEF Connect, TypeInv, WireTypes, SessInv, SessionOK
<1>4. s = client.session + 1 /\ client.session \in Nat
 BY ConnectSess, Constants DEF TypeInv, ClientTypes
<1>5. events = <<>> /\ toServer[s] = <<>>
 <2>1. s \notin Opened
  BY <1>4 DEF SessInv, ClientOK
 <2> QED BY <1>1, <2>1 DEF SessInv, ClientOK, SessionOK, Opened
<1>6. \A f \in Spawned : fw[f].session # s
 <2>1. \A f \in Spawned : fw[f].session \in 1 .. client.session
  BY DEF SpawnInv
 <2> QED BY <1>4, <2>1
<1>7. \A r \in RuleIds : ~Here(r)' /\ ~Starting(s, r)' /\ ~Reported(s, r)' /\ ~Answered(s, r)' /\ ~Replayed(s, r)'
 <2>1. Spawned' = Spawned
  BY <1>1 DEF Spawned
 <2>2. \A r \in RuleIds : ~Here(r)' /\ ~Starting(s, r)'
  BY <1>1, <1>3, <1>6, <2>1 DEF Here, SpawnedIn, Starting
 <2>3. \A r \in RuleIds : ~Reported(s, r)' /\ ~Answered(s, r)'
  BY <1>1, <1>5, NothingIn DEF Reported, Answered
 <2>4. \A r \in RuleIds : ~Replayed(s, r)'
  BY <1>2 DEF Replayed, Current
 <2> QED BY <2>2, <2>3, <2>4
<1>8. \A u \in Sessions, r \in RuleIds : u # s =>
          /\ ~Starting(u, r)' /\ ~Reported(u, r)' /\ ~Replayed(u, r)'
          /\ Answered(u, r)' => Answered(u, r)
 BY <1>1, <1>2, <1>3 DEF Starting, Reported, Answered, Replayed
<1>9. \A r \in RuleIds : (Unsent(r)' => Unsent(r)) /\ (Acked(r)' => Acked(r))
 BY <1>1, TaskKinds
<1>10. \A u \in Sessions, r \in RuleIds : Pushed(u, r)' => Pushed(u, r)
 BY <1>1 DEF Pushed
<1>11. \A r \in RuleIds : Fewer(r)
 <2>1. \A r \in RuleIds : \A u \in Sessions : /\ Pushed(u, r)' => Pushed(u, r)
                                              /\ Starting(u, r)' => Starting(u, r)
                                              /\ Reported(u, r)' => Reported(u, r)
                                              /\ Answered(u, r)' => Answered(u, r)
                                              /\ Replayed(u, r)' => Replayed(u, r)
  BY <1>7, <1>8, <1>10
 <2> QED BY <1>9, <2>1, KindsFewer
<1>12. FinalLess
 BY <1>1 DEF FinalLess
<1>13. Decided'
 BY <1>11, <1>12, KeptDecided
<1>14. Marked'
 BY <1>2, <1>3 DEF Marked, Current
<1> USE DEF SimpleInv
<1>15. PushOnce' /\ EventOnce' /\ TaskOnce' /\ OnlyPushes'
 BY <1>1 DEF CarryInv, PushOnce, EventOnce, TaskOnce, OnlyPushes, Carrying, Answering, Pushing
<1>16. AnswerOnce'
 <2>1. \A r \in RuleIds : OnceTold(toServer[s], r)
  BY <1>5, NothingIn
 <2> QED BY <1>1, <1>2, <2>1 DEF CarryInv, AnswerOnce
<1>17. ReplayOnce'
 BY <1>2 DEF CarryInv, ReplayOnce, Current
<1>18. LimitsKept' /\ OldTodo'
 BY <1>1, <1>2 DEF CarryInv, LimitsKept, OldTodo
<1> QED BY <1>1, <1>7, <1>11, <1>13, <1>14, <1>15, <1>16, <1>17, <1>18, EndedCarry

LEMMA InitCarry == Init => CarryInv
<1> SUFFICES ASSUME Init PROVE CarryInv
 OBVIOUS
<1>1. /\ \A u \in Sessions : link[u] = "new" /\ toClient[u] = <<>> /\ toServer[u] = <<>>
      /\ \A u \in Sessions : pump[u].todo = {} /\ pump[u].pc = "none"
      /\ events = <<>>
 BY DEF Init, FreshPump
<1>2. \A t \in Tasks : task[t].op = "none" /\ task[t].pc = "idle"
 BY IdleFacts DEF Init
<1>3. \A r \in RuleIds : ~Unsent(r) /\ ~Acked(r)
 BY <1>2 DEF Unsent, Acked, Answering, Pushing
<1>4. \A u \in Sessions, r \in RuleIds :
          ~Pushed(u, r) /\ ~Answered(u, r) /\ ~Starting(u, r) /\ ~Reported(u, r) /\ ~Replayed(u, r)
 BY <1>1, NothingIn DEF Pushed, Answered, Starting, Reported, Replayed
<1>5. \A r \in RuleIds : \A c, s : ~Carries(c, s, r)
 BY <1>3, <1>4 DEF Carries
<1>6. OneCarrier /\ Decided /\ \A r \in RuleIds : ~Carried(Kinds, r)
 BY <1>5 DEF OneCarrier, Decided, Carried
<1>7. Marked /\ Unheard
 BY <1>1 DEF Marked, Unheard
<1>8. \A r \in RuleIds : ~Here(r) /\ ~BoundHere(r)
 BY <1>1 DEF Here, BoundHere
<1>9. SpawnedOnce /\ BoundTold /\ OldIds
 BY <1>6, <1>8 DEF SpawnedOnce, BoundTold, OldIds
<1>10. PushOnce /\ AnswerOnce /\ EventOnce
 BY <1>1, NothingIn DEF PushOnce, AnswerOnce, EventOnce
<1>11. TaskOnce /\ OnlyPushes
 BY <1>2 DEF TaskOnce, OnlyPushes, Carrying, Answering, Pushing
<1>12. ReplayOnce /\ LimitsKept /\ OldTodo
 BY <1>1 DEF ReplayOnce, LimitsKept, OldTodo, Current
<1> QED BY <1>6, <1>7, <1>9, <1>10, <1>11, <1>12 DEF CarryInv, SimpleInv

----
(* Without updates *)

NoUpdates == "update" \notin Operations

PlainRequest(t) ==
    \/ \E p \in Ports, l \in Limit : PushResolve(t, p, l)
    \/ \E r \in RuleIds : RemoveMem(t, r)
PlainProgress(t) ==
    \/ PushInsert(t) \/ PushPersist(t) \/ PushSend(t) \/ PushUndo(t)
    \/ PushAcked(t) \/ PushRead(t) \/ PushWrite(t)
    \/ AckTimeout(t) \/ UpsertFails(t) \/ DropWaiter(t)
    \/ RemoveDb(t) \/ RemoveSend(t)
PlainClient(s) == JoinWelcomed(s) \/ JoinFails(s) \/ ReceivePush(s) \/ ReceiveRemove(s)
Plain ==
    \/ \E t \in Tasks : PlainRequest(t) \/ PlainProgress(t)
    \/ \E s \in Sessions : Connect(s) \/ ServerSession(s) \/ PlainClient(s) \/ Cut(s)
    \/ Relay \/ Leave \/ Left \/ Restart
    \/ \E f \in Spawns : Forwarder(f)

\* Requests leave the pumps, the links and the client alone.
LEMMA RequestFrame ==
  ASSUME NEW t \in Tasks, PlainRequest(t) \/ PlainProgress(t)
  PROVE  UNCHANGED <<pump, toServer, link, restarts, client, slots, events, fw, spawned>>
<1>1. PlainProgress(t) => Progress(t)
 BY DEF PlainProgress, Progress
<1> QED BY <1>1, ProgressFrame DEF PlainRequest, PushResolve, RemoveMem, wireVars, clientVars

\* Nothing pushes a rule the client has a slot for.
LEMMA PlainStep ==
  ASSUME NoUpdates, TypeInv, SessInv, SpawnInv, CarryInv, Next PROVE Plain
<1>1. \A t \in Tasks : Request(t) => PlainRequest(t)
 BY DEF Request, PlainRequest, UpdateResolve, NoUpdates
<1>2. \A t \in Tasks : Progress(t) => PlainProgress(t)
 <2>1. \A t \in Tasks : task[t].op # "update"
  BY DEF CarryInv, SimpleInv, OnlyPushes
 <2> QED BY <2>1 DEF Progress, PlainProgress, UpdateMem, UpdatePersist, Persist, UpdateSend,
   RequestSend, UpdateSendFails, UpdateAcked, At
<1>3. \A s \in Sessions : ~ReceiveUpdate(s)
 <2> SUFFICES ASSUME NEW s \in Sessions, ReceiveUpdate(s) PROVE FALSE
  OBVIOUS
 <2>1. PICK q : q = Head(toClient[s]).rule
  OBVIOUS
 <2>2. Handling(s, "PUSH") /\ slots[q] # NoSlot /\ client.session = s
  BY <2>1 DEF ReceiveUpdate, Handling, Incoming
 <2>3. q \in RuleIds /\ Unspawned(s, q)
  BY <2>1, <2>2, PushFacts
 <2> QED BY <2>2, <2>3 DEF SpawnInv, SlotTrue, Unspawned
<1>4. \A s \in Sessions : ClientSession(s) => PlainClient(s)
 BY <1>3 DEF ClientSession, PlainClient
<1> QED BY <1>1, <1>2, <1>4 DEF Next, Plain

LEMMA SpawnStep ==
  ASSUME TypeInv, SessInv, SpawnInv, CarryInv, Plain PROVE SpawnInv'
<1>1. CASE \E t \in Tasks : PlainRequest(t) \/ PlainProgress(t)
 <2>1. UNCHANGED <<client, slots, events, fw, spawned>>
  BY <1>1, RequestFrame
 <2> QED BY <2>1, SpawnKept
<1>2. CASE (\E s \in Sessions : ServerSession(s) \/ Cut(s)) \/ Restart
 <2>1. UNCHANGED <<client, slots, events, fw, spawned>>
  BY <1>2, ServerFrame DEF Cut, Restart, clientVars
 <2> QED BY <2>1, SpawnKept
<1>3. client.session \in Nat
 BY Constants DEF TypeInv, ClientTypes
<1>4. CASE \E s \in Sessions : Connect(s)
 <2>1. PICK s \in Sessions : Connect(s)
  BY <1>4
 <2>2. UNCHANGED <<slots, events, fw, spawned>> /\ client.phase = "off" /\ client'.session = s
  BY <2>1 DEF Connect
 <2>3. s = client.session + 1
  BY <2>1, ConnectSess
 <2>4. client'.session > client.session /\ client'.session >= client.session /\ client'.session \in Nat
  BY <1>3, <2>2, <2>3
 <2> QED BY <2>2, <2>4, PhaseSpawn
<1>5. CASE \E s \in Sessions : JoinWelcomed(s) \/ JoinFails(s)
 <2>1. /\ UNCHANGED <<slots, events, fw, spawned>> /\ client.phase = "joining"
       /\ client'.session = client.session /\ client'.phase # "joining"
  BY <1>5 DEF JoinWelcomed, JoinFails, TypeInv, ClientTypes
 <2>2. client'.session >= client.session /\ client'.session \in Nat
  BY <1>3, <2>1
 <2> QED BY <2>1, <2>2, PhaseSpawn
<1>6. CASE \E s \in Sessions : ReceivePush(s)
 <2>1. PICK s \in Sessions : ReceivePush(s)
  BY <1>6
 <2>2. Handling(s, "PUSH")
  BY <2>1 DEF ReceivePush
 <2>3. Unspawned(s, Head(toClient[s]).rule)
  BY <2>2, PushFacts
 <2> QED BY <2>1, <2>3, PushSpawn
<1> QED BY <1>1, <1>2, <1>4, <1>5, <1>6, RemoveSpawn, RelaySpawn, LeaveSpawn, LeftSpawn,
  ForwarderSpawn DEF Plain, PlainClient

----
(* Messages and request ids *)

\* A message is on its way to the client; a status is on its way to the server.
Sent(m)   == \E s \in Sessions : \E i \in 1 .. Len(toClient[s]) : toClient[s][i] = m
Answer(m) == \E s \in Sessions : \E i \in 1 .. Len(toServer[s]) : toServer[s][i] = m

\* A request id in use belongs to the request's own rule.
Issued(q, r) == q < nextReq /\ \A t \in Tasks : task[t].req # 0 /\ task[t].req = q => task[t].rule = r

Labelled(m) == (m.action = "PUSH" => Issued(m.req, m.rule)) /\ (m.action = "REMOVE" => m.req = 0)
SlotIssued(r) == slots[r] # NoSlot => Issued(slots[r].req, r) /\ slots[r].removeReq \in {-1, 0}
ReqInv ==
    /\ \A t \in Tasks : task[t].req < nextReq /\ (task[t].pc = "insert" => task[t].req = 0)
    /\ \A m : Sent(m) => Labelled(m)
    /\ \A m : Answer(m) => Issued(m.req, m.rule)
    /\ \A r \in RuleIds : SlotIssued(r)

LEMMA SentSame == ASSUME toClient' = toClient PROVE \A x : Sent(x)' => Sent(x)
  BY DEF Sent

LEMMA SentSend ==
  ASSUME TypeInv, NEW s, NEW m \in Update \cup {Welcome}, Send(s, m)
  PROVE  \A x : Sent(x)' => Sent(x) \/ x = m
<1> SUFFICES ASSUME NEW x, NEW u \in Sessions, NEW i \in 1 .. Len(toClient'[u]), toClient'[u][i] = x
             PROVE  Sent(x) \/ x = m
 BY DEF Sent
<1>1. PICK q : q = toClient[u] /\ q \in Seq(Update \cup {Welcome})
 BY DEF TypeInv, WireTypes
<1> USE <1>1
<1>2. toClient'[u] = q \/ toClient'[u] = Append(q, m)
 BY DEF Send, SendReaches, TypeInv, WireTypes
<1>3. CASE toClient'[u] = q
 BY <1>3 DEF Sent
<1>4. CASE toClient'[u] = Append(q, m)
 <2>1. i \in 1 .. Len(q) + 1 /\ Len(q) \in Nat
  BY <1>4
 <2>2. CASE i = Len(q) + 1
  BY <1>4, <2>1, <2>2
 <2>3. CASE i \in 1 .. Len(q)
  <3>1. q[i] = x
   BY <1>4, <2>3
  <3> QED BY <2>3, <3>1 DEF Sent
 <2> QED BY <2>1, <2>2, <2>3
<1> QED BY <1>2, <1>3, <1>4

LEMMA SentTaken ==
  ASSUME TypeInv, NEW s \in Sessions, toClient[s] # <<>>, Received(s)
  PROVE  Sent(Head(toClient[s])) /\ \A x : Sent(x)' => Sent(x)
<1>1. PICK q : q = toClient[s] /\ q \in Seq(Update \cup {Welcome}) /\ q # <<>>
 BY DEF TypeInv, WireTypes
<1>2. toClient'[s] = Tail(q) /\ \A u \in Sessions : u # s => toClient'[u] = toClient[u]
 BY <1>1 DEF Received, TypeInv, WireTypes
<1>3. /\ Len(q) \in Nat \ {0} /\ Len(Tail(q)) = Len(q) - 1 /\ Head(q) = q[1]
      /\ \A i \in 1 .. Len(q) - 1 : Tail(q)[i] = q[i + 1] /\ i + 1 \in 1 .. Len(q)
 BY <1>1
<1>4. 1 \in 1 .. Len(q)
 BY <1>3
<1>5. Sent(Head(toClient[s]))
 BY <1>1, <1>3, <1>4 DEF Sent
<1>6. \A x : Sent(x)' => Sent(x)
 <2> SUFFICES ASSUME NEW x, NEW u \in Sessions, NEW i \in 1 .. Len(toClient'[u]), toClient'[u][i] = x PROVE Sent(x)
  BY DEF Sent
 <2>1. CASE u = s
  <3>1. i + 1 \in 1 .. Len(q) /\ q[i + 1] = x
   BY <1>2, <1>3, <2>1
  <3> QED BY <1>1, <3>1 DEF Sent
 <2>2. CASE u # s
  BY <1>2, <2>2 DEF Sent
 <2> QED BY <2>1, <2>2
<1> QED BY <1>5, <1>6

LEMMA SentLost ==
  ASSUME \A u \in Sessions : toClient'[u] = toClient[u] \/ toClient'[u] = <<>>
  PROVE  \A x : Sent(x)' => Sent(x)
<1>1. Len(<<>>) = 0 /\ 1 .. 0 = {}
 OBVIOUS
<1> QED BY <1>1 DEF Sent

LEMMA AnswerSame == ASSUME toServer' = toServer PROVE \A x : Answer(x)' => Answer(x)
  BY DEF Answer

LEMMA AnswerTaken ==
  ASSUME TypeInv, NEW s \in Sessions, toServer[s] # <<>>, toServer' = [toServer EXCEPT ![s] = Tail(@)]
  PROVE  Answer(Head(toServer[s])) /\ \A x : Answer(x)' => Answer(x)
<1>1. PICK q : q = toServer[s] /\ q \in Seq(Status) /\ q # <<>>
 BY DEF TypeInv, WireTypes
<1>2. toServer'[s] = Tail(q) /\ \A u \in Sessions : u # s => toServer'[u] = toServer[u]
 BY <1>1 DEF TypeInv, WireTypes
<1>3. /\ Len(q) \in Nat \ {0} /\ Len(Tail(q)) = Len(q) - 1 /\ Head(q) = q[1]
      /\ \A i \in 1 .. Len(q) - 1 : Tail(q)[i] = q[i + 1] /\ i + 1 \in 1 .. Len(q)
 BY <1>1
<1>4. 1 \in 1 .. Len(q)
 BY <1>3
<1>5. Answer(Head(toServer[s]))
 BY <1>1, <1>3, <1>4 DEF Answer
<1>6. \A x : Answer(x)' => Answer(x)
 <2> SUFFICES ASSUME NEW x, NEW u \in Sessions, NEW i \in 1 .. Len(toServer'[u]), toServer'[u][i] = x PROVE Answer(x)
  BY DEF Answer
 <2>1. CASE u = s
  <3>1. i + 1 \in 1 .. Len(q) /\ q[i + 1] = x
   BY <1>2, <1>3, <2>1
  <3> QED BY <1>1, <3>1 DEF Answer
 <2>2. CASE u # s
  BY <1>2, <2>2 DEF Answer
 <2> QED BY <2>1, <2>2
<1> QED BY <1>5, <1>6

LEMMA AnswerLost ==
  ASSUME TypeInv, (\E s \in Sessions : Cut(s)) \/ Restart PROVE \A x : Answer(x)' => Answer(x)
<1>1. Len(<<>>) = 0 /\ 1 .. 0 = {}
 OBVIOUS
<1>2. CASE Restart
 BY <1>1, <1>2 DEF Restart, Answer
<1>3. CASE \E s \in Sessions : Cut(s)
 <2>1. PICK s \in Sessions : Cut(s)
  BY <1>3
 <2>2. PICK n \in 0 .. Len(toServer[s]) : toServer' = [toServer EXCEPT ![s] = SubSeq(@, 1, n)]
  BY <2>1 DEF Cut
 <2>3. PICK q : q = toServer[s] /\ q \in Seq(Status)
  BY DEF TypeInv, WireTypes
 <2>4. toServer'[s] = SubSeq(q, 1, n) /\ \A u \in Sessions : u # s => toServer'[u] = toServer[u]
  BY <2>2, <2>3 DEF TypeInv, WireTypes
 <2>5. Len(SubSeq(q, 1, n)) = n /\ \A i \in 1 .. n : SubSeq(q, 1, n)[i] = q[i] /\ i \in 1 .. Len(q)
  BY <2>2, <2>3
 <2> SUFFICES ASSUME NEW x, NEW u \in Sessions, NEW i \in 1 .. Len(toServer'[u]), toServer'[u][i] = x PROVE Answer(x)
  BY DEF Answer
 <2>6. CASE u = s
  <3>1. i \in 1 .. Len(q) /\ q[i] = x
   BY <2>4, <2>5, <2>6
  <3> QED BY <2>3, <3>1 DEF Answer
 <2>7. CASE u # s
  BY <2>4, <2>7 DEF Answer
 <2> QED BY <2>6, <2>7
<1> QED BY <1>2, <1>3

\* The status a relayed event becomes.
LEMMA AnswerRelay ==
  ASSUME TypeInv, SessInv, Relay
  PROVE  \A x : Answer(x)' =>
             \/ Answer(x)
             \/ /\ x.rule = Head(events).rule /\ x.outcome = Head(events).outcome
                /\ x.req = RelayRequest(Head(events), slots[Head(events).rule])
<1>1. PICK e, s, m : /\ e = Head(events) /\ s = client.session
                     /\ m = [rule |-> e.rule, req |-> RelayRequest(e, slots[e.rule]), outcome |-> e.outcome]
 OBVIOUS
<1>2. toServer' = IF link[s] = "up" THEN [toServer EXCEPT ![s] = Append(@, m)] ELSE toServer
 BY <1>1 DEF Relay
<1>3. m \in Status
 BY <1>1, RelayType DEF Relay, TypeInv
<1> SUFFICES ASSUME NEW x, NEW u \in Sessions, NEW i \in 1 .. Len(toServer'[u]), toServer'[u][i] = x
             PROVE  Answer(x) \/ x = m
 BY <1>1 DEF Answer
<1>4. PICK q : q = toServer[u] /\ q \in Seq(Status)
 BY DEF TypeInv, WireTypes
<1> USE <1>4
<1>5. toServer'[u] = q \/ toServer'[u] = Append(q, m)
 BY <1>2 DEF TypeInv, WireTypes
<1>6. CASE toServer'[u] = q
 BY <1>6 DEF Answer
<1>7. CASE toServer'[u] = Append(q, m)
 <2>1. i \in 1 .. Len(q) + 1 /\ Len(q) \in Nat
  BY <1>3, <1>7
 <2>2. CASE i = Len(q) + 1
  BY <1>3, <1>7, <2>1, <2>2
 <2>3. CASE i \in 1 .. Len(q)
  <3>1. q[i] = x
   BY <1>3, <1>7, <2>3
  <3> QED BY <2>3, <3>1 DEF Answer
 <2> QED BY <2>1, <2>2, <2>3
<1> QED BY <1>5, <1>6, <1>7

----
(* Request ids stay with their rule *)

TasksKept ==
    /\ nextReq' = nextReq
    /\ \A t \in Tasks : /\ task'[t].req = 0 \/ (task'[t].req = task[t].req /\ task'[t].rule = task[t].rule)
                        /\ task'[t].pc = "insert" => task'[t].req = 0

LEMMA NoRequest == ASSUME TypeInv, NEW r PROVE Issued(0, r)
<1>1. nextReq \in Nat /\ 0 < nextReq
 BY Constants DEF TypeInv, ServerTypes
<1> QED BY <1>1 DEF Issued

LEMMA ReqKept ==
  ASSUME TypeInv, ReqInv, TasksKept,
         \A m : Sent(m)' => Sent(m) \/ Labelled(m)',
         \A m : Answer(m)' => Answer(m) \/ Issued(m.req, m.rule)',
         \A r \in RuleIds : slots'[r] = slots[r] \/ SlotIssued(r)'
  PROVE  ReqInv'
<1>1. \A q, r : Issued(q, r) => Issued(q, r)'
 BY DEF Issued, TasksKept
<1>2. 0 < nextReq
 BY NoRequest DEF Issued
<1>3. \A t \in Tasks : task'[t].req < nextReq' /\ (task'[t].pc = "insert" => task'[t].req = 0)
 BY <1>2 DEF ReqInv, TasksKept
<1>4. \A m : Sent(m)' => Labelled(m)'
 BY <1>1 DEF ReqInv, Labelled
<1>5. \A m : Answer(m)' => Issued(m.req, m.rule)'
 BY <1>1 DEF ReqInv
<1>6. \A r \in RuleIds : SlotIssued(r)'
 <2> SUFFICES ASSUME NEW r \in RuleIds, slots'[r] = slots[r] PROVE SlotIssued(r)'
  OBVIOUS
 <2>1. PICK k : k = slots[r]
  OBVIOUS
 <2>2. k # NoSlot => Issued(k.req, r) /\ k.removeReq \in {-1, 0}
  BY <2>1 DEF ReqInv, SlotIssued
 <2>3. k # NoSlot => Issued(k.req, r)'
  BY <1>1, <2>2
 <2> QED BY <2>1, <2>2, <2>3 DEF SlotIssued
<1> QED BY <1>3, <1>4, <1>5, <1>6 DEF ReqInv

LEMMA OneTask ==
  ASSUME TypeInv, ReqInv, NEW t \in Tasks, NEW k, Step(t, k), nextReq' = nextReq,
         k.req = 0 \/ (k.req = task[t].req /\ k.rule = task[t].rule /\ k.pc # "insert")
  PROVE  TasksKept
<1>1. task'[t] = k /\ \A u \in Tasks : u # t => task'[u] = task[u]
 BY TaskPoint
<1> QED BY <1>1 DEF TasksKept, ReqInv

LEMMA PlainTaskReq ==
  ASSUME TypeInv, ReqInv, NEW t \in Tasks,
         \/ PlainRequest(t)
         \/ PlainProgress(t) /\ ~PushSend(t)
  PROVE  ReqInv'
<1>1. nextReq' = nextReq /\ toServer' = toServer /\ slots' = slots
 BY DEF PlainRequest, PlainProgress, PushResolve, RemoveMem, PushInsert, PushPersist, Persist,
  PushUndo, PushAcked, PushRead, PushWrite, AckTimeout, UpsertFails, DropWaiter, RemoveDb, RemoveSend, wireVars,
  clientVars
<1>2. task[t] \in Task /\ IdleTask.req = 0
 BY TaskFields DEF IdleTask
<1>3. TasksKept
 <2>1. CASE PlainRequest(t)
  <3>1. CASE \E p \in Ports, l \in Limit : PushResolve(t, p, l)
   <4>1. PICK p, l, k :
             /\ p \in Ports /\ l \in Limit
             /\ Step(t, k)
             /\ k = [IdleTask EXCEPT !.op = "push", !.pc = "insert", !.port = p, !.limit = l, !.session = current]
    BY <3>1 DEF PushResolve
   <4>2. k.req = 0
    BY <4>1 DEF IdleTask
   <4> QED BY <1>1, <4>1, <4>2, OneTask
  <3>2. CASE \E r \in RuleIds : RemoveMem(t, r)
   <4>1. PICK r, k :
             /\ r \in RuleIds
             /\ Step(t, k)
             /\ k = [IdleTask EXCEPT !.op = "remove", !.pc = "delete", !.rule = r, !.port = mem[r].port]
    BY <3>2 DEF RemoveMem
   <4>2. k.req = 0
    BY <4>1 DEF IdleTask
   <4> QED BY <1>1, <4>1, <4>2, OneTask
  <3> QED BY <2>1, <3>1, <3>2 DEF PlainRequest
 <2>2. CASE Step(t, IdleTask)
  BY <1>1, <1>2, <2>2, OneTask
 <2>3. CASE \E pc \in TaskPCs \ {"insert"} : Step(t, Goto(t, pc))
  <3>1. PICK pc \in TaskPCs \ {"insert"} : Step(t, Goto(t, pc))
   BY <2>3
  <3>2. Goto(t, pc).req = task[t].req /\ Goto(t, pc).rule = task[t].rule /\ Goto(t, pc).pc # "insert"
   BY <1>2, <3>1 DEF Goto, Task
  <3> QED BY <1>1, <3>1, <3>2, OneTask
 <2>4. CASE PushInsert(t) /\ ~Step(t, IdleTask)
  <3>1. PICK k, rule, n : k = [task[t] EXCEPT !.pc = "persist", !.rule = n, !.snap = rule] /\ Step(t, k)
   BY <2>4 DEF PushInsert
  <3>2. task[t].req = 0
   BY <2>4 DEF PushInsert, At, ReqInv
  <3>3. k.req = 0
   BY <1>2, <3>1, <3>2 DEF Task
  <3> QED BY <1>1, <3>1, <3>3, OneTask
 <2>5. CASE PushRead(t) /\ ~Step(t, IdleTask)
  <3>1. PICK k, rule : k = [task[t] EXCEPT !.pc = "write", !.snap = rule] /\ Step(t, k)
   BY <2>5 DEF PushRead
  <3>2. k.req = task[t].req /\ k.rule = task[t].rule /\ k.pc # "insert"
   BY <1>2, <3>1 DEF Task
  <3> QED BY <1>1, <3>1, <3>2, OneTask
 <2>6. CASE PushPersist(t) \/ PushAcked(t) \/ AckTimeout(t) \/ RemoveDb(t)
  BY <2>2, <2>3, <2>6 DEF PushPersist, Persist, PushAcked, AckTimeout, RemoveDb, TaskPCs
 <2>7. CASE PushUndo(t) \/ PushWrite(t) \/ UpsertFails(t) \/ DropWaiter(t) \/ RemoveSend(t)
  BY <2>2, <2>7 DEF PushUndo, PushWrite, UpsertFails, DropWaiter, RemoveSend
 <2> QED BY <2>1, <2>2, <2>4, <2>5, <2>6, <2>7 DEF PlainProgress
<1>4. \A m : Sent(m)' => Sent(m) \/ Labelled(m)'
 <2>1. CASE toClient' = toClient
  BY <2>1, SentSame
 <2>2. CASE RemoveSend(t) /\ toClient' # toClient
  <3>1. PICK m : /\ m = [action |-> "REMOVE", rule |-> task[t].rule, req |-> 0, port |-> task[t].port, limit |-> NoLimit]
                 /\ Send(current, m)
   BY <2>2 DEF RemoveSend
  <3>2. m \in Update /\ m.action = "REMOVE" /\ m.req = 0
   <4>1. task[t].rule \in RuleIds /\ task[t].port \in Ports /\ 0 \in Requests /\ NoLimit \in Limit
    <5>1. task[t] \in GoodTask /\ task[t].pc = "send"
     BY <2>2 DEF TypeInv, RemoveSend, At
    <5> QED BY <5>1, Constants DEF GoodTask, Task, Requests, Limit
   <4> QED BY <3>1, <4>1 DEF Update
  <3>3. \A x : Sent(x)' => Sent(x) \/ x = m
   BY <3>1, <3>2, SentSend
  <3>4. Labelled(m)'
   BY <3>2 DEF Labelled
  <3> QED BY <3>3, <3>4
 <2>3. toClient' = toClient \/ RemoveSend(t)
  BY DEF PlainRequest, PlainProgress, PushResolve, RemoveMem, PushInsert, PushPersist, Persist,
   PushUndo, PushAcked, PushRead, PushWrite, AckTimeout, UpsertFails, DropWaiter, RemoveDb, wireVars
 <2> QED BY <2>1, <2>2, <2>3
<1> QED BY <1>1, <1>3, <1>4, AnswerSame, ReqKept

LEMMA PushSendReq ==
  ASSUME TypeInv, ReqInv, NEW t \in Tasks, PushSend(t) PROVE ReqInv'
<1>1. PICK n : n = nextReq /\ n \in Nat /\ nextReq' = n + 1 /\ n <= MaxRequests /\ n \in Requests
 BY Constants DEF PushSend, RequestSend, TypeInv, ServerTypes, Requests
<1>2. toServer' = toServer /\ slots' = slots /\ At(t, "push", "send")
 BY DEF PushSend, RequestSend, clientVars
<1>3. PICK m, k : /\ m = [action |-> "PUSH", rule |-> task[t].rule, req |-> n,
                          port |-> task[t].snap.port, limit |-> task[t].snap.limit]
                  /\ Send(task[t].session, m)
                  /\ k = [task[t] EXCEPT !.pc = "wait", !.req = n, !.snap = NoRule] /\ Step(t, k)
 BY <1>1 DEF PushSend, RequestSend
<1>4. task[t] \in GoodTask
 BY DEF TypeInv
<1>5. k.req = n /\ k.rule = task[t].rule /\ k.pc = "wait"
 BY <1>3, <1>4 DEF GoodTask, Task
<1>6. m \in Update /\ m.action = "PUSH" /\ m.req = n /\ m.rule = task[t].rule
 <2>1. task[t].rule \in RuleIds /\ task[t].snap \in Rule
  BY <1>2, <1>4 DEF GoodTask, At
 <2> QED BY <1>1, <1>3, <2>1 DEF Update, Rule
<1>7. task'[t] = k /\ \A u \in Tasks : u # t => task'[u] = task[u]
 BY <1>3, TaskPoint
<1>8. \A u \in Tasks : task[u].req < n /\ task[u].req \in Nat
 BY <1>1, Constants DEF ReqInv, TypeInv, GoodTask, Task, Requests
<1>9. \A q \in Int : \A r : Issued(q, r) => Issued(q, r)'
 <2> SUFFICES ASSUME NEW q \in Int, NEW r, Issued(q, r) PROVE Issued(q, r)'
  OBVIOUS
 <2>1. q < n /\ q < nextReq'
  BY <1>1 DEF Issued
 <2>2. \A u \in Tasks : task'[u].req # 0 /\ task'[u].req = q => u # t
  BY <1>1, <1>5, <1>7, <2>1
 <2> QED BY <1>7, <2>1, <2>2 DEF Issued
<1>10. Labelled(m)'
 <2>1. n < nextReq'
  BY <1>1
 <2>2. \A u \in Tasks : task'[u].req = n => u = t
  BY <1>1, <1>7, <1>8
 <2>4. PICK r : r = task[t].rule
  OBVIOUS
 <2>5. Issued(n, r)'
  BY <1>5, <1>7, <2>1, <2>2, <2>4 DEF Issued
 <2> QED BY <1>6, <2>4, <2>5 DEF Labelled
<1>11. \A x : Sent(x)' => Sent(x) \/ x = m
 BY <1>3, <1>6, SentSend
<1>12. \A x : Sent(x) => x \in Update \cup {Welcome}
 BY DEF Sent, TypeInv, WireTypes
<1>13. \A x : Sent(x)' => Labelled(x)'
 <2> SUFFICES ASSUME NEW x, Sent(x) PROVE Labelled(x)'
  BY <1>10, <1>11
 <2>1. Labelled(x) /\ (x.action = "PUSH" => x.req \in Int)
  BY <1>12, Constants DEF ReqInv, Update, Welcome, Requests
 <2> QED BY <1>9, <2>1 DEF Labelled
<1>14. \A x : Answer(x)' => Issued(x.req, x.rule)'
 <2> SUFFICES ASSUME NEW x, Answer(x) PROVE Issued(x.req, x.rule)'
  BY <1>2, AnswerSame
 <2>1. x \in Status
  BY DEF Answer, TypeInv, WireTypes
 <2>2. Issued(x.req, x.rule) /\ x.req \in Int
  BY <2>1, Constants DEF ReqInv, Status, Requests
 <2> QED BY <1>9, <2>2
<1>15. \A r \in RuleIds : SlotIssued(r)'
 <2> SUFFICES ASSUME NEW r \in RuleIds, slots[r] # NoSlot PROVE SlotIssued(r)'
  BY <1>2 DEF SlotIssued
 <2>1. PICK q : q = slots[r].req
  OBVIOUS
 <2>2. q \in Int /\ Issued(q, r) /\ slots[r].removeReq \in {-1, 0}
  BY <2>1, Constants DEF ReqInv, SlotIssued, TypeInv, ClientTypes, Slot, Requests
 <2>3. Issued(q, r)'
  BY <1>9, <2>2
 <2> QED BY <1>2, <2>1, <2>2, <2>3 DEF SlotIssued
<1>16. \A u \in Tasks : task'[u].req < nextReq' /\ (task'[u].pc = "insert" => task'[u].req = 0)
 BY <1>1, <1>5, <1>7, <1>8 DEF ReqInv
<1> QED BY <1>13, <1>14, <1>15, <1>16 DEF ReqInv

LEMMA SameTasks == ASSUME ReqInv, UNCHANGED <<task, nextReq>> PROVE TasksKept
  BY DEF TasksKept, ReqInv

\* A session of the server.
LEMMA ServerReq ==
  ASSUME TypeInv, ReqInv, NEW s \in Sessions, ServerSession(s) PROVE ReqInv'
<1>1. slots' = slots /\ nextReq' = nextReq
 BY ServerFrame
<1>2. \A m : Answer(m)' => Answer(m)
 <2>1. CASE toServer' = toServer
  BY <2>1, AnswerSame
 <2>2. CASE toServer[s] # <<>> /\ toServer' = [toServer EXCEPT ![s] = Tail(@)]
  BY <2>2, AnswerTaken
 <2> QED BY <2>1, <2>2, ServerFrame
<1>3. TasksKept
 <2>1. CASE task' = task
  BY <1>1, <2>1, SameTasks
 <2>2. CASE \E t \in Tasks : StatusToWaiter(s, t)
  <3>1. PICK t \in Tasks : StatusToWaiter(s, t)
   BY <2>2
  <3>2. PICK o, k : /\ k = IF task[t].pc = "wait" THEN [task[t] EXCEPT !.pc = "acked", !.ack = o]
                                                   ELSE [task[t] EXCEPT !.req = 0]
                    /\ Step(t, k)
   BY <3>1 DEF StatusToWaiter
  <3>3. k.req = 0 \/ (k.req = task[t].req /\ k.rule = task[t].rule /\ k.pc # "insert")
   BY <3>2, TaskFields DEF Task
  <3> QED BY <1>1, <3>2, <3>3, OneTask
 <2> QED BY <2>1, <2>2, ServerFrame
<1>4. \A m : Sent(m)' => Sent(m) \/ Labelled(m)'
 <2>1. CASE toClient' = toClient
  BY <2>1, SentSame
 <2>2. CASE Hello(s)
  <3>2. Send(s, Welcome) /\ Welcome \in Update \cup {Welcome}
   BY <2>2 DEF Hello
  <3>3. Labelled(Welcome)'
   BY DEF Labelled, Welcome
  <3>4. \A x : Sent(x)' => Sent(x) \/ x = Welcome
   BY <3>2, SentSend
  <3> QED BY <3>3, <3>4
 <2>3. CASE ReplayWrite(s) /\ toClient' # toClient
  <3>1. PICK m : /\ m = [action |-> "PUSH", rule |-> pump[s].rule, req |-> 0,
                         port |-> pump[s].snap.port, limit |-> pump[s].snap.limit]
                 /\ Send(s, m)
   BY <2>3 DEF ReplayWrite
  <3>2. m \in Update /\ m.action = "PUSH" /\ m.req = 0
   <4>1. pump[s] \in GoodPump /\ pump[s].pc = "replayWrite"
    BY <2>3 DEF TypeInv, ReplayWrite, PumpAt
   <4>2. pump[s].rule \in RuleIds /\ pump[s].snap \in Rule /\ 0 \in Requests
    BY <4>1, Constants DEF GoodPump, Requests
   <4> QED BY <3>1, <4>2 DEF Update, Rule
  <3>3. \A x : Sent(x)' => Sent(x) \/ x = m
   BY <3>1, <3>2, SentSend
  <3>4. \A r : Issued(0, r)'
   <4>1. \A r : Issued(0, r)
    BY NoRequest
   <4> QED BY <1>3, <4>1 DEF Issued, TasksKept
  <3>5. Labelled(m)'
   BY <3>2, <3>4 DEF Labelled
  <3> QED BY <3>3, <3>5
 <2> QED BY <2>1, <2>2, <2>3 DEF ServerSession, HelloFails, ReplayList, ReplayMark, ReplayRead,
   ReplayDone, StatusToWaiter, StatusUnsolicited, ServeRead, ServeWrite, PumpEnd, wireVars
<1> QED BY <1>1, <1>2, <1>3, <1>4, ReqKept

LEMMA ClientReq ==
  ASSUME TypeInv, SessInv, ReqInv, NEW s \in Sessions, ReceivePush(s) \/ ReceiveRemove(s)
  PROVE  ReqInv'
<1>1. /\ UNCHANGED <<task, nextReq>> /\ toServer' = toServer
      /\ Incoming(s) /\ toClient[s] # <<>> /\ Received(s)
 BY DEF ReceivePush, ReceiveRemove, Handling, Incoming
<1>2. PICK m : m = Head(toClient[s])
 OBVIOUS
<1>3. m \in Update /\ m.rule \in RuleIds
 <2>1. WireTypes /\ m.action \in {"PUSH", "REMOVE"}
  BY <1>2 DEF ReceivePush, ReceiveRemove, Handling, TypeInv
 <2> QED BY <1>1, <1>2, <2>1, IncomingType DEF Update
<1>4. TasksKept
 BY <1>1, SameTasks
<1>5. Labelled(m) /\ \A x : Sent(x)' => Sent(x)
 BY <1>1, <1>2, SentTaken DEF ReqInv
<1>6. \A q, r : Issued(q, r) => Issued(q, r)'
 BY <1>1 DEF Issued
<1>7. \A r \in RuleIds : slots'[r] = slots[r] \/ SlotIssued(r)'
 <2>1. slots \in [RuleIds -> Slot \cup {NoSlot}]
  BY SpawnTypes
 <2>2. CASE ReceivePush(s)
  <3>1. PICK k : k = [req |-> m.req, removeReq |-> -1, fw |-> spawned + 1] /\ slots' = [slots EXCEPT ![m.rule] = k]
   BY <1>2, <2>2 DEF ReceivePush
  <3>2. k.req = m.req /\ k.removeReq = -1
   BY <3>1
  <3>3. PICK q : q = m.req
   OBVIOUS
  <3>4. m.action = "PUSH" /\ Issued(q, m.rule)'
   BY <1>2, <1>5, <1>6, <2>2, <3>3 DEF ReceivePush, Handling, Labelled
  <3>5. \A r \in RuleIds : r = m.rule => SlotIssued(r)'
   <4>1. slots'[m.rule].req = q /\ slots'[m.rule].removeReq = -1
    BY <1>3, <2>1, <3>1, <3>2, <3>3
   <4> QED BY <3>4, <4>1 DEF SlotIssued
  <3> QED BY <1>3, <2>1, <3>1, <3>5
 <2>3. CASE ReceiveRemove(s) /\ slots[m.rule] # NoSlot
  <3>1. slots' = [slots EXCEPT ![m.rule].removeReq = m.req]
   BY <1>2, <2>3 DEF ReceiveRemove
  <3>2. m.req = 0
   BY <1>2, <1>5, <2>3 DEF ReceiveRemove, Handling, Labelled
  <3>3. slots[m.rule] \in Slot
   BY <1>3, <2>1, <2>3
  <3>4. PICK q : q = slots[m.rule].req
   OBVIOUS
  <3>5. slots'[m.rule].req = q /\ slots'[m.rule].removeReq = 0
   BY <1>3, <2>1, <3>1, <3>2, <3>3, <3>4 DEF Slot
  <3>6. Issued(q, m.rule)'
   BY <1>3, <1>6, <2>3, <3>4 DEF ReqInv, SlotIssued
  <3>7. \A r \in RuleIds : r = m.rule => SlotIssued(r)'
   BY <3>5, <3>6 DEF SlotIssued
  <3> QED BY <1>3, <2>1, <3>1, <3>7
 <2>4. CASE ReceiveRemove(s) /\ slots[m.rule] = NoSlot
  BY <1>2, <2>4 DEF ReceiveRemove
 <2> QED BY <2>2, <2>3, <2>4
<1> QED BY <1>1, <1>4, <1>5, <1>7, AnswerSame, ReqKept

LEMMA RelayReq ==
  ASSUME TypeInv, SessInv, ReqInv, Relay PROVE ReqInv'
<1>1. UNCHANGED <<task, nextReq>> /\ toClient' = toClient /\ events # <<>>
 BY DEF Relay
<1>2. PICK e : e = Head(events)
 OBVIOUS
<1>3. e.rule \in RuleIds
 BY <1>2, RelayFacts
<1>4. slots' = slots \/ slots' = [slots EXCEPT ![e.rule] = NoSlot]
 BY <1>2 DEF Relay
<1>5. \A r \in RuleIds : slots'[r] = slots[r] \/ SlotIssued(r)'
 BY <1>3, <1>4, SpawnTypes DEF SlotIssued
<1>6. Issued(RelayRequest(e, slots[e.rule]), e.rule)
 <2>1. SlotIssued(e.rule) /\ Issued(0, e.rule)
  BY <1>3, NoRequest DEF ReqInv
 <2> USE <2>1 DEF RelayRequest
 <2>2. CASE slots[e.rule] = NoSlot
  BY <2>2
 <2>3. CASE slots[e.rule] # NoSlot /\ e.outcome = "Removed" /\ slots[e.rule].removeReq # -1
  BY <2>3 DEF SlotIssued
 <2>4. CASE slots[e.rule] # NoSlot /\ ~(e.outcome = "Removed" /\ slots[e.rule].removeReq # -1)
  BY <2>4 DEF SlotIssued
 <2> QED BY <2>2, <2>3, <2>4
<1>7. \A q, r : Issued(q, r) => Issued(q, r)'
 BY <1>1 DEF Issued
<1>8. PICK n : n = RelayRequest(e, slots[e.rule])
 OBVIOUS
<1>9. \A m : Answer(m)' => Answer(m) \/ (m.rule = e.rule /\ m.req = n)
 BY <1>2, <1>8, AnswerRelay
<1>10. \A m : Answer(m)' => Answer(m) \/ Issued(m.req, m.rule)'
 BY <1>6, <1>7, <1>8, <1>9
<1> QED BY <1>1, <1>5, <1>10, SameTasks, SentSame, ReqKept

LEMMA ReqStep ==
  ASSUME TypeInv, SessInv, ReqInv, Plain PROVE ReqInv'
<1>1. CASE \E s \in Sessions : Connect(s) \/ JoinWelcomed(s) \/ JoinFails(s) \/ Cut(s)
 <2>1. PICK s \in Sessions : Connect(s) \/ JoinWelcomed(s) \/ JoinFails(s) \/ Cut(s)
  BY <1>1
 <2>2. UNCHANGED <<task, nextReq>> /\ slots' = slots
  BY <2>1 DEF Connect, JoinWelcomed, JoinFails, Cut, clientVars
 <2>3. \A m : Sent(m)' => Sent(m)
  <3>1. CASE JoinWelcomed(s)
   BY <3>1, SentTaken DEF JoinWelcomed, Incoming
  <3>2. CASE ~JoinWelcomed(s)
   <4>1. \A u \in Sessions : toClient'[u] = toClient[u] \/ toClient'[u] = <<>>
    BY <2>1, <3>2 DEF Connect, JoinFails, Cut, TypeInv, WireTypes
   <4> QED BY <4>1, SentLost
  <3> QED BY <3>1, <3>2
 <2>4. \A m : Answer(m)' => Answer(m)
  <3>1. CASE Cut(s)
   BY <3>1, AnswerLost
  <3>2. CASE ~Cut(s)
   BY <2>1, <3>2, AnswerSame DEF Connect, JoinWelcomed, JoinFails
  <3> QED BY <3>1, <3>2
 <2> QED BY <2>2, <2>3, <2>4, SameTasks, ReqKept
<1>2. CASE Leave \/ Left \/ \E f \in Spawns : Forwarder(f)
 <2> USE <1>2 DEF Leave, Left, Forwarder, Bind, BindFails, StopListening, Drained
 <2>1. UNCHANGED <<task, nextReq>> /\ toServer' = toServer
  BY DEF wireVars
 <2>2. \A u \in Sessions : toClient'[u] = toClient[u] \/ toClient'[u] = <<>>
  BY DEF wireVars, TypeInv, WireTypes
 <2>3. \A r \in RuleIds : slots'[r] = slots[r] \/ SlotIssued(r)'
  BY DEF SlotIssued
 <2> QED BY <2>1, <2>2, <2>3, SameTasks, SentLost, AnswerSame, ReqKept
<1>3. CASE Restart
 <2>1. slots' = slots /\ \A u \in Sessions : toClient'[u] = toClient[u] \/ toClient'[u] = <<>>
  BY <1>3 DEF Restart, clientVars
 <2>2. TasksKept
  BY <1>3 DEF Restart, TasksKept, IdleTask
 <2> QED BY <1>3, <2>1, <2>2, SentLost, AnswerLost, ReqKept
<1> QED BY <1>1, <1>2, <1>3, PlainTaskReq, PushSendReq, ServerReq, ClientReq, RelayReq DEF Plain,
  PlainClient

LEMMA InitReq == Init => ReqInv
<1> SUFFICES ASSUME Init PROVE ReqInv
 OBVIOUS
<1>1. Len(<<>>) = 0 /\ 1 .. 0 = {}
 OBVIOUS
<1>2. \A m : ~Sent(m) /\ ~Answer(m)
 BY <1>1 DEF Init, Sent, Answer
<1>3. \A t \in Tasks : task[t].req = 0 /\ task[t].req < nextReq
 BY DEF Init, IdleTask
<1> QED BY <1>2, <1>3 DEF Init, ReqInv, SlotIssued

----
(* One carrier, in every step *)

LEMMA WaiterRule ==
  ASSUME TypeInv, ReqInv, NEW s \in Sessions, NEW t \in Tasks, StatusToWaiter(s, t)
  PROVE  task[t].rule = Head(toServer[s]).rule
<1>1. PICK m : m = Head(toServer[s])
 OBVIOUS
<1>2. toServer[s] # <<>> /\ toServer' = [toServer EXCEPT ![s] = Tail(@)] /\ task[t].req = m.req /\ m.req # 0
 BY <1>1 DEF StatusToWaiter, Waits
<1>3. Answer(m)
 BY <1>1, <1>2, AnswerTaken
<1> QED BY <1>1, <1>2, <1>3 DEF ReqInv, Issued

LEMMA CarryStep ==
  ASSUME TypeInv, StoreInv, SessInv, SpawnInv, ReqInv, CarryInv, Plain PROVE CarryInv'
<1>1. CASE \E t \in Tasks : PlainRequest(t) \/ PlainProgress(t)
 <2>1. PICK t \in Tasks : PlainRequest(t) \/ PlainProgress(t)
  BY <1>1
 <2>2. CASE PlainRequest(t)
  BY <2>2, RequestCarry DEF PlainRequest
 <2>3. CASE PlainProgress(t)
  BY <2>3, ProgressCarry, InsertCarry, SendCarry, AckedCarry DEF PlainProgress
 <2> QED BY <2>1, <2>2, <2>3
<1>2. CASE \E s \in Sessions : ServerSession(s)
 <2>1. PICK s \in Sessions : ServerSession(s)
  BY <1>2
 <2>2. CASE \E t \in Tasks : StatusToWaiter(s, t)
  BY <2>2, WaiterRule, WaiterCarry
 <2>3. CASE ReplayWrite(s)
  BY <2>3, SessionCarry, ReplaySendCarry
 <2> QED BY <2>1, <2>2, <2>3, SessionCarry, ListCarry, UnsolicitedCarry DEF ServerSession
<1>3. CASE \E s \in Sessions : PlainClient(s)
 BY <1>3, WelcomedCarry, OverCarry, PushCarry, RemoveCarry DEF PlainClient
<1>4. CASE \E f \in Spawns : Forwarder(f)
 BY <1>4, BindCarry, StopCarry DEF Forwarder
<1> QED BY <1>1, <1>2, <1>3, <1>4, ConnectCarry, OverCarry, RelayCarry, LeaveCarry, RestartCarry DEF Plain

----
(* What is called Active was bound *)

WasBound(r)      == \E f \in Spawns : fw[f].rule = r /\ fw[f].phase \in {"bound", "draining", "closed"}
SaysActive(rule) == rule # NoRule /\ rule.state = "Active"

\* Every copy of a rule, and every answer under way, that calls it Active.
TaskSays(t, r) ==
    /\ task[t].rule = r
    /\ \/ task[t].pc \in {"persist", "write"} /\ SaysActive(task[t].snap)
       \/ At(t, "push", "acked") /\ task[t].ack = "Activated"
PumpSays(s, r) == /\ pump[s].rule = r /\ pump[s].pc \in {"replayWrite", "serveWrite"}
                  /\ SaysActive(pump[s].snap)
AnswerSays(r)  == \E m : Answer(m) /\ m.rule = r /\ m.outcome = "Activated"
Claims(r) ==
    \/ SaysActive(mem[r]) \/ SaysActive(db[r])
    \/ \E t \in Tasks : TaskSays(t, r)
    \/ \E s \in Sessions : PumpSays(s, r)
    \/ AnswerSays(r)
BoundInv == \A r \in RuleIds : Claims(r) => WasBound(r)

LEMMA BoundKept ==
  ASSUME BoundInv, \A r \in RuleIds : WasBound(r) => WasBound(r)',
         \A r \in RuleIds : Claims(r)' => Claims(r) \/ WasBound(r)
  PROVE  BoundInv'
  BY DEF BoundInv

\* A listener may close, but has been bound.
LEMMA WasBoundKept ==
  ASSUME TypeInv, SessInv, SpawnInv, CarryInv, Plain
  PROVE  \A r \in RuleIds : WasBound(r) => WasBound(r)'
<1> SUFFICES \A f \in Spawns : fw[f].phase \in {"bound", "draining", "closed"} =>
                 fw'[f].rule = fw[f].rule /\ fw'[f].phase \in {"bound", "draining", "closed"}
 BY DEF WasBound
<1>0. fw \in [Spawns -> ForwarderTask]
 BY SpawnTypes
<1>1. CASE fw' = fw
 BY <1>1
<1>2. CASE Leave
 BY <1>2, LeaveSpawn
<1>3. CASE \E s \in Sessions : ReceivePush(s)
 <2>1. PICK k : fw' = [fw EXCEPT ![spawned + 1] = k]
  BY <1>3 DEF ReceivePush
 <2>2. spawned + 1 \notin Spawned
  BY SpawnTypes, Constants DEF Spawned
 <2>3. \A f \in Spawns : f = spawned + 1 => fw[f].phase = "none"
  BY <2>2 DEF SpawnInv
 <2> QED BY <1>0, <2>1, <2>3
<1>4. CASE \E s \in Sessions : ReceiveRemove(s)
 <2>1. fw' = fw \/ \E f : Cancel(f)
  BY <1>4 DEF ReceiveRemove
 <2>2. CASE \E f : Cancel(f)
  <3>1. PICK f : fw' = [fw EXCEPT ![f].cancelled = TRUE]
   BY <2>2 DEF Cancel
  <3>2. \A g \in Spawns : fw'[g] = fw[g] \/ fw'[g] = [fw[g] EXCEPT !.cancelled = TRUE]
   BY <1>0, <3>1
  <3>3. \A x \in ForwarderTask : [x EXCEPT !.cancelled = TRUE].phase = x.phase /\ [x EXCEPT !.cancelled = TRUE].rule = x.rule
   BY DEF ForwarderTask
  <3>4. \A g \in Spawns : fw'[g].phase = fw[g].phase /\ fw'[g].rule = fw[g].rule
   BY <1>0, <3>2, <3>3
  <3> QED BY <3>4
 <2> QED BY <1>1, <2>1, <2>2
<1>5. CASE \E f \in Spawns : Forwarder(f)
 <2>1. PICK f \in Spawns : Forwarder(f)
  BY <1>5
 <2>2. fw[f] \in ForwarderTask
  BY <1>0
 <2>3. PICK p : fw' = [fw EXCEPT ![f].phase = p] /\ (fw[f].phase \in {"bound", "draining", "closed"} => p \in {"draining", "closed"})
  BY <2>1 DEF Forwarder, Bind, BindFails, StopListening, Drained
 <2>4. fw'[f].phase = p /\ fw'[f].rule = fw[f].rule /\ \A g \in Spawns : g # f => fw'[g] = fw[g]
  BY <1>0, <2>2, <2>3 DEF ForwarderTask
 <2> QED BY <2>3, <2>4
<1>6. CASE \E t \in Tasks : PlainRequest(t) \/ PlainProgress(t)
 <2>1. fw' = fw
  BY <1>6, RequestFrame
 <2> QED BY <1>1, <2>1
<1>7. CASE (\E s \in Sessions : ServerSession(s) \/ Cut(s) \/ Connect(s) \/ JoinWelcomed(s) \/ JoinFails(s)) \/ Restart \/ Relay \/ Left
 <2>1. fw' = fw
  BY <1>7, ServerFrame DEF Cut, Restart, clientVars, Connect, JoinWelcomed, JoinFails, Relay, Left
 <2> QED BY <1>1, <2>1
<1> QED BY <1>2, <1>3, <1>4, <1>5, <1>6, <1>7 DEF Plain, PlainClient

LEMMA SameSays ==
  ASSUME \A x : Answer(x)' => Answer(x) PROVE \A r : AnswerSays(r)' => AnswerSays(r)
  BY DEF AnswerSays

LEMMA TaskClaims ==
  ASSUME TypeInv, NEW t \in Tasks, NEW k, Step(t, k), pump' = pump, \A x : Answer(x)' => Answer(x),
         \A r \in RuleIds : SaysActive(mem'[r]) \/ SaysActive(db'[r]) => Claims(r),
         k.pc \in {"persist", "write"} /\ SaysActive(k.snap) => \A r \in RuleIds : r = k.rule => Claims(r),
         k.pc = "acked" => k.op # "push" \/ k.ack # "Activated"
  PROVE  \A r \in RuleIds : Claims(r)' => Claims(r)
<1>1. task'[t] = k /\ \A u \in Tasks : u # t => task'[u] = task[u]
 BY TaskPoint
<1>2. \A r \in RuleIds, u \in Tasks : TaskSays(u, r)' => Claims(r)
 <2> SUFFICES ASSUME NEW r \in RuleIds, NEW u \in Tasks, TaskSays(u, r)' PROVE Claims(r)
  OBVIOUS
 <2>1. CASE u = t
  BY <1>1, <2>1 DEF TaskSays, At
 <2>2. CASE u # t
  <3>1. TaskSays(u, r)
   BY <1>1, <2>2 DEF TaskSays, At
  <3> QED BY <3>1 DEF Claims
 <2> QED BY <2>1, <2>2
<1>3. \A r \in RuleIds, s \in Sessions : PumpSays(s, r)' => Claims(r)
 BY DEF PumpSays, Claims
<1>4. \A r \in RuleIds : AnswerSays(r)' => Claims(r)
 BY SameSays DEF Claims
<1>5. \A r \in RuleIds : Claims(r)' => \/ SaysActive(mem'[r]) \/ SaysActive(db'[r]) \/ AnswerSays(r)'
                                       \/ (\E u \in Tasks : TaskSays(u, r)') \/ (\E s \in Sessions : PumpSays(s, r)')
 BY DEF Claims
<1> QED BY <1>2, <1>3, <1>4, <1>5

LEMMA PumpClaims ==
  ASSUME TypeInv, NEW s \in Sessions, NEW k, PumpStep(s, k), task' = task, \A x : Answer(x)' => Answer(x),
         \A r \in RuleIds : SaysActive(mem'[r]) \/ SaysActive(db'[r]) => Claims(r),
         k.pc \in {"replayWrite", "serveWrite"} /\ SaysActive(k.snap) => \A r \in RuleIds : r = k.rule => Claims(r)
  PROVE  \A r \in RuleIds : Claims(r)' => Claims(r)
<1>1. pump'[s] = k /\ \A u \in Sessions : u # s => pump'[u] = pump[u]
 BY PumpPoint
<1>2. \A r \in RuleIds, u \in Sessions : PumpSays(u, r)' => Claims(r)
 <2> SUFFICES ASSUME NEW r \in RuleIds, NEW u \in Sessions, PumpSays(u, r)' PROVE Claims(r)
  OBVIOUS
 <2>1. CASE u = s
  BY <1>1, <2>1 DEF PumpSays
 <2>2. CASE u # s
  <3>1. PumpSays(u, r)
   BY <1>1, <2>2 DEF PumpSays
  <3> QED BY <3>1 DEF Claims
 <2> QED BY <2>1, <2>2
<1>3. \A r \in RuleIds, t \in Tasks : TaskSays(t, r)' => Claims(r)
 BY DEF TaskSays, At, Claims
<1>4. \A r \in RuleIds : AnswerSays(r)' => Claims(r)
 BY SameSays DEF Claims
<1>5. \A r \in RuleIds : Claims(r)' => \/ SaysActive(mem'[r]) \/ SaysActive(db'[r]) \/ AnswerSays(r)'
                                       \/ (\E u \in Tasks : TaskSays(u, r)') \/ (\E u \in Sessions : PumpSays(u, r)')
 BY DEF Claims
<1> QED BY <1>2, <1>3, <1>4, <1>5

LEMMA StoresClaim ==
  ASSUME TypeInv
  PROVE  /\ \A q \in RuleIds : \A rule : Upsert(q, rule) => \A r \in RuleIds : SaysActive(db'[r]) => SaysActive(db[r]) \/ (r = q /\ SaysActive(rule))
         /\ \A q \in RuleIds : Delete(q) => \A r \in RuleIds : SaysActive(db'[r]) => SaysActive(db[r])
         /\ \A q \in RuleIds, st \in States : Mark(q, st) => \A r \in RuleIds : SaysActive(mem'[r]) => SaysActive(mem[r]) \/ (r = q /\ st = "Active")
<1>1. mem \in [RuleIds -> RuleOrNone] /\ db \in [RuleIds -> RuleOrNone]
 BY DEF TypeInv, ServerTypes
<1>2. \A q \in RuleIds : \A rule : Upsert(q, rule) => \A r \in RuleIds : SaysActive(db'[r]) => SaysActive(db[r]) \/ (r = q /\ SaysActive(rule))
 BY <1>1 DEF Upsert
<1>3. \A q \in RuleIds : Delete(q) => \A r \in RuleIds : SaysActive(db'[r]) => SaysActive(db[r])
 BY <1>1 DEF Delete, SaysActive
<1>4. \A q \in RuleIds, st \in States : Mark(q, st) => \A r \in RuleIds : SaysActive(mem'[r]) => SaysActive(mem[r]) \/ (r = q /\ st = "Active")
 <2> SUFFICES ASSUME NEW q \in RuleIds, NEW st \in States, Mark(q, st), NEW r \in RuleIds, SaysActive(mem'[r])
              PROVE  SaysActive(mem[r]) \/ (r = q /\ st = "Active")
  OBVIOUS
 <2>1. CASE r # q
  BY <2>1, MarkFacts
 <2>2. CASE r = q
  BY <2>2, MarkFacts DEF SaysActive
 <2> QED BY <2>1, <2>2
<1> QED BY <1>2, <1>3, <1>4

\* Requests.
LEMMA RequestClaims ==
  ASSUME TypeInv, NEW t \in Tasks, PlainRequest(t) \/ PlainProgress(t)
  PROVE  \A r \in RuleIds : Claims(r)' => Claims(r)
<1>1. pump' = pump /\ toServer' = toServer
 BY RequestFrame
<1>2. \A x : Answer(x)' => Answer(x)
 BY <1>1, AnswerSame
<1>3. task[t] \in GoodTask /\ task[t] \in Task /\ IdleTask.pc = "idle" /\ IdleTask.op = "none"
 BY TaskFields DEF TypeInv
<1>4. mem \in [RuleIds -> RuleOrNone] /\ db \in [RuleIds -> RuleOrNone]
 BY DEF TypeInv, ServerTypes
<1>5. \A r \in RuleIds : SaysActive(mem[r]) \/ SaysActive(db[r]) => Claims(r)
 BY DEF Claims
<1>6. PICK q : q = task[t].rule
 OBVIOUS
<1>7. CASE \E p \in Ports, l \in Limit : PushResolve(t, p, l)
 <2>1. PICK k, p, l : /\ k = [IdleTask EXCEPT !.op = "push", !.pc = "insert", !.port = p, !.limit = l, !.session = current]
                      /\ Step(t, k) /\ mem' = mem /\ db' = db
  BY <1>7 DEF PushResolve
 <2>2. k.pc = "insert"
  BY <2>1 DEF IdleTask
 <2> QED BY <1>1, <1>2, <1>5, <2>1, <2>2, TaskClaims
<1>8. CASE \E r \in RuleIds : RemoveMem(t, r)
 <2>1. PICK r, k :
           /\ r \in RuleIds
           /\ k = [IdleTask EXCEPT !.op = "remove", !.pc = "delete", !.rule = r, !.port = mem[r].port]
           /\ Step(t, k) /\ mem' = [mem EXCEPT ![r] = NoRule] /\ db' = db
  BY <1>8 DEF RemoveMem
 <2>2. k.pc = "delete"
  BY <2>1 DEF IdleTask
 <2>3. \A x \in RuleIds : SaysActive(mem'[x]) \/ SaysActive(db'[x]) => Claims(x)
  BY <1>4, <1>5, <2>1 DEF SaysActive
 <2> QED BY <1>1, <1>2, <2>1, <2>2, <2>3, TaskClaims
<1>9. CASE PushInsert(t) /\ ~(current = 0 \/ Conflict(task[t].port) \/ nextId > MaxRules)
 <2>1. PICK rule, k : /\ rule = [port |-> task[t].port, limit |-> task[t].limit, state |-> "Pending"]
                      /\ mem' = [mem EXCEPT ![nextId] = rule] /\ db' = db
                      /\ k = [task[t] EXCEPT !.pc = "persist", !.rule = nextId, !.snap = rule] /\ Step(t, k)
  BY <1>9 DEF PushInsert
 <2>2. k.pc = "persist" /\ k.snap = rule /\ ~SaysActive(rule)
  BY <1>3, <2>1 DEF Task, SaysActive
 <2>3. \A x \in RuleIds : SaysActive(mem'[x]) \/ SaysActive(db'[x]) => Claims(x)
  BY <1>4, <1>5, <2>1, <2>2
 <2> QED BY <1>1, <1>2, <2>1, <2>2, <2>3, TaskClaims
<1>10. CASE PushPersist(t)
 <2>1. /\ Upsert(q, task[t].snap) /\ mem' = mem /\ Step(t, Goto(t, "send")) /\ task[t].pc = "persist"
  BY <1>6, <1>10 DEF PushPersist, Persist, At
 <2>2. q \in RuleIds
  BY <1>3, <1>6, <2>1 DEF GoodTask
 <2>3. SaysActive(task[t].snap) => Claims(q)
  BY <1>6, <2>1 DEF Claims, TaskSays
 <2>4. \A x \in RuleIds : SaysActive(mem'[x]) \/ SaysActive(db'[x]) => Claims(x)
  BY <1>5, <2>1, <2>2, <2>3, StoresClaim
 <2>5. Goto(t, "send").pc = "send"
  BY <1>3 DEF Goto, Task
 <2> QED BY <1>1, <1>2, <2>1, <2>4, <2>5, TaskClaims
<1>11. CASE PushSend(t)
 <2>1. PICK k, n : k = [task[t] EXCEPT !.pc = "wait", !.req = n, !.snap = NoRule] /\ Step(t, k) /\ mem' = mem /\ db' = db
  BY <1>11 DEF PushSend, RequestSend
 <2>2. k.pc = "wait"
  BY <1>3, <2>1 DEF Task
 <2> QED BY <1>1, <1>2, <1>5, <2>1, <2>2, TaskClaims
<1>12. CASE PushUndo(t)
 <2>1. task[t].pc = "send" /\ task[t].op = "push" /\ mem' = [mem EXCEPT ![q] = NoRule] /\ Delete(q) /\ Step(t, IdleTask)
  BY <1>6, <1>12 DEF PushUndo, At
 <2>2. q \in RuleIds
  BY <1>3, <1>6, <2>1 DEF GoodTask
 <2>3. \A x \in RuleIds : SaysActive(mem'[x]) \/ SaysActive(db'[x]) => Claims(x)
  <3>1. \A x \in RuleIds : SaysActive(mem'[x]) => SaysActive(mem[x])
   BY <1>4, <2>1 DEF SaysActive
  <3> QED BY <1>5, <2>1, <2>2, <3>1, StoresClaim
 <2> QED BY <1>1, <1>2, <1>3, <2>1, <2>3, TaskClaims
<1>13. CASE PushAcked(t)
 <2>1. /\ At(t, "push", "acked") /\ db' = db
       /\ \/ mem' = mem /\ Step(t, IdleTask)
          \/ Mark(q, StateAfter(task[t].ack)) /\ Step(t, Goto(t, "read"))
  BY <1>6, <1>13 DEF PushAcked
 <2>2. q \in RuleIds
  BY <1>3, <1>6, <2>1 DEF GoodTask, At
 <2>3. StateAfter(task[t].ack) \in States /\ (StateAfter(task[t].ack) = "Active" => Claims(q))
  <3>1. StateAfter(task[t].ack) = "Active" => task[t].ack = "Activated"
   BY DEF StateAfter
  <3>2. task[t].ack = "Activated" => Claims(q)
   BY <1>6, <2>1 DEF Claims, TaskSays
  <3> QED BY <3>1, <3>2 DEF StateAfter, States
 <2>4. \A x \in RuleIds : SaysActive(mem'[x]) \/ SaysActive(db'[x]) => Claims(x)
  BY <1>5, <2>1, <2>2, <2>3, StoresClaim
 <2>5. Goto(t, "read").pc = "read"
  BY <1>3 DEF Goto, Task
 <2> QED BY <1>1, <1>2, <1>3, <2>1, <2>4, <2>5, TaskClaims
<1>14. CASE PushRead(t) /\ Known(task[t].rule)
 <2>1. PICK k : k = [task[t] EXCEPT !.pc = "write", !.snap = mem[q]] /\ Step(t, k) /\ mem' = mem /\ db' = db /\ task[t].pc = "read"
  BY <1>6, <1>14 DEF PushRead, At
 <2>2. k.pc = "write" /\ k.snap = mem[q] /\ k.rule = q
  BY <1>3, <1>6, <2>1 DEF Task
 <2>3. q \in RuleIds
  BY <1>3, <1>6, <2>1 DEF GoodTask
 <2>4. SaysActive(k.snap) => \A r \in RuleIds : r = k.rule => Claims(r)
  BY <1>5, <2>2, <2>3
 <2> QED BY <1>1, <1>2, <1>5, <2>1, <2>2, <2>4, TaskClaims
<1>15. CASE PushWrite(t)
 <2>1. Upsert(q, task[t].snap) /\ mem' = mem /\ Step(t, IdleTask) /\ task[t].pc = "write"
  BY <1>6, <1>15 DEF PushWrite, At
 <2>2. q \in RuleIds
  BY <1>3, <1>6, <2>1 DEF GoodTask
 <2>3. SaysActive(task[t].snap) => Claims(q)
  BY <1>6, <2>1 DEF Claims, TaskSays
 <2>4. \A x \in RuleIds : SaysActive(mem'[x]) \/ SaysActive(db'[x]) => Claims(x)
  BY <1>5, <2>1, <2>2, <2>3, StoresClaim
 <2> QED BY <1>1, <1>2, <1>3, <2>1, <2>4, TaskClaims
<1>16. CASE AckTimeout(t)
 <2>1. Step(t, Goto(t, "expired")) /\ mem' = mem /\ db' = db
  BY <1>16 DEF AckTimeout
 <2>2. Goto(t, "expired").pc = "expired"
  BY <1>3 DEF Goto, Task
 <2> QED BY <1>1, <1>2, <1>5, <2>1, <2>2, TaskClaims
<1>17. CASE RemoveDb(t)
 <2>1. Step(t, Goto(t, "send")) /\ mem' = mem /\ Delete(q) /\ task[t].pc = "delete"
  BY <1>6, <1>17 DEF RemoveDb, At
 <2>2. q \in RuleIds /\ Goto(t, "send").pc = "send"
  <3>1. q \in RuleIds
   BY <1>3, <1>6, <2>1 DEF GoodTask
  <3>2. Goto(t, "send").pc = "send"
   BY <1>3 DEF Goto, Task
  <3> QED BY <3>1, <3>2
 <2>3. \A x \in RuleIds : SaysActive(mem'[x]) \/ SaysActive(db'[x]) => Claims(x)
  BY <1>5, <2>1, <2>2, StoresClaim
 <2> QED BY <1>1, <1>2, <2>1, <2>2, <2>3, TaskClaims
<1>18. CASE Step(t, IdleTask) /\ mem' = mem /\ db' = db
 BY <1>1, <1>2, <1>3, <1>5, <1>18, TaskClaims
<1> QED BY <1>7, <1>8, <1>9, <1>10, <1>11, <1>12, <1>13, <1>14, <1>15, <1>16, <1>17, <1>18
  DEF PlainRequest, PlainProgress, PushInsert, PushRead, UpsertFails, DropWaiter, RemoveSend

\* Sessions of the server.
LEMMA SessionClaims ==
  ASSUME TypeInv, ReqInv, NEW s \in Sessions, ServerSession(s)
  PROVE  \A r \in RuleIds : Claims(r)' => Claims(r)
<1>1. pump[s] \in GoodPump /\ pump[s] \in Pump
 BY DEF TypeInv, GoodPump
<1>2. \A r \in RuleIds : SaysActive(mem[r]) \/ SaysActive(db[r]) => Claims(r)
 BY DEF Claims
<1>3. PICK q : q = pump[s].rule
 OBVIOUS
<1>4. \A x \in PumpPCs : [FreshPump EXCEPT !.pc = x].pc = x /\ [pump[s] EXCEPT !.pc = x].pc = x
 BY <1>1 DEF Pump, FreshPump
<1>5. CASE Hello(s) \/ HelloFails(s) \/ ReplayDone(s) \/ PumpEnd(s)
 <2>0. PICK x \in PumpPCs \ {"replayWrite", "serveWrite"} :
           PumpStep(s, [FreshPump EXCEPT !.pc = x]) \/ PumpStep(s, [pump[s] EXCEPT !.pc = x])
  BY <1>5 DEF Hello, HelloFails, ReplayDone, PumpEnd, PumpPCs
 <2>1. PICK k : (k = [FreshPump EXCEPT !.pc = x] \/ k = [pump[s] EXCEPT !.pc = x]) /\ PumpStep(s, k)
  BY <2>0
 <2>2. k.pc \notin {"replayWrite", "serveWrite"}
  BY <1>4, <2>0, <2>1
 <2>3. task' = task /\ toServer' = toServer /\ mem' = mem /\ db' = db
  BY <1>5 DEF Hello, HelloFails, ReplayDone, PumpEnd, wireVars
 <2> QED BY <1>2, <2>1, <2>2, <2>3, AnswerSame, PumpClaims
<1>6. CASE ReplayList(s)
 <2>1. PICK k, c, d : k = [pump[s] EXCEPT !.pc = "replay", !.capable = c, !.todo = d] /\ PumpStep(s, k)
  BY <1>6 DEF ReplayList
 <2>2. k.pc = "replay"
  BY <1>1, <2>1 DEF Pump
 <2>3. task' = task /\ toServer' = toServer /\ mem' = mem /\ db' = db
  BY <1>6 DEF ReplayList, wireVars
 <2> QED BY <1>2, <2>1, <2>2, <2>3, AnswerSame, PumpClaims
<1>7. CASE ReplayMark(s)
 <2>1. PICK e, mark, k :
           /\ e \in pump[s].todo
           /\ mark \in {"Pending", "Failed"} /\ Mark(e.rule, mark)
           /\ k = [pump[s] EXCEPT !.pc = "replayRead", !.rule = e.rule, !.mark = mark, !.todo = @ \ {e}]
           /\ PumpStep(s, k)
  <3>1. PICK e \in pump[s].todo :
            LET mark == IF e.limit = NoLimit \/ pump[s].capable THEN "Pending" ELSE "Failed" IN
            /\ Mark(e.rule, mark)
            /\ PumpStep(s, [pump[s] EXCEPT !.pc = "replayRead", !.rule = e.rule, !.mark = mark,
                                           !.todo = @ \ {e}])
   BY <1>7 DEF ReplayMark
  <3>2. PICK mark : mark = IF e.limit = NoLimit \/ pump[s].capable THEN "Pending" ELSE "Failed"
   OBVIOUS
  <3>3. PICK k : k = [pump[s] EXCEPT !.pc = "replayRead", !.rule = e.rule, !.mark = mark, !.todo = @ \ {e}]
   OBVIOUS
  <3> QED BY <3>1, <3>2, <3>3
 <2>2. k.pc = "replayRead"
  BY <1>1, <2>1 DEF Pump
 <2>3. task' = task /\ toServer' = toServer /\ db' = db
  BY <1>7 DEF ReplayMark, wireVars
 <2>4. e.rule \in RuleIds /\ mark \in States /\ mark # "Active"
  BY <2>1, PumpFields DEF States
 <2>5. \A x \in RuleIds : SaysActive(mem'[x]) \/ SaysActive(db'[x]) => Claims(x)
  BY <1>2, <2>1, <2>3, <2>4, StoresClaim
 <2> QED BY <2>1, <2>2, <2>3, <2>5, AnswerSame, PumpClaims
<1>8. CASE ReplayRead(s) \/ ServeRead(s)
 <2>1. /\ task' = task /\ toServer' = toServer /\ mem' = mem /\ db' = db
       /\ pump[s].pc \in {"replayRead", "serveRead"}
  BY <1>8 DEF ReplayRead, ServeRead, wireVars, PumpAt
 <2>2. q \in RuleIds
  BY <1>1, <1>3, <2>1 DEF GoodPump
 <2>3. CASE Known(q)
  <3>1. PICK k, x : /\ k = [pump[s] EXCEPT !.pc = x, !.snap = mem[q]] /\ PumpStep(s, k)
   BY <1>3, <1>8, <2>3 DEF ReplayRead, ServeRead
  <3>2. k.snap = mem[q] /\ k.rule = q
   BY <1>1, <1>3, <3>1 DEF Pump
  <3>3. SaysActive(k.snap) => \A r \in RuleIds : r = k.rule => Claims(r)
   BY <1>2, <2>2, <3>2
  <3> QED BY <1>2, <2>1, <3>1, <3>3, AnswerSame, PumpClaims
 <2>4. CASE ~Known(q)
  <3>0. PICK k1, k2 : k1 = [FreshPump EXCEPT !.pc = "serve"] /\ k2 = [pump[s] EXCEPT !.pc = "replay"]
   OBVIOUS
  <3>1. PICK k : (k = k1 \/ k = k2) /\ PumpStep(s, k)
   BY <1>3, <1>8, <2>4, <3>0 DEF ReplayRead, ServeRead
  <3>2. k.pc \notin {"replayWrite", "serveWrite"}
   BY <1>4, <3>0, <3>1 DEF PumpPCs
  <3> QED BY <1>2, <2>1, <3>1, <3>2, AnswerSame, PumpClaims
 <2> QED BY <2>3, <2>4
<1>9. CASE ReplayWrite(s) \/ ServeWrite(s)
 <2>1. /\ task' = task /\ toServer' = toServer /\ mem' = mem /\ Upsert(q, pump[s].snap)
       /\ pump[s].pc \in {"replayWrite", "serveWrite"}
  BY <1>3, <1>9 DEF ReplayWrite, ServeWrite, wireVars, PumpAt
 <2>2. q \in RuleIds
  BY <1>1, <1>3, <2>1 DEF GoodPump
 <2>3. SaysActive(pump[s].snap) => Claims(q)
  BY <1>3, <2>1 DEF Claims, PumpSays
 <2>4. \A x \in RuleIds : SaysActive(mem'[x]) \/ SaysActive(db'[x]) => Claims(x)
  BY <1>2, <2>1, <2>2, <2>3, StoresClaim
 <2>5. \E k : PumpStep(s, k) /\ k.pc \in {"replay", "serve"}
  <3>1. PICK k1, k2, k3 : /\ k1 = [pump[s] EXCEPT !.pc = "replay", !.snap = NoRule]
                          /\ k2 = [k1 EXCEPT !.todo = {}] /\ k3 = [FreshPump EXCEPT !.pc = "serve"]
   OBVIOUS
  <3>2. k1.pc = "replay" /\ k2.pc = "replay" /\ k3.pc = "serve"
   BY <1>1, <3>1 DEF Pump, FreshPump
  <3>3. PumpStep(s, k1) \/ PumpStep(s, k2) \/ PumpStep(s, k3)
   BY <1>9, <3>1 DEF ReplayWrite, ServeWrite
  <3> QED BY <3>2, <3>3
 <2>6. PICK k : PumpStep(s, k) /\ k.pc \in {"replay", "serve"}
  BY <2>5
 <2> QED BY <2>1, <2>4, <2>6, AnswerSame, PumpClaims
<1>10. CASE StatusUnsolicited(s)
 <2>1. /\ toServer[s] # <<>> /\ toServer' = [toServer EXCEPT ![s] = Tail(@)] /\ task' = task /\ db' = db
  BY <1>10 DEF StatusUnsolicited
 <2>2. PICK m : m = Head(toServer[s])
  OBVIOUS
 <2>3. Answer(m) /\ \A x : Answer(x)' => Answer(x)
  BY <2>1, <2>2, AnswerTaken
 <2>4. m.rule \in RuleIds
  <3>1. m \in Status
   BY <2>3 DEF Answer, TypeInv, WireTypes
  <3> QED BY <3>1 DEF Status
 <2>5. StateAfter(m.outcome) \in States /\ (StateAfter(m.outcome) = "Active" => Claims(m.rule))
  BY <2>3 DEF StateAfter, States, Claims, AnswerSays
 <2>6. CASE mem' = mem /\ pump' = pump
  <3>1. \A r : AnswerSays(r)' => AnswerSays(r)
   BY <2>3, SameSays
  <3> QED BY <2>1, <2>6, <3>1 DEF Claims, TaskSays, PumpSays, At
 <2>7. CASE ~(mem' = mem /\ pump' = pump)
  <3>1. PICK k : /\ k = [pump[s] EXCEPT !.pc = "serveRead", !.rule = m.rule] /\ PumpStep(s, k)
                 /\ Mark(m.rule, StateAfter(m.outcome))
   BY <1>10, <2>2, <2>7 DEF StatusUnsolicited
  <3>2. k.pc = "serveRead"
   BY <1>1, <3>1 DEF Pump
  <3>3. \A x \in RuleIds : SaysActive(mem'[x]) \/ SaysActive(db'[x]) => Claims(x)
   BY <1>2, <2>1, <2>4, <2>5, <3>1, StoresClaim
  <3> QED BY <2>1, <2>3, <3>1, <3>2, <3>3, PumpClaims
 <2> QED BY <2>6, <2>7
<1>11. CASE \E t \in Tasks : StatusToWaiter(s, t)
 <2>1. PICK t \in Tasks : StatusToWaiter(s, t)
  BY <1>11
 <2>2. PICK m : m = Head(toServer[s])
  OBVIOUS
 <2>3. PICK k : /\ k = IF task[t].pc = "wait" THEN [task[t] EXCEPT !.pc = "acked", !.ack = m.outcome]
                                               ELSE [task[t] EXCEPT !.req = 0]
                /\ Step(t, k) /\ task[t].pc \in {"wait", "expired"}
  BY <2>1, <2>2 DEF StatusToWaiter, Waits
 <2>4. /\ toServer[s] # <<>> /\ toServer' = [toServer EXCEPT ![s] = Tail(@)] /\ mem' = mem /\ db' = db /\ pump' = pump
  BY <2>1 DEF StatusToWaiter
 <2>5. Answer(m) /\ \A x : Answer(x)' => Answer(x)
  BY <2>2, <2>4, AnswerTaken
 <2>6. task[t].rule = m.rule
  BY <2>1, <2>2, WaiterRule
 <2>7. k.rule = m.rule /\ k.pc \in {"acked", "expired"} /\ (k.pc = "acked" => k.ack = m.outcome)
  BY <2>3, <2>6, TaskFields DEF Task
 <2>8. task'[t] = k /\ \A u \in Tasks : u # t => task'[u] = task[u]
  BY <2>3, TaskPoint
 <2>9. \A u \in Tasks, r \in RuleIds : TaskSays(u, r)' => Claims(r)
  <3> SUFFICES ASSUME NEW u \in Tasks, NEW r \in RuleIds, TaskSays(u, r)' PROVE Claims(r)
   OBVIOUS
  <3>1. CASE u = t
   <4>1. k.rule = r /\ k.pc = "acked" /\ k.ack = "Activated"
    BY <2>7, <2>8, <3>1 DEF TaskSays, At
   <4> QED BY <2>5, <2>7, <4>1 DEF Claims, AnswerSays
  <3>2. CASE u # t
   BY <2>8, <3>2 DEF TaskSays, At, Claims
  <3> QED BY <3>1, <3>2
 <2>10. \A r : AnswerSays(r)' => AnswerSays(r)
  BY <2>5, SameSays
 <2> QED BY <2>4, <2>9, <2>10 DEF Claims, PumpSays
<1> QED BY <1>5, <1>6, <1>7, <1>8, <1>9, <1>10, <1>11 DEF ServerSession

LEMMA OtherClaims ==
  ASSUME TypeInv, SessInv, SpawnInv,
         \/ \E s \in Sessions : Connect(s) \/ PlainClient(s) \/ Cut(s)
         \/ Relay \/ Leave \/ Left \/ Restart
         \/ \E f \in Spawns : Forwarder(f)
  PROVE  \A r \in RuleIds : Claims(r)' => Claims(r) \/ (WasBound(r) /\ Relay /\ link[client.session] = "up")
<1>1. CASE Restart
 <2>1. \A r : AnswerSays(r)' => AnswerSays(r)
  BY <1>1, AnswerLost, SameSays
 <2>2. \A t \in Tasks, r \in RuleIds : ~TaskSays(t, r)'
  BY <1>1, IdleFacts DEF Restart, TaskSays, At
 <2>3. \A s \in Sessions, r \in RuleIds : ~PumpSays(s, r)'
  BY <1>1 DEF Restart, PumpSays, PumpAt, FreshPump
 <2>4. mem' = db /\ db' = db
  BY <1>1 DEF Restart
 <2> QED BY <2>1, <2>2, <2>3, <2>4 DEF Claims
<1>2. CASE ~Restart
 <2>1. /\ mem' = mem /\ db' = db /\ task' = task
  BY <1>2 DEF Connect, PlainClient, JoinWelcomed, JoinFails, ReceivePush, ReceiveRemove, Handling,
   Cut, Relay, Leave, Left, Forwarder, Bind, BindFails, StopListening, Drained
 <2>2. \A s \in Sessions, r \in RuleIds : PumpSays(s, r)' => PumpSays(s, r)
  <3>1. CASE pump' = pump
   BY <3>1 DEF PumpSays
  <3>2. CASE \E s \in Sessions : Connect(s)
   <4>1. PICK s \in Sessions : Connect(s)
    BY <3>2
   <4>2. pump'[s].pc = "hello" /\ \A u \in Sessions : u # s => pump'[u] = pump[u]
    BY <4>1 DEF Connect, PumpStep, TypeInv, FreshPump
   <4> QED BY <4>2 DEF PumpSays
  <3> QED BY <1>2, <3>1, <3>2 DEF PlainClient, JoinWelcomed, JoinFails, ReceivePush, ReceiveRemove,
    Handling, Cut, Relay, Leave, Left, Forwarder, Bind, BindFails, StopListening, Drained
 <2>3. CASE \A x : Answer(x)' => Answer(x)
  <3>1. \A r : AnswerSays(r)' => AnswerSays(r)
   BY <2>3, SameSays
  <3> QED BY <2>1, <2>2, <3>1 DEF Claims, TaskSays, At
 <2>4. CASE Relay /\ link[client.session] = "up"
  <3>1. PICK e : e = Head(events)
   OBVIOUS
  <3>2. \A x : Answer(x)' => Answer(x) \/ (x.rule = e.rule /\ x.outcome = e.outcome)
   BY <2>4, <3>1, AnswerRelay
  <3>3. EventTrue(e)
   <4>1. e = events[1] /\ 1 \in 1 .. Len(events)
    BY <2>4, <3>1, RelayFacts
   <4> QED BY <4>1 DEF SpawnInv
  <3>4. e.outcome = "Activated" => WasBound(e.rule)
   <4>1. Spawned \subseteq Spawns
    BY SpawnTypes
   <4> QED BY <3>3, <4>1 DEF EventTrue, WasBound
  <3>5. \A r : AnswerSays(r)' => AnswerSays(r) \/ WasBound(r)
   BY <3>2, <3>4 DEF AnswerSays
  <3>6. \A r \in RuleIds : Claims(r)' => Claims(r) \/ WasBound(r)
   BY <2>1, <2>2, <3>5 DEF Claims, TaskSays, At
  <3> QED BY <2>4, <3>6
 <2>5. CASE \E s \in Sessions : Cut(s)
  BY <2>3, <2>5, AnswerLost
 <2>6. CASE toServer' = toServer
  BY <2>3, <2>6, AnswerSame
 <2>7. CASE Relay /\ link[client.session] # "up"
  BY <2>6, <2>7, RelayFacts
 <2> QED BY <1>2, <2>4, <2>5, <2>6, <2>7 DEF Connect, PlainClient, JoinWelcomed, JoinFails,
   ReceivePush, ReceiveRemove, Handling, Leave, Left, Forwarder, Bind, BindFails, StopListening,
   Drained, wireVars
<1> QED BY <1>1, <1>2

LEMMA BoundStep ==
  ASSUME TypeInv, SessInv, SpawnInv, CarryInv, ReqInv, BoundInv, Plain PROVE BoundInv'
<1>1. \A r \in RuleIds : Claims(r)' => Claims(r) \/ WasBound(r)
 BY RequestClaims, SessionClaims, OtherClaims DEF Plain
<1> QED BY <1>1, WasBoundKept, BoundKept

LEMMA InitBound == Init => BoundInv
<1> SUFFICES ASSUME Init PROVE BoundInv
 OBVIOUS
<1>1. Len(<<>>) = 0 /\ 1 .. 0 = {}
 OBVIOUS
<1>2. \A m : ~Answer(m)
 BY <1>1 DEF Init, Answer
<1>3. \A r \in RuleIds : ~Claims(r)
 BY <1>2 DEF Init, Claims, SaysActive, TaskSays, PumpSays, AnswerSays, At, IdleTask, FreshPump
<1> QED BY <1>3 DEF BoundInv

----
(* Status *)

LifeInv == TypeInv /\ StoreInv /\ SessInv /\ SpawnInv /\ ReqInv /\ CarryInv /\ BoundInv

LEMMA InitLife == Init => LifeInv
  BY InitTypes, InitStore, InitSess, InitSpawn, InitReq, InitCarry, InitBound DEF LifeInv

LEMMA StillLife == LifeInv /\ UNCHANGED vars => LifeInv'
<1> SUFFICES ASSUME LifeInv, UNCHANGED vars PROVE LifeInv'
 OBVIOUS
<1>1. TypeInv /\ StoreInv /\ SessInv /\ SpawnInv /\ ReqInv /\ CarryInv /\ BoundInv
 BY DEF LifeInv
<1>2. TypeInv' /\ StoreInv' /\ SessInv'
 BY <1>1, TypeStep, StoreStep, SessStep
<1>3. SpawnInv'
 BY <1>1, SpawnKept DEF vars
<1>4. UNCHANGED <<mem, nextId, task, pump, toServer>> /\ toClient' = toClient /\ UNCHANGED <<link, events, fw, spawned>>
 BY DEF vars
<1>5. CarryInv'
 BY <1>1, <1>4, SameClient, SentNothing, ClientQuiet
<1>6. ReqInv'
 <2>1. UNCHANGED <<task, nextReq>> /\ slots' = slots
  BY DEF vars
 <2> QED BY <1>1, <1>4, <2>1, SameTasks, SentSame, AnswerSame, ReqKept
<1>7. BoundInv'
 <2>1. \A r : AnswerSays(r)' => AnswerSays(r)
  BY <1>4, AnswerSame, SameSays
 <2>2. db' = db
  BY DEF vars
 <2>3. \A r \in RuleIds : WasBound(r) => WasBound(r)'
  BY <1>4 DEF WasBound
 <2>4. \A r \in RuleIds : Claims(r)' => Claims(r)
  BY <1>4, <2>1, <2>2 DEF Claims, TaskSays, At, PumpSays
 <2> QED BY <1>1, <2>3, <2>4, BoundKept
<1> QED BY <1>2, <1>3, <1>5, <1>6, <1>7 DEF LifeInv

LEMMA LifeStep == NoUpdates /\ LifeInv /\ [Next]_vars => LifeInv'
<1> SUFFICES ASSUME NoUpdates, LifeInv, Next PROVE LifeInv'
 BY StillLife
<1>1. TypeInv /\ StoreInv /\ SessInv /\ SpawnInv /\ ReqInv /\ CarryInv /\ BoundInv
 BY DEF LifeInv
<1>2. TypeInv' /\ StoreInv' /\ SessInv'
 BY <1>1, TypeStep, StoreStep, SessStep
<1>3. Plain
 BY <1>1, PlainStep
<1>4. SpawnInv' /\ ReqInv' /\ CarryInv' /\ BoundInv'
 BY <1>1, <1>3, SpawnStep, ReqStep, CarryStep, BoundStep
<1> QED BY <1>2, <1>4 DEF LifeInv

\* A listener nobody told to stop belongs to the session the client is in.
LEMMA ListenerHeld ==
  ASSUME TypeInv, SpawnInv, NEW f \in Spawns, fw[f].phase \in {"binding", "bound"}, ~fw[f].cancelled
  PROVE  /\ f \in Spawned /\ client.phase = "on" /\ fw[f].rule \in RuleIds
         /\ slots[fw[f].rule] # NoSlot /\ slots[fw[f].rule].fw = f /\ fw[f].session = client.session
<1>1. f \in Spawned /\ fw[f].rule \in RuleIds
 BY SpawnTypes DEF SpawnInv
<1>2. client.phase = "on" /\ slots[fw[f].rule] # NoSlot /\ slots[fw[f].rule].fw = f
 BY <1>1 DEF SpawnInv, HeldBySlot
<1> QED BY <1>1, <1>2 DEF SpawnInv, SlotTrue

LEMMA LifeStatus == LifeInv => StatusSound
<1> SUFFICES ASSUME LifeInv PROVE StatusSound
 OBVIOUS
<1>1. TypeInv /\ SessInv /\ SpawnInv /\ CarryInv /\ BoundInv
 BY DEF LifeInv
<1>2. ActiveWasBound
 BY <1>1 DEF ActiveWasBound, Active, Known, BoundInv, Claims, SaysActive, WasBound
<1>3. FailedIsSilent
 <2> SUFFICES ASSUME Settled, NEW f \in Spawns, Listening(f), Known(fw[f].rule), mem[fw[f].rule].limit = NoLimit
              PROVE  mem[fw[f].rule].state # "Failed"
  BY DEF FailedIsSilent
 <2>1. PICK r : r = fw[f].rule
  OBVIOUS
 <2>2. fw[f].phase = "bound" /\ ~fw[f].cancelled
  BY DEF Settled, Listening
 <2>3. f \in Spawned /\ client.phase = "on" /\ r \in RuleIds /\ fw[f].session = client.session
  BY <1>1, <2>1, <2>2, ListenerHeld
 <2>4. client.session \in Sessions /\ link[client.session] = "up"
  BY <1>1, <2>3 DEF Settled, SessInv, ClientOK
 <2>5. BoundHere(r)
  BY <2>1, <2>2, <2>3, <2>4 DEF BoundHere, BoundIn
 <2>6. Spared(r)
  BY <1>1, <2>3, <2>5 DEF CarryInv, BoundTold
 <2> QED BY <2>1, <2>6 DEF Spared, FailedTold, Known
<1> QED BY <1>2, <1>3 DEF StatusSound

\* Without updates, what the operator reads is what the client did, for any
\* rules, requests, sessions, cuts and restarts: a rule called Active was bound
\* by a forwarder of the client, and once nothing is under way a rule without
\* a limit that is called Failed has no listener (StatusSound).
THEOREM StatusIsSound == NoUpdates => (Spec => []StatusSound)
<1> SUFFICES ASSUME NoUpdates PROVE Spec => []StatusSound
 OBVIOUS
<1>1. Init => LifeInv
 BY InitLife
<1>2. LifeInv /\ [Next]_vars => LifeInv'
 BY LifeStep
<1>3. LifeInv => StatusSound
 BY LifeStatus
<1> QED BY <1>1, <1>2, <1>3, PTL DEF Spec

----
(* Listeners *)

\* Two listeners never share a port.
OneListener == \A f, g \in Spawns : Listening(f) /\ Listening(g) /\ fw[f].port = fw[g].port => f = g

\* How a step treats the forwarders there are.
LEMMA ForwardersKept ==
  ASSUME TypeInv, SessInv, SpawnInv, CarryInv, Plain
  PROVE  /\ \A f \in Spawns : fw[f].phase # "none" =>
                /\ fw'[f].rule = fw[f].rule /\ fw'[f].port = fw[f].port /\ fw'[f].session = fw[f].session
                /\ fw'[f].phase = "bound" => Listening(f) \/ Bind(f)
                /\ fw'[f].cancelled => \/ fw[f].cancelled \/ Leave
                                       \/ \E s \in Sessions : ReceiveRemove(s) /\ fw[f].rule = Head(toClient[s]).rule
         /\ \A f \in Spawns : fw[f].phase = "none" => ~Listening(f)'
         /\ Spawned' = Spawned \/ \E s \in Sessions : ReceivePush(s)
<1>0. fw \in [Spawns -> ForwarderTask] /\ Spawned \subseteq Spawns
 BY SpawnTypes
<1>1. CASE UNCHANGED <<fw, spawned>>
 BY <1>1 DEF Listening, Spawned
<1>2. CASE Leave
 <2>1. Spawned' = Spawned
  BY <1>2 DEF Leave, Spawned
 <2> QED BY <1>2, <2>1, LeaveSpawn DEF Listening
<1>3. CASE \E s \in Sessions : ReceivePush(s)
 <2>1. PICK n, k : n = spawned + 1 /\ fw' = [fw EXCEPT ![n] = k] /\ k.phase = "binding"
  <3>1. PICK s \in Sessions : ReceivePush(s)
   BY <1>3
  <3>2. PICK m : m = Head(toClient[s])
   OBVIOUS
  <3>3. PICK k : k = [phase |-> "binding", rule |-> m.rule, port |-> m.port,
                cancelled |-> FALSE, session |-> s]
   OBVIOUS
  <3>4. fw' = [fw EXCEPT ![spawned + 1] = k] /\ k.phase = "binding"
   BY <3>1, <3>2, <3>3 DEF ReceivePush
  <3> QED BY <3>4
 <2>2. n \notin Spawned
  BY <2>1, SpawnTypes, Constants DEF Spawned
 <2>3. \A f \in Spawns : f = n => fw[f].phase = "none"
  BY <2>2 DEF SpawnInv
 <2>4. \A f \in Spawns : fw'[f] = IF f = n THEN k ELSE fw[f]
  BY <1>0, <2>1
 <2> QED BY <1>3, <2>1, <2>3, <2>4 DEF Listening
<1>4. CASE \E s \in Sessions : ReceiveRemove(s)
 <2>1. PICK s \in Sessions : ReceiveRemove(s)
  BY <1>4
 <2>2. PICK m : m = Head(toClient[s])
  OBVIOUS
 <2>3. spawned' = spawned
  BY <2>1 DEF ReceiveRemove
 <2>4. CASE slots[m.rule] = NoSlot
  BY <1>1, <2>1, <2>2, <2>3, <2>4 DEF ReceiveRemove
 <2>5. CASE slots[m.rule] # NoSlot
  <3>1. PICK n : n = slots[m.rule].fw /\ fw' = [fw EXCEPT ![n].cancelled = TRUE]
   BY <2>1, <2>2, <2>5 DEF ReceiveRemove, Cancel
  <3>2. m.rule \in RuleIds
   <4>1. Incoming(s) /\ WireTypes /\ m.action = "REMOVE"
    BY <2>1, <2>2 DEF ReceiveRemove, Handling, TypeInv
   <4> QED BY <2>2, <4>1, IncomingType DEF Update
  <3>3. n \in Spawned /\ n \in Spawns /\ fw[n].rule = m.rule
   BY <1>0, <2>5, <3>1, <3>2 DEF SpawnInv, SlotTrue
  <3>4. /\ fw'[n].rule = fw[n].rule /\ fw'[n].port = fw[n].port /\ fw'[n].session = fw[n].session
        /\ fw'[n].phase = fw[n].phase
        /\ \A g \in Spawns : g # n => fw'[g] = fw[g]
   <4>1. fw[n] \in ForwarderTask
    BY <1>0, <3>3
   <4> QED BY <1>0, <3>1, <3>3, <4>1 DEF ForwarderTask
  <3>5. Spawned' = Spawned
   BY <2>3 DEF Spawned
  <3> QED BY <2>1, <2>2, <3>3, <3>4, <3>5 DEF Listening
 <2> QED BY <2>4, <2>5
<1>5. CASE \E f \in Spawns : Forwarder(f)
 <2>1. PICK f \in Spawns : Forwarder(f)
  BY <1>5
 <2>2. fw[f] \in ForwarderTask
  BY <1>0
 <2>3. PICK p : fw' = [fw EXCEPT ![f].phase = p] /\ (p = "bound" => Bind(f)) /\ fw[f].phase # "none"
  BY <2>1 DEF Forwarder, Bind, BindFails, StopListening, Drained, Listening
 <2>4. /\ fw'[f].phase = p /\ fw'[f].rule = fw[f].rule /\ fw'[f].port = fw[f].port /\ fw'[f].session = fw[f].session
       /\ fw'[f].cancelled = fw[f].cancelled
       /\ \A g \in Spawns : g # f => fw'[g] = fw[g]
  BY <1>0, <2>2, <2>3 DEF ForwarderTask
 <2>5. spawned' = spawned
  BY <2>1, ForwarderSpawn
 <2> QED BY <2>3, <2>4, <2>5 DEF Listening, Spawned
<1>6. CASE \E t \in Tasks : PlainRequest(t) \/ PlainProgress(t)
 <2>1. UNCHANGED <<fw, spawned>>
  BY <1>6, RequestFrame
 <2> QED BY <1>1, <2>1
<1>7. CASE (\E s \in Sessions : ServerSession(s) \/ Cut(s) \/ Connect(s) \/ JoinWelcomed(s) \/ JoinFails(s)) \/ Restart \/ Relay \/ Left
 <2>1. UNCHANGED <<fw, spawned>>
  BY <1>7, ServerFrame DEF Cut, Restart, clientVars, Connect, JoinWelcomed, JoinFails, Relay, Left
 <2> QED BY <1>1, <2>1
<1> QED BY <1>2, <1>3, <1>4, <1>5, <1>6, <1>7 DEF Plain, PlainClient

LEMMA ListenerStep ==
  ASSUME TypeInv, SessInv, SpawnInv, CarryInv, OneListener, Plain PROVE OneListener'
<1>1. \A f \in Spawns : Listening(f)' => fw'[f].port = fw[f].port /\ (Listening(f) \/ Bind(f))
 BY ForwardersKept DEF Listening
<1>2. \A f \in Spawns : Bind(f) => \A g \in Spawns : Listening(g) => fw[g].port # fw[f].port
 BY DEF Bind
<1>3. \A f, g \in Spawns : Bind(f) /\ Listening(g)' /\ g # f => Listening(g)
 <2> SUFFICES ASSUME NEW f \in Spawns, NEW g \in Spawns, Bind(f), Listening(g)', g # f PROVE Listening(g)
  OBVIOUS
 <2>1. fw'[g] = fw[g]
  BY SpawnTypes DEF Bind
 <2> QED BY <2>1 DEF Listening
<1> SUFFICES ASSUME NEW f \in Spawns, NEW g \in Spawns, Listening(f)', Listening(g)', fw'[f].port = fw'[g].port, f # g
             PROVE  FALSE
 BY DEF OneListener
<1>4. fw[f].port = fw[g].port
 BY <1>1
<1>5. CASE Listening(f) /\ Listening(g)
 BY <1>4, <1>5 DEF OneListener
<1>6. CASE Bind(f)
 BY <1>2, <1>3, <1>4, <1>6
<1>7. CASE Bind(g)
 BY <1>2, <1>3, <1>4, <1>7
<1> QED BY <1>1, <1>5, <1>6, <1>7

----
(* Copies of a rule agree on its port *)

\* Before a restart an id is never used again: a copy of a rule, wherever it
\* is, has the port the rule has in memory; and what was removed stays away.
Agrees(r, p) == r < nextId /\ (mem[r] # NoRule => p = mem[r].port)
Gone(r)      == r < nextId /\ mem[r] = NoRule

MessageFits(m) == /\ m.action = "PUSH" => Agrees(m.rule, m.port)
                  /\ m.action = "REMOVE" => Gone(m.rule)
TaskFits(t) ==
    /\ task[t].op = "remove" /\ task[t].pc \in {"delete", "send"} => Gone(task[t].rule)
    /\ task[t].op = "push" /\ task[t].pc \in {"persist", "send"} => Agrees(task[t].rule, task[t].snap.port)
PumpFits(s) == PumpAt(s, "replayWrite") => Agrees(pump[s].rule, pump[s].snap.port)
\* A forwarder is told to stop when its rule is gone, or its session.
ForwarderFits(f) ==
    /\ Agrees(fw[f].rule, fw[f].port)
    /\ fw[f].cancelled /\ link[fw[f].session] = "up" => Gone(fw[f].rule)
FitsInv ==
    /\ \A m : Sent(m) => MessageFits(m)
    /\ \A t \in Tasks : TaskFits(t)
    /\ \A s \in Sessions : PumpFits(s)
    /\ \A f \in Spawned : ForwarderFits(f)

\* What a step without a restart keeps of the rules in memory.
RulesKept ==
    /\ \A r \in RuleIds : \A p : Agrees(r, p) => Agrees(r, p)'
    /\ \A r \in RuleIds : Gone(r) => Gone(r)'

LEMMA MemoryKept ==
  ASSUME TypeInv, nextId' \in Int, nextId' >= nextId,
         \A r \in RuleIds : r < nextId => mem'[r] = NoRule \/ (mem[r] # NoRule /\ mem'[r].port = mem[r].port)
  PROVE  RulesKept
<1>1. nextId \in Int /\ \A r \in RuleIds : r \in Int
 BY Constants DEF TypeInv, ServerTypes, RuleIds
<1>2. \A r \in RuleIds : r < nextId => r < nextId'
 BY <1>1
<1> QED BY <1>2 DEF RulesKept, Agrees, Gone

LEMMA SameMemory ==
  ASSUME TypeInv, nextId' = nextId, mem' = mem PROVE RulesKept
<1>1. nextId \in Int
 BY Constants DEF TypeInv, ServerTypes
<1> QED BY <1>1, MemoryKept

LEMMA MarkedMemory ==
  ASSUME TypeInv, nextId' = nextId, NEW q \in RuleIds, NEW st \in States, Mark(q, st)
  PROVE  RulesKept
<1>1. nextId \in Int
 BY Constants DEF TypeInv, ServerTypes
<1>2. \A r \in RuleIds : mem'[r] = NoRule \/ (mem[r] # NoRule /\ mem'[r].port = mem[r].port)
 BY MarkFacts
<1> QED BY <1>1, <1>2, MemoryKept

LEMMA ClearedMemory ==
  ASSUME TypeInv, nextId' = nextId, NEW q \in RuleIds, mem' = [mem EXCEPT ![q] = NoRule]
  PROVE  RulesKept
<1>1. nextId \in Int /\ mem \in [RuleIds -> RuleOrNone]
 BY Constants DEF TypeInv, ServerTypes
<1>2. \A r \in RuleIds : mem'[r] = NoRule \/ mem'[r] = mem[r]
 BY <1>1
<1> QED BY <1>1, <1>2, MemoryKept

LEMMA RequestRules ==
  ASSUME TypeInv, NEW t \in Tasks, PlainRequest(t) \/ PlainProgress(t) PROVE RulesKept
<1>1. nextId \in 1 .. MaxRules + 1 /\ mem \in [RuleIds -> RuleOrNone] /\ task[t] \in GoodTask
 BY DEF TypeInv, ServerTypes
<1>2. CASE \E r \in RuleIds : RemoveMem(t, r)
 BY <1>2, ClearedMemory DEF RemoveMem
<1>3. CASE PushUndo(t)
 <2>1. task[t].rule \in RuleIds /\ nextId' = nextId
  BY <1>1, <1>3 DEF PushUndo, At, GoodTask
 <2> QED BY <1>3, <2>1, ClearedMemory DEF PushUndo
<1>4. CASE PushAcked(t)
 <2>1. task[t].rule \in RuleIds /\ nextId' = nextId
  BY <1>1, <1>4 DEF PushAcked, At, GoodTask
 <2>2. StateAfter(task[t].ack) \in States
  BY DEF StateAfter, States
 <2> QED BY <1>4, <2>1, <2>2, SameMemory, MarkedMemory DEF PushAcked
<1>5. CASE PushInsert(t)
 <2>1. CASE UNCHANGED <<mem, nextId>>
  BY <2>1, SameMemory
 <2>2. CASE ~UNCHANGED <<mem, nextId>>
  <3>1. PICK rule : mem' = [mem EXCEPT ![nextId] = rule] /\ nextId' = nextId + 1
   BY <1>5, <2>2 DEF PushInsert
  <3>2. \A r \in RuleIds : r < nextId => r # nextId
   BY <1>1, Constants DEF RuleIds
  <3>3. \A r \in RuleIds : r < nextId => mem'[r] = mem[r]
   BY <1>1, <3>1, <3>2
  <3>4. nextId' \in Int /\ nextId' >= nextId
   BY <1>1, <3>1, Constants
  <3> QED BY <3>3, <3>4, MemoryKept
 <2> QED BY <2>1, <2>2
<1>6. CASE UNCHANGED <<mem, nextId>>
 BY <1>6, SameMemory
<1> QED BY <1>2, <1>3, <1>4, <1>5, <1>6 DEF PlainRequest, PlainProgress, PushResolve, PushPersist,
  Persist, PushSend, RequestSend, PushRead, PushWrite, AckTimeout, UpsertFails, DropWaiter, RemoveDb, RemoveSend

LEMMA SessionRules ==
  ASSUME TypeInv, NEW s \in Sessions, ServerSession(s) PROVE RulesKept
<1>1. CASE ReplayMark(s)
 <2>1. nextId' = nextId
  BY <1>1 DEF ReplayMark
 <2>2. PICK e \in pump[s].todo, mark \in {"Pending", "Failed"} : Mark(e.rule, mark)
  <3>1. PICK e \in pump[s].todo :
            LET mark == IF e.limit = NoLimit \/ pump[s].capable THEN "Pending" ELSE "Failed" IN
            Mark(e.rule, mark)
   BY <1>1 DEF ReplayMark
  <3>2. PICK mark : mark = IF e.limit = NoLimit \/ pump[s].capable THEN "Pending" ELSE "Failed"
   OBVIOUS
  <3>3. mark \in {"Pending", "Failed"} /\ Mark(e.rule, mark)
   BY <3>1, <3>2
  <3> QED BY <3>3
 <2>3. e.rule \in RuleIds /\ mark \in States
  BY <2>2, PumpFields DEF States
 <2> QED BY <2>1, <2>2, <2>3, MarkedMemory
<1>2. CASE StatusUnsolicited(s)
 <2>1. nextId' = nextId
  BY <1>2 DEF StatusUnsolicited
 <2>2. PICK m : m = Head(toServer[s])
  OBVIOUS
 <2>3. mem' = mem \/ Mark(m.rule, StateAfter(m.outcome))
  BY <1>2, <2>2 DEF StatusUnsolicited
 <2>4. m.rule \in RuleIds
  <3>1. toServer[s] \in Seq(Status) /\ toServer[s] # <<>>
   BY <1>2 DEF StatusUnsolicited, TypeInv, WireTypes
  <3>2. m \in Status
   BY <2>2, <3>1
  <3> QED BY <3>2 DEF Status
 <2>5. StateAfter(m.outcome) \in States
  BY DEF StateAfter, States
 <2> QED BY <2>1, <2>3, <2>4, <2>5, SameMemory, MarkedMemory
<1>3. CASE UNCHANGED <<mem, nextId>>
 BY <1>3, SameMemory
<1> QED BY <1>1, <1>2, <1>3 DEF ServerSession, Hello, HelloFails, ReplayList, ReplayRead,
  ReplayWrite, ReplayDone, StatusToWaiter, ServeRead, ServeWrite, PumpEnd

LEMMA StepRules ==
  ASSUME TypeInv, Plain, ~Restart PROVE RulesKept
<1>1. CASE UNCHANGED <<mem, nextId>>
 BY <1>1, SameMemory
<1> QED BY <1>1, RequestRules, SessionRules DEF Plain, Connect, PlainClient, JoinWelcomed,
  JoinFails, ReceivePush, ReceiveRemove, Handling, Cut, Relay, Leave, Left, Forwarder, Bind,
  BindFails, StopListening, Drained

\* Messages on their way to the client.
LEMMA MessagesKept ==
  ASSUME TypeInv, FitsInv, RulesKept, \A x : Sent(x)' => Sent(x) \/ MessageFits(x)'
  PROVE  \A m : Sent(m)' => MessageFits(m)'
<1> SUFFICES ASSUME NEW m, Sent(m) PROVE MessageFits(m)'
 OBVIOUS
<1>1. MessageFits(m)
 BY DEF FitsInv
<1>2. m \in Update \cup {Welcome} /\ Welcome.action = "WELCOME"
 BY DEF Sent, TypeInv, WireTypes, Welcome
<1>3. m.action \in {"PUSH", "REMOVE"} => m.rule \in RuleIds
 BY <1>2 DEF Update
<1> QED BY <1>1, <1>3 DEF MessageFits, RulesKept

LEMMA PushSendMessages ==
  ASSUME TypeInv, FitsInv, RulesKept, NEW t \in Tasks, PushSend(t)
  PROVE  \A m : Sent(m)' => MessageFits(m)'
<1>1. PICK n : n = nextReq /\ n \in Requests
 BY Constants DEF PushSend, RequestSend, TypeInv, ServerTypes, Requests
<1>2. PICK k, u : k = task[t] /\ u = task[t].session
 OBVIOUS
<1>3. k \in GoodTask /\ k.op = "push" /\ k.pc = "send"
 BY <1>2 DEF PushSend, RequestSend, At, TypeInv
<1>4. PICK m : m = [action |-> "PUSH", rule |-> k.rule, req |-> n, port |-> k.snap.port, limit |-> k.snap.limit]
 OBVIOUS
<1>5. Send(u, m)
 BY <1>1, <1>2, <1>4 DEF PushSend, RequestSend
<1>6. k.rule \in RuleIds /\ k.snap \in Rule
 BY <1>3 DEF GoodTask
<1>7. m \in Update
 BY <1>1, <1>4, <1>6 DEF Update, Rule
<1>8. \A x : Sent(x)' => Sent(x) \/ x = m
 BY <1>5, <1>7, SentSend
<1>9. Agrees(k.rule, k.snap.port)
 BY <1>2, <1>3 DEF FitsInv, TaskFits
<1>10. PICK p : p = k.snap.port
 OBVIOUS
<1>11. Agrees(k.rule, p)'
 BY <1>6, <1>9, <1>10 DEF RulesKept
<1>12. MessageFits(m)'
 BY <1>4, <1>10, <1>11 DEF MessageFits
<1> QED BY <1>8, <1>12, MessagesKept

LEMMA RemoveSendMessages ==
  ASSUME TypeInv, FitsInv, RulesKept, NEW t \in Tasks, RemoveSend(t)
  PROVE  \A m : Sent(m)' => MessageFits(m)'
<1>1. PICK k, u : k = task[t] /\ u = current
 OBVIOUS
<1>2. k \in GoodTask /\ k.op = "remove" /\ k.pc = "send"
 BY <1>1 DEF RemoveSend, At, TypeInv
<1>3. PICK m : m = [action |-> "REMOVE", rule |-> k.rule, req |-> 0, port |-> k.port, limit |-> NoLimit]
 OBVIOUS
<1>4. toClient' = toClient \/ Send(u, m)
 BY <1>1, <1>3 DEF RemoveSend
<1>5. k.rule \in RuleIds /\ k.port \in Ports
 BY <1>2 DEF GoodTask, Task
<1>6. 0 \in Requests
 BY Constants DEF Requests
<1>7. m \in Update
 BY <1>3, <1>5, <1>6 DEF Update, Limit
<1>8. \A x : Sent(x)' => Sent(x) \/ x = m
 BY <1>4, <1>7, SentSend, SentSame
<1>9. Gone(k.rule)'
 BY <1>1, <1>2, <1>5 DEF FitsInv, TaskFits, RulesKept
<1>10. MessageFits(m)'
 BY <1>3, <1>9 DEF MessageFits
<1> QED BY <1>8, <1>10, MessagesKept

LEMMA ReplayMessages ==
  ASSUME TypeInv, FitsInv, RulesKept, NEW s \in Sessions, ReplayWrite(s)
  PROVE  \A m : Sent(m)' => MessageFits(m)'
<1>1. PICK k : k = pump[s]
 OBVIOUS
<1>2. k \in GoodPump /\ k.pc = "replayWrite"
 BY <1>1 DEF ReplayWrite, PumpAt, TypeInv
<1>3. PICK m : m = [action |-> "PUSH", rule |-> k.rule, req |-> 0, port |-> k.snap.port, limit |-> k.snap.limit]
 OBVIOUS
<1>4. toClient' = toClient \/ Send(s, m)
 BY <1>1, <1>3 DEF ReplayWrite
<1>5. k.rule \in RuleIds /\ k.snap \in Rule
 BY <1>2 DEF GoodPump
<1>6. 0 \in Requests
 BY Constants DEF Requests
<1>7. m \in Update
 BY <1>3, <1>5, <1>6 DEF Update, Rule
<1>8. \A x : Sent(x)' => Sent(x) \/ x = m
 BY <1>4, <1>7, SentSend, SentSame
<1>9. Agrees(k.rule, k.snap.port)
 BY <1>1, <1>2 DEF FitsInv, PumpFits, PumpAt
<1>10. PICK p : p = k.snap.port
 OBVIOUS
<1>11. Agrees(k.rule, p)'
 BY <1>5, <1>9, <1>10 DEF RulesKept
<1>12. MessageFits(m)'
 BY <1>3, <1>10, <1>11 DEF MessageFits
<1> QED BY <1>8, <1>12, MessagesKept

LEMMA StepMessages ==
  ASSUME TypeInv, FitsInv, RulesKept, Plain PROVE \A m : Sent(m)' => MessageFits(m)'
<1>1. CASE \A x : Sent(x)' => Sent(x)
 BY <1>1, MessagesKept
<1>2. CASE toClient' = toClient
 BY <1>1, <1>2, SentSame
<1>3. CASE \E s \in Sessions : Hello(s)
 <2>1. PICK s \in Sessions : Send(s, Welcome)
  BY <1>3 DEF Hello
 <2>2. PICK w : w = Welcome
  OBVIOUS
 <2>3. \A x : Sent(x)' => Sent(x) \/ x = w
  BY <2>1, <2>2, SentSend
 <2>4. w.action = "WELCOME"
  BY <2>2 DEF Welcome
 <2>5. MessageFits(w)'
  BY <2>4 DEF MessageFits
 <2> QED BY <2>3, <2>5, MessagesKept
<1>4. CASE \E s \in Sessions : PlainClient(s)
 <2>1. PICK s \in Sessions : PlainClient(s)
  BY <1>4
 <2>2. CASE JoinFails(s)
  <3>1. \A u \in Sessions : toClient'[u] = toClient[u] \/ toClient'[u] = <<>>
   BY <2>2 DEF JoinFails, TypeInv, WireTypes
  <3> QED BY <1>1, <3>1, SentLost
 <2>3. CASE ~JoinFails(s)
  <3>1. toClient[s] # <<>> /\ Received(s)
   BY <2>1, <2>3 DEF PlainClient, JoinWelcomed, ReceivePush, ReceiveRemove, Handling, Incoming
  <3> QED BY <1>1, <3>1, SentTaken
 <2> QED BY <2>2, <2>3
<1>5. CASE Left \/ Restart \/ \E s \in Sessions : Cut(s)
 <2>1. \A u \in Sessions : toClient'[u] = toClient[u] \/ toClient'[u] = <<>>
  BY <1>5 DEF Left, Restart, Cut, TypeInv, WireTypes
 <2> QED BY <1>1, <2>1, SentLost
<1>6. CASE \E s \in Sessions : ServerSession(s)
 BY <1>2, <1>3, <1>6, ReplayMessages DEF ServerSession, HelloFails, ReplayList, ReplayMark,
  ReplayRead, ReplayDone, StatusToWaiter, StatusUnsolicited, ServeRead, ServeWrite, PumpEnd,
  wireVars
<1>7. CASE \E t \in Tasks : PlainRequest(t) \/ PlainProgress(t)
 BY <1>2, <1>7, PushSendMessages, RemoveSendMessages DEF PlainRequest, PlainProgress, PushResolve,
  RemoveMem, PushInsert, PushPersist, Persist, PushUndo, PushAcked, PushRead, PushWrite,
  AckTimeout, UpsertFails, DropWaiter, RemoveDb, wireVars
<1>8. CASE Relay \/ Leave \/ (\E s \in Sessions : Connect(s)) \/ \E f \in Spawns : Forwarder(f)
 BY <1>2, <1>8 DEF Relay, Leave, Connect, Forwarder, Bind, BindFails, StopListening, Drained,
  wireVars
<1> QED BY <1>4, <1>5, <1>6, <1>7, <1>8 DEF Plain

\* Requests.
FitTask(k) ==
    /\ k.op = "remove" /\ k.pc \in {"delete", "send"} => Gone(k.rule)
    /\ k.op = "push" /\ k.pc \in {"persist", "send"} => Agrees(k.rule, k.snap.port)

LEMMA FitKept ==
  ASSUME TypeInv, RulesKept, NEW k \in GoodTask, FitTask(k) PROVE FitTask(k)'
<1>1. k.pc \in {"delete", "send", "persist"} => k.rule \in RuleIds
 BY DEF GoodTask
<1>2. PICK p : p = k.snap.port
 OBVIOUS
<1> QED BY <1>1, <1>2 DEF FitTask, RulesKept

LEMMA TasksKeptFit ==
  ASSUME TypeInv, FitsInv, RulesKept, NEW t \in Tasks, NEW k, Step(t, k), FitTask(k)'
  PROVE  \A u \in Tasks : TaskFits(u)'
<1>1. task'[t] = k /\ \A u \in Tasks : u # t => task'[u] = task[u]
 BY TaskPoint
<1> SUFFICES ASSUME NEW u \in Tasks PROVE TaskFits(u)'
 OBVIOUS
<1>2. PICK j : j = task'[u]
 OBVIOUS
<1>3. FitTask(j)'
 <2>1. CASE u = t
  BY <1>1, <1>2, <2>1
 <2>2. CASE u # t
  <3>1. j = task[u] /\ j \in GoodTask
   BY <1>1, <1>2, <2>2 DEF TypeInv
  <3>2. FitTask(j)
   BY <3>1 DEF FitsInv, TaskFits, FitTask
  <3> QED BY <3>1, <3>2, FitKept
 <2> QED BY <2>1, <2>2
<1> QED BY <1>2, <1>3 DEF TaskFits, FitTask

LEMMA SameTasksFit ==
  ASSUME TypeInv, FitsInv, RulesKept, task' = task PROVE \A u \in Tasks : TaskFits(u)'
<1> SUFFICES ASSUME NEW u \in Tasks PROVE TaskFits(u)'
 OBVIOUS
<1>1. PICK j : j = task[u] /\ j \in GoodTask
 BY DEF TypeInv
<1>2. FitTask(j)
 BY <1>1 DEF FitsInv, TaskFits, FitTask
<1>3. FitTask(j)'
 BY <1>1, <1>2, FitKept
<1> QED BY <1>1, <1>3 DEF TaskFits, FitTask

LEMMA RequestFits ==
  ASSUME TypeInv, StoreInv, FitsInv, RulesKept, NEW t \in Tasks, PlainRequest(t) \/ PlainProgress(t)
  PROVE  \A u \in Tasks : TaskFits(u)'
<1>1. task[t] \in GoodTask /\ task[t] \in Task /\ IdleTask.pc = "idle" /\ IdleTask.op = "none"
 BY TaskFields DEF TypeInv
<1>2. PICK j : j = task[t] /\ FitTask(j)
 BY DEF FitsInv, TaskFits, FitTask
<1>3. FitTask(j)'
 BY <1>1, <1>2, FitKept
<1>4. ASSUME NEW k, Step(t, k), k.pc \notin {"delete", "send", "persist"}
      PROVE  \A u \in Tasks : TaskFits(u)'
 <2>1. FitTask(k)'
  BY <1>4 DEF FitTask
 <2> QED BY <1>4, <2>1, TasksKeptFit
<1>5. CASE \E p \in Ports, l \in Limit : PushResolve(t, p, l)
 <2>1. PICK p, l, k : k = [IdleTask EXCEPT !.op = "push", !.pc = "insert", !.port = p, !.limit = l, !.session = current]
                      /\ Step(t, k)
  BY <1>5 DEF PushResolve
 <2>2. k.pc = "insert"
  BY <2>1 DEF IdleTask
 <2> QED BY <1>4, <2>1, <2>2
<1>6. CASE \E r \in RuleIds : RemoveMem(t, r)
 <2>1. PICK r \in RuleIds : RemoveMem(t, r)
  BY <1>6
 <2>2. PICK k : k = [IdleTask EXCEPT !.op = "remove", !.pc = "delete", !.rule = r, !.port = mem[r].port] /\ Step(t, k)
  BY <2>1 DEF RemoveMem
 <2>3. k.op = "remove" /\ k.rule = r
  BY <2>2 DEF IdleTask
 <2>4. mem'[r] = NoRule /\ nextId' = nextId /\ mem[r] # NoRule
  BY <2>1 DEF RemoveMem, Known, TypeInv, ServerTypes
 <2>5. r < nextId
  <3>1. r \in Int /\ nextId \in Int /\ ~(r >= nextId)
   BY <2>4, Constants DEF StoreInv, FreshIds, TypeInv, ServerTypes, RuleIds
  <3> QED BY <3>1
 <2>6. FitTask(k)'
  BY <2>3, <2>4, <2>5 DEF FitTask, Gone
 <2> QED BY <2>2, <2>6, TasksKeptFit
<1>7. CASE PushInsert(t)
 <2>1. CASE Step(t, IdleTask)
  BY <1>1, <1>4, <2>1
 <2>2. CASE ~Step(t, IdleTask)
  <3>1. PICK n, rule, k : /\ n = nextId /\ nextId' = n + 1 /\ mem' = [mem EXCEPT ![n] = rule] /\ n <= MaxRules
                          /\ k = [task[t] EXCEPT !.pc = "persist", !.rule = n, !.snap = rule] /\ Step(t, k)
   <4>1. PICK n, rule : n = nextId /\ rule = [port |-> task[t].port, limit |-> task[t].limit, state |-> "Pending"]
    OBVIOUS
   <4>2. PICK k : k = [task[t] EXCEPT !.pc = "persist", !.rule = n, !.snap = rule]
    OBVIOUS
   <4>3. /\ nextId' = n + 1 /\ mem' = [mem EXCEPT ![n] = rule] /\ ~(n > MaxRules)
         /\ Step(t, k)
    BY <1>7, <2>2, <4>1, <4>2 DEF PushInsert
   <4>4. n \in Int
    BY <4>1, Constants DEF TypeInv, ServerTypes
   <4>5. n <= MaxRules
    BY <4>3, <4>4, Constants
   <4> QED BY <4>1, <4>2, <4>3, <4>5
  <3>2. k.op = "push" /\ k.rule = n /\ k.snap = rule
   <4>1. task[t].op = "push"
    BY <1>7 DEF PushInsert, At
   <4> QED BY <1>1, <3>1, <4>1 DEF Task
  <3>3. n \in RuleIds /\ n < nextId'
   BY <3>1, Constants DEF TypeInv, ServerTypes, RuleIds
  <3>4. mem'[n] = rule
   BY <3>1, <3>3 DEF TypeInv, ServerTypes
  <3>5. PICK p : p = rule.port
   OBVIOUS
  <3>6. Agrees(n, p)'
   BY <3>3, <3>4, <3>5 DEF Agrees
  <3>7. FitTask(k)'
   BY <3>2, <3>5, <3>6 DEF FitTask
  <3> QED BY <3>1, <3>7, TasksKeptFit
 <2> QED BY <2>1, <2>2
<1>8. CASE PushPersist(t) \/ RemoveDb(t)
 <2>1. PICK k : k = Goto(t, "send") /\ Step(t, k)
  BY <1>8 DEF PushPersist, Persist, RemoveDb
 <2>2. k.op = j.op /\ k.rule = j.rule /\ k.snap = j.snap /\ j.pc \in {"persist", "delete"} /\ j.op \in {"push", "remove"}
       /\ (j.op = "push" => j.pc = "persist") /\ (j.op = "remove" => j.pc = "delete")
  BY <1>1, <1>2, <1>8, <2>1 DEF PushPersist, Persist, RemoveDb, At, Goto, Task
 <2>3. FitTask(k)'
  BY <1>3, <2>2 DEF FitTask
 <2> QED BY <2>1, <2>3, TasksKeptFit
<1>9. CASE PushSend(t)
 <2>1. PICK n, k : k = [task[t] EXCEPT !.pc = "wait", !.req = n, !.snap = NoRule] /\ Step(t, k)
  BY <1>9 DEF PushSend, RequestSend
 <2>2. k.pc = "wait"
  BY <1>1, <2>1 DEF Task
 <2> QED BY <1>4, <2>1, <2>2
<1>10. CASE PushUndo(t) \/ PushWrite(t) \/ UpsertFails(t) \/ DropWaiter(t) \/ RemoveSend(t)
 BY <1>1, <1>4, <1>10 DEF PushUndo, PushWrite, UpsertFails, DropWaiter, RemoveSend
<1>11. CASE PushAcked(t) \/ AckTimeout(t)
 <2>1. PICK x \in {"read", "expired"} : Step(t, IdleTask) \/ Step(t, Goto(t, x))
  BY <1>11 DEF PushAcked, AckTimeout
 <2>2. Goto(t, x).pc = x
  BY <2>1, TaskFields DEF TaskPCs
 <2> QED BY <1>1, <1>4, <2>1, <2>2
<1>12. CASE PushRead(t)
 <2>1. PICK k : k = [task[t] EXCEPT !.pc = "write", !.snap = mem[task[t].rule]]
  OBVIOUS
 <2>2. Step(t, k) \/ Step(t, IdleTask)
  BY <1>12, <2>1 DEF PushRead
 <2>3. k.pc = "write"
  BY <1>1, <2>1 DEF Task
 <2> QED BY <1>1, <1>4, <2>2, <2>3
<1> QED BY <1>5, <1>6, <1>7, <1>8, <1>9, <1>10, <1>11, <1>12 DEF PlainRequest, PlainProgress

LEMMA StepTasks ==
  ASSUME TypeInv, StoreInv, FitsInv, RulesKept, Plain, ~Restart PROVE \A u \in Tasks : TaskFits(u)'
<1>1. CASE task' = task
 BY <1>1, SameTasksFit
<1>2. CASE \E s \in Sessions, t \in Tasks : StatusToWaiter(s, t)
 <2>1. PICK s \in Sessions, t \in Tasks : StatusToWaiter(s, t)
  BY <1>2
 <2>2. PICK o, k1, k2 : /\ o = Head(toServer[s]).outcome
                        /\ k1 = [task[t] EXCEPT !.pc = "acked", !.ack = o] /\ k2 = [task[t] EXCEPT !.req = 0]
  OBVIOUS
 <2>3. PICK k : /\ k = IF task[t].pc = "wait" THEN k1 ELSE k2
                /\ Step(t, k) /\ task[t].pc \in {"wait", "expired"}
  BY <2>1, <2>2 DEF StatusToWaiter, Waits
 <2>4. k.pc \in {"acked", "expired"}
  BY <2>2, <2>3, TaskFields DEF Task
 <2>5. FitTask(k)'
  BY <2>4 DEF FitTask
 <2> QED BY <2>3, <2>5, TasksKeptFit
<1>3. CASE \E s \in Sessions : ServerSession(s)
 BY <1>1, <1>2, <1>3, ServerFrame
<1> QED BY <1>1, <1>3, RequestFits DEF Plain, Connect, PlainClient, JoinWelcomed, JoinFails,
  ReceivePush, ReceiveRemove, Handling, Cut, Relay, Leave, Left, Forwarder, Bind, BindFails,
  StopListening, Drained

\* Sessions of the server.
LEMMA PumpsKept ==
  ASSUME TypeInv, FitsInv, RulesKept,
         \A s \in Sessions : pump'[s] = pump[s] \/ PumpFits(s)'
  PROVE  \A s \in Sessions : PumpFits(s)'
<1> SUFFICES ASSUME NEW s \in Sessions, pump'[s] = pump[s] PROVE PumpFits(s)'
 OBVIOUS
<1>1. PICK k, p : k = pump[s] /\ p = pump[s].snap.port
 OBVIOUS
<1>2. k.pc = "replayWrite" => k.rule \in RuleIds /\ Agrees(k.rule, p)
 BY <1>1 DEF FitsInv, PumpFits, PumpAt, TypeInv, GoodPump
<1>3. k.pc = "replayWrite" => Agrees(k.rule, p)'
 BY <1>2 DEF RulesKept
<1> QED BY <1>1, <1>3 DEF PumpFits, PumpAt

LEMMA OnePump ==
  ASSUME TypeInv, FitsInv, RulesKept, NEW s \in Sessions, NEW k, PumpStep(s, k),
         k.pc = "replayWrite" => Agrees(k.rule, k.snap.port)'
  PROVE  \A u \in Sessions : PumpFits(u)'
<1>1. pump'[s] = k /\ \A u \in Sessions : u # s => pump'[u] = pump[u]
 BY PumpPoint
<1>2. PumpFits(s)'
 BY <1>1 DEF PumpFits, PumpAt
<1> QED BY <1>1, <1>2, PumpsKept

LEMMA SessionPumps ==
  ASSUME TypeInv, StoreInv, FitsInv, RulesKept, NEW s \in Sessions, ServerSession(s)
  PROVE  \A u \in Sessions : PumpFits(u)'
<1>1. pump[s] \in GoodPump /\ pump[s] \in Pump
 BY DEF TypeInv, GoodPump
<1>2. \A x \in PumpPCs : [FreshPump EXCEPT !.pc = x].pc = x /\ [pump[s] EXCEPT !.pc = x].pc = x
 BY <1>1 DEF Pump, FreshPump
<1>3. ASSUME NEW k, PumpStep(s, k), k.pc # "replayWrite" PROVE \A u \in Sessions : PumpFits(u)'
 BY <1>3, OnePump
<1>4. CASE Hello(s) \/ HelloFails(s) \/ ReplayDone(s) \/ PumpEnd(s)
 <2>0. PICK x \in PumpPCs \ {"replayWrite"} :
           PumpStep(s, [FreshPump EXCEPT !.pc = x]) \/ PumpStep(s, [pump[s] EXCEPT !.pc = x])
  BY <1>4 DEF Hello, HelloFails, ReplayDone, PumpEnd, PumpPCs
 <2>1. PICK k : (k = [FreshPump EXCEPT !.pc = x] \/ k = [pump[s] EXCEPT !.pc = x]) /\ PumpStep(s, k)
  BY <2>0
 <2>2. k.pc # "replayWrite"
  BY <1>2, <2>0, <2>1
 <2> QED BY <1>3, <2>1, <2>2
<1>5. CASE ReplayList(s)
 <2>1. PICK k, c, d : k = [pump[s] EXCEPT !.pc = "replay", !.capable = c, !.todo = d] /\ PumpStep(s, k)
  BY <1>5 DEF ReplayList
 <2>2. k.pc = "replay"
  BY <1>1, <2>1 DEF Pump
 <2> QED BY <1>3, <2>1, <2>2
<1>6. CASE ReplayMark(s)
 <2>1. PICK q, y, d, k : k = [pump[s] EXCEPT !.pc = "replayRead", !.rule = q, !.mark = y, !.todo = d] /\ PumpStep(s, k)
  BY <1>6 DEF ReplayMark
 <2>2. k.pc = "replayRead"
  BY <1>1, <2>1 DEF Pump
 <2> QED BY <1>3, <2>1, <2>2
<1>7. CASE ReplayRead(s)
 <2>1. PICK q : q = pump[s].rule /\ q \in RuleIds
  BY <1>1, <1>7 DEF ReplayRead, PumpAt, GoodPump
 <2>2. CASE Known(q)
  <3>1. PICK k : k = [pump[s] EXCEPT !.pc = "replayWrite", !.snap = mem[q]] /\ PumpStep(s, k)
   BY <1>7, <2>1, <2>2 DEF ReplayRead
  <3>2. k.rule = q /\ k.snap = mem[q]
   BY <1>1, <2>1, <3>1 DEF Pump
  <3>3. q < nextId
   <4>1. q \in Int /\ nextId \in Int /\ ~(q >= nextId)
    BY <2>1, <2>2, Constants DEF StoreInv, FreshIds, TypeInv, ServerTypes, RuleIds, Known
   <4> QED BY <4>1
  <3>4. PICK p : p = mem[q].port /\ Agrees(q, p)
   BY <3>3 DEF Agrees
  <3>5. Agrees(q, p)'
   BY <2>1, <3>4 DEF RulesKept
  <3>6. k.snap.port = p
   BY <3>2, <3>4
  <3>7. Agrees(k.rule, k.snap.port)'
   BY <3>2, <3>5, <3>6
  <3> QED BY <3>1, <3>7, OnePump
 <2>3. CASE ~Known(q)
  <3>1. PICK k : k = [pump[s] EXCEPT !.pc = "replay"] /\ PumpStep(s, k)
   BY <1>7, <2>1, <2>3 DEF ReplayRead
  <3>2. k.pc = "replay"
   BY <1>2, <3>1 DEF PumpPCs
  <3> QED BY <1>3, <3>1, <3>2
 <2> QED BY <2>2, <2>3
<1>8. CASE ServeRead(s)
 <2>1. PICK y, k1, k2 : /\ y = mem[pump[s].rule] /\ k1 = [pump[s] EXCEPT !.pc = "serveWrite", !.snap = y]
                        /\ k2 = [FreshPump EXCEPT !.pc = "serve"]
  OBVIOUS
 <2>2. PumpStep(s, k1) \/ PumpStep(s, k2)
  BY <1>8, <2>1 DEF ServeRead
 <2>3. k1.pc = "serveWrite" /\ k2.pc = "serve"
  BY <1>1, <2>1 DEF Pump, FreshPump
 <2> QED BY <1>3, <2>2, <2>3
<1>9. CASE ReplayWrite(s) \/ ServeWrite(s)
 <2>1. PICK k1, k2, k3 : /\ k1 = [pump[s] EXCEPT !.pc = "replay", !.snap = NoRule]
                         /\ k2 = [k1 EXCEPT !.todo = {}] /\ k3 = [FreshPump EXCEPT !.pc = "serve"]
  OBVIOUS
 <2>2. k1.pc = "replay" /\ k2.pc = "replay" /\ k3.pc = "serve"
  BY <1>1, <2>1 DEF Pump, FreshPump
 <2>3. PumpStep(s, k1) \/ PumpStep(s, k2) \/ PumpStep(s, k3)
  BY <1>9, <2>1 DEF ReplayWrite, ServeWrite
 <2> QED BY <1>3, <2>2, <2>3
<1>10. CASE StatusUnsolicited(s)
 <2>1. PICK q, k : q = Head(toServer[s]).rule /\ k = [pump[s] EXCEPT !.pc = "serveRead", !.rule = q]
  OBVIOUS
 <2>2. pump' = pump \/ PumpStep(s, k)
  BY <1>10, <2>1 DEF StatusUnsolicited
 <2>3. k.pc = "serveRead"
  BY <1>1, <2>1 DEF Pump
 <2> QED BY <1>3, <2>2, <2>3, PumpsKept
<1>11. CASE \E t \in Tasks : StatusToWaiter(s, t)
 <2>1. pump' = pump
  BY <1>11 DEF StatusToWaiter
 <2> QED BY <2>1, PumpsKept
<1> QED BY <1>4, <1>5, <1>6, <1>7, <1>8, <1>9, <1>10, <1>11 DEF ServerSession

LEMMA StepPumps ==
  ASSUME TypeInv, StoreInv, FitsInv, RulesKept, Plain, ~Restart
  PROVE  \A s \in Sessions : PumpFits(s)'
<1>1. CASE pump' = pump
 BY <1>1, PumpsKept
<1>2. CASE \E s \in Sessions : Connect(s)
 <2>1. PICK s, c, k : s \in Sessions /\ k = [FreshPump EXCEPT !.pc = "hello", !.capable = c] /\ PumpStep(s, k)
  BY <1>2 DEF Connect
 <2>2. k.pc = "hello"
  BY <2>1 DEF FreshPump
 <2> QED BY <2>1, <2>2, OnePump
<1>3. CASE \E t \in Tasks : PlainRequest(t) \/ PlainProgress(t)
 BY <1>1, <1>3, RequestFrame
<1> QED BY <1>1, <1>2, <1>3, SessionPumps DEF Plain, PlainClient, JoinWelcomed, JoinFails,
  ReceivePush, ReceiveRemove, Handling, Cut, Relay, Leave, Left, Forwarder, Bind, BindFails,
  StopListening, Drained

\* Forwarders.
LEMMA LinkOpened ==
  ASSUME TypeInv, Plain PROVE \A s \in Sessions : link'[s] = "up" => link[s] = "up" \/ Connect(s)
<1>0. link \in [Sessions -> {"new", "up", "cut"}]
 BY DEF TypeInv, WireTypes
<1>1. CASE link' = link
 BY <1>1
<1>2. CASE \E s \in Sessions : Connect(s)
 <2>1. PICK s \in Sessions : Connect(s)
  BY <1>2
 <2>2. \A u \in Sessions : u # s => link'[u] = link[u]
  BY <1>0, <2>1 DEF Connect
 <2> QED BY <2>1, <2>2
<1>3. CASE Left \/ Restart \/ \E s \in Sessions : Cut(s) \/ JoinFails(s)
 BY <1>0, <1>3 DEF Left, Restart, Cut, JoinFails
<1>4. CASE \E t \in Tasks : PlainRequest(t) \/ PlainProgress(t)
 BY <1>1, <1>4, RequestFrame
<1>5. CASE \E s \in Sessions : ServerSession(s)
 BY <1>1, <1>5, ServerFrame
<1> QED BY <1>1, <1>2, <1>3, <1>4, <1>5 DEF Plain, PlainClient, JoinWelcomed, ReceivePush,
  ReceiveRemove, Handling, Relay, Leave, Forwarder, Bind, BindFails, StopListening, Drained,
  wireVars

LEMMA PushForwarder ==
  ASSUME TypeInv, SessInv, SpawnInv, CarryInv, FitsInv, RulesKept, NEW s \in Sessions, ReceivePush(s)
  PROVE  spawned' = spawned + 1 /\ \A f : f = spawned + 1 => ForwarderFits(f)'
<1>1. PICK n, m : n = spawned + 1 /\ m = Head(toClient[s])
 OBVIOUS
<1>2. PICK k : k = [phase |-> "binding", rule |-> m.rule, port |-> m.port,
                    cancelled |-> FALSE, session |-> s]
 OBVIOUS
<1>3. fw' = [fw EXCEPT ![n] = k] /\ spawned' = n /\ Handling(s, "PUSH") /\ spawned < MaxSpawns
 BY <1>1, <1>2 DEF ReceivePush
<1>4. n \in Spawns
 BY <1>1, <1>3, SpawnTypes, Constants DEF Spawns
<1>5. fw'[n] = k
 BY <1>3, <1>4, SpawnTypes
<1>6. Sent(m) /\ m.rule \in RuleIds /\ m.action = "PUSH"
 <2>1. toClient[s] # <<>> /\ Received(s) /\ m.action = "PUSH"
  BY <1>1, <1>3 DEF Handling, Incoming
 <2>2. m.rule \in RuleIds
  BY <1>1, <1>3, PushFacts
 <2> QED BY <1>1, <2>1, <2>2, SentTaken
<1>7. Agrees(m.rule, m.port)'
 <2>1. Agrees(m.rule, m.port)
  BY <1>6 DEF FitsInv, MessageFits
 <2> QED BY <1>6, <2>1 DEF RulesKept
<1>8. fw'[n].rule = m.rule /\ fw'[n].port = m.port /\ ~fw'[n].cancelled
 BY <1>2, <1>5
<1>9. ForwarderFits(n)'
 BY <1>7, <1>8 DEF ForwarderFits
<1>10. spawned' = spawned + 1
 BY <1>1, <1>3
<1> QED BY <1>1, <1>9, <1>10

LEMMA StepForwarders ==
  ASSUME TypeInv, SessInv, SpawnInv, CarryInv, FitsInv, RulesKept, Plain
  PROVE  \A f \in Spawned' : ForwarderFits(f)'
<1>1. \A f \in Spawned : f \in Spawns /\ fw[f].phase # "none" /\ fw[f].rule \in RuleIds /\ fw[f].session \in 1 .. client.session
 BY SpawnTypes DEF SpawnInv
<1>2. \A f \in Spawned : ForwarderFits(f)'
 <2> SUFFICES ASSUME NEW f \in Spawned PROVE ForwarderFits(f)'
  OBVIOUS
 <2>1. PICK r, p, s : r = fw[f].rule /\ p = fw[f].port /\ s = fw[f].session
  OBVIOUS
 <2>2. fw'[f].rule = r /\ fw'[f].port = p /\ fw'[f].session = s
  BY <1>1, <2>1, ForwardersKept
 <2>3. r \in RuleIds /\ s \in 1 .. client.session
  BY <1>1, <2>1
 <2>4. Agrees(r, p)'
  <3>1. Agrees(r, p)
   BY <2>1 DEF FitsInv, ForwarderFits
  <3> QED BY <2>3, <3>1 DEF RulesKept
 <2>5. s \in Sessions /\ ~Connect(s)
  <3>1. client.session \in 0 .. MaxSessions
   BY DEF TypeInv, ClientTypes
  <3>2. s \in Sessions
   BY <2>3, <3>1, Constants DEF Sessions
  <3>3. Connect(s) => s = client.session + 1
   BY <3>2, ConnectSess
  <3> QED BY <2>3, <3>1, <3>2, <3>3, Constants
 <2>6. ASSUME fw'[f].cancelled, link'[s] = "up" PROVE Gone(r)'
  <3>1. link[s] = "up"
   BY <2>5, <2>6, LinkOpened
  <3>2. s = client.session
   BY <2>5, <3>1 DEF SessInv, SessionOK
  <3>3. ~Leave
   BY <2>5, <3>1, <3>2 DEF Leave, SessInv, SessionOK, PumpAt
  <3>4. CASE fw[f].cancelled
   BY <2>1, <2>3, <3>1, <3>4 DEF FitsInv, ForwarderFits, RulesKept
  <3>5. CASE \E u \in Sessions : ReceiveRemove(u) /\ fw[f].rule = Head(toClient[u]).rule
   <4>1. PICK u \in Sessions : ReceiveRemove(u) /\ r = Head(toClient[u]).rule
    BY <2>1, <3>5
   <4>2. PICK m : m = Head(toClient[u])
    OBVIOUS
   <4>3. toClient[u] # <<>> /\ Received(u) /\ m.action = "REMOVE" /\ m.rule = r
    BY <4>1, <4>2 DEF ReceiveRemove, Handling, Incoming
   <4>4. Sent(m)
    BY <4>2, <4>3, SentTaken
   <4>5. Gone(r)
    BY <4>3, <4>4 DEF FitsInv, MessageFits
   <4> QED BY <2>3, <4>5 DEF RulesKept
  <3> QED BY <1>1, <2>6, <3>3, <3>4, <3>5, ForwardersKept
 <2> QED BY <2>2, <2>4, <2>6 DEF ForwarderFits
<1>3. CASE Spawned' = Spawned
 BY <1>2, <1>3
<1>4. CASE \E s \in Sessions : ReceivePush(s)
 <2>1. spawned' = spawned + 1 /\ \A f : f = spawned + 1 => ForwarderFits(f)'
  BY <1>4, PushForwarder
 <2>2. \A f \in Spawned' : f \in Spawned \/ f = spawned + 1
  BY <2>1, SpawnTypes, Constants DEF Spawned
 <2> QED BY <1>2, <2>1, <2>2
<1> QED BY <1>3, <1>4, ForwardersKept

LEMMA FitsStep ==
  ASSUME TypeInv, StoreInv, SessInv, SpawnInv, CarryInv, FitsInv, Plain, ~Restart PROVE FitsInv'
<1>1. RulesKept
 BY StepRules
<1>2. \A m : Sent(m)' => MessageFits(m)'
 BY <1>1, StepMessages
<1>3. \A t \in Tasks : TaskFits(t)'
 BY <1>1, StepTasks
<1>4. \A s \in Sessions : PumpFits(s)'
 BY <1>1, StepPumps
<1>5. \A f \in Spawned' : ForwarderFits(f)'
 BY <1>1, StepForwarders
<1> QED BY <1>2, <1>3, <1>4, <1>5 DEF FitsInv

LEMMA StillFits ==
  ASSUME TypeInv, FitsInv, UNCHANGED vars PROVE FitsInv'
  BY DEF FitsInv, Sent, MessageFits, TaskFits, PumpFits, PumpAt, ForwarderFits, Agrees, Gone,
   Spawned, vars

LEMMA InitFits == Init => FitsInv
<1> SUFFICES ASSUME Init PROVE FitsInv
 OBVIOUS
<1>1. Len(<<>>) = 0 /\ 1 .. 0 = {}
 OBVIOUS
<1>2. \A m : ~Sent(m)
 BY <1>1 DEF Init, Sent
<1>3. \A t \in Tasks : TaskFits(t)
 BY DEF Init, TaskFits, IdleTask
<1>4. \A s \in Sessions : PumpFits(s)
 BY DEF Init, PumpFits, PumpAt, FreshPump
<1>5. Spawned = {}
 BY DEF Init, Spawned
<1> QED BY <1>2, <1>3, <1>4, <1>5 DEF FitsInv

----
(* The first session of a server *)

\* Of the rules that share a port, one is called Active.
Contend ==
    \A r, q \in RuleIds :
        Known(r) /\ Claims(r) /\ Known(q) /\ Claims(q) /\ mem[r].port = mem[q].port => r = q

Connected == 1 \in Sessions /\ link[1] = "up"

\* The forwarders decide while the session is up, and the last word they
\* sent after it.
FirstInv ==
    /\ OneListener
    /\ restarts = 0 => FitsInv
    /\ Undisturbed /\ ~Connected => Contend

\* While the session is up, a rule that is called Active has its listener.
LEMMA ActiveListens ==
  ASSUME TypeInv, SessInv, SpawnInv, BoundInv, FitsInv, Opened \subseteq {1}, Connected,
         NEW r \in RuleIds, Known(r), Claims(r)
  PROVE  \E f \in Spawns : Listening(f) /\ fw[f].rule = r /\ fw[f].port = mem[r].port
<1>1. PICK f \in Spawns : fw[f].rule = r /\ fw[f].phase \in {"bound", "draining", "closed"}
 BY DEF BoundInv, WasBound
<1>2. f \in Spawned
 BY <1>1 DEF SpawnInv
<1>3. fw[f].session = 1
 <2>1. fw[f].session \in 1 .. client.session /\ Opened = 1 .. client.session
  BY <1>2 DEF SpawnInv, SessInv, ClientOK
 <2> QED BY <2>1
<1>4. Agrees(r, fw[f].port) /\ (fw[f].cancelled => Gone(r))
 BY <1>1, <1>2, <1>3 DEF FitsInv, ForwarderFits, Connected
<1>5. fw[f].port = mem[r].port /\ ~fw[f].cancelled
 BY <1>4 DEF Agrees, Gone, Known
<1>6. fw[f].phase = "bound"
 BY <1>1, <1>2, <1>5 DEF SpawnInv
<1> QED BY <1>1, <1>5, <1>6 DEF Listening

LEMMA ConnectedContend ==
  ASSUME TypeInv, SessInv, SpawnInv, BoundInv, FitsInv, OneListener, Opened \subseteq {1}, Connected
  PROVE  Contend
<1> SUFFICES ASSUME NEW r \in RuleIds, NEW q \in RuleIds, Known(r), Claims(r), Known(q), Claims(q),
                    mem[r].port = mem[q].port
             PROVE  r = q
 BY DEF Contend
<1>1. PICK f \in Spawns : Listening(f) /\ fw[f].rule = r /\ fw[f].port = mem[r].port
 BY ActiveListens
<1>2. PICK g \in Spawns : Listening(g) /\ fw[g].rule = q /\ fw[g].port = mem[q].port
 BY ActiveListens
<1> QED BY <1>1, <1>2 DEF OneListener

LEMMA FirstHolds ==
  ASSUME LifeInv, FirstInv, Undisturbed PROVE Contend
<1>1. TypeInv /\ SessInv /\ SpawnInv /\ BoundInv
 BY DEF LifeInv
<1>2. restarts = 0 /\ Opened \subseteq {1}
 BY DEF Undisturbed
<1>3. FitsInv /\ OneListener
 BY <1>2 DEF FirstInv
<1>4. CASE Connected
 BY <1>1, <1>2, <1>3, <1>4, ConnectedContend
<1>5. CASE ~Connected
 BY <1>5 DEF FirstInv
<1> QED BY <1>4, <1>5

\* A disturbed server stays disturbed.
LEMMA OpenedGrows ==
  ASSUME TypeInv, Plain PROVE Opened \subseteq Opened'
<1>0. link \in [Sessions -> {"new", "up", "cut"}]
 BY DEF TypeInv, WireTypes
<1> SUFFICES \A s \in Sessions : link[s] # "new" => link'[s] # "new"
 BY DEF Opened
<1>1. CASE link' = link
 BY <1>1
<1>2. CASE Left \/ Restart \/ \E s \in Sessions : Cut(s) \/ JoinFails(s) \/ Connect(s)
 BY <1>0, <1>2 DEF Left, Restart, Cut, JoinFails, Connect
<1>4. CASE \E t \in Tasks : PlainRequest(t) \/ PlainProgress(t)
 BY <1>1, <1>4, RequestFrame
<1>5. CASE \E s \in Sessions : ServerSession(s)
 BY <1>1, <1>5, ServerFrame
<1> QED BY <1>1, <1>2, <1>4, <1>5 DEF Plain, PlainClient, JoinWelcomed, ReceivePush, ReceiveRemove,
  Handling, Relay, Leave, Forwarder, Bind, BindFails, StopListening, Drained, wireVars

LEMMA RestartsGrow ==
  ASSUME TypeInv, Plain, restarts' = 0 PROVE restarts = 0 /\ ~Restart
<1>1. restarts \in Nat
 BY Constants DEF TypeInv, ServerTypes
<1>2. ~Restart
 BY <1>1 DEF Restart
<1>4. CASE \E t \in Tasks : PlainRequest(t) \/ PlainProgress(t)
 BY <1>2, <1>4, RequestFrame
<1>5. CASE \E s \in Sessions : ServerSession(s)
 BY <1>2, <1>5, ServerFrame
<1> QED BY <1>2, <1>4, <1>5 DEF Plain, Connect, PlainClient, JoinWelcomed, JoinFails, ReceivePush,
  ReceiveRemove, Handling, Cut, Relay, Leave, Left, Forwarder, Bind, BindFails, StopListening,
  Drained

LEMMA ContendStep ==
  ASSUME LifeInv, FirstInv, Plain, Undisturbed', ~Connected' PROVE Contend'
<1>1. TypeInv /\ SessInv /\ SpawnInv /\ BoundInv /\ StoreInv /\ CarryInv /\ ReqInv
 BY DEF LifeInv
<1>2. restarts = 0 /\ ~Restart
 BY <1>1, RestartsGrow DEF Undisturbed
<1>3. Opened \subseteq {1}
 BY <1>1, OpenedGrows DEF Undisturbed
<1>4. FitsInv /\ Contend /\ RulesKept
 BY <1>1, <1>2, <1>3, FirstHolds, StepRules DEF FirstInv, Undisturbed
<1>5. ~(Relay /\ link[client.session] = "up")
 <2> SUFFICES ASSUME Relay, link[client.session] = "up" PROVE FALSE
  OBVIOUS
 <2>1. client.session \in Sessions /\ link' = link
  BY <1>1, RelayFacts
 <2>2. client.session \in Opened
  BY <2>1 DEF Opened
 <2>3. client.session = 1
  BY <1>3, <2>2
 <2> QED BY <2>1, <2>3 DEF Connected
<1>6. \A r \in RuleIds : Claims(r)' => Claims(r)
 BY <1>1, <1>5, RequestClaims, SessionClaims, OtherClaims DEF Plain
<1>7. ASSUME NEW r \in RuleIds, Known(r)', Claims(r)'
      PROVE  Claims(r) /\ Known(r) /\ mem'[r].port = mem[r].port
 <2>1. Claims(r)
  BY <1>6, <1>7
 <2>2. PICK f \in Spawns : fw[f].rule = r /\ fw[f].phase \in {"bound", "draining", "closed"}
  BY <1>1, <2>1 DEF BoundInv, WasBound
 <2>3. f \in Spawned
  BY <1>1, <2>2 DEF SpawnInv
 <2>4. r < nextId
  BY <1>4, <2>2, <2>3 DEF FitsInv, ForwarderFits, Agrees
 <2>5. mem[r] # NoRule
  <3>1. mem[r] = NoRule => Gone(r)
   BY <2>4 DEF Gone
  <3>2. ~Gone(r)'
   BY <1>7 DEF Gone, Known
  <3> QED BY <1>4, <3>1, <3>2 DEF RulesKept
 <2>6. PICK p : p = mem[r].port /\ Agrees(r, p)
  BY <2>4 DEF Agrees
 <2>7. Agrees(r, p)'
  BY <1>4, <2>6 DEF RulesKept
 <2> QED BY <1>7, <2>1, <2>5, <2>6, <2>7 DEF Agrees, Known
<1> QED BY <1>4, <1>7 DEF Contend

LEMMA FirstStep == NoUpdates /\ LifeInv /\ FirstInv /\ [Next]_vars => FirstInv'
<1> SUFFICES ASSUME NoUpdates, LifeInv, FirstInv, [Next]_vars PROVE FirstInv'
 OBVIOUS
<1>1. TypeInv /\ StoreInv /\ SessInv /\ SpawnInv /\ CarryInv
 BY DEF LifeInv
<1>2. CASE Next
 <2>1. Plain
  BY <1>1, <1>2, PlainStep
 <2> USE <2>1 DEF FirstInv
 <2>2. OneListener'
  BY <1>1, ListenerStep
 <2>3. restarts' = 0 => FitsInv'
  BY <1>1, RestartsGrow, FitsStep
 <2>4. Undisturbed' /\ ~Connected' => Contend'
  BY ContendStep
 <2> QED BY <2>2, <2>3, <2>4
<1>3. CASE UNCHANGED vars
 <2>1. OneListener'
  BY <1>3 DEF FirstInv, OneListener, Listening, vars
 <2>2. restarts' = 0 => FitsInv'
  BY <1>1, <1>3, StillFits DEF FirstInv, vars
 <2>3. UNCHANGED <<mem, db, task, pump, toServer>> /\ UNCHANGED <<link, restarts>>
  BY <1>3 DEF vars
 <2>4. \A r : AnswerSays(r)' => AnswerSays(r)
  BY <1>1, <2>3, AnswerSame, SameSays
 <2>5. \A r \in RuleIds : Claims(r)' => Claims(r)
  BY <2>3, <2>4 DEF Claims, TaskSays, At, PumpSays
 <2>6. Undisturbed' /\ ~Connected' => Contend'
  BY <2>3, <2>5 DEF FirstInv, Contend, Known, Undisturbed, Opened, Connected
 <2> QED BY <2>1, <2>2, <2>6 DEF FirstInv
<1> QED BY <1>2, <1>3

LEMMA InitFirst == Init => FirstInv
<1> SUFFICES ASSUME Init PROVE FirstInv
 OBVIOUS
<1>1. OneListener
 BY DEF Init, OneListener, Listening, NoForwarder
<1>2. Contend
 BY DEF Init, Contend, Known
<1> QED BY <1>1, <1>2, InitFits DEF FirstInv

LEMMA FirstListeners == LifeInv /\ FirstInv => ListenersSound
<1> SUFFICES ASSUME LifeInv, FirstInv PROVE ListenersSound
 OBVIOUS
<1>1. TypeInv /\ SessInv /\ SpawnInv /\ BoundInv
 BY DEF LifeInv
<1>2. \A r \in RuleIds : Active(r) => Claims(r) /\ Known(r)
 BY DEF Active, Known, Claims, SaysActive
<1>3. OneActivePerPort
 BY <1>2, FirstHolds DEF OneActivePerPort, Contend
<1>4. EveryListenerHeld
 <2> SUFFICES ASSUME NEW f \in Spawns, fw[f].phase \in {"binding", "bound"}, ~fw[f].cancelled
              PROVE  \E r \in RuleIds : slots[r] # NoSlot /\ slots[r].fw = f
  BY DEF EveryListenerHeld
 <2> QED BY <1>1, ListenerHeld
<1>5. ActiveRuns
 <2> SUFFICES ASSUME Undisturbed, Settled, client.phase = "on", NEW r \in RuleIds, Active(r) PROVE Runs(r)
  BY DEF ActiveRuns
 <2>1. client.session \in Sessions /\ link[client.session] = "up"
  BY <1>1 DEF Settled, SessInv, ClientOK
 <2>2. restarts = 0 /\ Opened \subseteq {1}
  BY DEF Undisturbed
 <2>3. client.session = 1
  BY <2>1, <2>2 DEF Opened
 <2>4. Connected /\ FitsInv
  BY <2>1, <2>2, <2>3 DEF Connected, FirstInv
 <2>5. \E f \in Spawns : Listening(f) /\ fw[f].rule = r
  BY <1>1, <1>2, <2>2, <2>4, ActiveListens
 <2> QED BY <2>5 DEF Runs
<1> QED BY <1>3, <1>4, <1>5 DEF ListenersSound

\* Without updates, the client can stop every listener it has, in any number
\* of sessions, cuts and restarts; and in the first session of a server, of
\* the rules that share a port at most one is called Active, and once nothing
\* is under way an Active rule has its listener (ListenersSound), for any
\* rules, requests and forwarders.
THEOREM ListenersAreSound == NoUpdates => (Spec => []ListenersSound)
<1> SUFFICES ASSUME NoUpdates PROVE Spec => []ListenersSound
 OBVIOUS
<1>1. Init => LifeInv /\ FirstInv
 BY InitLife, InitFirst
<1>2. LifeInv /\ FirstInv /\ [Next]_vars => LifeInv' /\ FirstInv'
 BY LifeStep, FirstStep
<1>3. LifeInv /\ FirstInv => ListenersSound
 BY FirstListeners
<1> QED BY <1>1, <1>2, <1>3, PTL DEF Spec

=============================================================================
