------------------------------ MODULE RuleControl ------------------------------
(***************************************************************************)
(* The life of one client's forwarding rules, from the operator's request  *)
(* to the listener on the client and back.                                 *)
(*                                                                         *)
(* The server keeps every rule twice: in memory (mem, what the operator    *)
(* sees) and in SQLite (db, what a restart brings back).  Operator         *)
(* requests, the pumps of the control sessions and the replay that opens   *)
(* each session all write both copies, in separate steps and without a     *)
(* common lock.  The client keeps a slot per rule of the current session,  *)
(* a forwarder task per slot, and a queue of forwarder events its pump     *)
(* turns into RuleStatus messages.                                         *)
(*                                                                         *)
(* Abstractions: one client with one name and one process, single-port     *)
(* rules of one protocol, a target is not told apart, a rate limit is a    *)
(* value, a request id is a number (0: one nobody waits for).              *)
(***************************************************************************)
EXTENDS Integers, Sequences, FiniteSets

CONSTANTS
    Tasks,        \* operator requests in flight at one time
    Ports,        \* listen ports
    Limits,       \* rate-limit envelopes a request may carry
    NoLimit,      \* no envelope
    NoRule,       \* no such rule
    NoSlot,       \* rule unknown to the client's pump
    Capable,      \* does a session's Hello announce a version >= 0.11
    Operations,   \* kinds of operator requests that are made
    Faults,       \* "cut" if connections may break, "store" if upsert_rule may fail
    EventCap,     \* capacity of the client's status channel (64)
    OutboundCap,  \* OUTBOUND_QUEUE_CAPACITY of a session
    MaxRules,     \* bound: rule ids ever allocated
    MaxRequests,  \* bound: operator pushes and updates ever sent
    MaxSpawns,    \* bound: forwarder tasks ever spawned
    MaxSessions,  \* bound: control sessions ever opened
    MaxRestarts   \* bound: server restarts

Limit     == Limits \cup {NoLimit}
RuleIds   == 1 .. MaxRules
Sessions  == 1 .. MaxSessions
Spawns    == 1 .. MaxSpawns
Requests  == 0 .. MaxRequests
States    == {"Pending", "Active", "Failed"}
Outcomes  == {"Activated", "Failed", "Removed"}
Rule      == [port : Ports, limit : Limit, state : States]
Slot      == [req : Requests, removeReq : {-1} \cup Requests, fw : Spawns]
Status    == [rule : RuleIds, req : Requests, outcome : Outcomes]
Event     == [rule : RuleIds, outcome : Outcomes]
Update    == [action : {"PUSH", "REMOVE"}, rule : RuleIds, req : Requests,
              port : Ports, limit : Limit]
Welcome   == [action |-> "WELCOME"]

ASSUME BoundsAssumption ==
    {MaxRules, MaxRequests, MaxSpawns, MaxSessions, MaxRestarts, EventCap, OutboundCap}
        \subseteq Nat
ASSUME SentinelAssumption == NoRule \notin Rule /\ NoSlot \notin Slot /\ NoLimit \notin Limits
ASSUME CapableAssumption == Capable \subseteq BOOLEAN
ASSUME PortsAssumption == Ports # {}

VARIABLES
    mem,       \* RuleStore: rule id -> rule
    db,        \* SQLite rule store: rule id -> rule
    nextId,    \* RuleStore::next_id
    nextReq,   \* request ids handed out
    restarts,  \* server restarts so far
    task,      \* operator requests
    current,   \* the client's entry in ConnectedClients (0: none)
    caps,      \* the version noted in that entry supports rate limits
    pump,      \* server side of each session
    link,      \* "new", "up", or "cut": both queues lead nowhere
    toClient,  \* ServerMessages under way
    toServer,  \* RuleStatus messages under way
    client,    \* the client process: phase and session
    slots,     \* rules map of the client's pump
    events,    \* RuleStatusEvent channel of the client's pump
    fw,        \* forwarder tasks by spawn number
    spawned,   \* forwarder tasks spawned so far
    scope      \* RateLimitScopeManager: rule id -> installed limit

serverVars == <<mem, db, nextId>>
wireVars   == <<link, toClient, toServer>>
clientVars == <<client, slots, events, fw, spawned, scope>>
vars == <<mem, db, nextId, nextReq, restarts, task, current, caps, pump, link,
          toClient, toServer, client, slots, events, fw, spawned, scope>>

IdleTask == [op |-> "none", pc |-> "idle", rule |-> 0, port |-> CHOOSE p \in Ports : TRUE,
             limit |-> NoLimit, session |-> 0, req |-> 0, ack |-> "none", snap |-> NoRule]
FreshPump == [pc |-> "none", todo |-> {}, rule |-> 0, mark |-> "none",
              snap |-> NoRule, capable |-> FALSE]
NoForwarder == [phase |-> "none", rule |-> 0, port |-> CHOOSE p \in Ports : TRUE,
                cancelled |-> FALSE, session |-> 0]

Init ==
    /\ mem = [r \in RuleIds |-> NoRule] /\ db = mem
    /\ nextId = 1 /\ nextReq = 1 /\ restarts = 0
    /\ task = [t \in Tasks |-> IdleTask]
    /\ current = 0 /\ caps = FALSE
    /\ pump = [s \in Sessions |-> FreshPump]
    /\ link = [s \in Sessions |-> "new"]
    /\ toClient = [s \in Sessions |-> <<>>]
    /\ toServer = [s \in Sessions |-> <<>>]
    /\ client = [phase |-> "off", session |-> 0]
    /\ slots = [r \in RuleIds |-> NoSlot]
    /\ events = <<>>
    /\ fw = [f \in Spawns |-> NoForwarder]
    /\ spawned = 0
    /\ scope = [r \in RuleIds |-> NoLimit]

-----------------------------------------------------------------------------
(* Steps shared by requests and sessions *)

Known(r)  == mem[r] # NoRule
Conflict(p) == \E r \in RuleIds : Known(r) /\ mem[r].port = p /\ mem[r].state \in {"Active", "Failed"}

\* mark_active, mark_failed, mark_pending: an unknown id is an error that
\* every caller but the acknowledged push ignores.
Mark(r, state) == mem' = IF Known(r) THEN [mem EXCEPT ![r].state = state] ELSE mem

\* Slip: the outcomes are swapped.
StateAfterSwapped(outcome) == IF outcome = "Activated" THEN "Failed" ELSE "Active"

StateAfter(outcome) == IF outcome = "Activated" THEN "Active" ELSE "Failed"

Upsert(r, rule) == db' = [db EXCEPT ![r] = rule]
Delete(r)       == db' = [db EXCEPT ![r] = NoRule]

\* A send waits for room in the session's queue, however long that takes, and is
\* lost without an error while the server has not noticed the cut.
SendReaches(s) == link[s] = "up"
SendFails(s)   == link[s] = "cut"
Send(s, m)     ==
    /\ SendReaches(s) => Len(toClient[s]) < OutboundCap
    /\ toClient' = IF SendReaches(s) THEN [toClient EXCEPT ![s] = Append(@, m)] ELSE toClient

Step(t, fields) == task' = [task EXCEPT ![t] = fields]
At(t, op, pc)   == task[t].op = op /\ task[t].pc = pc
Goto(t, pc)     == [task[t] EXCEPT !.pc = pc]

\* The client version gate on rate limits (operator/http.rs and replay).
LimitAllowed(limit) == limit = NoLimit \/ caps

-----------------------------------------------------------------------------
(* Operator requests: push_rule, push_rule_multi_target *)

\* The live session is looked up first, for its sender and its waiters.
PushResolve(t, p, l) ==
    /\ task[t].pc = "idle"
    /\ "push" \in Operations
    /\ nextReq <= MaxRequests /\ nextId <= MaxRules
    /\ current # 0
    /\ LimitAllowed(l)
    /\ Step(t, [IdleTask EXCEPT !.op = "push", !.pc = "insert", !.port = p,
                                !.limit = l, !.session = current])
    /\ UNCHANGED <<mem, db, nextId, nextReq, restarts, current, caps, pump, wireVars, clientVars>>

\* RuleStore::push_range: refused when the client is gone or the port taken.
PushInsert(t) ==
    /\ At(t, "push", "insert")
    /\ IF current = 0 \/ Conflict(task[t].port) \/ nextId > MaxRules
       THEN Step(t, IdleTask) /\ UNCHANGED <<mem, nextId>>
       ELSE LET rule == [port |-> task[t].port, limit |-> task[t].limit, state |-> "Pending"]
            IN  /\ mem' = [mem EXCEPT ![nextId] = rule]
                /\ nextId' = nextId + 1
                /\ Step(t, [task[t] EXCEPT !.pc = "persist", !.rule = nextId, !.snap = rule])
    /\ UNCHANGED <<db, nextReq, restarts, current, caps, pump, wireVars, clientVars>>

\* Slip: the row is left for the acknowledgement to write.
PersistLater(t, op) ==
    /\ At(t, op, "persist")
    /\ Step(t, Goto(t, "send"))
    /\ UNCHANGED <<mem, db, nextId, nextReq, restarts, current, caps, pump, wireVars, clientVars>>

Persist(t, op) ==
    /\ At(t, op, "persist")
    /\ Upsert(task[t].rule, task[t].snap)
    /\ Step(t, Goto(t, "send"))
    /\ UNCHANGED <<mem, nextId, nextReq, restarts, current, caps, pump, wireVars, clientVars>>

PushPersist(t) == Persist(t, "push")

\* upsert_rule fails in a push or an update: the request ends, with what it wrote
\* to memory in place and nothing sent.
UpsertFails(t) ==
    /\ task[t].pc = "persist"
    /\ "store" \in Faults
    /\ Step(t, IdleTask)
    /\ UNCHANGED <<mem, db, nextId, nextReq, restarts, current, caps, pump, wireVars, clientVars>>

\* Register the waiter, then send.
RequestSend(t, op) ==
    /\ At(t, op, "send")
    /\ nextReq <= MaxRequests
    /\ nextReq' = nextReq + 1
    /\ Send(task[t].session, [action |-> "PUSH", rule |-> task[t].rule, req |-> nextReq,
                              port |-> task[t].snap.port, limit |-> task[t].snap.limit])
    /\ Step(t, [task[t] EXCEPT !.pc = "wait", !.req = nextReq, !.snap = NoRule])
    /\ UNCHANGED <<mem, db, nextId, restarts, current, caps, pump, link, toServer, clientVars>>

PushSend(t) == RequestSend(t, "push")

\* The stream was torn down: the push takes its rule back.
PushUndo(t) ==
    /\ At(t, "push", "send")
    /\ SendFails(task[t].session)
    /\ mem' = [mem EXCEPT ![task[t].rule] = NoRule]
    /\ Delete(task[t].rule)
    /\ Step(t, IdleTask)
    /\ UNCHANGED <<nextId, nextReq, restarts, current, caps, pump, wireVars, clientVars>>

\* The acknowledged outcome is written to memory, read back and stored.  A
\* Removed outcome is an error that changes nothing.
PushAcked(t) ==
    /\ At(t, "push", "acked")
    /\ IF task[t].ack = "Removed" \/ (task[t].ack = "Activated" /\ ~Known(task[t].rule))
       THEN mem' = mem /\ Step(t, IdleTask)
       ELSE /\ Mark(task[t].rule, StateAfter(task[t].ack))
            /\ Step(t, Goto(t, "read"))
    /\ UNCHANGED <<db, nextId, nextReq, restarts, current, caps, pump, wireVars, clientVars>>

PushRead(t) ==
    /\ At(t, "push", "read")
    /\ Step(t, IF Known(task[t].rule)
               THEN [task[t] EXCEPT !.pc = "write", !.snap = mem[task[t].rule]]
               ELSE IdleTask)
    /\ UNCHANGED <<mem, db, nextId, nextReq, restarts, current, caps, pump, wireVars, clientVars>>

PushWrite(t) ==
    /\ At(t, "push", "write")
    /\ Upsert(task[t].rule, task[t].snap)
    /\ Step(t, IdleTask)
    /\ UNCHANGED <<mem, nextId, nextReq, restarts, current, caps, pump, wireVars, clientVars>>

\* ack_timeout elapses: the receiver is dropped, then the waiter removed.
AckTimeout(t) ==
    /\ task[t].pc = "wait"
    /\ Step(t, Goto(t, "expired"))
    /\ UNCHANGED <<mem, db, nextId, nextReq, restarts, current, caps, pump, wireVars, clientVars>>

DropWaiter(t) ==
    /\ task[t].pc = "expired"
    /\ Step(t, IdleTask)
    /\ UNCHANGED <<mem, db, nextId, nextReq, restarts, current, caps, pump, wireVars, clientVars>>

-----------------------------------------------------------------------------
(* Operator requests: remove_rule *)

RemoveMem(t, r) ==
    /\ task[t].pc = "idle"
    /\ "remove" \in Operations
    /\ Known(r)
    /\ mem' = [mem EXCEPT ![r] = NoRule]
    /\ Step(t, [IdleTask EXCEPT !.op = "remove", !.pc = "delete", !.rule = r, !.port = mem[r].port])
    /\ UNCHANGED <<db, nextId, nextReq, restarts, current, caps, pump, wireVars, clientVars>>

RemoveDb(t) ==
    /\ At(t, "remove", "delete")
    /\ Delete(task[t].rule)
    /\ Step(t, Goto(t, "send"))
    /\ UNCHANGED <<mem, nextId, nextReq, restarts, current, caps, pump, wireVars, clientVars>>

\* Best effort: nobody waits for the Removed echo.
RemoveSend(t) ==
    /\ At(t, "remove", "send")
    /\ IF current = 0 THEN UNCHANGED toClient
       ELSE Send(current, [action |-> "REMOVE", rule |-> task[t].rule, req |-> 0,
                           port |-> task[t].port, limit |-> NoLimit])
    /\ Step(t, IdleTask)
    /\ UNCHANGED <<mem, db, nextId, nextReq, restarts, current, caps, pump, link, toServer, clientVars>>

-----------------------------------------------------------------------------
(* Operator requests: update_rule_rate_limit *)

\* Neither the client's version nor the limit in place is looked at.
UpdateResolve(t, r, l) ==
    /\ task[t].pc = "idle"
    /\ "update" \in Operations
    /\ nextReq <= MaxRequests
    /\ Known(r)
    /\ current # 0
    /\ Step(t, [IdleTask EXCEPT !.op = "update", !.pc = "change", !.rule = r,
                                !.limit = l, !.session = current])
    /\ UNCHANGED <<mem, db, nextId, nextReq, restarts, current, caps, pump, wireVars, clientVars>>

UpdateMem(t) ==
    /\ At(t, "update", "change")
    /\ LET r == task[t].rule IN
       IF ~Known(r) THEN mem' = mem /\ Step(t, IdleTask)
       ELSE LET rule == [mem[r] EXCEPT !.limit = task[t].limit] IN
            /\ mem' = [mem EXCEPT ![r] = rule]
            /\ Step(t, [task[t] EXCEPT !.pc = "persist", !.snap = rule])
    /\ UNCHANGED <<db, nextId, nextReq, restarts, current, caps, pump, wireVars, clientVars>>

UpdatePersist(t) == Persist(t, "update")
UpdateSend(t)    == RequestSend(t, "update")

UpdateSendFails(t) ==
    /\ At(t, "update", "send")
    /\ SendFails(task[t].session)
    /\ Step(t, IdleTask)
    /\ UNCHANGED <<mem, db, nextId, nextReq, restarts, current, caps, pump, wireVars, clientVars>>

\* Any answer will do: the outcome is not looked at.
UpdateAcked(t) ==
    /\ At(t, "update", "acked")
    /\ Step(t, IdleTask)
    /\ UNCHANGED <<mem, db, nextId, nextReq, restarts, current, caps, pump, wireVars, clientVars>>

-----------------------------------------------------------------------------
(* Server side of a control session: channel() and its pump *)

Opened    == {s \in Sessions : link[s] # "new"}
Replaced(s) == \E n \in Opened : n > s

PumpStep(s, fields) == pump' = [pump EXCEPT ![s] = fields]
PumpAt(s, pc)       == pump[s].pc = pc

\* unregister: only the session's own entry is dropped.
Unregister(s) ==
    IF current = s THEN current' = 0 /\ caps' = FALSE ELSE UNCHANGED <<current, caps>>

\* register: the entry is replaced, with the version not known yet.
Connect(s) ==
    /\ client.phase = "off"
    /\ s = Cardinality(Opened) + 1
    /\ \E c \in Capable : PumpStep(s, [FreshPump EXCEPT !.pc = "hello", !.capable = c])
    /\ link' = [link EXCEPT ![s] = "up"]
    /\ current' = s /\ caps' = FALSE
    /\ client' = [phase |-> "joining", session |-> s]
    /\ UNCHANGED <<mem, db, nextId, nextReq, restarts, task, toClient, toServer,
                   slots, events, fw, spawned, scope>>

\* The Hello is read, the entry updated if it is still this session's, and
\* the Welcome sent.
Hello(s) ==
    /\ PumpAt(s, "hello")
    /\ caps' = IF current = s THEN pump[s].capable ELSE caps
    /\ Send(s, Welcome)
    /\ PumpStep(s, [pump[s] EXCEPT !.pc = "list"])
    /\ UNCHANGED <<mem, db, nextId, nextReq, restarts, task, current, link, toServer, clientVars>>

\* The stream ends before the Hello or before the Welcome is out.
HelloFails(s) ==
    /\ PumpAt(s, "hello")
    /\ link[s] = "cut"
    /\ Unregister(s)
    /\ PumpStep(s, [FreshPump EXCEPT !.pc = "done"])
    /\ UNCHANGED <<mem, db, nextId, nextReq, restarts, task, wireVars, clientVars>>

\* replay_rules_for_client: the client's Active rules, and the version in
\* whatever entry the client has by now.
ReplayList(s) ==
    /\ PumpAt(s, "list")
    /\ PumpStep(s, [pump[s] EXCEPT !.pc = "replay", !.capable = caps,
                      !.todo = {[rule |-> r, limit |-> mem[r].limit] :
                                   r \in {x \in RuleIds : Known(x) /\ mem[x].state = "Active"}}])
    /\ UNCHANGED <<mem, db, nextId, nextReq, restarts, task, current, caps, wireVars, clientVars>>

ReplayMark(s) ==
    /\ PumpAt(s, "replay")
    /\ \E e \in pump[s].todo :
         /\ \A x \in pump[s].todo : e.rule <= x.rule
         /\ LET mark == IF e.limit = NoLimit \/ pump[s].capable THEN "Pending" ELSE "Failed" IN
            /\ Mark(e.rule, mark)
            /\ PumpStep(s, [pump[s] EXCEPT !.pc = "replayRead", !.rule = e.rule, !.mark = mark,
                                           !.todo = @ \ {e}])
    /\ UNCHANGED <<db, nextId, nextReq, restarts, task, current, caps, wireVars, clientVars>>

ReplayRead(s) ==
    /\ PumpAt(s, "replayRead")
    /\ PumpStep(s, IF Known(pump[s].rule)
                   THEN [pump[s] EXCEPT !.pc = "replayWrite", !.snap = mem[pump[s].rule]]
                   ELSE [pump[s] EXCEPT !.pc = "replay"])
    /\ UNCHANGED <<mem, db, nextId, nextReq, restarts, task, current, caps, wireVars, clientVars>>

\* Store the rule; a rule that passed the gate is pushed, and a failed send
\* ends the replay.
ReplayWrite(s) ==
    /\ PumpAt(s, "replayWrite")
    /\ Upsert(pump[s].rule, pump[s].snap)
    /\ LET next == [pump[s] EXCEPT !.pc = "replay", !.snap = NoRule] IN
       \/ /\ pump[s].mark = "Failed"
          /\ PumpStep(s, next) /\ UNCHANGED toClient
       \/ /\ pump[s].mark = "Pending"
          /\ Send(s, [action |-> "PUSH", rule |-> pump[s].rule, req |-> 0,
                      port |-> pump[s].snap.port, limit |-> pump[s].snap.limit])
          /\ PumpStep(s, next)
       \/ /\ pump[s].mark = "Pending" /\ SendFails(s)
          /\ PumpStep(s, [next EXCEPT !.todo = {}]) /\ UNCHANGED toClient
    /\ UNCHANGED <<mem, nextId, nextReq, restarts, task, current, caps, link, toServer, clientVars>>

ReplayDone(s) ==
    /\ PumpAt(s, "replay") /\ pump[s].todo = {}
    /\ PumpStep(s, [FreshPump EXCEPT !.pc = "serve"])
    /\ UNCHANGED <<mem, db, nextId, nextReq, restarts, task, current, caps, wireVars, clientVars>>

Waits(t, s, m) == /\ task[t].pc \in {"wait", "expired"} /\ task[t].session = s
                  /\ task[t].req = m.req /\ m.req # 0

\* handle_client_message, with a waiter: the status goes to the request.  A
\* request whose receiver is already dropped loses it.
StatusToWaiter(s, t) ==
    /\ PumpAt(s, "serve") /\ toServer[s] # <<>>
    /\ LET m == Head(toServer[s]) IN
       /\ Waits(t, s, m)
       /\ Step(t, IF task[t].pc = "wait" THEN [task[t] EXCEPT !.pc = "acked", !.ack = m.outcome]
                                         ELSE [task[t] EXCEPT !.req = 0])
    /\ toServer' = [toServer EXCEPT ![s] = Tail(@)]
    /\ UNCHANGED <<mem, db, nextId, nextReq, restarts, current, caps, pump, link, toClient, clientVars>>

\* handle_client_message, without one: apply_unsolicited_rule_status.
StatusUnsolicited(s) ==
    /\ PumpAt(s, "serve") /\ toServer[s] # <<>>
    /\ LET m == Head(toServer[s]) IN
       /\ \A t \in Tasks : ~Waits(t, s, m)
       /\ IF Known(m.rule) /\ m.outcome # "Removed"
          THEN /\ Mark(m.rule, StateAfter(m.outcome))
               /\ PumpStep(s, [pump[s] EXCEPT !.pc = "serveRead", !.rule = m.rule])
          ELSE UNCHANGED <<mem, pump>>
    /\ toServer' = [toServer EXCEPT ![s] = Tail(@)]
    /\ UNCHANGED <<db, nextId, nextReq, restarts, task, current, caps, link, toClient, clientVars>>

ServeRead(s) ==
    /\ PumpAt(s, "serveRead")
    /\ PumpStep(s, IF Known(pump[s].rule)
                   THEN [pump[s] EXCEPT !.pc = "serveWrite", !.snap = mem[pump[s].rule]]
                   ELSE [FreshPump EXCEPT !.pc = "serve"])
    /\ UNCHANGED <<mem, db, nextId, nextReq, restarts, task, current, caps, wireVars, clientVars>>

ServeWrite(s) ==
    /\ PumpAt(s, "serveWrite")
    /\ Upsert(pump[s].rule, pump[s].snap)
    /\ PumpStep(s, [FreshPump EXCEPT !.pc = "serve"])
    /\ UNCHANGED <<mem, nextId, nextReq, restarts, task, current, caps, wireVars, clientVars>>

\* The session was replaced, or its stream ended.
PumpEnd(s) ==
    /\ PumpAt(s, "serve")
    /\ Replaced(s) \/ (link[s] = "cut" /\ toServer[s] = <<>>)
    /\ Unregister(s)
    /\ PumpStep(s, [FreshPump EXCEPT !.pc = "done"])
    /\ UNCHANGED <<mem, db, nextId, nextReq, restarts, task, wireVars, clientVars>>

\* The server process dies and comes back: memory is hydrated from SQLite.
Restart ==
    /\ restarts < MaxRestarts
    /\ restarts' = restarts + 1
    /\ mem' = db
    /\ \E n \in 0 .. MaxRules :    \* the largest id that is stored
         /\ n # 0 => db[n] # NoRule
         /\ \A r \in RuleIds : db[r] # NoRule => r <= n
         /\ nextId' = n + 1
    /\ task' = [t \in Tasks |-> IdleTask]
    /\ current' = 0 /\ caps' = FALSE
    /\ pump' = [s \in Sessions |-> IF PumpAt(s, "none") THEN pump[s]
                                   ELSE [FreshPump EXCEPT !.pc = "done"]]
    /\ link' = [s \in Sessions |-> IF link[s] = "up" THEN "cut" ELSE link[s]]
    /\ toClient' = [s \in Sessions |-> <<>>]
    /\ toServer' = [s \in Sessions |-> <<>>]
    /\ UNCHANGED <<db, nextReq, clientVars>>

\* The connection breaks: what was on its way to the client is lost, and any
\* suffix of what was on its way to the server.
Cut(s) ==
    /\ "cut" \in Faults
    /\ link[s] = "up"
    /\ link' = [link EXCEPT ![s] = "cut"]
    /\ toClient' = [toClient EXCEPT ![s] = <<>>]
    /\ \E n \in 0 .. Len(toServer[s]) : toServer' = [toServer EXCEPT ![s] = SubSeq(@, 1, n)]
    /\ UNCHANGED <<mem, db, nextId, nextReq, restarts, task, current, caps, pump, clientVars>>

-----------------------------------------------------------------------------
(* The client: connect_once, pump, handle_server_message, relay_status *)

\* try_send: a full channel drops the event.
TryEvent(e) == events' = IF Len(events) < EventCap THEN Append(events, e) ELSE events
Incoming(s) == client.session = s /\ toClient[s] # <<>>
Received(s) == toClient' = [toClient EXCEPT ![s] = Tail(@)]

\* The first message must be the Welcome; anything else drops the connection.
JoinWelcomed(s) ==
    /\ client.phase = "joining" /\ Incoming(s)
    /\ Head(toClient[s]) = Welcome
    /\ client' = [client EXCEPT !.phase = "on"]
    /\ Received(s)
    /\ UNCHANGED <<mem, db, nextId, nextReq, restarts, task, current, caps, pump, link, toServer,
                   slots, events, fw, spawned, scope>>

JoinFails(s) ==
    /\ client.phase = "joining" /\ client.session = s
    /\ \/ Incoming(s) /\ Head(toClient[s]) # Welcome
       \/ link[s] = "cut"
    /\ client' = [client EXCEPT !.phase = "off"]
    /\ link' = [link EXCEPT ![s] = "cut"]
    /\ toClient' = [toClient EXCEPT ![s] = <<>>]
    /\ UNCHANGED <<mem, db, nextId, nextReq, restarts, task, current, caps, pump, toServer,
                   slots, events, fw, spawned, scope>>

Handling(s, action) ==
    /\ client.phase = "on" /\ Incoming(s)
    /\ Head(toClient[s]).action = action
    /\ Received(s)
    /\ UNCHANGED <<mem, db, nextId, nextReq, restarts, task, current, caps, pump, link, toServer, client>>

\* Slip: the envelope of a known rule is not installed.
SwapLimitSkipped(r, limit) == scope' = scope

\* rule_rate_limit_scope.update.
SwapLimit(r, limit) == scope' = [scope EXCEPT ![r] = limit]

\* PUSH of a rule the pump knows: only the limiter is swapped.
ReceiveUpdate(s) ==
    /\ Handling(s, "PUSH")
    /\ LET m == Head(toClient[s]) IN
       /\ slots[m.rule] # NoSlot
       /\ SwapLimit(m.rule, m.limit)
       /\ slots' = [slots EXCEPT ![m.rule].req = m.req]
       /\ TryEvent([rule |-> m.rule, outcome |-> "Activated"])
    /\ UNCHANGED <<fw, spawned>>

\* PUSH of a rule it does not know: install the limit, spawn a forwarder.  A rule
\* whose ports or targets do not parse is refused, but the server has parsed them
\* before it accepted the rule; the SNI branch is that of PortGroups.
ReceivePush(s) ==
    /\ Handling(s, "PUSH")
    /\ spawned < MaxSpawns
    /\ LET m == Head(toClient[s]) IN
       /\ slots[m.rule] = NoSlot
       /\ scope' = [scope EXCEPT ![m.rule] = m.limit]
       /\ fw' = [fw EXCEPT ![spawned + 1] =
                   [phase |-> "binding", rule |-> m.rule, port |-> m.port,
                    cancelled |-> FALSE, session |-> s]]
       /\ slots' = [slots EXCEPT ![m.rule] = [req |-> m.req, removeReq |-> -1, fw |-> spawned + 1]]
    /\ spawned' = spawned + 1
    /\ UNCHANGED events

\* Slip: the slot is marked for removal and the forwarder is left running.
CancelForgotten(f) == fw' = fw

\* slot.cancel.cancel().
Cancel(f) == fw' = [fw EXCEPT ![f].cancelled = TRUE]

\* REMOVE cancels the forwarder and announces the removal at once.
ReceiveRemove(s) ==
    /\ Handling(s, "REMOVE")
    /\ LET m == Head(toClient[s]) IN
       /\ scope' = [scope EXCEPT ![m.rule] = NoLimit]
       /\ IF slots[m.rule] = NoSlot THEN UNCHANGED <<slots, events, fw>>
          ELSE /\ slots' = [slots EXCEPT ![m.rule].removeReq = m.req]
               /\ Cancel(slots[m.rule].fw)
               /\ TryEvent([rule |-> m.rule, outcome |-> "Removed"])
    /\ UNCHANGED spawned

\* The request id comes from the slot the rule has now, if it has one.
RelayRequest(e, slot) ==
    IF slot = NoSlot THEN 0
    ELSE IF e.outcome = "Removed" /\ slot.removeReq # -1 THEN slot.removeReq ELSE slot.req

\* Slip: every status drops the slot.
DropsSlotAlways(outcome) == TRUE

DropsSlot(outcome) == outcome \in {"Failed", "Removed"}

\* relay_status: one event becomes one RuleStatus on the wire.
Relay ==
    /\ client.phase \in {"on", "drain"} /\ events # <<>>
    /\ LET e == Head(events)
           s == client.session
           m == [rule |-> e.rule, req |-> RelayRequest(e, slots[e.rule]), outcome |-> e.outcome]
       IN  /\ toServer' = IF link[s] = "up" THEN [toServer EXCEPT ![s] = Append(@, m)] ELSE toServer
           /\ slots' = IF DropsSlot(e.outcome) THEN [slots EXCEPT ![e.rule] = NoSlot] ELSE slots
    /\ events' = Tail(events)
    /\ UNCHANGED <<mem, db, nextId, nextReq, restarts, task, current, caps, pump, link, toClient,
                   client, fw, spawned, scope>>

\* The stream ended: every slot's forwarder is cancelled.
Leave ==
    /\ client.phase = "on"
    /\ link[client.session] = "cut" \/ PumpAt(client.session, "done")
    /\ client' = [client EXCEPT !.phase = "drain"]
    /\ fw' = [f \in Spawns |-> [fw[f] EXCEPT !.cancelled =
                 @ \/ \E r \in RuleIds : slots[r] # NoSlot /\ slots[r].fw = f]]
    /\ UNCHANGED <<mem, db, nextId, nextReq, restarts, task, current, caps, pump, wireVars,
                   slots, events, spawned, scope>>

\* All Removed events are relayed, or drain_timeout is over.
Left ==
    /\ client.phase = "drain"
    /\ client' = [client EXCEPT !.phase = "off"]
    /\ slots' = [r \in RuleIds |-> NoSlot]
    /\ events' = <<>>
    /\ link' = [link EXCEPT ![client.session] = "cut"]
    /\ toClient' = [toClient EXCEPT ![client.session] = <<>>]
    /\ UNCHANGED <<mem, db, nextId, nextReq, restarts, task, current, caps, pump, toServer,
                   fw, spawned, scope>>

-----------------------------------------------------------------------------
(* Forwarder tasks: forwarder::run *)

Listening(f) == fw[f].phase = "bound"
PumpAlive(f) == fw[f].session = client.session /\ client.phase \in {"on", "drain"}
\* send().await: waits for room, and gives up when the pump is gone.
Report(f, outcome) ==
    /\ PumpAlive(f) => Len(events) < EventCap
    /\ events' = IF PumpAlive(f) THEN Append(events, [rule |-> fw[f].rule, outcome |-> outcome])
                                 ELSE events

\* A forwarder whose pump is gone drops its listener again.
Bind(f) ==
    /\ fw[f].phase = "binding"
    /\ ~\E g \in Spawns : Listening(g) /\ fw[g].port = fw[f].port
    /\ fw' = [fw EXCEPT ![f].phase = IF PumpAlive(f) THEN "bound" ELSE "dropped"]
    /\ Report(f, "Activated")
    /\ UNCHANGED <<mem, db, nextId, nextReq, restarts, task, current, caps, pump, wireVars,
                   client, slots, spawned, scope>>

\* The port is taken, by another rule or by another process.
BindFails(f) ==
    /\ fw[f].phase = "binding"
    /\ fw' = [fw EXCEPT ![f].phase = "failed"]
    /\ Report(f, "Failed")
    /\ UNCHANGED <<mem, db, nextId, nextReq, restarts, task, current, caps, pump, wireVars,
                   client, slots, spawned, scope>>

\* cancel: the accept loop ends and the listener closes, then the proxies
\* in flight drain.
StopListening(f) ==
    /\ Listening(f) /\ fw[f].cancelled
    /\ fw' = [fw EXCEPT ![f].phase = "draining"]
    /\ UNCHANGED <<mem, db, nextId, nextReq, restarts, task, current, caps, pump, wireVars,
                   client, slots, events, spawned, scope>>

Drained(f) ==
    /\ fw[f].phase = "draining"
    /\ fw' = [fw EXCEPT ![f].phase = "closed"]
    /\ Report(f, "Removed")
    /\ UNCHANGED <<mem, db, nextId, nextReq, restarts, task, current, caps, pump, wireVars,
                   client, slots, spawned, scope>>

-----------------------------------------------------------------------------
Request(t) ==
    \/ \E p \in Ports, l \in Limit : PushResolve(t, p, l)
    \/ \E r \in RuleIds : RemoveMem(t, r)
    \/ \E r \in RuleIds, l \in Limit : UpdateResolve(t, r, l)

Progress(t) ==
    \/ PushInsert(t) \/ PushPersist(t) \/ PushSend(t) \/ PushUndo(t)
    \/ PushAcked(t) \/ PushRead(t) \/ PushWrite(t)
    \/ UpsertFails(t) \/ AckTimeout(t) \/ DropWaiter(t)
    \/ RemoveDb(t) \/ RemoveSend(t)
    \/ UpdateMem(t) \/ UpdatePersist(t) \/ UpdateSend(t) \/ UpdateSendFails(t) \/ UpdateAcked(t)

ServerSession(s) ==
    \/ Hello(s) \/ HelloFails(s)
    \/ ReplayList(s) \/ ReplayMark(s) \/ ReplayRead(s) \/ ReplayWrite(s) \/ ReplayDone(s)
    \/ (\E t \in Tasks : StatusToWaiter(s, t)) \/ StatusUnsolicited(s)
    \/ ServeRead(s) \/ ServeWrite(s) \/ PumpEnd(s)

ClientSession(s) ==
    JoinWelcomed(s) \/ JoinFails(s) \/ ReceiveUpdate(s) \/ ReceivePush(s) \/ ReceiveRemove(s)

Forwarder(f) == Bind(f) \/ BindFails(f) \/ StopListening(f) \/ Drained(f)

Next ==
    \/ \E t \in Tasks : Request(t) \/ Progress(t)
    \/ \E s \in Sessions : Connect(s) \/ ServerSession(s) \/ ClientSession(s) \/ Cut(s)
    \/ Relay \/ Leave \/ Left \/ Restart
    \/ \E f \in Spawns : Forwarder(f)

Spec == Init /\ [][Next]_vars

\* Tasks that can run do run: tokio schedules every request, session pump and
\* forwarder, an ack_timeout and a drain_timeout elapse and a connected peer
\* reads its stream.  A client notices a broken connection, since it sends
\* statistics on it at every stats_report_interval.  Nothing obliges an
\* operator, a reconnect, a fault or a restart to happen.
Fairness ==
    /\ \A t \in Tasks : WF_vars(Progress(t))
    /\ \A s \in Sessions : WF_vars(ServerSession(s)) /\ WF_vars(ClientSession(s))
    /\ WF_vars(Relay) /\ WF_vars(Leave) /\ WF_vars(Left)
    /\ \A f \in Spawns : WF_vars(Forwarder(f))

FairSpec == Spec /\ Fairness

-----------------------------------------------------------------------------
(* Properties *)

RuleOrNone == Rule \cup {NoRule}
TaskPCs == {"idle", "insert", "persist", "send", "wait", "expired", "acked", "read", "write",
            "delete", "change"}
PumpPCs == {"none", "hello", "list", "replay", "replayRead", "replayWrite",
            "serve", "serveRead", "serveWrite", "done"}
Task == [op : {"none", "push", "remove", "update"}, pc : TaskPCs, rule : 0 .. MaxRules,
         port : Ports, limit : Limit, session : 0 .. MaxSessions, req : Requests,
         ack : Outcomes \cup {"none"}, snap : RuleOrNone]
Pump == [pc : PumpPCs, todo : SUBSET [rule : RuleIds, limit : Limit], rule : 0 .. MaxRules,
         mark : {"none", "Pending", "Failed"}, snap : RuleOrNone, capable : BOOLEAN]
ForwarderTask ==
    [phase : {"none", "binding", "bound", "failed", "dropped", "draining", "closed"},
     rule : 0 .. MaxRules, port : Ports, cancelled : BOOLEAN,
     session : 0 .. MaxSessions]

\* Types of the server's two copies, the requests, the sessions, the wire and
\* the client; the client's event channel keeps within its capacity.
ServerTypes ==
    /\ mem \in [RuleIds -> RuleOrNone] /\ db \in [RuleIds -> RuleOrNone]
    /\ nextId \in 1 .. MaxRules + 1 /\ nextReq \in 1 .. MaxRequests + 1
    /\ restarts \in 0 .. MaxRestarts
    /\ current \in 0 .. MaxSessions /\ caps \in BOOLEAN
WireTypes ==
    /\ link \in [Sessions -> {"new", "up", "cut"}]
    /\ toClient \in [Sessions -> Seq(Update \cup {Welcome})]
    /\ toServer \in [Sessions -> Seq(Status)]
ClientTypes ==
    /\ client \in [phase : {"off", "joining", "on", "drain"}, session : 0 .. MaxSessions]
    /\ slots \in [RuleIds -> Slot \cup {NoSlot}]
    /\ events \in Seq(Event) /\ Len(events) <= EventCap
    /\ fw \in [Spawns -> ForwarderTask] /\ spawned \in 0 .. MaxSpawns
    /\ scope \in [RuleIds -> Limit]
TypeOK ==
    /\ ServerTypes /\ WireTypes /\ ClientTypes
    /\ task \in [Tasks -> Task]
    /\ pump \in [Sessions -> Pump]

\* Nothing is under way: no request, no message, no event, no forwarder that
\* is starting or stopping, and a client that believes it is connected is.
Settled ==
    /\ \A t \in Tasks : task[t].pc = "idle"
    /\ \A s \in Sessions : /\ pump[s].pc \in {"none", "serve", "done"}
                           /\ toClient[s] = <<>> /\ toServer[s] = <<>>
    /\ client.phase \in {"on", "off"} /\ events = <<>>
    /\ client.phase = "on" => current = client.session /\ link[current] = "up"
    /\ \A f \in Spawns : /\ fw[f].phase \notin {"binding", "draining"}
                         /\ ~(Listening(f) /\ fw[f].cancelled)

Active(r)  == Known(r) /\ mem[r].state = "Active"
Runs(r)    == \E f \in Spawns : Listening(f) /\ fw[f].rule = r

\* One server process, one session.  A session that was replaced goes on
\* writing until its requests and its pump notice, and nothing stops the
\* two from marking the same rule: what the states in memory say of
\* the client is stated for the first session of a server.
Undisturbed == restarts = 0 /\ Opened \subseteq {1}

\* Once nothing is under way, every rule the operator sees as Active has its
\* listener on the connected client (push_rule, relay_status,
\* apply_unsolicited_rule_status).  An update that meets a failing bind breaks
\* it, so it is stated without updates; and a push_rule of the session before
\* that writes its acknowledgement after the replay's mark does (PushAcked).
ActiveRuns ==
    Undisturbed /\ Settled /\ client.phase = "on" => \A r \in RuleIds : Active(r) => Runs(r)

\* Once nothing is under way, every listener belongs to a rule the server
\* still knows: remove_rule reaches the client (remove_rule, REMOVE handling).
\* It holds while requests come one at a time, and a remove_rule that overtakes
\* a push_rule breaks it.
RunningIsKnown ==
    Settled => \A f \in Spawns : Listening(f) => Known(fw[f].rule)

\* A rule reported Failed has no listener once nothing is under way: Failed is
\* terminal for the forwarder and for its slot (relay_status, forwarder::run).
\* Stated without updates: update_rule_rate_limit pushes a Failed rule again.
\* A rule with a rate limit is left out: the replay of a session that was
\* replaced reads the version of the one that replaced it, not announced yet,
\* and calls the rule Failed that the new session has just started.
FailedIsSilent ==
    \A f \in Spawns :
        Listening(f) /\ Known(fw[f].rule) /\ mem[fw[f].rule].limit = NoLimit /\ Settled
            => mem[fw[f].rule].state # "Failed"

\* Two rules on one port are never Active together, although the conflict
\* check lets any number of Pending ones in: the client's bind decides
\* (push_range conflict check, range::bind_all, status routing).  A status of
\* the session before, delivered late, would mark a second one.
OneActivePerPort ==
    Undisturbed => \A r, q \in RuleIds :
        Active(r) /\ Active(q) /\ mem[r].port = mem[q].port => r = q

\* The client can stop every listener it has: a forwarder that was not
\* cancelled is referenced by a slot, through reconnects, failed binds and
\* late events (rules map of the pump).
EveryListenerHeld ==
    \A f \in Spawns : fw[f].phase \in {"binding", "bound"} /\ ~fw[f].cancelled =>
        \E r \in RuleIds : slots[r] # NoSlot /\ slots[r].fw = f

\* The server calls a rule Active only if the client did bind it, whatever was
\* lost, replayed or restarted since (an update's PUSH is answered Activated
\* without a bind, so this too is stated without updates).
ActiveWasBound ==
    \A r \in RuleIds : Active(r) =>
        \E f \in Spawns : fw[f].rule = r /\ fw[f].phase \in {"bound", "draining", "closed"}

\* A crash never loses a rule that a request has sent, or a state that a client
\* reported: a rule in memory without a row in SQLite is still Pending and no push
\* or update of it got past its upsert, or a session has just marked it and is
\* about to write it (upsert_rule after push_range, delete_rule after remove).  A
\* push or an update whose upsert failed leaves such a Pending rule behind.
AboutToWrite(s, r) ==
    pump[s].rule = r /\ pump[s].pc \in {"replayRead", "replayWrite", "serveRead", "serveWrite"}
NeverSent(r) ==
    /\ mem[r].state = "Pending"
    /\ \A t \in Tasks : task[t].rule = r =>
          task[t].op = "remove" \/ task[t].pc \in {"idle", "insert", "change", "persist"}
KnownIsStored ==
    \A r \in RuleIds : Known(r) /\ db[r] = NoRule =>
        NeverSent(r) \/ \E s \in Sessions : AboutToWrite(s, r)

\* The client's bind decides who is Active, and once nothing is under way
\* every Active rule has its listener, in a session nothing overlaps; and
\* every listener can be stopped, in any number of sessions (bind_all, status
\* routing, rules map of the pump).
ListenersSound == OneActivePerPort /\ EveryListenerHeld /\ ActiveRuns

\* What the operator reads is what the client did: Failed is silent and Active
\* was bound (relay_status, apply_unsolicited_rule_status).
StatusSound == FailedIsSilent /\ ActiveWasBound

\* Both copies of the rules are well formed, and nothing is made of a rule
\* before SQLite has it (push_rule, remove_rule).
StoreSound == TypeOK /\ KnownIsStored

\* Once nothing is under way, the limiter installed for a rule that listens is
\* the one the operator sees (hot update of the limiter scope).  It is not so
\* after an update whose upsert failed, which memory shows and nobody sends.  A
\* listener started without a limit holds no handle on what is installed later.
LimitInstalled ==
    Settled /\ client.phase = "on" /\ "store" \notin Faults => \A f \in Spawns :
        Listening(f) /\ Known(fw[f].rule) => scope[fw[f].rule] = mem[fw[f].rule].limit

\* What runs is what the operator asked for, after any sequence of updates,
\* pushes and removals, each waiting for the one before, within one session: a
\* removal or an update between the replay's list and its send would leave the
\* client with the rule as it was (RunningIsKnown, LimitInstalled).
UpdatesSound == RunningIsKnown /\ LimitInstalled

\* Every operator request returns: ack_timeout bounds the wait for the client
\* (push_rule, update_rule_rate_limit, remove_rule).
RequestsEnd == \A t \in Tasks : task[t].pc # "idle" ~> task[t].pc = "idle"

Stopped(r) == \A f \in Spawns : fw[f].rule = r => fw[f].phase \notin {"binding", "bound"}

\* A removed rule stops for good, also when its PUSH is still on the wire or
\* its forwarder still binding (remove_rule, REMOVE handling, forwarder drain).
RemovedStops ==
    \A r \in RuleIds : (\E t \in Tasks : At(t, "remove", "send") /\ task[t].rule = r) ~> []Stopped(r)

\* What an operator asks comes to an end at both ends: the request returns,
\* and a removed rule stops (RequestsEnd, RemovedStops).
RequestsComplete == RequestsEnd /\ RemovedStops

-----------------------------------------------------------------------------
(* What documents and comments say, and the code does not keep *)

\* grpc/service.rs: a client "still receives every rule it owns on reconnect".
\* A rule that ran in an earlier session, and was neither removed nor failed,
\* runs again once a new session is settled.
RunsAgain ==
    Settled /\ client.phase = "on" => \A r \in RuleIds :
        /\ Known(r) /\ mem[r].state # "Failed"
        /\ \E f \in Spawns : fw[f].rule = r /\ fw[f].phase = "closed"
        => Runs(r)

=============================================================================
