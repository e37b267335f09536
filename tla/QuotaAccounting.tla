--------------------------- MODULE QuotaAccounting ---------------------------
(***************************************************************************)
(* The monthly traffic quota of one (user, client) pair, end to end: the   *)
(* SQLite row and its in-memory copy (traffic_quotas/store.rs, cache.rs),  *)
(* the aggregator that charges StatsReport readings (aggregator.rs), the   *)
(* rollover tick (rollover.rs), the operator's PUT, PATCH and DELETE       *)
(* (quota_http.rs), the task that announces exhaustion (serve.rs), the     *)
(* replay at reconnect (grpc/service.rs) and the client that installs the  *)
(* budget and forwards against it (control.rs, quota/scope.rs).            *)
(*                                                                         *)
(* The cache holds its lock for one map operation and SQLite for one       *)
(* statement, so every handler is split there.  The client's two atomics   *)
(* are the subject of QuotaHandle; here a draw is one step.                *)
(***************************************************************************)
EXTENDS Integers, Sequences

CONSTANTS MonthlyLimits,       \* values of monthly_bytes an operator sends
          Chunks,       \* bytes forwarded at a time
          QuotaRequests,     \* subset of {"put", "patch", "delete"}
          MaxSent,      \* bound: bytes the client ever forwards
          MaxMonth,     \* bound: billing periods that begin
          MaxQuotaRequests,  \* bound: operator requests
          MaxCuts,      \* bound: sessions lost, client and server restarts
          NoRow, NoHandle

ASSUME QuotaLimits == MonthlyLimits \subseteq Nat
ASSUME QuotaChunks == Chunks \subseteq Nat \ {0}

VARIABLES quotaRow,     \* the row of the pair in SQLite
          quotaCache,   \* its copy in TrafficQuotaCache
          prevReading,  \* the aggregator's last cumulative reading of the rule
          exhaustChan,  \* exhaustion events in their channel
          handler,         \* the tasks, between two of their steps
          month,        \* the billing period the wall clock is in
          online,       \* is the control session up
          frames,       \* frames on their way to the client
          readings,     \* cumulative readings on their way to the server
          quotaScope,        \* the client's QuotaScopeManager entry of the user
          fwd,          \* the client's rule: the handle it captured, its counter
          total         \* history: bytes forwarded and charged; requests, cuts

stored == <<quotaRow, quotaCache>>
sessionVars == <<online, frames, readings>>
agent == <<quotaScope, fwd>>
accountingVars == <<stored, prevReading, exhaustChan, handler, month, sessionVars, agent, total>>

Resting == [pc |-> "idle", row |-> NoRow, delta |-> 0, pre |-> "none", clear |-> FALSE]

\* A client without its rule; rule statistics start at zero with the rule.
NotRunning == [quota |-> "off", own |-> NoHandle, bytes |-> 0]

\* The server starts with what is stored: no quota, or one unused this month.
AccountingInit ==
    /\ quotaRow \in {NoRow} \cup [monthly : MonthlyLimits, used : {0}, exhausted : {FALSE}, period : {0}]
    /\ quotaCache = quotaRow
    /\ prevReading = 0
    /\ exhaustChan = 0
    /\ handler = [t \in {"pump", "roll", "operator", "exhaust"} |-> Resting]
    /\ month = 0
    /\ online = FALSE
    /\ frames = <<>>
    /\ readings = <<>>
    /\ quotaScope = NoHandle
    /\ fwd = NotRunning
    /\ total = [sent |-> 0, charged |-> 0, requests |-> 0, cuts |-> 0]

Moves(t, pc) == handler' = [handler EXCEPT ![t].pc = pc]
Carry(t, pc, row) == handler' = [handler EXCEPT ![t].pc = pc, ![t].row = row]
Return(t) == handler' = [handler EXCEPT ![t] = Resting]

-----------------------------------------------------------------------------
(* Messages *)

\* make_traffic_quota_set_msg: what is left of the row, and its flag.
SetFrame(row) == [action |-> "SET", left |-> row.monthly - row.used,
                  exhausted |-> row.exhausted]
RemoveFrame == [action |-> "REMOVE", left |-> 0, exhausted |-> FALSE]
PushFrame == [action |-> "PUSH", left |-> 0, exhausted |-> FALSE]

\* The frame is queued if the client has a live session, dropped otherwise.
Announce(frame) == frames' = IF online THEN Append(frames, frame) ELSE frames

\* The last step of a handler that tells the client.
TellSet(t) ==
    /\ handler[t].pc = "push"
    /\ Announce(SetFrame(handler[t].row))
    /\ Return(t)
    /\ UNCHANGED <<stored, prevReading, exhaustChan, month, online, readings, agent, total>>

-----------------------------------------------------------------------------
(* TrafficAggregator::record, in the pump that received the report *)

\* Slip: the reading is compared with the baseline and not kept.
RecordForgets ==
    /\ handler["pump"].pc = "idle" /\ readings # <<>>
    /\ LET cum == Head(readings)
           delta == IF cum < prevReading THEN 0 ELSE cum - prevReading IN
       handler' = IF delta = 0 THEN handler
               ELSE [handler EXCEPT !["pump"].pc = "lookup", !["pump"].delta = delta]
    /\ readings' = Tail(readings)
    /\ UNCHANGED <<stored, prevReading, exhaustChan, month, online, frames, agent, total>>

\* The delta against the last reading, saturating at zero; the reading becomes
\* the new baseline in any case.
Record ==
    /\ handler["pump"].pc = "idle" /\ readings # <<>>
    /\ LET cum == Head(readings)
           delta == IF cum < prevReading THEN 0 ELSE cum - prevReading IN
       /\ prevReading' = cum
       /\ handler' = IF delta = 0 THEN handler
                  ELSE [handler EXCEPT !["pump"].pc = "lookup", !["pump"].delta = delta]
    /\ readings' = Tail(readings)
    /\ UNCHANGED <<stored, exhaustChan, month, online, frames, agent, total>>

\* Pairs without a quota are not charged.
RecordLookup ==
    /\ handler["pump"].pc = "lookup"
    /\ IF quotaCache = NoRow THEN Return("pump") ELSE Moves("pump", "pre")
    /\ UNCHANGED <<stored, prevReading, exhaustChan, month, sessionVars, agent, total>>

\* accumulate reads the cached row for the flag before the update, ...
AccumulateReadsCache ==
    /\ handler["pump"].pc = "pre"
    /\ handler' = [handler EXCEPT !["pump"].pc = "charge",
                            !["pump"].pre = IF quotaCache = NoRow THEN "none"
                                            ELSE IF quotaCache.exhausted THEN "yes" ELSE "no"]
    /\ UNCHANGED <<stored, prevReading, exhaustChan, month, sessionVars, agent, total>>

Charged(row, n) ==
    [row EXCEPT !.used = @ + n, !.exhausted = @ \/ row.used + n >= row.monthly]

\* ... charges the row with one UPDATE, ...
AccumulateChargesRow ==
    /\ handler["pump"].pc = "charge"
    /\ IF quotaRow = NoRow THEN Return("pump") /\ UNCHANGED <<quotaRow, total>>
       ELSE LET n == handler["pump"].delta IN
            /\ quotaRow' = Charged(quotaRow, n)
            /\ total' = [total EXCEPT !.charged = @ + n]
            /\ Carry("pump", "cache", quotaRow')
    /\ UNCHANGED <<quotaCache, prevReading, exhaustChan, month, sessionVars, agent>>

\* ... writes the result to the cache and reports a first crossing.
AccumulateFillsCache ==
    /\ handler["pump"].pc = "cache"
    /\ LET p == handler["pump"] IN
       /\ quotaCache' = p.row
       /\ exhaustChan' = exhaustChan + (IF p.row.exhausted /\ p.pre = "no" THEN 1 ELSE 0)
    /\ Return("pump")
    /\ UNCHANGED <<quotaRow, prevReading, month, sessionVars, agent, total>>

\* The exhaust task of serve.rs: the cached row is pushed, if there still is one.
TakeExhaustEvent ==
    /\ handler["exhaust"].pc = "idle" /\ exhaustChan > 0
    /\ exhaustChan' = exhaustChan - 1
    /\ IF quotaCache = NoRow THEN UNCHANGED handler ELSE Carry("exhaust", "push", quotaCache)
    /\ UNCHANGED <<stored, prevReading, month, sessionVars, agent, total>>

-----------------------------------------------------------------------------
(* rollover.rs run_once *)

\* The cached rows are listed, and the due ones advanced one by one.
RollList ==
    /\ handler["roll"].pc = "idle"
    /\ quotaCache # NoRow /\ quotaCache.period < month
    /\ Moves("roll", "reset")
    /\ UNCHANGED <<stored, prevReading, exhaustChan, month, sessionVars, agent, total>>

RollResetsRow ==
    /\ handler["roll"].pc = "reset"
    /\ IF quotaRow = NoRow THEN Return("roll") /\ UNCHANGED quotaRow
       ELSE /\ quotaRow' = [quotaRow EXCEPT !.used = 0, !.exhausted = FALSE, !.period = month]
            /\ Carry("roll", "cache", quotaRow')
    /\ UNCHANGED <<quotaCache, prevReading, exhaustChan, month, sessionVars, agent, total>>

RollFillsCache ==
    /\ handler["roll"].pc = "cache"
    /\ quotaCache' = handler["roll"].row
    /\ Moves("roll", "push")
    /\ UNCHANGED <<quotaRow, prevReading, exhaustChan, month, sessionVars, agent, total>>

-----------------------------------------------------------------------------
(* quota_http.rs; a superadmin with a grant for the pair *)

Asking(kind) ==
    /\ kind \in QuotaRequests
    /\ handler["operator"].pc = "idle" /\ total.requests < MaxQuotaRequests

\* PUT needs a connected client of version 1.4 and starts a period of its own.
PutQuota ==
    /\ Asking("put") /\ online
    /\ \E mb \in MonthlyLimits :
         Carry("operator", "upsert", [monthly |-> mb, used |-> 0, exhausted |-> FALSE,
                                      period |-> month])
    /\ total' = [total EXCEPT !.requests = @ + 1]
    /\ UNCHANGED <<stored, prevReading, exhaustChan, month, sessionVars, agent>>

\* PATCH edits a copy of the cached row: a new limit, a cleared usage, or both.
PatchQuota ==
    /\ Asking("patch") /\ quotaCache # NoRow
    /\ \E clear \in BOOLEAN :
         \/ \E mb \in MonthlyLimits :
              handler' = [handler EXCEPT !["operator"] = [@ EXCEPT !.pc = "upsert", !.clear = clear,
                                              !.row = [quotaCache EXCEPT !.monthly = mb]]]
         \/ handler' = [handler EXCEPT !["operator"] = [@ EXCEPT !.row = quotaCache,
                                              !.pc = IF clear THEN "clear" ELSE "push"]]
    /\ total' = [total EXCEPT !.requests = @ + 1]
    /\ UNCHANGED <<stored, prevReading, exhaustChan, month, sessionVars, agent>>

\* TrafficQuotaCache::upsert: the row, then the cache.
UpsertRow ==
    /\ handler["operator"].pc = "upsert"
    /\ quotaRow' = handler["operator"].row
    /\ Moves("operator", "upserted")
    /\ UNCHANGED <<quotaCache, prevReading, exhaustChan, month, sessionVars, agent, total>>

UpsertCache ==
    /\ handler["operator"].pc = "upserted"
    /\ quotaCache' = handler["operator"].row
    /\ Moves("operator", IF handler["operator"].clear THEN "clear" ELSE "push")
    /\ UNCHANGED <<quotaRow, prevReading, exhaustChan, month, sessionVars, agent, total>>

\* clear_period_usage: zero in place; a row that is gone is pushed as it was.
ClearRow ==
    /\ handler["operator"].pc = "clear"
    /\ IF quotaRow = NoRow THEN Moves("operator", "push") /\ UNCHANGED quotaRow
       ELSE /\ quotaRow' = [quotaRow EXCEPT !.used = 0, !.exhausted = FALSE]
            /\ Carry("operator", "cleared", quotaRow')
    /\ UNCHANGED <<quotaCache, prevReading, exhaustChan, month, sessionVars, agent, total>>

ClearCache ==
    /\ handler["operator"].pc = "cleared"
    /\ quotaCache' = handler["operator"].row
    /\ Moves("operator", "push")
    /\ UNCHANGED <<quotaRow, prevReading, exhaustChan, month, sessionVars, agent, total>>

DeleteRow ==
    /\ Asking("delete")
    /\ quotaRow' = NoRow
    /\ handler' = [handler EXCEPT !["operator"] = [@ EXCEPT !.pc = "deleted", !.row = quotaRow]]
    /\ total' = [total EXCEPT !.requests = @ + 1]
    /\ UNCHANGED <<quotaCache, prevReading, exhaustChan, month, sessionVars, agent>>

\* The cached row goes in any case, the frame only if a row was deleted.
DeleteCache ==
    /\ handler["operator"].pc = "deleted"
    /\ quotaCache' = NoRow
    /\ IF handler["operator"].row = NoRow THEN Return("operator") ELSE Moves("operator", "drop")
    /\ UNCHANGED <<quotaRow, prevReading, exhaustChan, month, sessionVars, agent, total>>

TellRemove ==
    /\ handler["operator"].pc = "drop"
    /\ Announce(RemoveFrame)
    /\ Return("operator")
    /\ UNCHANGED <<stored, prevReading, exhaustChan, month, online, readings, agent, total>>

-----------------------------------------------------------------------------
(* Sessions: what a new one replays, and what the loss of one leaves *)

\* TrafficQuotaCache::list_for_client compares its argument with client_id.
ClientId == "client_id"
ClientName == "client_name"
ListForClient(arg) ==
    IF arg = ClientId /\ quotaCache # NoRow THEN <<SetFrame(quotaCache)>> ELSE <<>>

\* replay_traffic_quotas_for_client passes the display name.
ReplayQuotas == ListForClient(ClientName)

\* Quotas are replayed before the active rule of the user.
ReplaySession ==
    /\ ~online
    /\ online' = TRUE
    /\ frames' = ReplayQuotas \o <<PushFrame>>
    /\ UNCHANGED <<stored, prevReading, exhaustChan, handler, month, readings, agent, total>>

\* The client's pump stops the rules of a lost session; the registry of quotas
\* lives as long as the process.
Disconnect ==
    /\ online /\ total.cuts < MaxCuts
    /\ online' = FALSE /\ frames' = <<>> /\ readings' = <<>>
    /\ fwd' = NotRunning
    /\ total' = [total EXCEPT !.cuts = @ + 1]
    /\ \/ UNCHANGED quotaScope
       \/ quotaScope' = NoHandle                         \* the process restarted
    /\ UNCHANGED <<stored, prevReading, exhaustChan, handler, month>>

\* TrafficQuotaCache::load; everything else in memory starts empty.
AccountingRestart ==
    /\ total.cuts < MaxCuts
    /\ quotaCache' = quotaRow
    /\ prevReading' = 0 /\ exhaustChan' = 0
    /\ handler' = [t \in DOMAIN handler |-> Resting]
    /\ online' = FALSE /\ frames' = <<>> /\ readings' = <<>>
    /\ fwd' = NotRunning
    /\ total' = [total EXCEPT !.cuts = @ + 1]
    /\ UNCHANGED <<quotaRow, month, quotaScope>>

NextMonth ==
    /\ month < MaxMonth
    /\ month' = month + 1
    /\ UNCHANGED <<stored, prevReading, exhaustChan, handler, sessionVars, agent, total>>

-----------------------------------------------------------------------------
(* Client *)

HandleFrom(f) == [left |-> IF f.left < 0 THEN 0 ELSE f.left,
                  exhausted |-> f.exhausted \/ f.left <= 0]

\* SET replaces the contents of the handle a running rule shares; REMOVE leaves
\* the rule the handle it has; PUSH captures what the registry holds now.
HandleFrame ==
    /\ frames # <<>>
    /\ LET f == Head(frames) IN
       \/ /\ f.action = "SET"
          /\ quotaScope' = HandleFrom(f)
          /\ UNCHANGED fwd
       \/ /\ f.action = "REMOVE"
          /\ quotaScope' = NoHandle
          /\ fwd' = IF fwd.quota = "shared" THEN [fwd EXCEPT !.quota = "own", !.own = quotaScope]
                    ELSE fwd
       \/ /\ f.action = "PUSH"
          /\ fwd' = [NotRunning EXCEPT !.quota = IF quotaScope = NoHandle THEN "unmetered" ELSE "shared"]
          /\ UNCHANGED quotaScope
    /\ frames' = Tail(frames)
    /\ UNCHANGED <<stored, prevReading, exhaustChan, handler, month, online, readings, total>>

\* consume: a chunk that does not fit is refused and empties the budget.
Drawn(h, n) == [left |-> IF n <= h.left THEN h.left - n ELSE 0,
                exhausted |-> n >= h.left]

ForwardMetered ==
    /\ fwd.quota # "off" /\ total.sent < MaxSent
    /\ \E n \in Chunks :
       LET h == IF fwd.quota = "shared" THEN quotaScope ELSE fwd.own
           granted == fwd.quota = "unmetered" \/ (~h.exhausted /\ n <= h.left) IN
       /\ fwd.quota # "unmetered" => ~h.exhausted
       /\ quotaScope' = IF fwd.quota = "shared" THEN Drawn(h, n) ELSE quotaScope
       /\ fwd' = [fwd EXCEPT !.bytes = @ + (IF granted THEN n ELSE 0),
                             !.own = IF fwd.quota = "own" THEN Drawn(h, n) ELSE @]
       /\ total' = [total EXCEPT !.sent = @ + (IF granted THEN n ELSE 0)]
    /\ UNCHANGED <<stored, prevReading, exhaustChan, handler, month, sessionVars>>

\* send_stats_report: the cumulative counter of the rule.
ReportReading ==
    /\ fwd.quota # "off" /\ readings = <<>>
    /\ readings' = <<fwd.bytes>>
    /\ UNCHANGED <<stored, prevReading, exhaustChan, handler, month, online, frames, agent, total>>

AccountingNext ==
    \/ Record \/ RecordLookup \/ AccumulateReadsCache \/ AccumulateChargesRow
    \/ AccumulateFillsCache \/ TakeExhaustEvent
    \/ \E t \in {"roll", "operator", "exhaust"} : TellSet(t)
    \/ RollList \/ RollResetsRow \/ RollFillsCache
    \/ PutQuota \/ PatchQuota \/ UpsertRow \/ UpsertCache \/ ClearRow \/ ClearCache
    \/ DeleteRow \/ DeleteCache \/ TellRemove
    \/ ReplaySession \/ Disconnect \/ AccountingRestart \/ NextMonth
    \/ HandleFrame \/ ForwardMetered \/ ReportReading

AccountingSpec == AccountingInit /\ [][AccountingNext]_accountingVars

-----------------------------------------------------------------------------
(* Properties *)

\* A forwarded byte is charged at most once, whatever is lost, whoever
\* restarts and whichever reading comes back smaller (aggregator.rs record).
ChargedOnce == total.charged <= total.sent

AccountingSettled == \A t \in DOMAIN handler : handler[t].pc = "idle"

\* service.rs: "push every persisted traffic_quotas row [...] so the client's
\* QuotaScopeManager is populated when the first rule activates": a rule that
\* a session activates is metered when the user has a quota.
ActivatedUnderQuota ==
    online /\ AccountingSettled /\ frames = <<>> /\ quotaCache # NoRow => quotaScope # NoHandle
=============================================================================
