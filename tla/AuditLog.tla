------------------------------ MODULE AuditLog ------------------------------
(***************************************************************************)
(* The audit log: the in-memory ring of operator/audit.rs, the bounded      *)
(* hand-off queue and the durable writer of store/audit_writer.rs, and the  *)
(* retention sweep of operator/audit_retention.rs.                          *)
(*                                                                          *)
(* Entries are numbered in the order they are recorded.  Request handlers   *)
(* record while the writer waits, fills a batch, flushes or drains; only a  *)
(* flush (one transaction) and a sweep's two deletions are atomic.          *)
(***************************************************************************)
EXTENDS Naturals, Sequences, FiniteSets

CONSTANTS
    QueueCapacity,   \* HANDOFF_CAPACITY
    BatchMax,        \* BATCH_MAX_ENTRIES
    DrainBatches,    \* batches the final drain may hold (4)
    RingCapacity,    \* AUDIT_RING_CAPACITY
    MaxRows,         \* MAX_ROWS of the retention sweep
    MaxRecorded      \* bound on the entries recorded

ASSUME AuditAssumption ==
    /\ {QueueCapacity, BatchMax, DrainBatches, RingCapacity} \subseteq Nat \ {0}
    /\ MaxRows \in Nat /\ MaxRecorded \in Nat
    /\ QueueCapacity <= DrainBatches * BatchMax

VARIABLES
    recorded,   \* entries recorded so far
    ring,       \* AuditRing.inner
    ringDrops,  \* AuditRing.drops
    queue,      \* the hand-off channel
    batch,      \* entries the writer holds
    writer,     \* "wait" | "fill" | "drain" | "returned" | "aborted"
    rows,       \* the audit table, oldest first
    drops,      \* entries record() counted as dropped
    cancelled,  \* the shutdown token
    closing,    \* (history) entries recorded when the token was cancelled
    spoilt      \* (history) entries of a batch whose flush failed

auditVars == <<recorded, ring, ringDrops, queue, batch, writer, rows, drops,
               cancelled, closing, spoilt>>

SetOf(s) == {s[i] : i \in DOMAIN s}
DropOldest(s, n) == IF Len(s) <= n THEN s ELSE SubSeq(s, Len(s) - n + 1, Len(s))

-----------------------------------------------------------------------------
(* AuditRing::push: hand off first, never waiting: a full or closed channel *)
(* drops the new entry and counts it; then the ring, which drops its oldest *)
PushEntry ==
    LET e == recorded + 1 IN
    /\ recorded < MaxRecorded
    /\ recorded' = e
    /\ IF writer \in {"returned", "aborted"} \/ Len(queue) = QueueCapacity
       THEN drops' = drops \cup {e} /\ UNCHANGED queue
       ELSE queue' = Append(queue, e) /\ UNCHANGED drops
    /\ ring' = DropOldest(Append(ring, e), RingCapacity)
    /\ ringDrops' = IF Len(ring) = RingCapacity THEN ringDrops + 1 ELSE ringDrops
    /\ UNCHANGED <<batch, writer, rows, cancelled, closing, spoilt>>

(* run_writer waits for the first entry; cancellation has priority *)
TakeFirst ==
    /\ writer = "wait" /\ ~cancelled
    /\ queue # <<>>
    /\ batch' = <<Head(queue)>> /\ queue' = Tail(queue)
    /\ writer' = "fill"
    /\ UNCHANGED <<recorded, ring, ringDrops, rows, drops, cancelled, closing, spoilt>>

(* ... and fills the batch until it is full, late or cancelled *)
TakeMore ==
    /\ writer = "fill" /\ ~cancelled
    /\ Len(batch) < BatchMax
    /\ queue # <<>>
    /\ batch' = Append(batch, Head(queue)) /\ queue' = Tail(queue)
    /\ UNCHANGED <<recorded, ring, ringDrops, writer, rows, drops, cancelled, closing, spoilt>>

(* flush: every entry in one transaction, or none and the batch is gone *)
Flushed(ok, next) ==
    /\ rows' = IF ok THEN rows \o batch ELSE rows
    /\ spoilt' = IF ok THEN spoilt ELSE spoilt \cup SetOf(batch)
    /\ batch' = <<>>
    /\ writer' = next
    /\ UNCHANGED <<recorded, ring, ringDrops, queue, drops, cancelled, closing>>

FlushBatch(ok) ==
    /\ writer = "fill"
    /\ Flushed(ok, "wait")

-----------------------------------------------------------------------------
CancelWriter ==
    /\ ~cancelled
    /\ cancelled' = TRUE /\ closing' = recorded
    /\ UNCHANGED <<recorded, ring, ringDrops, queue, batch, writer, rows, drops, spoilt>>

BeginDrain ==
    /\ writer = "wait" /\ cancelled
    /\ writer' = "drain"
    /\ UNCHANGED <<recorded, ring, ringDrops, queue, batch, rows, drops,
                   cancelled, closing, spoilt>>

(* Slip: the drain stops at one batch. *)
DrainLimitOne == BatchMax
DrainLimit == DrainBatches * BatchMax

(* drain_remaining, one try_recv: stops at an empty channel or at the limit *)
DrainOne ==
    /\ writer = "drain"
    /\ queue # <<>> /\ Len(batch) < DrainLimit
    /\ batch' = Append(batch, Head(queue)) /\ queue' = Tail(queue)
    /\ UNCHANGED <<recorded, ring, ringDrops, writer, rows, drops, cancelled, closing, spoilt>>

DrainDone(ok) ==
    /\ writer = "drain"
    /\ queue = <<>> \/ Len(batch) >= DrainLimit
    /\ Flushed(ok, "returned")

(* serve::run joins its other tasks, not the writer: the process may end    *)
(* while the writer waits or before it runs again                           *)
ProcessExits ==
    /\ cancelled /\ writer \in {"wait", "fill"}
    /\ writer' = "aborted"
    /\ UNCHANGED <<recorded, ring, ringDrops, queue, batch, rows, drops,
                   cancelled, closing, spoilt>>

-----------------------------------------------------------------------------
(* audit_retention::run_once: rows older than a cutoff, then all but the    *)
(* newest MaxRows; two transactions, the first of which may be the last     *)
PruneByAge(cutoff) ==
    /\ ~cancelled
    /\ rows' = SelectSeq(rows, LAMBDA e : e >= cutoff)
    /\ rows' # rows
    /\ UNCHANGED <<recorded, ring, ringDrops, queue, batch, writer, drops,
                   cancelled, closing, spoilt>>

PruneToMaxRows ==
    /\ ~cancelled
    /\ Len(rows) > MaxRows
    /\ rows' = DropOldest(rows, MaxRows)
    /\ UNCHANGED <<recorded, ring, ringDrops, queue, batch, writer, drops,
                   cancelled, closing, spoilt>>

-----------------------------------------------------------------------------
AuditInit ==
    /\ recorded = 0 /\ ring = <<>> /\ ringDrops = 0
    /\ queue = <<>> /\ batch = <<>> /\ writer = "wait"
    /\ rows = <<>> /\ drops = {}
    /\ cancelled = FALSE /\ closing = 0 /\ spoilt = {}

AuditNext ==
    \/ PushEntry \/ TakeFirst \/ TakeMore
    \/ \E ok \in BOOLEAN : FlushBatch(ok) \/ DrainDone(ok)
    \/ CancelWriter \/ BeginDrain \/ DrainOne \/ ProcessExits
    \/ \E e \in 2..MaxRecorded : PruneByAge(e)
    \/ PruneToMaxRows

AuditSpec == AuditInit /\ [][AuditNext]_auditVars

-----------------------------------------------------------------------------
(* When the writer has returned by itself, the channel it leaves behind     *)
(* holds only entries recorded after the shutdown began: the final drain,   *)
(* bounded at four batches, still takes everything that was waiting.        *)
DrainTakesAll ==
    writer = "returned" => \A e \in SetOf(queue) : e > closing
=============================================================================
