----------------------------- MODULE AuditQuery -----------------------------
(***************************************************************************)
(* Reading the audit table page by page: get_audit (operator/audit_http.rs) *)
(* and the queries of store/audit_query.rs, while handlers record entries   *)
(* and retention deletes rows.                                              *)
(*                                                                          *)
(* A handler takes the time, then pushes: its row may get a later seq than  *)
(* a row with a later time.  Pages are sorted by time and cut by seq.       *)
(* Timestamps are compared as RFC 3339 text, whose order is that of time.   *)
(***************************************************************************)
EXTENDS Naturals, Sequences, FiniteSets

CONSTANTS
    Scribes,    \* how many handlers and local commands record at a time
    LimitMax,   \* MAX_LIMIT of get_audit
    KeptRows,   \* MAX_ROWS of the retention sweep
    LastInstant, LastSeq   \* bounds on the clock and on the rows written

ASSUME AuditQueryAssumption ==
    /\ Scribes \in Nat /\ LimitMax \in Nat \ {0} /\ KeptRows \in Nat
    /\ LastInstant \in Nat /\ LastSeq \in Nat

VARIABLES
    instant,  \* Utc::now()
    holding,  \* the entries made and not pushed yet
    written,  \* every row ever inserted, by seq
    inTable,  \* the seqs in the table
    reader    \* the operator who follows next_cursor

auditQueryVars == <<instant, holding, written, inTable, reader>>

Missing == "absent"

-----------------------------------------------------------------------------
(* Entries, the rows they become and what is read back *)

\* AuditEntry: who, which request or which event, and how it ended.
Allowed == [actor |-> "alice", role |-> "superadmin", request |-> "POST /v1/rules",
            outcome |-> "allow", reason |-> Missing, action |-> Missing, details |-> {}]
Denied == [Allowed EXCEPT !.actor = "_anonymous", !.role = Missing, !.outcome = "deny",
                          !.reason = "token_invalid"]
PasswordReset == [Allowed EXCEPT !.action = "operator.password_reset",
                                 !.details = {"sessions_revoked"}]
EntryKinds == {Allowed, Denied, PasswordReset}

\* The column `action` holds the event, or the request; role and reason join
\* the details.
AuditRow(e) ==
    [user |-> e.actor, outcome |-> e.outcome,
     action |-> IF e.action = Missing THEN e.request ELSE e.action,
     spaced |-> e.action = Missing,
     details |-> [role |-> e.role, reason |-> e.reason, extra |-> e.details]]

\* split_action, parse_details: an action without a space is an event.
Loaded(row) ==
    [actor |-> row.user, role |-> row.details.role, request |-> row.action,
     outcome |-> row.outcome, reason |-> row.details.reason,
     action |-> IF row.spaced THEN Missing ELSE row.action, details |-> row.details.extra]

-----------------------------------------------------------------------------
(* Writers *)

\* record_allow, record_deny, the password commands: time first, push later.
MakeEntry(e) ==
    /\ Cardinality(holding) < Scribes
    /\ holding' = holding \cup {[entry |-> e, ts |-> instant]}
    /\ UNCHANGED <<instant, written, inTable, reader>>

InsertRow(h) ==
    /\ Len(written) < LastSeq
    /\ written' = Append(written, [ts |-> h.ts, row |-> AuditRow(h.entry), of |-> h.entry])
    /\ inTable' = inTable \cup {Len(written) + 1}
    /\ holding' = holding \ {h}
    /\ UNCHANGED <<instant, reader>>

Tick ==
    /\ instant < LastInstant
    /\ instant' = instant + 1
    /\ UNCHANGED <<holding, written, inTable, reader>>

Older(cutoff) == {q \in inTable : written[q].ts < cutoff}

\* `audit prune`, and the hourly sweep: what audit_prune_count would have named.
PruneApply(cutoff) ==
    /\ inTable' = inTable \ Older(cutoff)
    /\ UNCHANGED <<instant, holding, written, reader>>

\* run_once, after the rows that are too old: the newest by seq stay.
PruneRows ==
    /\ inTable' = {q \in inTable : Cardinality({p \in inTable : p > q}) < KeptRows}
    /\ UNCHANGED <<instant, holding, written, reader>>

-----------------------------------------------------------------------------
(* Queries *)

\* query_audit_envelope, query_audit_recent: the WHERE clause.
Matching(q) ==
    {r \in inTable :
        /\ q.outcome # Missing => written[r].row.outcome = q.outcome
        /\ \A t \in q.since : written[r].ts >= t
        /\ \A t \in q.until : written[r].ts <= t
        /\ \A seq \in q.cursor : r < seq}

\* ORDER BY ts DESC, seq DESC.
Before(r, s) == written[r].ts > written[s].ts \/ (written[r].ts = written[s].ts /\ r > s)

FirstOf(rs, limit) == {r \in rs : Cardinality({s \in rs : Before(s, r)}) < limit}
LastOf(rs) == {r \in rs : \A s \in rs : s = r \/ Before(s, r)}

\* Slip: the cursor is taken before the row beyond the limit is cut off.
NextFromSentinel(rs, limit) ==
    IF Cardinality(rs) > limit THEN LastOf(FirstOf(rs, limit + 1)) ELSE {}

\* The row beyond the limit says that there is a next page; the cursor is the
\* seq of the last row shown.
NextCursor(rs, limit) ==
    IF Cardinality(rs) > limit THEN LastOf(FirstOf(rs, limit)) ELSE {}

\* parse_optional_ts: since and until are absent or RFC 3339.
TimestampsParse(q) == q.malformed # "timestamp"

\* get_audit, in the order of its checks.
Refusal(role, q) ==
    CASE role # "superadmin" -> "role_required"
      [] q.limit \notin 1..LimitMax -> "invalid_limit"
      [] q.outcome \notin {Missing, "allow", "deny"} -> "invalid_outcome"
      [] ~TimestampsParse(q) -> "invalid_timestamp"
      [] q.malformed = "cursor" -> "invalid_cursor"
      [] \E s \in q.since, u \in q.until : s > u -> "invalid_time_range"
      [] OTHER -> Missing

Envelope(q) == q.since \cup q.until \cup q.cursor # {}

NoWalk == [stage |-> "idle"]

\* What the reader has after an answer; the rows there when it began are the
\* ones the walk owes it.
Answered(q, had, again, owed) ==
    LET rs == Matching(q)
        page == FirstOf(rs, q.limit)
        cursor == IF Envelope(q) THEN NextCursor(rs, q.limit) ELSE {}
    IN  [stage |-> IF ~Envelope(q) THEN "array" ELSE IF cursor = {} THEN "end" ELSE "more",
         query |-> [q EXCEPT !.cursor = cursor],
         shown |-> had \cup page, again |-> again \cup (had \cap page), owed |-> owed]

GetAudit(role, q) ==
    /\ reader = NoWalk
    /\ reader' = IF Refusal(role, q) # Missing THEN reader
                 ELSE Answered(q, {}, {}, Matching(q))
    /\ UNCHANGED <<instant, holding, written, inTable>>

\* The next page: the same filters and the cursor passed back unchanged.
NextPage ==
    /\ reader.stage = "more"
    /\ reader' = Answered(reader.query, reader.shown, reader.again, reader.owed)
    /\ UNCHANGED <<instant, holding, written, inTable>>

CloseAudit ==
    /\ reader # NoWalk
    /\ reader' = NoWalk
    /\ UNCHANGED <<instant, holding, written, inTable>>

-----------------------------------------------------------------------------
\* A query with nothing wrong, and the ways of being refused.  since, until and
\* cursor are empty when absent; a limit that is no number is refused like 0.
PlainQuery == [limit |-> 1, outcome |-> Missing, since |-> {}, until |-> {}, cursor |-> {},
               malformed |-> Missing]
AuditQueries ==
    {PlainQuery} \cup
    {[PlainQuery EXCEPT !.since = {0}, !.outcome = o] : o \in {Missing, "deny"}} \cup
    {[PlainQuery EXCEPT !.limit = 2, !.until = {LastInstant}],
     [PlainQuery EXCEPT !.since = {1}, !.until = {1}],
     [PlainQuery EXCEPT !.limit = 0], [PlainQuery EXCEPT !.limit = LimitMax + 1],
     [PlainQuery EXCEPT !.outcome = "maybe"], [PlainQuery EXCEPT !.malformed = "timestamp"],
     [PlainQuery EXCEPT !.malformed = "cursor"],
     [PlainQuery EXCEPT !.limit = LimitMax, !.since = {1}, !.until = {0}]}

AuditQueryInit ==
    /\ instant = 0
    /\ holding = {}
    /\ written = <<>> /\ inTable = {}
    /\ reader = NoWalk

AuditQueryNext ==
    \/ \E e \in EntryKinds : MakeEntry(e)
    \/ \E h \in holding : InsertRow(h)
    \/ Tick
    \/ \E cutoff \in 1..LastInstant : PruneApply(cutoff)
    \/ PruneRows
    \/ \E q \in AuditQueries, role \in {"superadmin", "user"} : GetAudit(role, q)
    \/ NextPage \/ CloseAudit

AuditQuerySpec == AuditQueryInit /\ [][AuditQueryNext]_auditQueryVars

-----------------------------------------------------------------------------
(* Properties *)

\* Two rows whose order by time is not their order by seq: their handlers took
\* the time in one order and pushed in the other.
Crossed(r, s) == r < s /\ written[r].ts > written[s].ts

\* A walk along next_cursor shows every row it owes that is still there, and
\* none twice, whatever is recorded and deleted between its pages, except rows
\* that cross another.
WalkExact ==
    /\ reader.stage = "end" =>
          \A r \in reader.owed \cap inTable :
              r \in reader.shown \/ \E s \in DOMAIN written : Crossed(r, s) \/ Crossed(s, r)
    /\ reader.stage \in {"more", "end"} =>
          \A r \in reader.again : \E s \in DOMAIN written : Crossed(r, s)

\* Rows recorded after the walk began are not mixed into its later pages.
WalkClosed == reader.stage \in {"more", "end"} => reader.shown \subseteq reader.owed

\* What is read back is what was recorded; only an event loses its request.
ReadBack ==
    \A r \in inTable :
        LET e == written[r].of
            back == Loaded(written[r].row)
        IN  /\ \A f \in DOMAIN e \ {"request"} : back[f] = e[f]
            /\ e.action = Missing => back.request = e.request

\* GET /v1/audit shows the table as it was recorded, page after page
\* (query_audit_envelope, parse_details).
PagesSound == WalkExact /\ WalkClosed /\ ReadBack
=============================================================================
