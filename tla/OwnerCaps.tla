----------------------------- MODULE OwnerCaps -----------------------------
(***************************************************************************)
(* The rate limit of one owner on one client (portunus-server owner.rs,    *)
(* operator/owner_cap.rs, store/owner_cap_store.rs): a row in SQLite, the  *)
(* server's cache of it, and the limiter the client process keeps          *)
(* (OwnerRateLimitScopeManager).  PUT and DELETE write the row, then the   *)
(* cache, then push a frame to whatever session is current; removing the   *)
(* owner's last rule drops row and cache and pushes nothing; a new session *)
(* is sent the cache.  Every await between these steps is an interleaving. *)
(***************************************************************************)
EXTENDS Integers, Sequences, FiniteSets

CONSTANTS
    Callers,     \* slots for operator requests
    Caps,        \* envelopes operators PUT that pass validation
    NoCap,       \* no envelope
    MaxOwned,    \* bound: rules of the owner
    MaxCalls,    \* bound: requests
    MaxLinks     \* bound: sessions

ASSUME OwnerCapAssumption == NoCap \notin Caps /\ {MaxOwned, MaxCalls, MaxLinks} \subseteq Nat

VARIABLES
    capRow,      \* rate_limit_owner
    capCache,    \* Inner::cache
    enforced,    \* the limiter of the client process
    owned,       \* rules of the owner on this client
    caller,      \* slot -> where its request is, the envelope it carries, whether it ran alone
    chan,        \* the session: number, up, whether Hello said 0.11, where its replay is
    frames,      \* frames on their way to the client: envelopes, NoCap for REMOVE
    dropped,     \* how the row was last deleted, and the session it was told to
    tangled,     \* two of them overlapped, and no PUT has run alone since
    calls        \* requests so far

capVars == <<capRow, capCache, enforced, owned, caller, chan, frames, dropped, tangled, calls>>

Free == [at |-> "free", cap |-> NoCap, alone |-> FALSE]
Working == {c \in Callers : caller[c].at /= "free"}
Replaying == chan.replay = "send"
AtRest == Working = {} /\ ~Replaying

Begin(c, step, cap) ==
    /\ caller[c] = Free /\ calls < MaxCalls
    /\ calls' = calls + 1
    /\ caller' = [d \in Callers |->
          IF d = c THEN [at |-> step, cap |-> cap, alone |-> AtRest]
          ELSE [caller[d] EXCEPT !.alone = FALSE]]
    /\ tangled' = (tangled \/ ~AtRest)

StepTo(c, step) == caller' = [caller EXCEPT ![c] = [caller[c] EXCEPT !.at = step]]
Finish(c) == caller' = [caller EXCEPT ![c] = Free]

-----------------------------------------------------------------------------
(* PUT *)

\* put_owner_rate_limit up to the commit of upsert: an unknown version, so
\* also a client that is not connected, is refused before anything is written.
PutCap(c, cap) ==
    /\ chan.up /\ chan.new
    /\ Begin(c, "cache", cap)
    /\ capRow' = cap
    /\ UNCHANGED <<capCache, enforced, owned, chan, frames, dropped>>

PutCache(c) ==
    /\ caller[c].at = "cache"
    /\ capCache' = caller[c].cap
    /\ StepTo(c, "push")
    /\ UNCHANGED <<capRow, enforced, owned, chan, frames, dropped, tangled, calls>>

Sent(frame) == IF chan.up THEN Append(frames, frame) ELSE frames

\* handles, and a best-effort send to the session that is current by now.
PutPush(c) ==
    /\ caller[c].at = "push"
    /\ frames' = Sent(caller[c].cap)
    /\ tangled' = (tangled /\ ~(caller[c].alone /\ chan.up))
    /\ Finish(c)
    /\ UNCHANGED <<capRow, capCache, enforced, owned, chan, dropped, calls>>

-----------------------------------------------------------------------------
(* DELETE *)

\* OwnerCapService::delete, its first half: the cache is only touched when a
\* row was there.
DeleteRow(c, by) ==
    /\ capRow' = NoCap
    /\ dropped' = IF capRow /= NoCap THEN [by |-> by, session |-> 0] ELSE dropped

DeleteCap(c) ==
    /\ Begin(c, IF capRow /= NoCap THEN "uncache" ELSE "unset", NoCap)
    /\ DeleteRow(c, "delete")
    /\ UNCHANGED <<capCache, enforced, owned, chan, frames>>

\* Slip: the cache is left to the next start.
DeleteCacheForgets(c) ==
    /\ caller[c].at \in {"uncache", "gcuncache"}
    /\ IF caller[c].at = "uncache" THEN StepTo(c, "unset") ELSE Finish(c)
    /\ UNCHANGED <<capRow, capCache, enforced, owned, chan, frames, dropped, tangled, calls>>

DeleteCache(c) ==
    /\ caller[c].at \in {"uncache", "gcuncache"}
    /\ capCache' = NoCap
    /\ IF caller[c].at = "uncache" THEN StepTo(c, "unset") ELSE Finish(c)
    /\ UNCHANGED <<capRow, enforced, owned, chan, frames, dropped, tangled, calls>>

\* REMOVE is pushed whether or not there was a row.
DeletePush(c) ==
    /\ caller[c].at = "unset"
    /\ frames' = Sent(NoCap)
    /\ dropped' = IF dropped.by = "delete" /\ chan.up THEN [dropped EXCEPT !.session = chan.session]
                  ELSE dropped
    /\ Finish(c)
    /\ UNCHANGED <<capRow, capCache, enforced, owned, chan, tangled, calls>>

-----------------------------------------------------------------------------
(* Rules of the owner *)

PushOwned ==
    /\ owned < MaxOwned
    /\ owned' = owned + 1
    /\ UNCHANGED <<capRow, capCache, enforced, caller, chan, frames, dropped, tangled, calls>>

\* remove_rule, up to the count of what is left
RemoveOwned(c) ==
    /\ owned > 0
    /\ Begin(c, "count", NoCap)
    /\ owned' = owned - 1
    /\ UNCHANGED <<capRow, capCache, enforced, chan, frames, dropped>>

CountOwned(c) ==
    /\ caller[c].at = "count"
    /\ IF owned > 0 THEN Finish(c) ELSE StepTo(c, "gc")
    /\ UNCHANGED <<capRow, capCache, enforced, owned, chan, frames, dropped, tangled, calls>>

\* gc_after_rule_removed: a rule pushed since the count changes nothing, and
\* no frame follows.
CollectCap(c) ==
    /\ caller[c].at = "gc"
    /\ DeleteRow(c, "gc")
    /\ IF capRow /= NoCap THEN StepTo(c, "gcuncache") ELSE Finish(c)
    /\ UNCHANGED <<capCache, enforced, owned, chan, frames, tangled, calls>>

-----------------------------------------------------------------------------
(* Sessions and the client *)

\* A session with its Hello.  The client process keeps its limiters.
LinkUp(new) ==
    /\ chan.session < MaxLinks
    /\ chan' = [session |-> chan.session + 1, up |-> TRUE, new |-> new, replay |-> "list", held |-> NoCap]
    /\ frames' = <<>>
    /\ UNCHANGED <<capRow, capCache, enforced, owned, caller, dropped, tangled, calls>>

LinkDown ==
    /\ chan.up
    /\ chan' = [chan EXCEPT !.up = FALSE, !.replay = "none", !.held = NoCap]
    /\ frames' = <<>>
    /\ UNCHANGED <<capRow, capCache, enforced, owned, caller, dropped, tangled, calls>>

\* replay_owner_caps_for_client: the cache is listed ...
ReplayLists ==
    /\ chan.replay = "list"
    /\ chan' = [chan EXCEPT !.replay = IF chan.new /\ capCache /= NoCap THEN "send" ELSE "none",
                            !.held = capCache]
    /\ caller' = [d \in Callers |-> [caller[d] EXCEPT !.alone = FALSE]]
    /\ tangled' = (tangled \/ Working /= {})
    /\ UNCHANGED <<capRow, capCache, enforced, owned, frames, dropped, calls>>

\* ... and sent; what was pushed in between stands before it in the queue.
ReplaySends ==
    /\ Replaying
    /\ frames' = Append(frames, chan.held)
    /\ chan' = [chan EXCEPT !.replay = "none", !.held = NoCap]
    /\ UNCHANGED <<capRow, capCache, enforced, owned, caller, dropped, tangled, calls>>

\* apply_owner_rate_limit_update
ApplyCap ==
    /\ frames /= <<>>
    /\ enforced' = Head(frames)
    /\ frames' = Tail(frames)
    /\ UNCHANGED <<capRow, capCache, owned, caller, chan, dropped, tangled, calls>>

\* The client process restarts.
ClientRestarts ==
    /\ ~chan.up
    /\ enforced' = NoCap
    /\ UNCHANGED <<capRow, capCache, owned, caller, chan, frames, dropped, tangled, calls>>

\* The server restarts: OwnerCapService::open hydrates the cache.
ServerRestarts ==
    /\ capCache' = capRow
    /\ caller' = [c \in Callers |-> Free]
    /\ chan' = [chan EXCEPT !.up = FALSE, !.replay = "none", !.held = NoCap]
    /\ frames' = <<>>
    /\ UNCHANGED <<capRow, enforced, owned, dropped, tangled, calls>>

-----------------------------------------------------------------------------
CapInit ==
    /\ capRow = NoCap /\ capCache = NoCap /\ enforced = NoCap
    /\ owned = 1
    /\ caller = [c \in Callers |-> Free]
    /\ chan = [session |-> 0, up |-> FALSE, new |-> FALSE, replay |-> "none", held |-> NoCap]
    /\ frames = <<>>
    /\ dropped = [by |-> "nobody", session |-> 0]
    /\ tangled = FALSE
    /\ calls = 0

CapNext ==
    \/ PushOwned \/ LinkDown \/ ReplayLists \/ ReplaySends \/ ApplyCap \/ ClientRestarts \/ ServerRestarts
    \/ \E new \in BOOLEAN : LinkUp(new)
    \/ \E c \in Callers :
          \/ PutCache(c) \/ PutPush(c) \/ DeleteCap(c) \/ DeleteCache(c) \/ DeletePush(c)
          \/ RemoveOwned(c) \/ CountOwned(c) \/ CollectCap(c)
          \/ \E cap \in Caps : PutCap(c, cap)

CapSpec == CapInit /\ [][CapNext]_capVars

-----------------------------------------------------------------------------
(* Properties *)

\* Whenever no request is at work and the last of them did not overlap, GET,
\* the listing and the replay answer from what SQLite holds.  (owner.rs claims
\* the lockstep without the premise on overlaps, of which nothing is said here.)
CacheInStep == AtRest /\ ~tangled => capCache = capRow

\* A client of version 0.11 that has applied what it was sent enforces the
\* envelope that is stored, across cuts and restarts on either side, unless
\* requests overlapped and none has run alone since.
StoredIsEnforced ==
    AtRest /\ ~tangled /\ chan.up /\ chan.new /\ chan.replay = "none" /\ frames = <<>>
       /\ capRow /= NoCap
    => enforced = capRow

\* A DELETE whose REMOVE went to the session that is up has lifted the limit,
\* whatever was replayed in that session before it.  (Of a DELETE that no
\* session was told, and of the collection of the last rule, nothing is said:
\* a replay sends no absence.)
DeleteTakesEffect ==
    AtRest /\ ~tangled /\ chan.up /\ chan.replay = "none" /\ frames = <<>>
       /\ capRow = NoCap /\ dropped.by = "delete" /\ dropped.session = chan.session
    => enforced = NoCap

OwnerCapsSound == CacheInStep /\ StoredIsEnforced /\ DeleteTakesEffect
=============================================================================
