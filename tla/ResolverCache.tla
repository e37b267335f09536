---------------------------- MODULE ResolverCache ----------------------------
(***************************************************************************)
(* The DNS cache of the client (portunus-forwarder, resolver/cache.rs) and *)
(* the resolver around it (resolver/mod.rs): single flight per name, a     *)
(* bounded number of lookups in flight, stale answers during a failed      *)
(* refresh, a negative cache, eviction, and the takeover of a lookup whose *)
(* task was dropped.                                                       *)
(*                                                                         *)
(* A lookup holds the cache's mutex for one step, sleeps on the Notify of  *)
(* another lookup, or waits for the name server with the mutex free.       *)
(***************************************************************************)
EXTENDS Integers, FiniteSets

CONSTANTS
    Names,           \* host names
    Lookups,         \* concurrent calls of get_or_resolve
    MaxResolves,     \* max_concurrent_resolves
    MaxEntries,      \* max_cache_entries
    AttemptTimeout,  \* attempt_timeout: the name server answers or times out
    Margin,          \* PENDING_ABANDON_MARGIN, which bounds scheduling jitter
    Floor, Ceiling,  \* cache_floor and cache_ceiling
    Grace,           \* stale_while_error_grace
    Retry,           \* negative_cache_retry
    Ttls,            \* lifetimes the name server may report
    Rounds,          \* rounds of get_or_resolve before it gives up
    MaxInstant,      \* bound: the clock
    NoName

ASSUME ResolverAssumption ==
    /\ {MaxResolves, MaxEntries, AttemptTimeout, Margin, Rounds} \subseteq Nat \ {0}
    /\ {Floor, Ceiling, Grace, Retry, MaxInstant} \subseteq Nat
    /\ Ttls \subseteq Nat
    /\ NoName \notin Names

VARIABLES
    instant,   \* the clock
    entry,     \* the map: name -> entry, absent when its kind is "none"
    lookup,    \* the state of each call
    permits    \* free permits of resolve_slots

resolverVars == <<instant, entry, lookup, permits>>

-----------------------------------------------------------------------------
(* Entries *)

\* A Notify belongs to the lookup that installed the placeholder and to the
\* instant it did so; it is never created twice.
NoEntry == [kind |-> "none"]
PendingBy(c) == [kind |-> "pending", owner |-> c, since |-> instant]
Resolved(ttl) == [kind |-> "resolved", until |-> ttl, used |-> instant]

AbandonAfter == AttemptTimeout + Margin
Abandoned(e) == e.kind = "pending" /\ instant - e.since > AbandonAfter
Fresh(e) == e.kind \in {"resolved", "stale", "failed"} /\ instant < e.until

\* clamp_ttl
Clamp(ttl) == IF ttl < Floor THEN Floor ELSE IF ttl > Ceiling THEN Ceiling ELSE ttl

Present(map) == {n \in Names : map[n].kind /= "none"}

\* The first pass of evict_locked keeps a live placeholder and every entry
\* whose deadline lies ahead.
Retained(map) ==
    {n \in Present(map) : IF map[n].kind = "pending" THEN ~Abandoned(map[n]) ELSE map[n].until > instant}

\* The second pass drops least recently used entries, never a placeholder,
\* until the map is below its cap or only placeholders are left.
Evictable(map, kept) == {n \in kept : map[n].kind /= "pending"}
LeastUsed(map, kept) ==
    {v \in SUBSET Evictable(map, kept) :
        /\ \A n \in v, m \in Evictable(map, kept) \ v : map[n].used <= map[m].used
        /\ \/ Cardinality(kept \ v) = MaxEntries - 1
           \/ Cardinality(kept) < MaxEntries /\ v = {}
           \/ Cardinality(kept \ v) >= MaxEntries /\ v = Evictable(map, kept)}

\* The entries evict_locked may leave.  Below the cap it touches nothing.
Survivors(map) ==
    IF Cardinality(Present(map)) < MaxEntries
    THEN {Present(map)}
    ELSE {Retained(map) \ v : v \in LeastUsed(map, Retained(map))}

-----------------------------------------------------------------------------
(* Waiters *)

CallAt(pc, n, round) == [pc |-> pc, name |-> n, round |-> round, since |-> 0, stale |-> FALSE]
NoCall == CallAt("idle", NoName, 0)

WaitsOn(w, e) == lookup[w].pc = "waiting" /\ lookup[w].on = [owner |-> e.owner, since |-> e.since]

\* Slip: a taken-over placeholder is overwritten without waking its waiters.
WokenByNobody(c, es) == lookup[c]

\* notify_waiters: a woken waiter reads the map again in its next round.
Woken(c, es) ==
    IF lookup[c].pc = "waiting" /\ \E e \in es : e.kind = "pending" /\ WaitsOn(c, e)
    THEN CallAt("ready", lookup[c].name, lookup[c].round + 1)
    ELSE lookup[c]

-----------------------------------------------------------------------------
(* get_or_resolve *)

Call(c, n) ==
    /\ lookup[c].pc = "idle"
    /\ lookup' = [lookup EXCEPT ![c] = CallAt("ready", n, 1)]
    /\ UNCHANGED <<instant, entry, permits>>

\* Four rounds passed without an answer: "cache state oscillation".
Oscillates(c) ==
    /\ lookup[c].pc = "ready"
    /\ lookup[c].round > Rounds
    /\ lookup' = [lookup EXCEPT ![c] = NoCall]
    /\ UNCHANGED <<instant, entry, permits>>

CanLook(c) == lookup[c].pc = "ready" /\ lookup[c].round <= Rounds

\* A cached or stale answer, which is a use of the entry, or the remembered
\* failure, which is not.
Serve(c) ==
    LET n == lookup[c].name
    IN  /\ CanLook(c)
        /\ Fresh(entry[n])
        /\ entry' = [entry EXCEPT ![n].used = IF entry[n].kind = "failed" THEN @ ELSE instant]
        /\ lookup' = [lookup EXCEPT ![c] = NoCall]
        /\ UNCHANGED <<instant, permits>>

\* Another lookup is at it: enable() registers the waiter under the lock.
Wait(c) ==
    LET n == lookup[c].name
    IN  /\ CanLook(c)
        /\ entry[n].kind = "pending"
        /\ ~Abandoned(entry[n])
        /\ lookup' = [lookup EXCEPT ![c] =
                        [pc |-> "waiting", name |-> n, round |-> lookup[c].round,
                         on |-> [owner |-> entry[n].owner, since |-> entry[n].since]]]
        /\ UNCHANGED <<instant, entry, permits>>

\* A miss, an entry past its deadline or an abandoned placeholder: this call
\* must resolve.
MustResolve(c) ==
    LET e == entry[lookup[c].name]
    IN  /\ CanLook(c)
        /\ IF e.kind = "pending" THEN Abandoned(e) ELSE ~Fresh(e)

Overloaded(c) ==
    /\ MustResolve(c)
    /\ permits = 0
    /\ lookup' = [lookup EXCEPT ![c] = NoCall]
    /\ UNCHANGED <<instant, entry, permits>>

\* install_pending, after making room when the name is new.  The addresses of
\* an expired answer are kept for the case that the refresh fails.
Begin(c) ==
    LET n == lookup[c].name
    IN  /\ MustResolve(c)
        /\ permits > 0
        /\ permits' = permits - 1
        /\ \E kept \in IF entry[n].kind = "none" THEN Survivors(entry) ELSE {Names} :
              /\ entry' = [m \in Names |-> IF m = n THEN PendingBy(c)
                                           ELSE IF m \in kept THEN entry[m] ELSE NoEntry]
              /\ lookup' = [d \in Lookups |->
                              IF d = c
                              THEN [CallAt("resolving", n, 0) EXCEPT !.since = instant,
                                                                 !.stale = entry[n].kind = "resolved"]
                              ELSE Woken(d, {entry[m] : m \in (Names \ kept) \cup {n}})]
        /\ UNCHANGED instant

\* The name server answers (ttl), or fails, answers nothing or times out;
\* apply_refresh reads the clock before it waits for the lock.
Answer(c, ttl) ==
    /\ lookup[c].pc = "resolving"
    /\ lookup' = [lookup EXCEPT ![c] =
                    [pc |-> "committing", name |-> @.name, since |-> @.since,
                     entry |-> IF ttl >= 0
                               THEN Resolved(instant + Clamp(ttl))
                               ELSE IF @.stale
                                    THEN [kind |-> "stale", until |-> instant + Grace, used |-> instant]
                                    ELSE [kind |-> "failed", until |-> instant + Retry, used |-> instant]]]
    /\ UNCHANGED <<instant, entry, permits>>

\* The result overwrites whatever the map holds; the waiters of the
\* placeholder it overwrites are woken, the permit is returned.
CommitAnswer(c) ==
    LET n == lookup[c].name
    IN  /\ lookup[c].pc = "committing"
        /\ entry' = [entry EXCEPT ![n] = lookup[c].entry]
        /\ lookup' = [d \in Lookups |-> IF d = c THEN NoCall ELSE Woken(d, {entry[n]})]
        /\ permits' = permits + 1
        /\ UNCHANGED instant

\* The calling task is dropped: the permit is returned, the placeholder stays.
DropCall(c) ==
    /\ lookup[c].pc \notin {"idle", "ready"}
    /\ lookup' = [lookup EXCEPT ![c] = NoCall]
    /\ permits' = IF lookup[c].pc = "waiting" THEN permits ELSE permits + 1
    /\ UNCHANGED <<instant, entry>>

\* The attempt's timer fires on time, and a lookup that has its answer gets
\* the lock within the margin.
Punctual(c) ==
    /\ lookup[c].pc = "resolving" => instant - lookup[c].since < AttemptTimeout
    /\ lookup[c].pc = "committing" => instant - lookup[c].since < AbandonAfter

Elapse ==
    /\ instant < MaxInstant
    /\ \A c \in Lookups : Punctual(c)
    /\ instant' = instant + 1
    /\ UNCHANGED <<entry, lookup, permits>>

-----------------------------------------------------------------------------
ResolverInit ==
    /\ instant = 0
    /\ entry = [n \in Names |-> NoEntry]
    /\ lookup = [c \in Lookups |-> NoCall]
    /\ permits = MaxResolves

ResolverNext ==
    \/ \E c \in Lookups, n \in Names : Call(c, n)
    \/ \E c \in Lookups :
          \/ Oscillates(c) \/ Serve(c) \/ Wait(c) \/ Overloaded(c) \/ Begin(c)
          \/ CommitAnswer(c) \/ DropCall(c)
    \/ \E c \in Lookups, ttl \in Ttls \cup {-1} : Answer(c, ttl)
    \/ Elapse

ResolverSpec == ResolverInit /\ [][ResolverNext]_resolverVars

-----------------------------------------------------------------------------
(* Properties *)

\* No wakeup is missed: a waiting lookup is registered with the placeholder
\* the map holds for its name, so whoever overwrites, takes over or evicts
\* that placeholder wakes it.
WaiterIsRegistered ==
    \A c \in Lookups : lookup[c].pc = "waiting" =>
        LET e == entry[lookup[c].name] IN e.kind = "pending" /\ WaitsOn(c, e)

\* Single flight: no two lookups ask the name server for the same name at
\* once.  A placeholder is taken over or evicted only after its owner was
\* dropped, and an expired answer is refreshed by one lookup.
SingleFlight ==
    \A c, d \in Lookups :
        /\ c /= d
        /\ lookup[c].pc \in {"resolving", "committing"}
        /\ lookup[d].pc \in {"resolving", "committing"}
        => lookup[c].name /= lookup[d].name

\* One question per name at a time, and whoever waits for its answer is woken
\* (get_or_resolve).
FlightsSound == SingleFlight /\ WaiterIsRegistered
=============================================================================
