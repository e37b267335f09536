--------------------------- MODULE ForwarderProofs ---------------------------
(***************************************************************************)
(* Proofs about the forwarder, for every value of the constants: the *)
(* resolver cache, for any number of names and lookups and any timeouts; *)
(* the TCP relay, for any number of connections and bytes; the supervisor *)
(* of a single-target UDP rule, for any number of ports; a UDP rule with *)
(* several targets, for any ports, sources, targets and flow ceiling; the *)
(* SNI groups, for any rules, host names and suffixes; and the peek at a *)
(* ClientHello, for any streams, cut up in any way. *)
(***************************************************************************)
EXTENDS ResolverCache, TcpRelay, UdpSupervisor, MultiUdp, PortGroups, SniPeek,
        SequenceTheorems, FiniteSetTheorems, WellFoundedInduction, TLAPS

----
(* Resolver cache: the state's shape *)

PendingEntry == [kind : {"pending"}, owner : Lookups, since : Nat]
AnswerEntry == [kind : {"resolved", "stale", "failed"}, until : Nat, used : Nat]
CacheEntry == {NoEntry} \cup PendingEntry \cup AnswerEntry

PlainCall == [pc : {"idle", "ready", "resolving"}, name : Names \cup {NoName}, round : Nat,
              since : Nat, stale : BOOLEAN]
WaitingCall == [pc : {"waiting"}, name : Names, round : Nat, on : [owner : Lookups, since : Nat]]
CommittingCall == [pc : {"committing"}, name : Names, since : Nat, entry : AnswerEntry]
LookupCall == PlainCall \cup WaitingCall \cup CommittingCall

ResolverTypeOK ==
    /\ instant \in Nat
    /\ permits \in Nat
    /\ entry \in [Names -> CacheEntry]
    /\ lookup \in [Lookups -> LookupCall]
    /\ \A c \in Lookups : lookup[c].pc # "idle" => lookup[c].name \in Names

\* A lookup at the name server, or about to write its answer, still owns the
\* placeholder it installed, and that placeholder is not abandoned yet.
OwnsPlaceholder(c) ==
    /\ entry[lookup[c].name] = [kind |-> "pending", owner |-> c, since |-> lookup[c].since]
    /\ lookup[c].since <= instant
    /\ instant - lookup[c].since <=
          IF lookup[c].pc = "resolving" THEN AttemptTimeout ELSE AbandonAfter

InFlight(c) == lookup[c].pc \in {"resolving", "committing"}

OwnersInv == \A c \in Lookups : InFlight(c) => OwnsPlaceholder(c)

FlightInv == ResolverTypeOK /\ OwnersInv /\ WaiterIsRegistered

----
\* clamp_ttl returns a lifetime.
LEMMA ClampType ==
    ASSUME NEW ttl \in Nat PROVE Clamp(ttl) \in Nat
  BY ResolverAssumption DEF Clamp

\* A placeholder whose owner is in flight is not abandoned.
LEMMA OwnedIsLive ==
    ASSUME FlightInv, NEW c \in Lookups, InFlight(c)
    PROVE  /\ lookup[c].name \in Names
           /\ entry[lookup[c].name].kind = "pending"
           /\ entry[lookup[c].name].owner = c
           /\ ~Abandoned(entry[lookup[c].name])
<1>1. lookup[c].name \in Names /\ lookup[c].since \in Nat /\ instant \in Nat
 BY DEF FlightInv, ResolverTypeOK, InFlight, LookupCall, PlainCall, WaitingCall, CommittingCall
<1>2. OwnsPlaceholder(c)
 BY DEF FlightInv, OwnersInv
<1>3. AttemptTimeout \in Nat /\ Margin \in Nat
 BY ResolverAssumption
<1> QED BY <1>1, <1>2, <1>3 DEF OwnsPlaceholder, Abandoned, AbandonAfter, InFlight

\* evict_locked never drops a live placeholder.
LEMMA EvictionKeepsLive ==
    ASSUME NEW kept \in Survivors(entry), NEW m \in Names,
           entry[m].kind = "pending", ~Abandoned(entry[m])
    PROVE  m \in kept
<1>1. m \in Present(entry)
 BY DEF Present
<1>2. CASE kept = Present(entry)
 BY <1>1, <1>2
<1>3. CASE kept \in {Retained(entry) \ v : v \in LeastUsed(entry, Retained(entry))}
 <2>1. PICK v \in LeastUsed(entry, Retained(entry)) : kept = Retained(entry) \ v
  BY <1>3
 <2>2. m \in Retained(entry)
  BY <1>1 DEF Retained
 <2>3. v \subseteq Evictable(entry, Retained(entry))
  BY <2>1 DEF LeastUsed
 <2>4. m \notin v
  BY <2>3 DEF Evictable
 <2> QED BY <2>1, <2>2, <2>4
<1> QED BY <1>2, <1>3 DEF Survivors

\* Waking changes a call only from waiting to ready, under the same name.
LEMMA WokenShape ==
    ASSUME ResolverTypeOK, NEW d \in Lookups, NEW es
    PROVE  /\ Woken(d, es) \in LookupCall
           /\ Woken(d, es).pc # "idle" => Woken(d, es).name \in Names
           /\ Woken(d, es) = lookup[d] \/ Woken(d, es).pc = "ready"
           /\ lookup[d].pc # "waiting" => Woken(d, es) = lookup[d]
<1>1. lookup[d] \in LookupCall /\ (lookup[d].pc # "idle" => lookup[d].name \in Names)
 BY DEF ResolverTypeOK
<1>2. CASE Woken(d, es) = lookup[d]
 BY <1>1, <1>2
<1>3. CASE Woken(d, es) # lookup[d]
 <2>1. lookup[d].pc = "waiting" /\ Woken(d, es) = CallAt("ready", lookup[d].name, lookup[d].round + 1)
  BY <1>3 DEF Woken
 <2>2. lookup[d] \in WaitingCall
  BY <1>1, <2>1 DEF LookupCall, PlainCall, CommittingCall
 <2> QED BY <2>1, <2>2 DEF WaitingCall, CallAt, LookupCall, PlainCall
<1> QED BY <1>2, <1>3

\* A call on a placeholder that changes is woken.
LEMMA WaiterIsWoken ==
    ASSUME FlightInv, NEW d \in Lookups, lookup[d].pc = "waiting", NEW es, entry[lookup[d].name] \in es
    PROVE  Woken(d, es).pc = "ready"
  BY DEF FlightInv, WaiterIsRegistered, Woken, CallAt

----
LEMMA FlightInit ==
    ResolverInit => FlightInv
<1> SUFFICES ASSUME ResolverInit PROVE FlightInv
 OBVIOUS
<1>1. ResolverTypeOK
 BY ResolverAssumption DEF ResolverInit, ResolverTypeOK, CacheEntry, LookupCall, PlainCall, NoCall,
  CallAt
<1> QED BY <1>1 DEF ResolverInit, FlightInv, OwnersInv, InFlight, WaiterIsRegistered, NoCall, CallAt

\* A call that answers or is dropped, and a call that starts, disturb nobody:
\* the map keeps every placeholder.
LEMMA FlightEnds ==
    ASSUME FlightInv, NEW c \in Lookups, NEW next \in LookupCall,
           next.pc \in {"idle", "ready"}, next.pc # "idle" => next.name \in Names,
           lookup' = [lookup EXCEPT ![c] = next], permits' \in Nat, UNCHANGED <<instant, entry>>
    PROVE  FlightInv'
<1> USE DEF FlightInv
<1>1. ResolverTypeOK'
 BY DEF ResolverTypeOK
<1>2. ASSUME NEW d \in Lookups PROVE lookup'[d] = IF d = c THEN next ELSE lookup[d]
 BY DEF ResolverTypeOK
<1>3. OwnersInv'
 BY <1>2 DEF OwnersInv, InFlight, OwnsPlaceholder, AbandonAfter
<1>4. WaiterIsRegistered'
 BY <1>2 DEF WaiterIsRegistered, WaitsOn
<1> QED BY <1>1, <1>3, <1>4

LEMMA NoCallShape ==
    NoCall \in LookupCall /\ NoCall.pc = "idle"
  BY DEF NoCall, CallAt, LookupCall, PlainCall

LEMMA FlightServe ==
    ASSUME FlightInv, NEW c \in Lookups, Serve(c) PROVE FlightInv'
<1> DEFINE n == lookup[c].name
<1>1. n \in Names /\ entry[n] \in AnswerEntry /\ instant \in Nat
 BY DEF FlightInv, ResolverTypeOK, Serve, CanLook, Fresh, CacheEntry, NoEntry, PendingEntry
<1>2. PICK e \in AnswerEntry : entry' = [entry EXCEPT ![n] = e]
 <2> DEFINE e == [entry[n] EXCEPT !.used = IF entry[n].kind = "failed" THEN @ ELSE instant]
 <2>1. e \in AnswerEntry
  BY <1>1 DEF AnswerEntry
 <2>2. entry' = [entry EXCEPT ![n] = e]
  BY DEF Serve
 <2> QED BY <2>1, <2>2
<1>3. /\ \A d \in Lookups : lookup'[d] = IF d = c THEN NoCall ELSE lookup[d]
      /\ lookup' \in [Lookups -> LookupCall]
      /\ NoCall.pc = "idle"
      /\ instant' = instant /\ permits' = permits
 BY NoCallShape DEF FlightInv, ResolverTypeOK, Serve
<1>4. \A m \in Names : entry'[m] = IF m = n THEN e ELSE entry[m]
 BY <1>2 DEF FlightInv, ResolverTypeOK
<1>5. \A m \in Names : entry[m].kind = "pending" => entry'[m] = entry[m]
 BY <1>1, <1>4 DEF AnswerEntry
<1>6. ResolverTypeOK'
 BY <1>1, <1>2, <1>3, <1>4 DEF FlightInv, ResolverTypeOK, CacheEntry
<1>7. OwnersInv'
 BY <1>3, <1>5, OwnedIsLive DEF FlightInv, OwnersInv, InFlight, OwnsPlaceholder, AbandonAfter
<1>8. WaiterIsRegistered'
 <2> SUFFICES ASSUME NEW d \in Lookups, lookup'[d].pc = "waiting"
              PROVE  /\ entry'[lookup'[d].name].kind = "pending"
                     /\ lookup'[d].on = [owner |-> entry'[lookup'[d].name].owner,
                                         since |-> entry'[lookup'[d].name].since]
  BY DEF WaiterIsRegistered, WaitsOn
 <2>1. lookup'[d] = lookup[d]
  BY <1>3
 <2>2. /\ lookup[d].name \in Names /\ entry[lookup[d].name].kind = "pending"
       /\ lookup[d].on = [owner |-> entry[lookup[d].name].owner,
                          since |-> entry[lookup[d].name].since]
  BY <2>1 DEF FlightInv, ResolverTypeOK, WaiterIsRegistered, WaitsOn
 <2> QED BY <1>5, <2>1, <2>2
<1> QED BY <1>6, <1>7, <1>8 DEF FlightInv

LEMMA FlightWait ==
    ASSUME FlightInv, NEW c \in Lookups, Wait(c) PROVE FlightInv'
<1> DEFINE n == lookup[c].name
           next == [pc |-> "waiting", name |-> n, round |-> lookup[c].round,
                    on |-> [owner |-> entry[n].owner, since |-> entry[n].since]]
<1> USE DEF FlightInv
<1>1. n \in Names /\ entry[n] \in PendingEntry /\ lookup[c].round \in Nat
 BY DEF ResolverTypeOK, Wait, CanLook, CacheEntry, NoEntry, AnswerEntry, LookupCall, PlainCall,
  WaitingCall, CommittingCall
<1>2. next \in WaitingCall
 BY <1>1 DEF WaitingCall, PendingEntry
<1>3. \A d \in Lookups : lookup'[d] = IF d = c THEN next ELSE lookup[d]
 BY DEF ResolverTypeOK, Wait
<1>4. UNCHANGED <<instant, entry, permits>>
 BY DEF Wait
<1>5. ResolverTypeOK'
 BY <1>1, <1>2, <1>4 DEF ResolverTypeOK, LookupCall, Wait
<1>6. OwnersInv'
 BY <1>3, <1>4 DEF OwnersInv, InFlight, OwnsPlaceholder, AbandonAfter
<1>7. WaiterIsRegistered'
 BY <1>1, <1>3, <1>4 DEF WaiterIsRegistered, WaitsOn, PendingEntry
<1> QED BY <1>5, <1>6, <1>7

\* Making room keeps every live placeholder, and the one that is replaced was
\* abandoned or no placeholder at all; whoever waited on it is woken.
LEMMA FlightBegin ==
    ASSUME FlightInv, NEW c \in Lookups, Begin(c) PROVE FlightInv'
<1> DEFINE n == lookup[c].name
           mine == [CallAt("resolving", n, 0) EXCEPT !.since = instant,
                                                 !.stale = entry[n].kind = "resolved"]
<1>1. /\ n \in Names /\ lookup[c].pc = "ready" /\ entry[n] \in CacheEntry
      /\ instant \in Nat /\ permits' \in Nat /\ instant' = instant
      /\ entry[n].kind = "pending" => Abandoned(entry[n])
 BY DEF FlightInv, ResolverTypeOK, Begin, MustResolve, CanLook
<1>2. PICK kept \in IF entry[n].kind = "none" THEN Survivors(entry) ELSE {Names} :
            /\ entry' = [m \in Names |-> IF m = n THEN PendingBy(c)
                                         ELSE IF m \in kept THEN entry[m] ELSE NoEntry]
            /\ lookup' = [d \in Lookups |->
                            IF d = c THEN mine
                            ELSE Woken(d, {entry[m] : m \in (Names \ kept) \cup {n}})]
 BY DEF Begin
<1> DEFINE es == {entry[m] : m \in (Names \ kept) \cup {n}}
<1>3. /\ PendingBy(c) = [kind |-> "pending", owner |-> c, since |-> instant]
      /\ PendingBy(c) \in PendingEntry
 BY <1>1 DEF PendingBy, PendingEntry
<1>4. mine \in PlainCall /\ mine.pc = "resolving" /\ mine.name = n /\ mine.since = instant
 BY <1>1 DEF CallAt, PlainCall
<1>5. \A m \in Names : m # n /\ entry[m].kind = "pending" /\ ~Abandoned(entry[m]) => entry'[m] = entry[m]
 BY <1>2, EvictionKeepsLive
<1>6. \A d \in Lookups : lookup'[d] = IF d = c THEN mine ELSE Woken(d, es)
 BY <1>2
<1>7. ResolverTypeOK'
 <2>1. lookup' \in [Lookups -> LookupCall]
  BY <1>2, <1>4, WokenShape DEF LookupCall, FlightInv
 <2> HIDE DEF mine, es
 <2>2. entry' \in [Names -> CacheEntry]
  BY <1>2, <1>3 DEF FlightInv, ResolverTypeOK, CacheEntry
 <2>3. \A d \in Lookups : lookup'[d].pc # "idle" => lookup'[d].name \in Names
  BY <1>1, <1>4, <1>6, WokenShape DEF FlightInv
 <2> QED BY <1>1, <2>1, <2>2, <2>3 DEF ResolverTypeOK
<1>8. OwnersInv'
 <2> HIDE DEF mine, es
 <2> SUFFICES ASSUME NEW d \in Lookups, InFlight(d)' PROVE OwnsPlaceholder(d)'
  BY DEF OwnersInv
 <2>1. CASE d = c
  <3>1. lookup'[d].name = n /\ lookup'[d].since = instant /\ lookup'[d].pc = "resolving"
   BY <1>4, <1>6, <2>1
  <3>2. entry'[n] = [kind |-> "pending", owner |-> c, since |-> instant]
   BY <1>1, <1>2, <1>3
  <3>3. AttemptTimeout \in Nat
   BY ResolverAssumption
  <3> QED BY <1>1, <2>1, <3>1, <3>2, <3>3 DEF OwnsPlaceholder
 <2>2. CASE d # c
  <3>1. lookup'[d] = lookup[d] /\ InFlight(d)
   BY <1>6, <2>2, WokenShape DEF InFlight, FlightInv
  <3>2. entry'[lookup[d].name] = entry[lookup[d].name]
   BY <1>1, <1>5, <3>1, OwnedIsLive
  <3> QED BY <1>1, <3>1, <3>2 DEF FlightInv, OwnersInv, OwnsPlaceholder, AbandonAfter
 <2> QED BY <2>1, <2>2
<1>9. WaiterIsRegistered'
 <2> SUFFICES ASSUME NEW d \in Lookups, lookup'[d].pc = "waiting"
              PROVE  /\ entry'[lookup'[d].name].kind = "pending"
                     /\ lookup'[d].on = [owner |-> entry'[lookup'[d].name].owner,
                                         since |-> entry'[lookup'[d].name].since]
  BY DEF WaiterIsRegistered, WaitsOn
 <2>1. d # c /\ lookup'[d] = lookup[d] /\ Woken(d, es) = lookup[d] /\ lookup[d].pc = "waiting"
  BY <1>4, <1>6, WokenShape DEF FlightInv
 <2>2. entry[lookup[d].name] \notin es
  BY <2>1, WaiterIsWoken
 <2>3. lookup[d].name \in Names
  BY <2>1 DEF FlightInv, ResolverTypeOK
 <2>4. lookup[d].name \in kept /\ lookup[d].name # n
  BY <2>2, <2>3
 <2>5. entry'[lookup[d].name] = entry[lookup[d].name]
  BY <1>2, <2>3, <2>4
 <2> QED BY <2>1, <2>5 DEF FlightInv, WaiterIsRegistered, WaitsOn
<1> QED BY <1>7, <1>8, <1>9 DEF FlightInv

LEMMA FlightAnswer ==
    ASSUME FlightInv, NEW c \in Lookups, NEW ttl \in Ttls \cup {-1}, Answer(c, ttl) PROVE FlightInv'
<1> DEFINE e == IF ttl >= 0
                THEN Resolved(instant + Clamp(ttl))
                ELSE IF lookup[c].stale
                     THEN [kind |-> "stale", until |-> instant + Grace, used |-> instant]
                     ELSE [kind |-> "failed", until |-> instant + Retry, used |-> instant]
           next == [pc |-> "committing", name |-> lookup[c].name, since |-> lookup[c].since, entry |-> e]
<1>1. lookup[c].name \in Names /\ lookup[c].since \in Nat /\ instant \in Nat /\ lookup[c].pc = "resolving"
 BY DEF FlightInv, ResolverTypeOK, Answer, LookupCall, PlainCall, WaitingCall, CommittingCall
<1>2. ttl >= 0 => ttl \in Nat
 <2>1. Ttls \subseteq Nat
  BY ResolverAssumption
 <2> QED BY <2>1
<1>3. e \in AnswerEntry
 BY <1>1, <1>2, ClampType, ResolverAssumption DEF AnswerEntry, Resolved
<1>4. next \in CommittingCall
 BY <1>1, <1>3 DEF CommittingCall
<1>5. lookup' = [lookup EXCEPT ![c] = next] /\ UNCHANGED <<instant, entry, permits>>
 BY DEF Answer
<1> USE DEF FlightInv
<1>6. \A d \in Lookups : lookup'[d] = IF d = c THEN next ELSE lookup[d]
 BY <1>5 DEF ResolverTypeOK
<1>7. ResolverTypeOK'
 BY <1>1, <1>4, <1>5 DEF ResolverTypeOK, LookupCall
<1>8. OwnersInv'
 <2>1. AttemptTimeout \in Nat /\ Margin \in Nat
  BY ResolverAssumption
 <2>2. OwnsPlaceholder(c)
  BY <1>1 DEF OwnersInv, InFlight
 <2> QED BY <1>1, <1>5, <1>6, <2>1, <2>2 DEF OwnersInv, InFlight, OwnsPlaceholder, AbandonAfter
<1>9. WaiterIsRegistered'
 BY <1>5, <1>6 DEF WaiterIsRegistered, WaitsOn
<1> QED BY <1>7, <1>8, <1>9

\* The answer overwrites the lookup's own placeholder, so it takes none from
\* another lookup and wakes everyone who waits for the name.
LEMMA FlightCommit ==
    ASSUME FlightInv, NEW c \in Lookups, CommitAnswer(c) PROVE FlightInv'
<1> DEFINE n == lookup[c].name
<1>1. /\ n \in Names /\ lookup[c].entry \in AnswerEntry /\ lookup[c].pc = "committing"
      /\ permits' \in Nat /\ instant' = instant
 BY DEF FlightInv, ResolverTypeOK, CommitAnswer, LookupCall, PlainCall, WaitingCall, CommittingCall
<1>2. /\ \A m \in Names : entry'[m] = IF m = n THEN lookup[c].entry ELSE entry[m]
      /\ entry' \in [Names -> CacheEntry]
 BY <1>1 DEF FlightInv, ResolverTypeOK, CommitAnswer, CacheEntry
<1>3. \A d \in Lookups : lookup'[d] = IF d = c THEN NoCall ELSE Woken(d, {entry[n]})
 BY DEF CommitAnswer
<1>4. ResolverTypeOK'
 <2>1. lookup' \in [Lookups -> LookupCall]
  BY NoCallShape, WokenShape DEF CommitAnswer, FlightInv
 <2>2. \A d \in Lookups : lookup'[d].pc # "idle" => lookup'[d].name \in Names
  BY <1>3, NoCallShape, WokenShape DEF FlightInv
 <2> QED BY <1>1, <1>2, <2>1, <2>2 DEF FlightInv, ResolverTypeOK
<1>5. OwnersInv'
 <2> SUFFICES ASSUME NEW d \in Lookups, InFlight(d)' PROVE OwnsPlaceholder(d)'
  BY DEF OwnersInv
 <2>1. d # c /\ lookup'[d] = lookup[d] /\ InFlight(d)
  BY <1>3, NoCallShape, WokenShape DEF InFlight, FlightInv
 <2>2. lookup[d].name \in Names /\ lookup[d].name # n
  BY <1>1, <2>1, OwnedIsLive DEF InFlight
 <2> QED BY <1>1, <1>2, <2>1, <2>2 DEF FlightInv, OwnersInv, OwnsPlaceholder, AbandonAfter
<1>6. WaiterIsRegistered'
 <2> SUFFICES ASSUME NEW d \in Lookups, lookup'[d].pc = "waiting"
              PROVE  /\ entry'[lookup'[d].name].kind = "pending"
                     /\ lookup'[d].on = [owner |-> entry'[lookup'[d].name].owner,
                                         since |-> entry'[lookup'[d].name].since]
  BY DEF WaiterIsRegistered, WaitsOn
 <2>1. d # c /\ lookup'[d] = lookup[d] /\ Woken(d, {entry[n]}) = lookup[d] /\ lookup[d].pc = "waiting"
  BY <1>3, NoCallShape, WokenShape DEF FlightInv
 <2>2. lookup[d].name # n
  BY <2>1, WaiterIsWoken
 <2>3. lookup[d].name \in Names
  BY <2>1 DEF FlightInv, ResolverTypeOK
 <2> QED BY <1>2, <2>1, <2>2, <2>3 DEF FlightInv, WaiterIsRegistered, WaitsOn
<1> QED BY <1>4, <1>5, <1>6 DEF FlightInv

\* Time passes only while every lookup in flight is within its deadline.
LEMMA FlightElapse ==
    ASSUME FlightInv, Elapse PROVE FlightInv'
<1>1. instant \in Nat /\ instant' = instant + 1 /\ UNCHANGED <<entry, lookup, permits>>
 BY DEF FlightInv, ResolverTypeOK, Elapse
<1>2. ResolverTypeOK'
 BY <1>1 DEF FlightInv, ResolverTypeOK
<1>3. OwnersInv'
 <2> SUFFICES ASSUME NEW d \in Lookups, InFlight(d) PROVE OwnsPlaceholder(d)'
  BY <1>1 DEF OwnersInv, InFlight
 <2>1. lookup[d].since \in Nat
  BY DEF FlightInv, ResolverTypeOK, InFlight, LookupCall, PlainCall, WaitingCall, CommittingCall
 <2>2. OwnsPlaceholder(d) /\ Punctual(d)
  BY DEF FlightInv, OwnersInv, Elapse
 <2>3. AttemptTimeout \in Nat /\ Margin \in Nat
  BY ResolverAssumption
 <2> QED BY <1>1, <2>1, <2>2, <2>3 DEF OwnsPlaceholder, Punctual, AbandonAfter, InFlight
<1>4. WaiterIsRegistered'
 BY <1>1 DEF FlightInv, WaiterIsRegistered, WaitsOn
<1> QED BY <1>2, <1>3, <1>4 DEF FlightInv

LEMMA FlightStep ==
    FlightInv /\ [ResolverNext]_resolverVars => FlightInv'
<1> SUFFICES ASSUME FlightInv, [ResolverNext]_resolverVars PROVE FlightInv'
 OBVIOUS
<1>1. ASSUME NEW c \in Lookups, NEW n \in Names, Call(c, n) PROVE FlightInv'
 <2>1. /\ CallAt("ready", n, 1) \in LookupCall /\ CallAt("ready", n, 1).pc = "ready"
       /\ CallAt("ready", n, 1).name \in Names
  BY DEF CallAt, LookupCall, PlainCall
 <2> QED BY <1>1, <2>1, FlightEnds DEF Call, FlightInv, ResolverTypeOK
<1>2. ASSUME NEW c \in Lookups, Oscillates(c) \/ Overloaded(c) PROVE FlightInv'
 BY <1>2, FlightEnds, NoCallShape DEF Oscillates, Overloaded, FlightInv, ResolverTypeOK
<1>3. ASSUME NEW c \in Lookups, DropCall(c) PROVE FlightInv'
 <2>1. permits' \in Nat
  BY <1>3 DEF DropCall, FlightInv, ResolverTypeOK
 <2> QED BY <1>3, <2>1, FlightEnds, NoCallShape DEF DropCall
<1>4. CASE UNCHANGED resolverVars
 BY <1>4 DEF resolverVars, FlightInv, ResolverTypeOK, OwnersInv, OwnsPlaceholder, InFlight,
  AbandonAfter, WaiterIsRegistered, WaitsOn
<1> QED BY <1>1, <1>2, <1>3, <1>4, FlightServe, FlightWait, FlightBegin, FlightAnswer,
  FlightCommit, FlightElapse DEF ResolverNext

LEMMA FlightInvSound ==
    FlightInv => FlightsSound
<1> SUFFICES ASSUME FlightInv PROVE FlightsSound
 OBVIOUS
<1>1. SingleFlight
 BY OwnedIsLive DEF SingleFlight, InFlight
<1> QED BY <1>1 DEF FlightsSound, FlightInv

\* For any number of names and lookups and any timeouts: no two lookups ask
\* the name server for one name at once, and whoever waits is registered with
\* the placeholder the map holds (get_or_resolve, evict_locked).
THEOREM ResolverFlights ==
    ResolverSpec => []FlightsSound
<1>1. ResolverInit => FlightInv
 BY FlightInit
<1>2. FlightInv /\ [ResolverNext]_resolverVars => FlightInv'
 BY FlightStep
<1>3. FlightInv => FlightsSound
 BY FlightInvSound
<1> QED BY <1>1, <1>2, <1>3, PTL DEF ResolverSpec

----
(* TCP relay: the state's shape *)

StreamByte == Relayed \X Directions \X Nat

RelayTask ==
    [at : {"accepted", "dialed", "replayed", "copying", "closed", "failed", "cancelled"},
     path : {"none", "splice", "userspace", "quota", "capped"},
     preread : Nat, metered : BOOLEAN, moved : BOOLEAN]
CopyState ==
    [end : {"none", "Eof", "QuotaCutoff"}, read : Nat, pipe : Seq(StreamByte), left : Nat,
     copied : Nat, live : Nat]

RelayTypeOK ==
    /\ relay \in [Relayed -> RelayTask]
    /\ copy \in [Relayed -> [Directions -> CopyState]]
    /\ received \in [Relayed -> [Directions -> Seq(StreamByte)]]
    /\ booked \in [Relayed -> [Directions -> Nat]]
    /\ pipePool \in Seq({<<>>})
    /\ budget \in Nat

\* One direction: the pipe holds what follows the delivered bytes, and
\* nothing once the source ended cleanly or the loop copies in userspace; a
\* loop that runs has read what it delivered and what its pipe holds.
InOrder(k, rec, c, d) ==
    /\ rec = Bytes(c, d, 0, Len(rec))
    /\ k.pipe = Bytes(c, d, Len(rec), Len(k.pipe))
    /\ k.end = "none" => k.read = Len(rec) + Len(k.pipe) /\ k.left = Len(k.pipe)
    /\ k.end = "Eof" => k.pipe = <<>>

PipeUnused(c, d) ==
    relay[c].path # "splice" \/ ~relay[c].moved => copy[c][d].pipe = <<>>

\* One direction's books: what the live sink recorded is booked until the
\* connection closes, then everything delivered is.
Balanced(k, got, pre, sum, at) ==
    /\ got = k.copied + pre
    /\ k.live <= k.copied
    /\ sum = IF at = "closed" THEN got ELSE k.live

Preread(c, d) == IF d = "in" THEN relay[c].preread ELSE 0

StreamInv(c, d) ==
    /\ InOrder(copy[c][d], received[c][d], c, d)
    /\ PipeUnused(c, d)
    /\ Balanced(copy[c][d], Len(received[c][d]), Preread(c, d), booked[c][d], relay[c].at)

\* Before the copy loop starts nothing was copied, and before the replay
\* nothing was read.
FreshInv(c) ==
    /\ relay[c].at \in {"accepted", "dialed", "replayed"} =>
          /\ relay[c].path = "none"
          /\ \A d \in Directions : copy[c][d].end = "none"
    /\ relay[c].at \in {"accepted", "dialed"} =>
          relay[c].preread = 0 /\ \A d \in Directions : received[c][d] = <<>>

RelayInv ==
    /\ RelayTypeOK
    /\ \A c \in Relayed : FreshInv(c)
    /\ \A c \in Relayed, d \in Directions : StreamInv(c, d)

----
(* Streams *)

LEMMA BytesShape ==
    ASSUME NEW c \in Relayed, NEW d \in Directions, NEW a \in Nat, NEW n \in Nat
    PROVE  Bytes(c, d, a, n) \in Seq(StreamByte) /\ Len(Bytes(c, d, a, n)) = n
<1>1. Bytes(c, d, a, n) \in [1..n -> StreamByte]
 BY DEF Bytes, Byte, StreamByte
<1> QED BY <1>1

LEMMA EmptyLen ==
    Len(<<>>) = 0
  OBVIOUS

LEMMA BytesEmpty ==
    ASSUME NEW c, NEW d, NEW a PROVE Bytes(c, d, a, 0) = <<>>
  BY DEF Bytes

\* Consecutive stretches of a stream make one stretch.
LEMMA BytesJoin ==
    ASSUME NEW c \in Relayed, NEW d \in Directions, NEW a \in Nat, NEW n \in Nat, NEW m \in Nat
    PROVE  Bytes(c, d, a, n) \o Bytes(c, d, a + n, m) = Bytes(c, d, a, n + m)
<1> DEFINE s == Bytes(c, d, a, n)
           t == Bytes(c, d, a + n, m)
           u == Bytes(c, d, a, n + m)
<1>1. s \in Seq(StreamByte) /\ Len(s) = n /\ t \in Seq(StreamByte) /\ Len(t) = m
      /\ u \in Seq(StreamByte) /\ Len(u) = n + m
 BY BytesShape
<1>2. s \o t \in Seq(StreamByte) /\ Len(s \o t) = n + m
 BY <1>1, ConcatProperties
<1>3. ASSUME NEW i \in 1..(n + m) PROVE (s \o t)[i] = u[i]
 <2>1. u[i] = Byte(c, d, a + i)
  BY DEF Bytes
 <2>2. CASE i <= n
  <3>1. (s \o t)[i] = s[i]
   BY <1>1, <2>2, ConcatProperties
  <3>2. s[i] = Byte(c, d, a + i)
   BY <2>2 DEF Bytes
  <3> QED BY <2>1, <3>1, <3>2
 <2>3. CASE i > n
  <3>1. (s \o t)[i] = t[i - n]
   BY <1>1, <2>3, ConcatProperties
  <3>2. t[i - n] = Byte(c, d, a + n + (i - n))
   BY <2>3 DEF Bytes
  <3>3. a + n + (i - n) = a + i
   OBVIOUS
  <3> QED BY <2>1, <3>1, <3>2, <3>3
 <2>4. i <= n \/ i > n
  OBVIOUS
 <2> QED BY <2>2, <2>3, <2>4
<1> QED BY <1>1, <1>2, <1>3, SeqEqual

LEMMA BytesExtend ==
    ASSUME NEW c \in Relayed, NEW d \in Directions, NEW n \in Nat, NEW m \in Nat
    PROVE  Bytes(c, d, 0, n) \o Bytes(c, d, n, m) = Bytes(c, d, 0, n + m)
<1>1. \A a \in Nat : Bytes(c, d, a, n) \o Bytes(c, d, a + n, m) = Bytes(c, d, a, n + m)
 BY BytesJoin
<1>2. 0 \in Nat /\ 0 + n = n
 OBVIOUS
<1>3. Bytes(c, d, 0, n) \o Bytes(c, d, 0 + n, m) = Bytes(c, d, 0, n + m)
 BY <1>1, <1>2
<1> QED BY <1>2, <1>3

\* A stretch is cut into a first and a last part.
LEMMA BytesCut ==
    ASSUME NEW c \in Relayed, NEW d \in Directions, NEW a \in Nat, NEW n \in Nat, NEW m \in 0..n
    PROVE  /\ SubSeq(Bytes(c, d, a, n), 1, m) = Bytes(c, d, a, m)
           /\ SubSeq(Bytes(c, d, a, n), m + 1, n) = Bytes(c, d, a + m, n - m)
<1> DEFINE s == Bytes(c, d, a, n)
<1>1. s \in Seq(StreamByte) /\ Len(s) = n
 BY BytesShape
<1> USE DEF Bytes
<1>2. SubSeq(s, 1, m) = [i \in 1..m |-> s[i]]
 BY <1>1
<1>3. SubSeq(s, m + 1, n) = [i \in 1..(n - m) |-> s[m + i]]
 BY <1>1
<1>4. \A i \in 1..n : s[i] = Byte(c, d, a + i)
 OBVIOUS
<1>5. [i \in 1..m |-> s[i]] = Bytes(c, d, a, m)
 BY <1>4
<1>6. \A i \in 1..(n - m) : s[m + i] = Byte(c, d, (a + m) + i)
 BY <1>4
<1>7. [i \in 1..(n - m) |-> s[m + i]] = Bytes(c, d, a + m, n - m)
 BY <1>6
<1> QED BY <1>2, <1>3, <1>5, <1>7

----
(* Steps *)

\* A step concerns one connection.
LEMMA OneConnection ==
    ASSUME RelayInv, RelayTypeOK', NEW c \in Relayed,
           \A e \in Relayed \ {c} : /\ relay'[e] = relay[e] /\ copy'[e] = copy[e]
                                    /\ received'[e] = received[e] /\ booked'[e] = booked[e],
           FreshInv(c)', \A d \in Directions : StreamInv(c, d)'
    PROVE  RelayInv'
<1>1. ASSUME NEW e \in Relayed, e # c PROVE FreshInv(e)' /\ \A d \in Directions : StreamInv(e, d)'
 BY <1>1 DEF RelayInv, FreshInv, StreamInv, PipeUnused, Preread
<1> QED BY <1>1 DEF RelayInv

\* The shape of one connection's state, for steps that change only `relay`.
LEMMA OneTask ==
    ASSUME RelayInv, NEW c \in Relayed, NEW next, relay' = [relay EXCEPT ![c] = next],
           next \in RelayTask
    PROVE  /\ relay' \in [Relayed -> RelayTask]
           /\ relay'[c] = next
           /\ \A e \in Relayed \ {c} : relay'[e] = relay[e]
  BY DEF RelayInv, RelayTypeOK

\* A task that dials, fails or is cancelled moves no byte.
LEMMA QuietStep ==
    ASSUME RelayInv, NEW c \in Relayed, NEW at \in {"failed", "cancelled", "dialed"}, NEW metered \in BOOLEAN,
           at = "dialed" => relay[c].at = "accepted",
           relay[c].at # "closed",
           relay' = [relay EXCEPT ![c] = [relay[c] EXCEPT !.at = at, !.metered = metered]],
           pipePool' \in Seq({<<>>}),
           UNCHANGED <<copy, received, booked, budget>>
    PROVE  RelayInv'
<1> DEFINE next == [relay[c] EXCEPT !.at = at, !.metered = metered]
<1>0. relay[c] \in RelayTask
 BY DEF RelayInv, RelayTypeOK
<1>1. /\ next \in RelayTask
      /\ next.at = at /\ next.path = relay[c].path /\ next.preread = relay[c].preread
      /\ next.moved = relay[c].moved
 BY <1>0 DEF RelayTask
<1>a. relay' = [relay EXCEPT ![c] = next]
 OBVIOUS
<1> HIDE DEF next
<1>2. /\ relay' \in [Relayed -> RelayTask]
      /\ relay'[c] = next /\ \A e \in Relayed \ {c} : relay'[e] = relay[e]
 BY <1>1, <1>a, OneTask
<1> USE <1>2 DEF RelayInv
<1>3. RelayTypeOK'
 BY DEF RelayTypeOK
<1>4. FreshInv(c)'
 BY <1>1 DEF FreshInv
<1>5. ASSUME NEW d \in Directions PROVE StreamInv(c, d)'
 BY <1>1 DEF StreamInv, PipeUnused, Preread, Balanced
<1> QED BY <1>3, <1>4, <1>5, OneConnection

LEMMA RelayFails ==
    ASSUME RelayInv, NEW c \in Relayed, Fail(c), relay[c].at # "closed",
           pipePool' \in Seq({<<>>}), UNCHANGED <<copy, received, booked, budget>>
    PROVE  RelayInv'
<1>1. relay[c] \in RelayTask
 BY DEF RelayInv, RelayTypeOK
<1>2. relay[c].metered \in BOOLEAN
      /\ [relay[c] EXCEPT !.at = "failed"] = [relay[c] EXCEPT !.at = "failed", !.metered = relay[c].metered]
 BY <1>1 DEF RelayTask
<1> QED BY <1>2, QuietStep DEF Fail, To

LEMMA PoolTyped ==
    ASSUME RelayInv
    PROVE  /\ pipePool \in Seq({<<>>})
           /\ Len(pipePool) >= 2 => TakenPipes \in Seq({<<>>})
           /\ PoolTop(1) = <<>> /\ PoolTop(2) = <<>>
<1>1. pipePool \in Seq({<<>>}) /\ Len(pipePool) \in Nat
 BY DEF RelayInv, RelayTypeOK
<1>2. \A i \in 1..Len(pipePool) : pipePool[i] = <<>>
 BY <1>1
<1>3. PoolTop(1) = <<>> /\ PoolTop(2) = <<>>
 BY <1>1, <1>2 DEF PoolTop
<1>4. ASSUME Len(pipePool) >= 2 PROVE TakenPipes \in Seq({<<>>})
 BY <1>1, <1>4 DEF TakenPipes
<1> QED BY <1>1, <1>3, <1>4

\* A step of one direction: the other direction and the other connections
\* keep their loops, and what they delivered and booked.
LEMMA OneDirection ==
    ASSUME RelayInv, NEW c \in Relayed, NEW d \in Directions,
           NEW k \in CopyState, copy' = [copy EXCEPT ![c][d] = k],
           NEW r \in Seq(StreamByte), received' = [received EXCEPT ![c][d] = r],
           NEW b \in Nat, booked' = [booked EXCEPT ![c][d] = b],
           relay' = relay \/ relay' = [relay EXCEPT ![c] = [relay[c] EXCEPT !.moved = TRUE]],
           budget' \in Nat, pipePool' = pipePool,
           relay[c].at = "copying",
           InOrder(k, r, c, d),
           relay'[c].path # "splice" \/ ~relay'[c].moved => k.pipe = <<>>,
           Balanced(k, Len(r), Preread(c, d), b, "copying")
    PROVE  RelayInv'
<1>1. relay[c] \in RelayTask
 BY DEF RelayInv, RelayTypeOK
<1>2. /\ relay' \in [Relayed -> RelayTask] /\ relay'[c].at = "copying"
      /\ relay'[c].path = relay[c].path /\ relay'[c].preread = relay[c].preread
      /\ relay[c].moved => relay'[c].moved
      /\ \A e \in Relayed \ {c} : relay'[e] = relay[e]
 <2>1. CASE relay' = relay
  BY <2>1 DEF RelayInv, RelayTypeOK
 <2>2. CASE relay' = [relay EXCEPT ![c] = [relay[c] EXCEPT !.moved = TRUE]]
  <3> DEFINE next == [relay[c] EXCEPT !.moved = TRUE]
  <3>1. next \in RelayTask /\ next.at = relay[c].at /\ next.path = relay[c].path
        /\ next.preread = relay[c].preread /\ next.moved
   BY <1>1 DEF RelayTask
  <3>2. relay' = [relay EXCEPT ![c] = next]
   BY <2>2
  <3> HIDE DEF next
  <3> QED BY <3>1, <3>2, OneTask
 <2> QED BY <2>1, <2>2
<1>3. /\ copy' \in [Relayed -> [Directions -> CopyState]]
      /\ copy'[c][d] = k /\ \A o \in Directions \ {d} : copy'[c][o] = copy[c][o]
      /\ \A e \in Relayed \ {c} : copy'[e] = copy[e]
 BY DEF RelayInv, RelayTypeOK
<1>4. /\ received' \in [Relayed -> [Directions -> Seq(StreamByte)]]
      /\ received'[c][d] = r /\ \A o \in Directions \ {d} : received'[c][o] = received[c][o]
      /\ \A e \in Relayed \ {c} : received'[e] = received[e]
 BY DEF RelayInv, RelayTypeOK
<1>5. /\ booked' \in [Relayed -> [Directions -> Nat]]
      /\ booked'[c][d] = b /\ \A o \in Directions \ {d} : booked'[c][o] = booked[c][o]
      /\ \A e \in Relayed \ {c} : booked'[e] = booked[e]
 BY DEF RelayInv, RelayTypeOK
<1> USE <1>2
<1>6. RelayTypeOK'
 BY <1>3, <1>4, <1>5 DEF RelayInv, RelayTypeOK
<1>7. FreshInv(c)'
 BY DEF FreshInv
<1>8. StreamInv(c, d)'
 BY <1>3, <1>4, <1>5 DEF StreamInv, PipeUnused, Preread, Balanced
<1>9. ASSUME NEW o \in Directions, o # d PROVE StreamInv(c, o)'
 <2>1. copy'[c][o] = copy[c][o] /\ received'[c][o] = received[c][o] /\ booked'[c][o] = booked[c][o]
  BY <1>3, <1>4, <1>5, <1>9
 <2>2. StreamInv(c, o)
  BY DEF RelayInv
 <2> QED BY <2>1, <2>2 DEF StreamInv, PipeUnused, Preread, Balanced
<1> QED BY <1>3, <1>4, <1>5, <1>6, <1>7, <1>8, <1>9, OneConnection

LEMMA DirectionShape ==
    ASSUME RelayInv, NEW c \in Relayed, NEW d \in Directions
    PROVE  /\ copy[c][d] \in CopyState /\ received[c][d] \in Seq(StreamByte)
           /\ booked[c][d] \in Nat /\ budget \in Nat
           /\ relay[c] \in RelayTask /\ MaxStream[d] \in Nat
           /\ copy[c][d].pipe \in Seq(StreamByte) /\ Len(copy[c][d].pipe) \in Nat
           /\ Len(received[c][d]) \in Nat
           /\ copy[c][d].read \in Nat /\ copy[c][d].left \in Nat
           /\ copy[c][d].copied \in Nat /\ copy[c][d].live \in Nat
           /\ received = [received EXCEPT ![c][d] = received[c][d]]
           /\ booked = [booked EXCEPT ![c][d] = booked[c][d]]
  BY RelayBounds DEF RelayInv, RelayTypeOK, CopyState, Directions

LEMMA ConsumedType ==
    ASSUME RelayInv, NEW c \in Relayed, NEW n \in Nat PROVE Consumed(c, n) \in Nat
  BY DEF Consumed, RelayInv, RelayTypeOK

\* Quota cutoff and end of the source.
LEMMA RelayEnds ==
    ASSUME RelayInv, NEW c \in Relayed, NEW d \in Directions, NEW path \in Paths,
           Cutoff(c, d, path) \/ Eof(c, d, path)
    PROVE  RelayInv'
<1>1. PICK how \in {"Eof", "QuotaCutoff"} : copy' = [copy EXCEPT ![c][d].end = how]
 BY DEF Cutoff, Eof, Ending
<1> DEFINE k == [copy[c][d] EXCEPT !.end = how]
<1>2. /\ relay[c].at = "copying" /\ copy[c][d].end = "none" /\ copy[c][d].left = 0
      /\ UNCHANGED <<relay, received, booked, pipePool, budget>>
 BY DEF Cutoff, Eof, Running
<1>3. /\ InOrder(copy[c][d], received[c][d], c, d) /\ PipeUnused(c, d)
      /\ Balanced(copy[c][d], Len(received[c][d]), Preread(c, d), booked[c][d], "copying")
 BY <1>2 DEF RelayInv, StreamInv
<1>4. Len(copy[c][d].pipe) = 0 /\ copy[c][d].pipe = <<>>
 BY <1>2, <1>3, DirectionShape DEF InOrder
<1>5. k \in CopyState /\ k.pipe = copy[c][d].pipe /\ k.copied = copy[c][d].copied
      /\ k.live = copy[c][d].live /\ k.end = how
 BY DirectionShape DEF CopyState
<1>6. copy' = [copy EXCEPT ![c][d] = k]
 BY <1>1
<1>7. InOrder(k, received[c][d], c, d) /\ Balanced(k, Len(received[c][d]), Preread(c, d), booked[c][d], "copying")
 BY <1>3, <1>4, <1>5 DEF InOrder, Balanced
<1>8. /\ received' = [received EXCEPT ![c][d] = received[c][d]]
      /\ booked' = [booked EXCEPT ![c][d] = booked[c][d]]
      /\ received[c][d] \in Seq(StreamByte) /\ booked[c][d] \in Nat /\ budget' \in Nat
 BY <1>2, DirectionShape
<1>9. k.pipe = <<>>
 BY <1>4, <1>5
<1> HIDE DEF k
<1> QED BY <1>2, <1>5, <1>6, <1>7, <1>8, <1>9, OneDirection

LEMMA RelaySpliceIn ==
    ASSUME RelayInv, NEW c \in Relayed, NEW d \in Directions, SpliceIn(c, d) PROVE RelayInv'
<1>0. /\ copy[c][d] \in CopyState /\ MaxStream[d] \in Nat /\ copy[c][d].read \in Nat
      /\ copy[c][d].pipe \in Seq(StreamByte) /\ Len(received[c][d]) \in Nat
      /\ received[c][d] \in Seq(StreamByte) /\ booked[c][d] \in Nat /\ relay[c] \in RelayTask
      /\ Len(copy[c][d].pipe) \in Nat
 BY DirectionShape
<1>1. PICK n \in 1..(MaxStream[d] - copy[c][d].read) :
       copy' = [copy EXCEPT ![c][d].pipe = @ \o Bytes(c, d, copy[c][d].read, n),
                            ![c][d].left = n, ![c][d].read = @ + n]
 BY DEF SpliceIn
<1> DEFINE more == Bytes(c, d, copy[c][d].read, n)
           k == [copy[c][d] EXCEPT !.pipe = @ \o more, !.left = n, !.read = @ + n]
<1>2. /\ relay[c].at = "copying" /\ copy[c][d].end = "none" /\ copy[c][d].left = 0
      /\ relay[c].path = "splice" /\ relay' = [relay EXCEPT ![c] = [relay[c] EXCEPT !.moved = TRUE]]
      /\ UNCHANGED <<received, booked, pipePool, budget>>
 BY DEF SpliceIn, Running, To
<1>3. /\ InOrder(copy[c][d], received[c][d], c, d)
      /\ Balanced(copy[c][d], Len(received[c][d]), Preread(c, d), booked[c][d], "copying")
 BY <1>2 DEF RelayInv, StreamInv
<1>4. Len(copy[c][d].pipe) = 0 /\ copy[c][d].read = Len(received[c][d])
 <2>1. /\ copy[c][d].read = Len(received[c][d]) + Len(copy[c][d].pipe)
       /\ copy[c][d].left = Len(copy[c][d].pipe)
  BY <1>2, <1>3 DEF InOrder
 <2>2. copy[c][d].left = 0 /\ Len(received[c][d]) \in Nat /\ Len(copy[c][d].pipe) \in Nat
  BY <1>0, <1>2
 <2> QED BY <2>1, <2>2
<1>5. n \in Nat
 BY <1>0
<1>6. more \in Seq(StreamByte) /\ Len(more) = n
 BY <1>0, <1>5, BytesShape
<1>7. copy[c][d].pipe \o more = more
 BY <1>0, <1>4, <1>6, EmptySeq, ConcatEmptySeq
<1>8. copy' = [copy EXCEPT ![c][d] = k]
 BY <1>0, <1>1 DEF CopyState, RelayInv, RelayTypeOK
<1>9. /\ k \in CopyState /\ k.pipe = more /\ k.left = n
      /\ k.read = Len(received[c][d]) + n /\ k.copied = copy[c][d].copied
      /\ k.live = copy[c][d].live /\ k.end = "none"
 <2> HIDE DEF more
 <2>1. copy[c][d].read + n \in Nat /\ copy[c][d].read + n = Len(received[c][d]) + n
  BY <1>0, <1>4, <1>5
 <2>2. k = [copy[c][d] EXCEPT !.pipe = more, !.left = n, !.read = copy[c][d].read + n]
  BY <1>7
 <2> HIDE DEF k
 <2> QED BY <1>0, <1>2, <1>5, <1>6, <2>1, <2>2 DEF CopyState
<1>10. /\ InOrder(k, received[c][d], c, d)
       /\ Balanced(k, Len(received[c][d]), Preread(c, d), booked[c][d], "copying")
 <2>1. more = Bytes(c, d, Len(received[c][d]), n)
  BY <1>4
 <2> HIDE DEF more, k
 <2> QED BY <1>3, <1>6, <1>9, <2>1 DEF InOrder, Balanced
<1>11. relay'[c].path = "splice" /\ relay'[c].moved
 BY <1>0, <1>2 DEF RelayInv, RelayTypeOK, RelayTask
<1>12. /\ received' = [received EXCEPT ![c][d] = received[c][d]]
       /\ booked' = [booked EXCEPT ![c][d] = booked[c][d]] /\ budget' \in Nat
 BY <1>2, DirectionShape
<1> HIDE DEF k
<1> QED BY <1>0, <1>2, <1>8, <1>9, <1>10, <1>11, <1>12, OneDirection

\* What a loop that runs knows of its direction.
LEMMA LoopState ==
    ASSUME RelayInv, NEW c \in Relayed, NEW d \in Directions, NEW path \in Paths, Running(c, d, path)
    PROVE  /\ relay[c].at = "copying" /\ copy[c][d].end = "none" /\ relay[c].path = path
           /\ copy[c][d].read = Len(received[c][d]) + Len(copy[c][d].pipe)
           /\ copy[c][d].left = Len(copy[c][d].pipe)
           /\ received[c][d] = Bytes(c, d, 0, Len(received[c][d]))
           /\ copy[c][d].pipe = Bytes(c, d, Len(received[c][d]), Len(copy[c][d].pipe))
           /\ path # "splice" => copy[c][d].pipe = <<>>
           /\ Len(received[c][d]) = copy[c][d].copied + Preread(c, d)
           /\ copy[c][d].live <= copy[c][d].copied
           /\ booked[c][d] = copy[c][d].live
           /\ Preread(c, d) \in Nat
<1>1. relay[c].at = "copying" /\ copy[c][d].end = "none" /\ relay[c].path = path
 BY DEF Running
<1>2. /\ InOrder(copy[c][d], received[c][d], c, d) /\ PipeUnused(c, d)
      /\ Balanced(copy[c][d], Len(received[c][d]), Preread(c, d), booked[c][d], "copying")
 BY <1>1 DEF RelayInv, StreamInv
<1>3. /\ copy[c][d].read = Len(received[c][d]) + Len(copy[c][d].pipe)
      /\ copy[c][d].left = Len(copy[c][d].pipe)
      /\ received[c][d] = Bytes(c, d, 0, Len(received[c][d]))
      /\ copy[c][d].pipe = Bytes(c, d, Len(received[c][d]), Len(copy[c][d].pipe))
 BY <1>1, <1>2 DEF InOrder
<1>4. path # "splice" => copy[c][d].pipe = <<>>
 BY <1>1, <1>2 DEF PipeUnused
<1>5. /\ Len(received[c][d]) = copy[c][d].copied + Preread(c, d)
      /\ copy[c][d].live <= copy[c][d].copied /\ booked[c][d] = copy[c][d].live
 BY <1>2 DEF Balanced
<1>6. Preread(c, d) \in Nat
 BY DirectionShape DEF Preread, RelayTask
<1> QED BY <1>1, <1>3, <1>4, <1>5, <1>6

\* What the pipe gives up follows what was delivered, and it keeps the rest.
LEMMA RelaySpliceOut ==
    ASSUME RelayInv, NEW c \in Relayed, NEW d \in Directions, SpliceOut(c, d) PROVE RelayInv'
<1> DEFINE pipe == copy[c][d].pipe
           L == Len(pipe)
           R == Len(received[c][d])
<1>0. /\ copy[c][d] \in CopyState /\ copy[c][d].read \in Nat /\ L \in Nat /\ R \in Nat
      /\ copy[c][d].copied \in Nat /\ copy[c][d].live \in Nat /\ booked[c][d] \in Nat
 BY DirectionShape
<1>1. PICK n \in 1..copy[c][d].left :
       /\ received' = [received EXCEPT ![c][d] = @ \o SubSeq(copy[c][d].pipe, 1, n)]
       /\ booked' = [booked EXCEPT ![c][d] = @ + n]
       /\ budget' = Consumed(c, n)
       /\ copy' = [copy EXCEPT ![c][d] =
            [copy[c][d] EXCEPT !.pipe = SubSeq(@, n + 1, Len(@)), !.copied = @ + n,
                      !.live = @ + n,
                      !.left = IF Granted(c, n) THEN @ - n ELSE 0,
                      !.end = IF Granted(c, n) THEN @ ELSE "QuotaCutoff"]]
 BY DEF SpliceOut
<1>2. Running(c, d, "splice") /\ UNCHANGED <<relay, pipePool>>
 BY DEF SpliceOut
<1>3. /\ relay[c].at = "copying" /\ copy[c][d].end = "none" /\ relay[c].path = "splice"
      /\ copy[c][d].read = R + L /\ copy[c][d].left = L
      /\ received[c][d] = Bytes(c, d, 0, R) /\ pipe = Bytes(c, d, R, L)
      /\ R = copy[c][d].copied + Preread(c, d) /\ Preread(c, d) \in Nat
      /\ copy[c][d].live <= copy[c][d].copied /\ booked[c][d] = copy[c][d].live
 <2>1. "splice" \in Paths
  BY DEF Paths
 <2> QED BY <1>2, <2>1, LoopState
<1>a. /\ received' = [received EXCEPT ![c][d] = received[c][d] \o SubSeq(pipe, 1, n)]
      /\ booked' = [booked EXCEPT ![c][d] = booked[c][d] + n]
      /\ budget' = Consumed(c, n)
      /\ copy' = [copy EXCEPT ![c][d] =
            [copy[c][d] EXCEPT !.pipe = SubSeq(pipe, n + 1, L), !.copied = copy[c][d].copied + n,
                      !.live = copy[c][d].live + n,
                      !.left = IF Granted(c, n) THEN copy[c][d].left - n ELSE 0,
                      !.end = IF Granted(c, n) THEN copy[c][d].end ELSE "QuotaCutoff"]]
 <2>1. received' = [received EXCEPT ![c][d] = received[c][d] \o SubSeq(pipe, 1, n)]
  BY <1>1
 <2>2. booked' = [booked EXCEPT ![c][d] = booked[c][d] + n] /\ budget' = Consumed(c, n)
  BY <1>1
 <2>3. copy' = [copy EXCEPT ![c][d] =
           [copy[c][d] EXCEPT !.pipe = SubSeq(pipe, n + 1, L), !.copied = copy[c][d].copied + n,
                     !.live = copy[c][d].live + n,
                     !.left = IF Granted(c, n) THEN copy[c][d].left - n ELSE 0,
                     !.end = IF Granted(c, n) THEN copy[c][d].end ELSE "QuotaCutoff"]]
  BY <1>1, Zenon
 <2> QED BY <2>1, <2>2, <2>3
<1>b. n \in 1..L
 BY <1>3
<1>c. pipe = <<>> => L = 0
 OBVIOUS
<1>d. ~relay[c].moved => pipe = <<>>
 BY <1>3 DEF RelayInv, StreamInv, PipeUnused
<1> HIDE DEF pipe, L, R
<1>e. L \in Nat /\ R \in Nat
 BY <1>0
<1>5. n \in 0..L /\ n \in Nat /\ L - n \in Nat /\ R + n \in Nat /\ 0 + R = R
 BY <1>b, <1>e
<1>4. relay[c].moved
 BY <1>b, <1>c, <1>d, <1>e
<1> DEFINE r == Bytes(c, d, 0, R + n)
           rest == Bytes(c, d, R + n, L - n)
           left == IF Granted(c, n) THEN L - n ELSE 0
           end == IF Granted(c, n) THEN "none" ELSE "QuotaCutoff"
           k == [copy[c][d] EXCEPT !.pipe = rest, !.copied = copy[c][d].copied + n,
                                   !.live = copy[c][d].live + n, !.left = left, !.end = end]
<1>6. received[c][d] \o SubSeq(pipe, 1, n) = r
 <2>1. SubSeq(Bytes(c, d, R, L), 1, n) = Bytes(c, d, R, n)
  BY <1>e, <1>5, BytesCut
 <2>2. Bytes(c, d, 0, R) \o Bytes(c, d, R, n) = Bytes(c, d, 0, R + n)
  BY <1>e, <1>5, BytesExtend
 <2>3. received[c][d] = Bytes(c, d, 0, R) /\ pipe = Bytes(c, d, R, L)
  BY <1>3
 <2> QED BY <2>1, <2>2, <2>3
<1>7. SubSeq(pipe, n + 1, L) = rest
 <2>1. SubSeq(Bytes(c, d, R, L), n + 1, L) = Bytes(c, d, R + n, L - n)
  BY <1>e, <1>5, BytesCut
 <2>2. pipe = Bytes(c, d, R, L)
  BY <1>3
 <2> QED BY <2>1, <2>2
<1>8. /\ r \in Seq(StreamByte) /\ Len(r) = R + n
      /\ rest \in Seq(StreamByte) /\ Len(rest) = L - n
 BY <1>5, BytesShape
<1>9. received' = [received EXCEPT ![c][d] = r]
 BY <1>a, <1>6
<1>10. booked' = [booked EXCEPT ![c][d] = booked[c][d] + n] /\ booked[c][d] + n \in Nat
 BY <1>0, <1>a, <1>5
<1> HIDE DEF r, rest
<1>11. copy' = [copy EXCEPT ![c][d] = k]
 <2>1. copy[c][d].left = L /\ copy[c][d].end = "none"
  BY <1>3
 <2> QED BY <1>a, <1>7, <2>1
<1>12. left \in Nat /\ end \in {"none", "QuotaCutoff"} /\ (end = "none" => left = L - n)
 BY <1>5
<1> HIDE DEF left, end
<1>13. /\ k \in CopyState /\ k.pipe = rest /\ k.copied = copy[c][d].copied + n
       /\ k.live = copy[c][d].live + n /\ k.left = left /\ k.end = end
       /\ k.read = copy[c][d].read
 <2>1. copy[c][d].copied + n \in Nat /\ copy[c][d].live + n \in Nat
  BY <1>0, <1>5
 <2>2. copy[c][d] \in CopyState /\ left \in Nat /\ end \in {"none", "QuotaCutoff"}
       /\ rest \in Seq(StreamByte)
  BY <1>0, <1>8, <1>12
 <2> QED BY <2>1, <2>2 DEF CopyState
<1> HIDE DEF k
<1>14. InOrder(k, r, c, d)
 <2>1. k.read = (R + n) + (L - n)
  BY <1>0, <1>3, <1>5, <1>13
 <2> QED BY <1>8, <1>12, <1>13, <2>1 DEF InOrder, r, rest
<1>15. Balanced(k, Len(r), Preread(c, d), booked[c][d] + n, "copying")
 <2>1. R + n = (copy[c][d].copied + n) + Preread(c, d)
  BY <1>0, <1>3, <1>5
 <2>2. copy[c][d].live + n <= copy[c][d].copied + n
  BY <1>0, <1>3, <1>5
 <2>3. booked[c][d] + n = copy[c][d].live + n
  BY <1>3
 <2> QED BY <1>8, <1>13, <2>1, <2>2, <2>3 DEF Balanced
<1>16. budget' \in Nat
 BY <1>a, <1>5, ConsumedType
<1> QED BY <1>2, <1>3, <1>4, <1>8, <1>9, <1>10, <1>11, <1>13, <1>14, <1>15, <1>16, OneDirection

\* A chunk is delivered whole, after what was delivered before, or not at all.
LEMMA RelayUserCopy ==
    ASSUME RelayInv, NEW c \in Relayed, NEW d \in Directions, NEW path \in Paths, UserCopy(c, d, path)
    PROVE  RelayInv'
<1> DEFINE R == Len(received[c][d])
           sunk(n) == IF path = "userspace" THEN n ELSE 0
<1>0. /\ copy[c][d] \in CopyState /\ copy[c][d].read \in Nat /\ R \in Nat
      /\ copy[c][d].copied \in Nat /\ copy[c][d].live \in Nat /\ booked[c][d] \in Nat
      /\ MaxStream[d] \in Nat /\ received[c][d] \in Seq(StreamByte)
 BY DirectionShape
<1>1. PICK n \in 1..(MaxStream[d] - copy[c][d].read) :
       /\ budget' = Consumed(c, n)
       /\ copy' = [copy EXCEPT ![c][d] =
             IF Granted(c, n)
             THEN [copy[c][d] EXCEPT !.read = @ + n, !.copied = @ + n, !.live = @ + sunk(n)]
             ELSE [copy[c][d] EXCEPT !.read = @ + n, !.end = "QuotaCutoff"]]
       /\ received' = [received EXCEPT ![c][d] =
             IF Granted(c, n) THEN received[c][d] \o Bytes(c, d, copy[c][d].read, n) ELSE received[c][d]]
       /\ booked' = [booked EXCEPT ![c][d] = booked[c][d] + IF Granted(c, n) THEN sunk(n) ELSE 0]
 BY DEF UserCopy
<1>2. Running(c, d, path) /\ UNCHANGED <<relay, pipePool>> /\ path # "splice"
 BY DEF UserCopy
<1>3. /\ relay[c].at = "copying" /\ copy[c][d].end = "none" /\ relay[c].path = path
      /\ copy[c][d].read = R + Len(copy[c][d].pipe) /\ copy[c][d].left = Len(copy[c][d].pipe)
      /\ received[c][d] = Bytes(c, d, 0, R) /\ copy[c][d].pipe = <<>>
      /\ R = copy[c][d].copied + Preread(c, d) /\ Preread(c, d) \in Nat
      /\ copy[c][d].live <= copy[c][d].copied /\ booked[c][d] = copy[c][d].live
 <2>1. /\ relay[c].at = "copying" /\ copy[c][d].end = "none" /\ relay[c].path = path
       /\ copy[c][d].read = R + Len(copy[c][d].pipe) /\ copy[c][d].left = Len(copy[c][d].pipe)
       /\ received[c][d] = Bytes(c, d, 0, R)
  BY <1>2, LoopState
 <2>2. path # "splice" => copy[c][d].pipe = <<>>
  BY <1>2, LoopState
 <2>3. /\ R = copy[c][d].copied + Preread(c, d) /\ Preread(c, d) \in Nat
       /\ copy[c][d].live <= copy[c][d].copied /\ booked[c][d] = copy[c][d].live
  BY <1>2, LoopState
 <2> QED BY <1>2, <2>1, <2>2, <2>3
<1>4. n \in Nat
 BY <1>0
<1>5. copy[c][d].read = R /\ copy[c][d].left = 0
 <2>1. Len(copy[c][d].pipe) = 0
  BY <1>3
 <2>2. copy[c][d].read = R + Len(copy[c][d].pipe) /\ copy[c][d].left = Len(copy[c][d].pipe) /\ R \in Nat
  BY <1>0, <1>3
 <2> HIDE DEF R
 <2> QED BY <2>1, <2>2
<1>6. budget' \in Nat
 BY <1>1, <1>4, ConsumedType
<1> HIDE DEF R
<1>e. R \in Nat /\ n \in Nat /\ R + n \in Nat
 BY <1>0, <1>4
<1>7. CASE Granted(c, n)
 <2> DEFINE r == Bytes(c, d, 0, R + n)
            k == [copy[c][d] EXCEPT !.read = copy[c][d].read + n, !.copied = copy[c][d].copied + n,
                                    !.live = copy[c][d].live + sunk(n)]
 <2>1. received[c][d] \o Bytes(c, d, R, n) = r
  <3>1. Bytes(c, d, 0, R) \o Bytes(c, d, R, n) = Bytes(c, d, 0, R + n)
   BY <1>e, BytesExtend
  <3>2. received[c][d] = Bytes(c, d, 0, R)
   BY <1>3
  <3> QED BY <3>1, <3>2
 <2>2. received' = [received EXCEPT ![c][d] = r]
  BY <1>1, <1>5, <1>7, <2>1
 <2>3. r \in Seq(StreamByte) /\ Len(r) = R + n
  BY <1>e, BytesShape
 <2>4. sunk(n) \in Nat /\ sunk(n) <= n
  BY <1>4
 <2> HIDE DEF sunk
 <2>5. /\ copy[c][d].read + n \in Nat /\ copy[c][d].copied + n \in Nat
       /\ copy[c][d].live + sunk(n) \in Nat /\ booked[c][d] + sunk(n) \in Nat
  <3>1. /\ copy[c][d].read \in Nat /\ copy[c][d].copied \in Nat /\ copy[c][d].live \in Nat
        /\ booked[c][d] \in Nat
   BY <1>0
  <3> QED BY <1>e, <2>4, <3>1
 <2>6. booked' = [booked EXCEPT ![c][d] = booked[c][d] + sunk(n)]
  BY <1>1, <1>7
 <2>7. copy' = [copy EXCEPT ![c][d] = k]
  BY <1>1, <1>7
 <2>8. /\ k \in CopyState /\ k.read = copy[c][d].read + n /\ k.copied = copy[c][d].copied + n
       /\ k.live = copy[c][d].live + sunk(n) /\ k.pipe = copy[c][d].pipe /\ k.left = copy[c][d].left
       /\ k.end = copy[c][d].end
  BY <1>0, <2>5 DEF CopyState
 <2> HIDE DEF k
 <2>9. InOrder(k, r, c, d)
  <3>1. k.pipe = <<>> /\ Len(k.pipe) = 0 /\ k.left = 0
   BY <1>3, <1>5, <2>8
  <3>2. k.read = Len(r) + 0
   BY <1>0, <1>4, <1>5, <2>3, <2>8
  <3>3. Bytes(c, d, Len(r), 0) = <<>>
   BY BytesEmpty
  <3>4. r = Bytes(c, d, 0, Len(r))
   BY <2>3
  <3> HIDE DEF r
  <3> QED BY <3>1, <3>2, <3>3, <3>4 DEF InOrder
 <2>10. Balanced(k, Len(r), Preread(c, d), booked[c][d] + sunk(n), "copying")
  <3>1. R + n = (copy[c][d].copied + n) + Preread(c, d)
   BY <1>0, <1>3, <1>4
  <3>2. copy[c][d].live + sunk(n) <= copy[c][d].copied + n
   BY <1>0, <1>3, <1>4, <2>4
  <3>3. booked[c][d] + sunk(n) = copy[c][d].live + sunk(n)
   BY <1>3
  <3> QED BY <2>3, <2>8, <3>1, <3>2, <3>3 DEF Balanced
 <2>11. k.pipe = <<>>
  BY <1>3, <2>8
 <2> HIDE DEF r
 <2> QED BY <1>2, <1>3, <1>6, <2>2, <2>3, <2>5, <2>6, <2>7, <2>8, <2>9, <2>10, <2>11, OneDirection
<1>8. CASE ~Granted(c, n)
 <2> DEFINE k == [copy[c][d] EXCEPT !.read = copy[c][d].read + n, !.end = "QuotaCutoff"]
 <2>1. received' = [received EXCEPT ![c][d] = received[c][d]]
  BY <1>1, <1>8
 <2>2. booked' = [booked EXCEPT ![c][d] = booked[c][d]]
  <3>1. booked[c][d] + 0 = booked[c][d]
   BY <1>0
  <3> QED BY <1>1, <1>8, <3>1
 <2>3. copy' = [copy EXCEPT ![c][d] = k]
  BY <1>1, <1>8
 <2>4. copy[c][d].read + n \in Nat
  BY <1>0, <1>4
 <2>5. /\ k \in CopyState /\ k.copied = copy[c][d].copied /\ k.live = copy[c][d].live
       /\ k.pipe = copy[c][d].pipe /\ k.end = "QuotaCutoff"
  BY <1>0, <2>4 DEF CopyState
 <2> HIDE DEF k
 <2>6. InOrder(k, received[c][d], c, d)
  <3>1. k.pipe = <<>> /\ Len(k.pipe) = 0
   BY <1>3, <2>5
  <3>2. Bytes(c, d, Len(received[c][d]), 0) = <<>>
   BY BytesEmpty
  <3>3. received[c][d] = Bytes(c, d, 0, Len(received[c][d]))
   BY <1>3 DEF R
  <3> QED BY <2>5, <3>1, <3>2, <3>3 DEF InOrder
 <2>7. Balanced(k, Len(received[c][d]), Preread(c, d), booked[c][d], "copying")
  BY <1>3, <2>5 DEF Balanced, R
 <2>8. k.pipe = <<>>
  BY <1>3, <2>5
 <2> QED BY <1>0, <1>2, <1>3, <1>6, <2>1, <2>2, <2>3, <2>5, <2>6, <2>7, <2>8, OneDirection
<1> QED BY <1>7, <1>8

\* The fallback to a userspace loop leaves no byte behind: none had entered a
\* pipe (classify).
LEMMA RelayFallBack ==
    ASSUME RelayInv, NEW c \in Relayed,
           relay[c].at = "copying", MayFallBack(c),
           To(c, [relay[c] EXCEPT !.path = UserPath(c, FALSE)]),
           copy' = [copy EXCEPT ![c] = [e \in Directions |-> [copy[c][e] EXCEPT !.pipe = <<>>, !.left = 0]]],
           UNCHANGED <<received, booked, pipePool, budget>>
    PROVE  RelayInv'
<1> DEFINE next == [relay[c] EXCEPT !.path = UserPath(c, FALSE)]
           k(e) == [copy[c][e] EXCEPT !.pipe = <<>>, !.left = 0]
<1>1. relay[c] \in RelayTask /\ UserPath(c, FALSE) \in {"userspace", "quota"}
 BY DEF RelayInv, RelayTypeOK, UserPath
<1>2. next \in RelayTask /\ next.at = "copying" /\ next.preread = relay[c].preread
 BY <1>1 DEF RelayTask
<1>3. relay' = [relay EXCEPT ![c] = next]
 BY DEF To
<1> HIDE DEF next
<1>4. /\ relay' \in [Relayed -> RelayTask] /\ relay'[c] = next
      /\ \A e \in Relayed \ {c} : relay'[e] = relay[e]
 BY <1>2, <1>3, OneTask
<1>5. ASSUME NEW d \in Directions
      PROVE  k(d) \in CopyState /\ k(d).end = copy[c][d].end /\ k(d).read = copy[c][d].read
             /\ k(d).pipe = <<>> /\ k(d).left = 0 /\ k(d).copied = copy[c][d].copied
             /\ k(d).live = copy[c][d].live
 <2>1. copy[c][d] \in CopyState /\ <<>> \in Seq(StreamByte)
  BY DirectionShape, EmptySeq
 <2> QED BY <2>1 DEF CopyState
<1>6. /\ copy' \in [Relayed -> [Directions -> CopyState]]
      /\ \A e \in Relayed \ {c} : copy'[e] = copy[e]
      /\ \A d \in Directions : copy'[c][d] = k(d)
 BY <1>5 DEF RelayInv, RelayTypeOK
<1>7. RelayTypeOK'
 BY <1>4, <1>6 DEF RelayInv, RelayTypeOK
<1>8. FreshInv(c)'
 BY <1>2, <1>4 DEF FreshInv
<1>9. ASSUME NEW d \in Directions PROVE StreamInv(c, d)'
 <2>1. InOrder(copy[c][d], received[c][d], c, d) /\ copy[c][d].pipe = <<>>
  BY DEF RelayInv, StreamInv, PipeUnused, MayFallBack
 <2>2. Balanced(copy[c][d], Len(received[c][d]), Preread(c, d), booked[c][d], "copying")
  BY DEF RelayInv, StreamInv
 <2>3. /\ k(d).end = copy[c][d].end /\ k(d).read = copy[c][d].read
       /\ k(d).pipe = <<>> /\ k(d).left = 0 /\ k(d).copied = copy[c][d].copied
       /\ k(d).live = copy[c][d].live /\ copy'[c][d] = k(d)
  BY <1>5, <1>6
 <2> HIDE DEF k
 <2>4. InOrder(k(d), received[c][d], c, d)
  <3>1. copy[c][d].pipe = <<>>
   BY <2>1
  <3>2. Len(copy[c][d].pipe) = 0
   BY <3>1, EmptyLen, Zenon
  <3> QED BY <2>1, <2>3, <3>2 DEF InOrder
 <2>5. Balanced(k(d), Len(received[c][d]), Preread(c, d), booked[c][d], "copying")
  BY <2>2, <2>3 DEF Balanced
 <2>6. Preread(c, d)' = Preread(c, d) /\ relay'[c].at = "copying"
  BY <1>2, <1>4 DEF Preread
 <2> QED BY <2>3, <2>4, <2>5, <2>6 DEF StreamInv, PipeUnused
<1> QED BY <1>4, <1>6, <1>7, <1>8, <1>9, OneConnection

\* The captured ClientHello is the first byte of its stream.
LEMMA RelayReplays ==
    ASSUME RelayInv, NEW c \in Relayed, Replays(c) PROVE RelayInv'
<1>1. relay[c].at = "dialed" /\ UNCHANGED <<booked, pipePool, budget>>
 BY DEF Replays
<1>2. CASE Fail(c) /\ UNCHANGED <<copy, received>>
 BY <1>1, <1>2, RelayFails, PoolTyped
<1>3. ASSUME NEW n \in {0, 1},
             To(c, [relay[c] EXCEPT !.at = "replayed", !.preread = n]),
             copy' = [copy EXCEPT ![c]["in"].read = n],
             received' = [received EXCEPT ![c]["in"] = @ \o Bytes(c, "in", 0, n)]
      PROVE  RelayInv'
 <2> DEFINE next == [relay[c] EXCEPT !.at = "replayed", !.preread = n]
            k == [copy[c]["in"] EXCEPT !.read = n]
            r == Bytes(c, "in", 0, n)
 <2>0. n \in Nat /\ "in" \in Directions /\ 0 \in Nat
  BY DEF Directions
 <2>1. relay[c] \in RelayTask /\ copy[c]["in"] \in CopyState
  BY <2>0, DirectionShape
 <2>2. /\ next \in RelayTask /\ next.at = "replayed" /\ next.preread = n
       /\ next.path = relay[c].path /\ next.moved = relay[c].moved
  BY <2>0, <2>1 DEF RelayTask
 <2>3. relay' = [relay EXCEPT ![c] = next]
  BY <1>3 DEF To
 <2> HIDE DEF next
 <2>4. /\ relay' \in [Relayed -> RelayTask] /\ relay'[c] = next
       /\ \A e \in Relayed \ {c} : relay'[e] = relay[e]
  BY <2>2, <2>3, OneTask
 <2>5. /\ k \in CopyState /\ k.read = n /\ k.end = copy[c]["in"].end /\ k.pipe = copy[c]["in"].pipe
       /\ k.left = copy[c]["in"].left /\ k.copied = copy[c]["in"].copied /\ k.live = copy[c]["in"].live
  BY <2>0, <2>1 DEF CopyState
 <2>6. copy' = [copy EXCEPT ![c]["in"] = k]
  BY <1>3
 <2> HIDE DEF k
 <2>7. /\ copy' \in [Relayed -> [Directions -> CopyState]]
       /\ copy'[c]["in"] = k /\ copy'[c]["out"] = copy[c]["out"]
       /\ \A e \in Relayed \ {c} : copy'[e] = copy[e]
  BY <2>0, <2>5, <2>6 DEF RelayInv, RelayTypeOK, Directions
 <2>8. r \in Seq(StreamByte) /\ Len(r) = n
  BY <2>0, BytesShape
 <2>9. /\ \A d \in Directions : received[c][d] = <<>> /\ copy[c][d].end = "none"
       /\ relay[c].path = "none" /\ relay[c].preread = 0
  BY <1>1 DEF RelayInv, FreshInv
 <2> HIDE DEF r
 <2>10. received[c]["in"] \o r = r
  BY <2>0, <2>8, <2>9, ConcatEmptySeq
 <2>11. received' = [received EXCEPT ![c]["in"] = r]
  BY <1>3, <2>10 DEF r
 <2>12. /\ received' \in [Relayed -> [Directions -> Seq(StreamByte)]]
        /\ received'[c]["in"] = r /\ received'[c]["out"] = received[c]["out"]
        /\ \A e \in Relayed \ {c} : received'[e] = received[e]
  BY <2>0, <2>8, <2>11 DEF RelayInv, RelayTypeOK, Directions
 <2>13. RelayTypeOK'
  BY <1>1, <2>4, <2>7, <2>12 DEF RelayInv, RelayTypeOK
 <2>14. FreshInv(c)'
  BY <2>2, <2>4, <2>5, <2>7, <2>9 DEF FreshInv, Directions
 <2>15. StreamInv(c, "out")'
  <3>1. StreamInv(c, "out")
   BY DEF RelayInv, Directions
  <3> QED BY <1>1, <2>2, <2>4, <2>7, <2>12, <3>1 DEF StreamInv, PipeUnused, Preread, Balanced
 <2>16. StreamInv(c, "in")'
  <3>1. /\ InOrder(copy[c]["in"], received[c]["in"], c, "in") /\ copy[c]["in"].pipe = <<>>
        /\ Balanced(copy[c]["in"], Len(received[c]["in"]), Preread(c, "in"), booked[c]["in"], "dialed")
   BY <1>1, <2>9 DEF RelayInv, StreamInv, Directions, PipeUnused
  <3>2. Len(received[c]["in"]) = 0 /\ Len(copy[c]["in"].pipe) = 0 /\ Preread(c, "in") = 0
   BY <2>0, <2>9, <3>1 DEF Preread
  <3>3. /\ copy[c]["in"].left = Len(copy[c]["in"].pipe)
        /\ Len(received[c]["in"]) = copy[c]["in"].copied + Preread(c, "in")
        /\ copy[c]["in"].live <= copy[c]["in"].copied
        /\ booked[c]["in"] = copy[c]["in"].live
   BY <2>0, <2>9, <3>1 DEF InOrder, Balanced
  <3>4. copy[c]["in"].copied \in Nat /\ copy[c]["in"].live \in Nat
   BY <2>0, DirectionShape
  <3>5. copy[c]["in"].copied = 0 /\ copy[c]["in"].live = 0 /\ copy[c]["in"].left = 0
   <4>1. copy[c]["in"].copied + 0 = 0
    BY <3>2, <3>3
   <4>2. copy[c]["in"].live <= copy[c]["in"].copied
    BY <3>3
   <4>3. copy[c]["in"].left = 0
    BY <3>2, <3>3
   <4> QED BY <3>4, <4>1, <4>2, <4>3
  <3>6. k.pipe = <<>> /\ Len(k.pipe) = 0 /\ k.copied = 0 /\ k.live = 0 /\ k.left = 0 /\ k.read = n
   BY <2>5, <3>1, <3>5
  <3>7. InOrder(k, r, c, "in")
   <4>1. r = Bytes(c, "in", 0, Len(r))
    BY <2>8 DEF r
   <4>2. Bytes(c, "in", Len(r), 0) = <<>>
    BY BytesEmpty
   <4> QED BY <2>0, <2>8, <3>6, <4>1, <4>2 DEF InOrder
  <3>8. Preread(c, "in")' = n /\ relay'[c].at = "replayed"
   BY <2>2, <2>4 DEF Preread
  <3>9. Balanced(k, Len(r), n, booked[c]["in"], "replayed")
   BY <2>0, <2>8, <3>3, <3>5, <3>6 DEF Balanced
  <3> QED BY <1>1, <2>7, <2>12, <3>6, <3>7, <3>8, <3>9 DEF StreamInv, PipeUnused
 <2> QED BY <1>1, <2>4, <2>7, <2>12, <2>13, <2>14, <2>15, <2>16, OneConnection DEF Directions
<1> QED BY <1>2, <1>3 DEF Replays

\* Pipes from the pool are empty, so a new copy starts where the replay left
\* off.
LEMMA RelayStarts ==
    ASSUME RelayInv, NEW c \in Relayed, StartCopy(c) PROVE RelayInv'
<1>1. relay[c].at = "replayed" /\ UNCHANGED <<received, booked, budget>>
 BY DEF StartCopy
<1>2. /\ pipePool \in Seq({<<>>}) /\ (Len(pipePool) >= 2 => TakenPipes \in Seq({<<>>}))
      /\ PoolTop(1) = <<>> /\ PoolTop(2) = <<>> /\ <<>> \in Seq({<<>>}) /\ <<>> \in Seq(StreamByte)
 BY PoolTyped, EmptySeq
<1>3. \A d \in Directions : copy[c][d].pipe = <<>>
 BY <1>1 DEF RelayInv, FreshInv, StreamInv, PipeUnused
<1>4. relay[c] \in RelayTask
 BY DEF RelayInv, RelayTypeOK
<1>5. CASE Fail(c) /\ pipePool' = <<>> /\ UNCHANGED copy
 BY <1>1, <1>2, <1>5, RelayFails
<1>6. ASSUME NEW path \in Paths, To(c, [relay[c] EXCEPT !.at = "copying", !.path = path]),
             copy' = copy, pipePool' \in Seq({<<>>})
      PROVE  RelayInv'
 <2> DEFINE next == [relay[c] EXCEPT !.at = "copying", !.path = path]
 <2>1. next \in RelayTask /\ next.at = "copying" /\ next.preread = relay[c].preread
  BY <1>4 DEF RelayTask, Paths
 <2>2. relay' = [relay EXCEPT ![c] = next]
  BY <1>6 DEF To
 <2> HIDE DEF next
 <2>3. /\ relay' \in [Relayed -> RelayTask] /\ relay'[c] = next
       /\ \A e \in Relayed \ {c} : relay'[e] = relay[e]
  BY <2>1, <2>2, OneTask
 <2>4. RelayTypeOK'
  BY <1>1, <1>6, <2>3 DEF RelayInv, RelayTypeOK
 <2>5. FreshInv(c)'
  BY <2>1, <2>3 DEF FreshInv
 <2>6. ASSUME NEW d \in Directions PROVE StreamInv(c, d)'
  <3>1. StreamInv(c, d) /\ copy[c][d].pipe = <<>>
   BY <1>3 DEF RelayInv
  <3>2. Preread(c, d)' = Preread(c, d) /\ relay'[c].at = "copying"
   BY <2>1, <2>3 DEF Preread
  <3> QED BY <1>1, <1>6, <3>1, <3>2 DEF StreamInv, PipeUnused, Balanced
 <2> QED BY <1>1, <1>6, <2>3, <2>4, <2>5, <2>6, OneConnection
<1>7. ASSUME NEW capped \in BOOLEAN,
             To(c, [relay[c] EXCEPT !.at = "copying", !.path = UserPath(c, capped)]),
             UNCHANGED <<copy, pipePool>>
      PROVE  RelayInv'
 BY <1>2, <1>6, <1>7 DEF UserPath, Paths
<1>8. ASSUME To(c, [relay[c] EXCEPT !.at = "copying", !.path = "splice"]),
             copy' = [copy EXCEPT ![c]["in"].pipe = PoolTop(1), ![c]["out"].pipe = PoolTop(2)],
             pipePool' = IF Len(pipePool) >= 2 THEN TakenPipes ELSE <<>>
      PROVE  RelayInv'
 <2>1. copy' = copy
  <3>1. copy[c]["in"].pipe = <<>> /\ copy[c]["out"].pipe = <<>>
   BY <1>3 DEF Directions
  <3>2. /\ [copy[c]["in"] EXCEPT !.pipe = <<>>] = copy[c]["in"]
        /\ [copy[c]["out"] EXCEPT !.pipe = <<>>] = copy[c]["out"]
   BY <3>1, DirectionShape DEF CopyState, Directions
  <3>3. copy' = [copy EXCEPT ![c]["in"] = [copy[c]["in"] EXCEPT !.pipe = <<>>],
                             ![c]["out"] = [copy[c]["out"] EXCEPT !.pipe = <<>>]]
   BY <1>2, <1>8
  <3>4. copy' = [copy EXCEPT ![c]["in"] = copy[c]["in"], ![c]["out"] = copy[c]["out"]]
   BY <3>2, <3>3
  <3>5. copy \in [Relayed -> [Directions -> CopyState]]
   BY DEF RelayInv, RelayTypeOK
  <3>6. [copy EXCEPT ![c]["in"] = copy[c]["in"]] = copy
   BY <3>5
  <3>7. [copy EXCEPT ![c]["out"] = copy[c]["out"]] = copy
   BY <3>5
  <3> QED BY <3>4, <3>6, <3>7, Zenon
 <2>2. pipePool' \in Seq({<<>>})
  BY <1>2, <1>8
 <2> QED BY <1>6, <1>8, <2>1, <2>2 DEF Paths
<1> QED BY <1>5, <1>7, <1>8 DEF StartCopy

\* Only empty pipes return to the pool, and the rest of the totals is booked.
LEMMA RelayCloses ==
    ASSUME RelayInv, NEW c \in Relayed, CopyEnds(c) PROVE RelayInv'
<1> DEFINE next == [relay[c] EXCEPT !.at = "closed"]
           rest(d) == booked[c][d] + Remaining(c, d)
<1>0. /\ relay[c].at = "copying" /\ relay[c] \in RelayTask
      /\ UNCHANGED <<copy, received, budget>>
 BY DEF RelayInv, RelayTypeOK, CopyEnds
<1>1. /\ next \in RelayTask /\ next.at = "closed" /\ next.path = relay[c].path
      /\ next.preread = relay[c].preread /\ next.moved = relay[c].moved
 BY <1>0 DEF RelayTask
<1>2. relay' = [relay EXCEPT ![c] = next]
 BY DEF CopyEnds, To
<1> HIDE DEF next
<1>3. /\ relay' \in [Relayed -> RelayTask] /\ relay'[c] = next
      /\ \A e \in Relayed \ {c} : relay'[e] = relay[e]
 BY <1>1, <1>2, OneTask
<1>4. ASSUME NEW d \in Directions PROVE rest(d) = Len(received[c][d]) /\ rest(d) \in Nat
 <2>1. /\ copy[c][d].copied \in Nat /\ copy[c][d].live \in Nat /\ booked[c][d] \in Nat
       /\ relay[c].preread \in Nat /\ Len(received[c][d]) \in Nat
  BY <1>0, DirectionShape DEF RelayTask
 <2>2. /\ Len(received[c][d]) = copy[c][d].copied + Preread(c, d) /\ booked[c][d] = copy[c][d].live
  BY <1>0 DEF RelayInv, StreamInv, Balanced
 <2>3. Remaining(c, d) = copy[c][d].copied + Preread(c, d) - copy[c][d].live
  BY DEF Remaining, Preread
 <2>4. Preread(c, d) \in Nat
  BY <2>1 DEF Preread
 <2>5. rest(d) = copy[c][d].live + (copy[c][d].copied + Preread(c, d) - copy[c][d].live)
  BY <2>2, <2>3
 <2>6. rest(d) = copy[c][d].copied + Preread(c, d)
  <3> HIDE DEF rest
  <3> QED BY <2>1, <2>4, <2>5
 <2> HIDE DEF rest
 <2> QED BY <2>1, <2>2, <2>6
<1>5. booked' = [booked EXCEPT ![c] = [d \in Directions |-> rest(d)]]
 BY DEF CopyEnds
<1>6. /\ booked' \in [Relayed -> [Directions -> Nat]]
      /\ \A e \in Relayed \ {c} : booked'[e] = booked[e]
      /\ \A d \in Directions : booked'[c][d] = Len(received[c][d])
 <2> HIDE DEF rest
 <2> QED BY <1>4, <1>5 DEF RelayInv, RelayTypeOK
<1>7. pipePool' \in Seq({<<>>})
 <2>1. pipePool \in Seq({<<>>})
  BY PoolTyped
 <2>2. CASE may_reuse_pipes(c)
  <3>1. copy[c]["in"].pipe = <<>> /\ copy[c]["out"].pipe = <<>>
   BY <2>2 DEF may_reuse_pipes, RelayInv, StreamInv, InOrder, Directions
  <3>2. \A pool \in Seq({<<>>}) : Released(pool, <<>>) \in Seq({<<>>})
   BY DEF Released
  <3>3. pipePool' = Released(Released(pipePool, <<>>), <<>>)
   BY <2>2, <3>1 DEF CopyEnds
  <3> QED BY <2>1, <3>2, <3>3
 <2>3. CASE ~may_reuse_pipes(c)
  BY <2>1, <2>3 DEF CopyEnds
 <2> QED BY <2>2, <2>3
<1>8. RelayTypeOK'
 BY <1>0, <1>3, <1>6, <1>7 DEF RelayInv, RelayTypeOK
<1>9. FreshInv(c)'
 BY <1>1, <1>3 DEF FreshInv
<1>10. ASSUME NEW d \in Directions PROVE StreamInv(c, d)'
 <2>1. StreamInv(c, d)
  BY DEF RelayInv
 <2> USE <2>1 DEF StreamInv
 <2>2. Preread(c, d)' = Preread(c, d) /\ relay'[c].at = "closed" /\ PipeUnused(c, d)'
  BY <1>0, <1>1, <1>3 DEF Preread, PipeUnused
 <2>3. Balanced(copy[c][d], Len(received[c][d]), Preread(c, d), Len(received[c][d]), "closed")
  BY DEF Balanced
 <2> QED BY <1>0, <1>6, <2>2, <2>3
<1> QED BY <1>0, <1>3, <1>6, <1>8, <1>9, <1>10, OneConnection

----
LEMMA RelayInvInit ==
    RelayInit => RelayInv
<1> SUFFICES ASSUME RelayInit PROVE RelayInv
 OBVIOUS
<1>1. <<>> \in Seq(StreamByte) /\ <<>> \in Seq({<<>>})
 BY EmptySeq
<1>2. NotDialed \in RelayTask /\ NotCopying \in CopyState
 BY <1>1 DEF NotDialed, RelayTask, NotCopying, CopyState
<1>3. RelayTypeOK
 BY <1>1, <1>2, RelayBounds DEF RelayInit, RelayTypeOK
<1>4. ASSUME NEW c \in Relayed PROVE FreshInv(c)
 BY DEF RelayInit, FreshInv, NotDialed, NotCopying
<1>5. ASSUME NEW c \in Relayed, NEW d \in Directions PROVE StreamInv(c, d)
 <2>1. copy[c][d] = NotCopying /\ received[c][d] = <<>> /\ booked[c][d] = 0 /\ relay[c] = NotDialed
  BY DEF RelayInit
 <2> USE DEF NotCopying
 <2>2. InOrder(NotCopying, <<>>, c, d)
  BY EmptyLen, BytesEmpty DEF InOrder
 <2>3. Balanced(NotCopying, 0, 0, 0, "accepted")
  BY DEF Balanced
 <2>4. Preread(c, d) = 0
  BY <2>1 DEF Preread, NotDialed
 <2> QED BY <2>1, <2>2, <2>3, <2>4, EmptyLen DEF StreamInv, PipeUnused, NotDialed
<1> QED BY <1>3, <1>4, <1>5 DEF RelayInv

LEMMA RelayStep ==
    RelayInv /\ [RelayNext]_relayVars => RelayInv'
<1> SUFFICES ASSUME RelayInv, [RelayNext]_relayVars PROVE RelayInv'
 OBVIOUS
<1>1. ASSUME NEW c \in Relayed, Dials(c) PROVE RelayInv'
 <2>1. relay[c].at = "accepted" /\ UNCHANGED <<copy, received, booked, pipePool, budget>>
  BY <1>1 DEF Dials
 <2>2. CASE Fail(c)
  BY <2>1, <2>2, RelayFails, PoolTyped
 <2>3. ASSUME NEW metered \in BOOLEAN, To(c, [relay[c] EXCEPT !.at = "dialed", !.metered = metered])
       PROVE  RelayInv'
  BY <2>1, <2>3, QuietStep, PoolTyped DEF To
 <2> QED BY <1>1, <2>2, <2>3 DEF Dials
<1>2. ASSUME NEW c \in Relayed, Cancelled(c) PROVE RelayInv'
 <2>1. relay[c] \in RelayTask
  BY DEF RelayInv, RelayTypeOK
 <2>2. relay[c].metered \in BOOLEAN
       /\ [relay[c] EXCEPT !.at = "cancelled"] = [relay[c] EXCEPT !.at = "cancelled", !.metered = relay[c].metered]
  BY <2>1 DEF RelayTask
 <2> QED BY <1>2, <2>2, QuietStep, PoolTyped DEF Cancelled, To
<1>3. ASSUME NEW c \in Relayed, NEW d \in Directions, NEW path \in Paths, CopyFails(c, d, path)
      PROVE  RelayInv'
 <2>1. relay[c].at = "copying" /\ UNCHANGED <<received, booked, pipePool, budget>>
  BY <1>3 DEF CopyFails, Running
 <2>2. CASE Fail(c) /\ UNCHANGED copy
  BY <2>1, <2>2, RelayFails, PoolTyped
 <2>3. CASE ~(Fail(c) /\ UNCHANGED copy)
  BY <1>3, <2>1, <2>3, RelayFallBack DEF CopyFails
 <2> QED BY <2>2, <2>3
<1>4. CASE UNCHANGED relayVars
 BY <1>4 DEF relayVars, RelayInv, RelayTypeOK, FreshInv, StreamInv, PipeUnused, Preread
<1> QED BY <1>1, <1>2, <1>3, <1>4, RelayReplays, RelayStarts, RelayCloses, RelaySpliceIn,
  RelaySpliceOut, RelayEnds, RelayUserCopy DEF RelayNext

LEMMA RelayInvSound ==
    RelayInv => RelaySound
<1> SUFFICES ASSUME RelayInv, NEW c \in Relayed, NEW d \in Directions
             PROVE  /\ received[c][d] = Bytes(c, d, 0, Len(received[c][d]))
                    /\ booked[c][d] <= Len(received[c][d])
                    /\ relay[c].at = "closed" => booked[c][d] = Len(received[c][d])
 BY DEF RelaySound, DeliveredIsPrefix, BookedOnce
<1>1. StreamInv(c, d)
 BY DEF RelayInv
<1>2. /\ copy[c][d].copied \in Nat /\ copy[c][d].live \in Nat /\ relay[c] \in RelayTask
      /\ Len(received[c][d]) \in Nat
 BY DirectionShape
<1>3. Preread(c, d) \in Nat
 BY <1>2 DEF Preread, RelayTask
<1>4. /\ Len(received[c][d]) = copy[c][d].copied + Preread(c, d)
      /\ copy[c][d].live <= copy[c][d].copied
      /\ booked[c][d] = IF relay[c].at = "closed" THEN Len(received[c][d]) ELSE copy[c][d].live
 BY <1>1 DEF StreamInv, Balanced
<1>5. booked[c][d] <= Len(received[c][d])
 <2>1. copy[c][d].live <= Len(received[c][d])
  BY <1>2, <1>3, <1>4
 <2> QED BY <1>2, <1>4, <2>1
<1> QED BY <1>1, <1>4, <1>5 DEF StreamInv, InOrder

\* For any number of connections, streams and budgets: every destination is
\* sent a prefix of its own peer's stream, through pooled pipes, fallbacks and
\* quota cutoffs, and a closed connection has each delivered byte booked once.
THEOREM RelayCorrect ==
    RelaySpec => []RelaySound
<1>1. RelayInit => RelayInv
 BY RelayInvInit
<1>2. RelayInv /\ [RelayNext]_relayVars => RelayInv'
 BY RelayStep
<1>3. RelayInv => RelaySound
 BY RelayInvSound
<1> QED BY <1>1, <1>2, <1>3, PTL DEF RelaySpec

----
(* The UDP supervisor *)

RunnerStage == {"start", "activate", "await", "shutdown", "wait", "end"}
RunnerState == [at : RunnerStage, gone : BOOLEAN, reason : BOOLEAN]
SupervisorPhase == {"none", "Running", "pump", "listener", "reaper", "flows", "tell", "demux", "done"}
Report == {"Activated", "Failed", "Removed"}
Unjoined(c) == child[c] \in {"live", "exited"}

SupervisorTypeOK ==
    /\ runner \in RunnerState
    /\ reports \in Seq(Report)
    /\ child \in [Children -> {"none", "live", "exited", "joined"}]
    /\ phase \in SupervisorPhase
    /\ pending \in [Roles -> Nat]

\* The ports whose listener task is still in the JoinSet.
ListenersLeft == {p \in ListenPorts : Unjoined(<<"listener", p>>)}

\* The supervisor waits for exactly the tasks it has not joined.
PendingExact ==
    /\ pending["listener"] = Cardinality(ListenersLeft)
    /\ \A r \in Roles \ {"listener"} : pending[r] = IF Unjoined(Task(r)) THEN 1 ELSE 0

\* Nothing is started before the runtime, and the runtime is what run_udp
\* goes on with.
StartedTogether ==
    /\ phase = "none" => \A c \in Children : child[c] = "none"
    /\ runner.at = "start" => phase = "none"
    /\ runner.at \in {"activate", "await", "shutdown", "wait"} => phase # "none"

\* What has been reported, by where run_udp is.
SaidNothing == Len(reports) = 0
SaidActivated == Len(reports) = 1 /\ reports[1] = "Activated"
ReportsSoFar ==
    /\ runner.at \in {"start", "activate"} => SaidNothing /\ ~runner.gone
    /\ runner.at = "await" => SaidActivated /\ ~runner.gone
    /\ runner.at \in {"shutdown", "wait"} => IF runner.gone THEN SaidNothing ELSE SaidActivated
    /\ runner.at = "end" =>
          \/ Len(reports) <= 1
          \/ Len(reports) = 2 /\ reports[1] = "Activated" /\ reports[2] \in {"Failed", "Removed"} /\ phase = "done"

AskedToStop ==
    /\ runner.at = "wait" /\ phase = "Running" => asked
    /\ phase \in {"pump", "listener", "reaper"} => phase \in fired
DemuxTold == phase = "demux" => told

SupervisorInv ==
    /\ SupervisorTypeOK /\ PendingExact /\ StartedTogether /\ ReportsSoFar
    /\ AskedToStop /\ DemuxTold
    /\ GaugeEndsAtZero /\ DrainedInOrder

----
LEMMA ChildShape ==
    /\ \A c \in Children : Role(c) \in Roles
    /\ \A p \in ListenPorts : <<"listener", p>> \in Children /\ Role(<<"listener", p>>) = "listener"
    /\ \A r \in Roles \ {"listener"} : Task(r) \in Children /\ Role(Task(r)) = r
    /\ \A c \in Children : Role(c) = "listener" => \E p \in ListenPorts : c = <<"listener", p>>
    /\ \A c \in Children : Role(c) # "listener" => c = Task(Role(c))
  BY DEF Children, Role, Roles, Task

LEMMA SupervisorTyped ==
    ASSUME SupervisorInv
    PROVE  /\ runner \in RunnerState /\ runner.at \in RunnerStage
           /\ runner.gone \in BOOLEAN /\ runner.reason \in BOOLEAN
           /\ reports \in Seq(Report) /\ child \in [Children -> {"none", "live", "exited", "joined"}]
           /\ phase \in SupervisorPhase /\ pending \in [Roles -> Nat]
  BY DEF SupervisorInv, SupervisorTypeOK, RunnerState

\* Tasks, counters, phase and gauge as they were.
LEMMA DrainUntouched ==
    ASSUME SupervisorInv, child' = child, pending' = pending, phase' = phase, gauge' = gauge, told' = told
    PROVE  PendingExact' /\ DemuxTold' /\ GaugeEndsAtZero' /\ DrainedInOrder'
  BY DEF SupervisorInv, PendingExact, DemuxTold, GaugeEndsAtZero, DrainedInOrder, ListenersLeft,
   Unjoined, Ended

\* run_udp as it was.
LEMMA RunnerUntouched ==
    ASSUME SupervisorInv, runner' = runner, reports' = reports,
           phase = "done" => phase' = "done"
    PROVE  ReportsSoFar'
  BY DEF SupervisorInv, ReportsSoFar, SaidNothing, SaidActivated

LEMMA OneMore ==
    ASSUME NEW s \in Seq(Report), NEW e \in Report
    PROVE  /\ Append(s, e) \in Seq(Report) /\ Len(Append(s, e)) = Len(s) + 1
           /\ Append(s, e)[Len(s) + 1] = e
           /\ \A i \in 1..Len(s) : Append(s, e)[i] = s[i]
  BY DEF Report

LEMMA BindFailsKeeps ==
    ASSUME SupervisorInv, BindFails PROVE SupervisorInv'
<1>1. /\ runner.at = "start" /\ runner' = [runner EXCEPT !.at = "end"] /\ reports' = Append(reports, "Failed")
      /\ child' = child /\ fired' = fired /\ phase' = phase /\ pending' = pending /\ asked' = asked
      /\ failed' = failed /\ told' = told /\ gauge' = gauge
 BY DEF BindFails
<1> USE <1>1
<1>2. runner' \in RunnerState /\ runner'.at = "end" /\ runner'.reason = runner.reason
 BY SupervisorTyped DEF RunnerState, RunnerStage
<1>3. Len(reports) = 0 /\ reports \in Seq(Report) /\ "Failed" \in Report
 BY SupervisorTyped DEF SupervisorInv, ReportsSoFar, SaidNothing, Report
<1>4. reports' \in Seq(Report) /\ Len(reports') = 1
 BY <1>3, OneMore
<1>5. SupervisorTypeOK'
 BY <1>2, <1>4 DEF SupervisorInv, SupervisorTypeOK
<1>6. PendingExact' /\ DemuxTold' /\ GaugeEndsAtZero' /\ DrainedInOrder'
 BY DrainUntouched
<1>7. StartedTogether' /\ AskedToStop'
 BY <1>2 DEF SupervisorInv, StartedTogether, AskedToStop
<1>8. ReportsSoFar'
 BY <1>2, <1>4 DEF ReportsSoFar
<1> QED BY <1>5, <1>6, <1>7, <1>8 DEF SupervisorInv

LEMMA ActivateKeeps ==
    ASSUME SupervisorInv, Activate PROVE SupervisorInv'
<1>1. /\ runner.at = "activate"
      /\ child' = child /\ fired' = fired /\ phase' = phase /\ pending' = pending /\ asked' = asked
      /\ failed' = failed /\ told' = told /\ gauge' = gauge
 BY DEF Activate
<1>2. Len(reports) = 0 /\ phase # "none" /\ ~runner.gone
 BY <1>1 DEF SupervisorInv, ReportsSoFar, StartedTogether, SaidNothing
<1>3. reports \in Seq(Report) /\ "Activated" \in Report /\ runner \in RunnerState
 BY SupervisorTyped DEF Report
<1>4. \/ reports' = Append(reports, "Activated") /\ runner' = [runner EXCEPT !.at = "await"]
      \/ reports' = reports /\ runner' = [runner EXCEPT !.at = "shutdown", !.gone = TRUE]
 BY DEF Activate
<1>5. /\ runner' \in RunnerState /\ runner'.reason = runner.reason
      /\ \/ reports' = Append(reports, "Activated") /\ runner'.at = "await" /\ runner'.gone = runner.gone
         \/ reports' = reports /\ runner'.at = "shutdown" /\ runner'.gone
 BY <1>3, <1>4 DEF RunnerState, RunnerStage
<1>6. /\ reports' \in Seq(Report)
      /\ \/ SaidActivated' /\ runner'.at = "await" /\ ~runner'.gone
         \/ SaidNothing' /\ runner'.at = "shutdown" /\ runner'.gone
 <2>1. /\ Append(reports, "Activated") \in Seq(Report)
       /\ Len(Append(reports, "Activated")) = Len(reports) + 1
       /\ Append(reports, "Activated")[Len(reports) + 1] = "Activated"
  BY <1>3, OneMore
 <2>2. CASE reports' = Append(reports, "Activated") /\ runner'.at = "await" /\ runner'.gone = runner.gone
  <3>1. Len(reports') = 1 /\ reports'[1] = "Activated"
   BY <1>2, <2>1, <2>2
  <3> QED BY <1>2, <2>1, <2>2, <3>1 DEF SaidActivated
 <2>3. CASE reports' = reports /\ runner'.at = "shutdown" /\ runner'.gone
  BY <1>2, <1>3, <2>3 DEF SaidNothing
 <2> QED BY <1>5, <2>2, <2>3
<1>7. SupervisorTypeOK'
 BY <1>1, <1>5, <1>6 DEF SupervisorInv, SupervisorTypeOK
<1>8. PendingExact' /\ DemuxTold' /\ GaugeEndsAtZero' /\ DrainedInOrder'
 BY <1>1, DrainUntouched
<1>9. StartedTogether' /\ AskedToStop'
 BY <1>1, <1>2, <1>5 DEF SupervisorInv, StartedTogether, AskedToStop
<1>10. ReportsSoFar'
 BY <1>6 DEF ReportsSoFar
<1> QED BY <1>7, <1>8, <1>9, <1>10 DEF SupervisorInv

LEMMA RuleCancelledKeeps ==
    ASSUME SupervisorInv, RuleCancelled PROVE SupervisorInv'
<1>1. /\ fired' = fired \cup {"rule"}
      /\ runner' = runner /\ reports' = reports /\ child' = child /\ phase' = phase /\ pending' = pending
      /\ asked' = asked /\ failed' = failed /\ told' = told /\ gauge' = gauge
 BY DEF RuleCancelled
<1>2. PendingExact' /\ DemuxTold' /\ GaugeEndsAtZero' /\ DrainedInOrder' /\ ReportsSoFar'
 BY <1>1, DrainUntouched, RunnerUntouched
<1>3. SupervisorTypeOK' /\ StartedTogether' /\ AskedToStop'
 BY <1>1 DEF SupervisorInv, SupervisorTypeOK, StartedTogether, AskedToStop
<1> QED BY <1>2, <1>3 DEF SupervisorInv

LEMMA AwaitEndKeeps ==
    ASSUME SupervisorInv, AwaitEnd PROVE SupervisorInv'
<1>1. /\ runner.at = "await"
      /\ reports' = reports /\ child' = child /\ fired' = fired /\ phase' = phase /\ pending' = pending
      /\ asked' = asked /\ told' = told /\ gauge' = gauge
 BY DEF AwaitEnd
<1>2. \/ runner' = [runner EXCEPT !.at = "shutdown"] /\ failed' = failed
      \/ failed /\ failed' = FALSE /\ runner' = [runner EXCEPT !.at = "shutdown", !.reason = TRUE]
 BY DEF AwaitEnd
<1>3. /\ runner' \in RunnerState /\ runner'.at = "shutdown" /\ runner'.gone = runner.gone
      /\ runner'.reason \/ failed' => runner.reason \/ failed
 <2>1. runner \in RunnerState
  BY SupervisorTyped
 <2>2. CASE runner' = [runner EXCEPT !.at = "shutdown"] /\ failed' = failed
  BY <2>1, <2>2 DEF RunnerState, RunnerStage
 <2>3. CASE failed /\ failed' = FALSE /\ runner' = [runner EXCEPT !.at = "shutdown", !.reason = TRUE]
  BY <2>1, <2>3 DEF RunnerState, RunnerStage
 <2> QED BY <1>2, <2>2, <2>3
<1> USE <1>1 DEF SupervisorInv
<1>4. SupervisorTypeOK'
 BY <1>3 DEF SupervisorTypeOK
<1>5. PendingExact' /\ DemuxTold' /\ GaugeEndsAtZero' /\ DrainedInOrder'
 BY DrainUntouched
<1>6. StartedTogether' /\ AskedToStop'
 BY <1>3 DEF StartedTogether, AskedToStop
<1>7. ReportsSoFar'
 BY <1>3 DEF ReportsSoFar, SaidActivated
<1> QED BY <1>4, <1>5, <1>6, <1>7

LEMMA AskShutdownKeeps ==
    ASSUME SupervisorInv, AskShutdown PROVE SupervisorInv'
<1>1. /\ runner.at = "shutdown" /\ asked' = (phase # "done") /\ runner' = [runner EXCEPT !.at = "wait"]
      /\ reports' = reports /\ child' = child /\ fired' = fired /\ phase' = phase /\ pending' = pending
      /\ failed' = failed /\ told' = told /\ gauge' = gauge
 BY DEF AskShutdown
<1> USE <1>1
<1>2. /\ runner' \in RunnerState /\ runner'.at = "wait" /\ runner'.gone = runner.gone
      /\ runner'.reason = runner.reason
 BY SupervisorTyped DEF RunnerState, RunnerStage
<1> USE DEF SupervisorInv
<1>3. SupervisorTypeOK'
 BY <1>2 DEF SupervisorTypeOK
<1>4. PendingExact' /\ DemuxTold' /\ GaugeEndsAtZero' /\ DrainedInOrder'
 BY DrainUntouched
<1>5. StartedTogether' /\ AskedToStop'
 BY <1>2 DEF StartedTogether, AskedToStop
<1>6. ReportsSoFar'
 BY <1>2 DEF ReportsSoFar, SaidActivated, SaidNothing
<1> QED BY <1>3, <1>4, <1>5, <1>6

LEMMA ReportEndKeeps ==
    ASSUME SupervisorInv, ReportEnd PROVE SupervisorInv'
<1> DEFINE last == IF runner.reason THEN "Failed" ELSE "Removed"
<1>1. /\ runner.at = "wait" /\ phase = "done" /\ runner' = [runner EXCEPT !.at = "end"]
      /\ reports' = IF runner.gone THEN reports ELSE Append(reports, last)
      /\ child' = child /\ fired' = fired /\ phase' = phase /\ pending' = pending
      /\ asked' = asked /\ failed' = failed /\ told' = told /\ gauge' = gauge
 BY DEF ReportEnd
<1>2. /\ runner' \in RunnerState /\ runner'.at = "end" /\ runner'.gone = runner.gone
      /\ runner'.reason = runner.reason
 BY <1>1, SupervisorTyped DEF RunnerState, RunnerStage
<1>3. last \in {"Failed", "Removed"} /\ last \in Report /\ reports \in Seq(Report)
 BY SupervisorTyped DEF Report
<1> HIDE DEF last
<1>4. IF runner.gone THEN Len(reports) = 0 ELSE Len(reports) = 1 /\ reports[1] = "Activated"
 BY <1>1 DEF SupervisorInv, ReportsSoFar, SaidNothing, SaidActivated
<1>5. /\ reports' \in Seq(Report)
      /\ \/ Len(reports') <= 1
         \/ Len(reports') = 2 /\ reports'[1] = "Activated" /\ reports'[2] \in {"Failed", "Removed"}
 <2>1. CASE runner.gone
  BY <1>1, <1>3, <1>4, <2>1
 <2>2. CASE ~runner.gone
  <3>1. /\ Append(reports, last) \in Seq(Report) /\ Len(Append(reports, last)) = Len(reports) + 1
        /\ Append(reports, last)[Len(reports) + 1] = last
        /\ \A i \in 1..Len(reports) : Append(reports, last)[i] = reports[i]
   BY <1>3, OneMore
  <3>2. Len(reports) = 1 /\ 1 \in 1..1 /\ 1 + 1 = 2 /\ reports[1] = "Activated"
   BY <1>4, <2>2
  <3>3. reports' = Append(reports, last)
   BY <1>1, <2>2
  <3> QED BY <1>3, <3>1, <3>2, <3>3
 <2> QED BY <2>1, <2>2
<1>6. SupervisorTypeOK'
 BY <1>1, <1>2, <1>5 DEF SupervisorInv, SupervisorTypeOK
<1>7. PendingExact' /\ DemuxTold' /\ GaugeEndsAtZero' /\ DrainedInOrder'
 BY <1>1, DrainUntouched
<1>8. StartedTogether' /\ AskedToStop'
 BY <1>1, <1>2 DEF SupervisorInv, StartedTogether, AskedToStop
<1>9. ReportsSoFar'
 BY <1>1, <1>2, <1>5 DEF ReportsSoFar
<1> QED BY <1>6, <1>7, <1>8, <1>9 DEF SupervisorInv

LEMMA SeesShutdownKeeps ==
    ASSUME SupervisorInv, SeesShutdown PROVE SupervisorInv'
<1>1. /\ phase = "Running" /\ phase' = "pump" /\ fired' = fired \cup {"pump"}
      /\ runner' = runner /\ reports' = reports /\ child' = child /\ pending' = pending
      /\ failed' = failed /\ told' = told /\ gauge' = gauge
 BY DEF SeesShutdown
<1>2. ReportsSoFar'
 BY <1>1, RunnerUntouched
<1> USE DEF SupervisorInv
<1>3. SupervisorTypeOK' /\ StartedTogether' /\ AskedToStop' /\ DemuxTold'
 BY <1>1 DEF SupervisorTypeOK, StartedTogether, AskedToStop, DemuxTold,
  SupervisorPhase
<1>4. PendingExact'
 BY <1>1 DEF PendingExact, ListenersLeft, Unjoined
<1>5. GaugeEndsAtZero' /\ DrainedInOrder'
 BY <1>1 DEF GaugeEndsAtZero, DrainedInOrder
<1> QED BY <1>2, <1>3, <1>4, <1>5

LEMMA RuntimeStartKeeps ==
    ASSUME UdpSupervisorAssumption, SupervisorInv, RuntimeStart PROVE SupervisorInv'
<1>1. /\ runner.at = "start" /\ runner' = [runner EXCEPT !.at = "activate"]
      /\ child' = [c \in Children |-> IF Role(c) = "listener" /\ ~Mapped(c[2]) THEN "none" ELSE "live"]
      /\ phase' = "Running"
      /\ pending' = [r \in Roles |-> IF r = "listener" THEN Cardinality({p \in ListenPorts : Mapped(p)}) ELSE 1]
      /\ reports' = reports /\ fired' = fired /\ asked' = asked /\ failed' = failed
 BY DEF RuntimeStart
<1> USE <1>1
<1>2. /\ runner' \in RunnerState /\ runner'.at = "activate" /\ runner'.gone = runner.gone
      /\ runner'.reason = runner.reason
 BY SupervisorTyped DEF RunnerState, RunnerStage
<1>3. \A p \in ListenPorts : child'[<<"listener", p>>] = IF Mapped(p) THEN "live" ELSE "none"
 <2> TAKE p \in ListenPorts
 <2>1. <<"listener", p>> \in Children /\ Role(<<"listener", p>>) = "listener" /\ <<"listener", p>>[2] = p
  BY ChildShape
 <2> QED BY <2>1
<1>4. \A r \in Roles \ {"listener"} : child'[Task(r)] = "live"
 BY ChildShape
<1>5. ListenersLeft' = {p \in ListenPorts : Mapped(p)}
 BY <1>3 DEF ListenersLeft, Unjoined
<1>6. PendingExact'
 BY <1>4, <1>5 DEF PendingExact, Unjoined, Roles
<1>7. Cardinality({p \in ListenPorts : Mapped(p)}) \in Nat
 BY FS_Subset, FS_CardinalityType DEF UdpSupervisorAssumption
<1>8. SupervisorTypeOK'
 <2>1. child' \in [Children -> {"none", "live", "exited", "joined"}]
  OBVIOUS
 <2>2. pending' \in [Roles -> Nat]
  BY <1>7
 <2> QED BY <1>2, <2>1, <2>2 DEF SupervisorInv, SupervisorTypeOK, SupervisorPhase
<1> USE DEF SupervisorInv
<1>9. StartedTogether' /\ AskedToStop' /\ DemuxTold'
 BY <1>2 DEF StartedTogether, AskedToStop, DemuxTold
<1>10. ReportsSoFar'
 BY <1>2 DEF ReportsSoFar, SaidNothing
<1>11. GaugeEndsAtZero' /\ DrainedInOrder'
 BY DEF GaugeEndsAtZero, DrainedInOrder
<1> QED BY <1>6, <1>8, <1>9, <1>10, <1>11

\* A join takes its task off the count of its role, and off nothing else.
LEMMA JoinedCounts ==
    ASSUME UdpSupervisorAssumption, SupervisorInv, NEW c \in Children, Joined(c)
    PROVE  /\ PendingExact'
           /\ child' \in [Children -> {"none", "live", "exited", "joined"}]
           /\ pending' \in [Roles -> Nat]
           /\ child'[c] = "joined" /\ \A d \in Children : d # c => child'[d] = child[d]
<1> DEFINE role == Role(c)
           less == IF pending[role] > 0 THEN pending[role] - 1 ELSE 0
<1>1. /\ child[c] = "exited" /\ child' = [child EXCEPT ![c] = "joined"]
      /\ pending' = [pending EXCEPT ![role] = less]
 BY DEF Joined
<1>2. /\ child \in [Children -> {"none", "live", "exited", "joined"}] /\ pending \in [Roles -> Nat]
      /\ role \in Roles
 BY SupervisorTyped, ChildShape
<1> HIDE DEF role
<1>3. less \in Nat
 BY <1>2
<1>4. /\ child' \in [Children -> {"none", "live", "exited", "joined"}]
      /\ child'[c] = "joined" /\ \A d \in Children : d # c => child'[d] = child[d]
 BY <1>1, <1>2
<1>5. /\ pending' \in [Roles -> Nat]
      /\ pending'[role] = less /\ \A r \in Roles : r # role => pending'[r] = pending[r]
 <2> HIDE DEF less
 <2> QED BY <1>1, <1>2, <1>3
<1>6. Unjoined(c) /\ ~Unjoined(c)' /\ \A d \in Children : d # c => (Unjoined(d)' <=> Unjoined(d))
 BY <1>1, <1>4 DEF Unjoined
<1>7. CASE role = "listener"
 <2>1. PICK p \in ListenPorts : c = <<"listener", p>>
  BY <1>7, ChildShape DEF role
 <2>2. \A q \in ListenPorts : <<"listener", q>> \in Children /\ (<<"listener", q>> = c <=> q = p)
  BY <2>1, ChildShape
 <2>3. p \in ListenersLeft /\ ListenersLeft' = ListenersLeft \ {p}
  BY <1>6, <2>1, <2>2 DEF ListenersLeft, Unjoined
 <2>4. IsFiniteSet(ListenersLeft)
  BY FS_Subset DEF ListenersLeft, UdpSupervisorAssumption
 <2>5. Cardinality(ListenersLeft) \in Nat /\ Cardinality(ListenersLeft') = Cardinality(ListenersLeft) - 1
       /\ Cardinality(ListenersLeft) # 0
  BY <2>3, <2>4, FS_RemoveElement, FS_CardinalityType, FS_EmptySet
 <2>6. pending["listener"] = Cardinality(ListenersLeft)
  BY DEF SupervisorInv, PendingExact
 <2> USE <1>5, <1>7
 <2>7. pending'["listener"] = Cardinality(ListenersLeft')
  BY <2>5, <2>6
 <2>8. \A r \in Roles \ {"listener"} : Task(r) \in Children /\ Task(r) # c
  BY ChildShape DEF role
 <2>9. \A r \in Roles \ {"listener"} : pending'[r] = IF Unjoined(Task(r))' THEN 1 ELSE 0
  BY <1>6, <2>8 DEF SupervisorInv, PendingExact, Task
 <2> QED BY <1>4, <2>7, <2>9 DEF PendingExact, Task
<1>8. CASE role # "listener"
 <2>1. c = Task(role) /\ role \in Roles \ {"listener"}
  BY <1>2, <1>8, ChildShape DEF role
 <2>2. \A q \in ListenPorts : <<"listener", q>> \in Children /\ <<"listener", q>> # c
  BY <1>8, ChildShape DEF role
 <2>3. ListenersLeft' = ListenersLeft
  BY <1>6, <2>2 DEF ListenersLeft, Unjoined
 <2>4. pending[role] = 1
  BY <1>6, <2>1 DEF SupervisorInv, PendingExact
 <2>5. less = 0
  BY <2>4
 <2>6. \A r \in Roles \ {"listener"} : Task(r) \in Children /\ (Task(r) = c => r = role)
  BY ChildShape, <2>1 DEF Task
 <2>7. \A r \in Roles \ {"listener"} : pending'[r] = IF Unjoined(Task(r))' THEN 1 ELSE 0
  <3> TAKE r \in Roles \ {"listener"}
  <3>1. CASE r = role
   BY <1>5, <1>6, <2>1, <2>5, <3>1
  <3>2. CASE r # role
   BY <1>5, <1>6, <2>6, <3>2 DEF SupervisorInv, PendingExact, Task
  <3> QED BY <3>1, <3>2
 <2>8. pending'["listener"] = pending["listener"]
  BY <1>5, <1>8 DEF Roles
 <2> QED BY <1>4, <1>5, <2>3, <2>7, <2>8 DEF SupervisorInv, PendingExact, Task
<1> QED BY <1>7, <1>8, <1>4, <1>5

\* No count, no task: a role whose count is 0 has ended.
LEMMA ZeroEnds ==
    ASSUME UdpSupervisorAssumption, SupervisorInv, NEW r \in Roles PROVE pending[r] = 0 <=> Ended(r)
<1>0. child \in [Children -> {"none", "live", "exited", "joined"}]
 BY SupervisorTyped
<1>1. CASE r = "listener"
 <2>1. IsFiniteSet(ListenersLeft)
  BY FS_Subset DEF ListenersLeft, UdpSupervisorAssumption
 <2>2. pending[r] = 0 <=> ListenersLeft = {}
  BY <1>1, <2>1, FS_EmptySet DEF SupervisorInv, PendingExact
 <2>3. ListenersLeft = {} <=> \A c \in Children : Role(c) = "listener" => ~Unjoined(c)
  BY ChildShape DEF ListenersLeft
 <2> QED BY <1>0, <1>1, <2>2, <2>3 DEF Ended, Unjoined
<1>2. CASE r # "listener"
 <2>1. pending[r] = IF Unjoined(Task(r)) THEN 1 ELSE 0
  BY <1>2 DEF SupervisorInv, PendingExact
 <2>2. \A c \in Children : Role(c) = r <=> c = Task(r)
  BY <1>2, ChildShape
 <2>3. Task(r) \in Children
  BY <1>2, ChildShape
 <2> QED BY <1>0, <2>1, <2>2, <2>3 DEF Ended, Unjoined
<1> QED BY <1>1, <1>2

LEMMA SeesExitKeeps ==
    ASSUME UdpSupervisorAssumption, SupervisorInv, NEW c \in Children, SeesExit(c)
    PROVE  SupervisorInv'
<1>1. /\ phase = "Running" /\ Joined(c) /\ fired' = fired \cup {"rule", "pump"} /\ phase' = "pump"
      /\ runner' = runner /\ reports' = reports /\ asked' = asked /\ told' = told /\ gauge' = gauge
 BY DEF SeesExit
<1> USE <1>1
<1>2. /\ PendingExact' /\ pending' \in [Roles -> Nat]
      /\ child' \in [Children -> {"none", "live", "exited", "joined"}]
 BY JoinedCounts
<1>3. ReportsSoFar'
 BY RunnerUntouched
<1> USE DEF SupervisorInv
<1>4. SupervisorTypeOK'
 BY <1>2 DEF SupervisorTypeOK, SupervisorPhase
<1>5. StartedTogether' /\ AskedToStop' /\ DemuxTold'
 BY DEF StartedTogether, AskedToStop, DemuxTold
<1>6. GaugeEndsAtZero' /\ DrainedInOrder'
 BY DEF GaugeEndsAtZero, DrainedInOrder
<1> QED BY <1>2, <1>3, <1>4, <1>5, <1>6

LEMMA DrainJoinsKeeps ==
    ASSUME UdpSupervisorAssumption, SupervisorInv, NEW c \in Children, DrainJoins(c)
    PROVE  SupervisorInv'
<1>1. /\ phase \in {"pump", "listener", "reaper", "demux"} /\ Joined(c) /\ phase' = phase
      /\ runner' = runner /\ reports' = reports /\ asked' = asked /\ told' = told /\ gauge' = gauge
      /\ fired' = fired /\ failed' = failed
 BY DEF DrainJoins
<1> USE <1>1
<1>2. /\ PendingExact' /\ pending' \in [Roles -> Nat]
      /\ child' \in [Children -> {"none", "live", "exited", "joined"}]
      /\ child'[c] = "joined" /\ \A d \in Children : d # c => child'[d] = child[d]
 BY JoinedCounts
<1>3. ReportsSoFar'
 BY RunnerUntouched
<1> USE DEF SupervisorInv
<1>4. SupervisorTypeOK'
 BY <1>2 DEF SupervisorTypeOK, SupervisorPhase
<1>5. StartedTogether' /\ AskedToStop' /\ DemuxTold' /\ GaugeEndsAtZero'
 BY DEF StartedTogether, AskedToStop, DemuxTold, GaugeEndsAtZero
<1>6. \A r \in Roles : Ended(r) => Ended(r)'
 BY <1>2 DEF Ended
<1>7. DrainedInOrder'
 BY <1>6 DEF DrainedInOrder, Roles
<1> QED BY <1>2, <1>3, <1>4, <1>5, <1>7

LEMMA DrainNextKeeps ==
    ASSUME UdpSupervisorAssumption, SupervisorInv, DrainNext PROVE SupervisorInv'
<1>1. /\ phase \in {"pump", "listener", "reaper"} /\ pending[phase] = 0
      /\ phase' = CASE phase = "pump" -> "listener" [] phase = "listener" -> "reaper" [] OTHER -> "flows"
      /\ fired' = fired \cup ({phase'} \ {"flows"})
      /\ runner' = runner /\ reports' = reports /\ child' = child /\ pending' = pending
      /\ asked' = asked /\ failed' = failed /\ told' = told /\ gauge' = gauge
 BY DEF DrainNext
<1> USE <1>1
<1>2. \/ phase = "pump" /\ phase' = "listener"
      \/ phase = "listener" /\ phase' = "reaper"
      \/ phase = "reaper" /\ phase' = "flows"
 OBVIOUS
<1>3. Ended(phase)
 BY ZeroEnds DEF Roles
<1>4. \A r \in Roles : Ended(r)' <=> Ended(r)
 BY DEF Ended
<1> USE DEF SupervisorInv
<1>5. DrainedInOrder'
 BY <1>2, <1>3, <1>4 DEF DrainedInOrder, Roles
<1>6. PendingExact'
 BY DEF PendingExact, ListenersLeft, Unjoined
<1>7. SupervisorTypeOK' /\ StartedTogether' /\ AskedToStop' /\ DemuxTold' /\ GaugeEndsAtZero'
 BY <1>2 DEF SupervisorTypeOK, SupervisorPhase, StartedTogether, AskedToStop, DemuxTold,
  GaugeEndsAtZero
<1>9. ReportsSoFar'
 BY <1>2, RunnerUntouched
<1> QED BY <1>5, <1>6, <1>7, <1>9

\* The registry is emptied, the demux is told to stop, and the outcome is published.
LEMMA LastPhasesKeep ==
    ASSUME SupervisorInv, DrainFlows \/ TellDemux \/ Publish PROVE SupervisorInv'
<1>1. /\ runner' = runner /\ reports' = reports /\ child' = child /\ fired' = fired /\ pending' = pending
      /\ asked' = asked /\ failed' = failed
      /\ \/ phase = "flows" /\ phase' = "tell" /\ gauge' = 0 /\ told' = told
         \/ phase = "tell" /\ phase' = "demux" /\ gauge' = gauge /\ told' = TRUE
         \/ /\ phase = "demux" /\ phase' = "done" /\ gauge' = gauge /\ told' = told
            /\ \A c \in Children : child[c] \in {"none", "joined"}
 BY DEF DrainFlows, TellDemux, Publish
<1>2. \A r \in Roles : (Ended(r) => Ended(r)') /\ (phase' = "done" => Ended(r)')
 BY <1>1 DEF Ended
<1> USE <1>1 DEF SupervisorInv
<1>3. DrainedInOrder' /\ GaugeEndsAtZero'
 BY <1>2 DEF DrainedInOrder, GaugeEndsAtZero, Roles
<1>4. PendingExact'
 BY DEF PendingExact, ListenersLeft, Unjoined
<1>5. SupervisorTypeOK' /\ StartedTogether' /\ AskedToStop' /\ DemuxTold'
 BY DEF SupervisorTypeOK, SupervisorPhase, StartedTogether, AskedToStop, DemuxTold
<1>6. ReportsSoFar'
 BY RunnerUntouched
<1> QED BY <1>3, <1>4, <1>5, <1>6

LEMMA ChildExitsKeeps ==
    ASSUME SupervisorInv, NEW c \in Children, ChildExits(c) PROVE SupervisorInv'
<1>1. /\ child[c] = "live" /\ child' = [child EXCEPT ![c] = "exited"]
      /\ runner' = runner /\ reports' = reports /\ fired' = fired /\ pending' = pending /\ phase' = phase
      /\ asked' = asked /\ failed' = failed /\ gauge' = gauge /\ told' = told
 BY DEF ChildExits, IsLive
<1>2. child \in [Children -> {"none", "live", "exited", "joined"}]
 BY SupervisorTyped
<1>3. /\ child' \in [Children -> {"none", "live", "exited", "joined"}]
      /\ child'[c] = "exited" /\ \A d \in Children : d # c => child'[d] = child[d]
 BY <1>1, <1>2
<1>4. \A d \in Children : (Unjoined(d)' <=> Unjoined(d))
                          /\ (child[d] \in {"none", "joined"} => child'[d] \in {"none", "joined"})
 BY <1>1, <1>3 DEF Unjoined
<1>5. ListenersLeft' = ListenersLeft
 BY <1>4, ChildShape DEF ListenersLeft, Unjoined
<1>6. PendingExact'
 <2>1. \A r \in Roles \ {"listener"} : Unjoined(Task(r))' <=> Unjoined(Task(r))
  BY <1>4, ChildShape DEF Task
 <2> QED BY <1>1, <1>5, <2>1 DEF SupervisorInv, PendingExact, Task
<1>7. \A r \in Roles : Ended(r) => Ended(r)'
 BY <1>4 DEF Ended
<1> USE <1>1 DEF SupervisorInv
<1>8. DrainedInOrder' /\ GaugeEndsAtZero'
 BY <1>7 DEF DrainedInOrder, GaugeEndsAtZero, Roles
<1>9. SupervisorTypeOK' /\ StartedTogether' /\ AskedToStop' /\ DemuxTold'
 BY <1>3 DEF SupervisorTypeOK, SupervisorPhase, StartedTogether, AskedToStop, DemuxTold
<1>10. ReportsSoFar'
 BY RunnerUntouched
<1> QED BY <1>6, <1>8, <1>9, <1>10

LEMMA PumpTicksKeeps ==
    ASSUME SupervisorInv, PumpTicks PROVE SupervisorInv'
<1>1. /\ child[Task("pump")] = "live"
      /\ runner' = runner /\ reports' = reports /\ child' = child /\ fired' = fired /\ pending' = pending
      /\ phase' = phase /\ asked' = asked /\ failed' = failed /\ told' = told
 BY DEF PumpTicks, IsLive
<1>2. Task("pump") \in Children /\ Role(Task("pump")) = "pump"
 BY ChildShape DEF Roles
<1> USE <1>1
<1>3. ~Ended("pump")
 BY <1>2 DEF Ended
<1>4. phase \notin {"tell", "demux", "done"}
 BY <1>3 DEF SupervisorInv, DrainedInOrder
<1>5. GaugeEndsAtZero'
 BY <1>4 DEF GaugeEndsAtZero
<1> USE DEF SupervisorInv
<1>6. PendingExact' /\ DrainedInOrder'
 BY DEF PendingExact, ListenersLeft, Unjoined, DrainedInOrder, Ended
<1>7. SupervisorTypeOK' /\ StartedTogether' /\ AskedToStop' /\ DemuxTold'
 BY DEF SupervisorTypeOK, SupervisorPhase, StartedTogether, AskedToStop, DemuxTold
<1>8. ReportsSoFar'
 BY RunnerUntouched
<1> QED BY <1>5, <1>6, <1>7, <1>8

\* Flows and cold tasks are nothing the supervisor looks at.
LEMMA FlowsAside ==
    ASSUME SupervisorInv,
           UNCHANGED <<runner, reports, child, fired, phase, pending, asked, failed, told, gauge>>
    PROVE  SupervisorInv'
<1>1. PendingExact' /\ DemuxTold' /\ GaugeEndsAtZero' /\ DrainedInOrder' /\ ReportsSoFar'
 BY DrainUntouched, RunnerUntouched
<1>2. SupervisorTypeOK' /\ StartedTogether' /\ AskedToStop'
 BY DEF SupervisorInv, SupervisorTypeOK, StartedTogether, AskedToStop
<1> QED BY <1>1, <1>2 DEF SupervisorInv

LEMMA SupervisorStarts ==
    ASSUME UdpSupervisorAssumption, SupervisorInit PROVE SupervisorInv
<1>1. /\ runner = [at |-> "start", gone |-> FALSE, reason |-> FALSE]
      /\ reports = <<>> /\ child = [c \in Children |-> "none"]
      /\ phase = "none" /\ pending = [r \in Roles |-> 0]
      /\ failed = FALSE /\ gauge = 0
 BY DEF SupervisorInit
<1>2. runner \in RunnerState /\ runner.at = "start" /\ ~runner.gone /\ ~runner.reason
 BY <1>1 DEF RunnerState, RunnerStage
<1>3. reports \in Seq(Report) /\ Len(reports) = 0
 BY <1>1, EmptySeq
<1>4. SupervisorTypeOK
 BY <1>1, <1>2, <1>3 DEF SupervisorTypeOK, SupervisorPhase
<1>5. \A c \in Children : ~Unjoined(c)
 BY <1>1 DEF Unjoined
<1>6. ListenersLeft = {}
 BY <1>5, ChildShape DEF ListenersLeft
<1>7. PendingExact
 BY <1>1, <1>5, <1>6, ChildShape, FS_EmptySet DEF PendingExact, Roles
<1>8. StartedTogether /\ AskedToStop /\ DemuxTold /\ DrainedInOrder /\ GaugeEndsAtZero
 BY <1>1, <1>2 DEF StartedTogether, AskedToStop, DemuxTold, DrainedInOrder,
  GaugeEndsAtZero
<1>9. ReportsSoFar
 BY <1>2, <1>3 DEF ReportsSoFar, SaidNothing
<1> QED BY <1>4, <1>7, <1>8, <1>9 DEF SupervisorInv

LEMMA SupervisorNextKeeps ==
    ASSUME UdpSupervisorAssumption, SupervisorInv, [SupervisorNext]_supervisorVars
    PROVE  SupervisorInv'
<1>1. CASE UNCHANGED supervisorVars
 BY <1>1, FlowsAside DEF supervisorVars
<1>2. CASE BindFails \/ RuntimeStart \/ Activate \/ RuleCancelled \/ AwaitEnd \/ AskShutdown \/ ReportEnd
 BY <1>2, BindFailsKeeps, RuntimeStartKeeps, ActivateKeeps, RuleCancelledKeeps, AwaitEndKeeps,
  AskShutdownKeeps, ReportEndKeeps
<1>3. CASE SeesShutdown \/ DrainNext \/ DrainFlows \/ TellDemux \/ Publish \/ PumpTicks
 BY <1>3, SeesShutdownKeeps, DrainNextKeeps, LastPhasesKeep, PumpTicksKeeps
<1>4. CASE ColdEnds \/ FlowReaped
 BY <1>4, FlowsAside DEF ColdEnds, FlowReaped
<1>5. ASSUME NEW c \in Children, SeesExit(c) \/ DrainJoins(c) \/ ChildExits(c) PROVE SupervisorInv'
 BY <1>5, SeesExitKeeps, DrainJoinsKeeps, ChildExitsKeeps
<1>6. ASSUME NEW c \in Children, NewFlow(c) PROVE SupervisorInv'
 BY <1>6, FlowsAside DEF NewFlow
<1> QED BY <1>1, <1>2, <1>3, <1>4, <1>5, <1>6 DEF SupervisorNext

\* Whoever waits for the end of the rule waits for something that can happen.
LEMMA DrainNotStuck ==
    ASSUME UdpSupervisorAssumption, SupervisorInv PROVE DrainGoesOn
<1> SUFFICES ASSUME runner.at = "wait", ~(phase = "Running" /\ asked), phase \notin {"flows", "tell", "done"}
             PROVE  /\ phase \in Roles
                    /\ pending[phase] = 0 /\ phase = "demux" => \A r \in Roles : Ended(r)
                    /\ pending[phase] # 0 => \E c \in Children : Role(c) = phase /\
                         \/ IsLive(c) /\ (IF Role(c) = "demux" THEN told ELSE Fired(Role(c)))
                         \/ child[c] = "exited"
 BY DEF DrainGoesOn
<1>1. phase \in {"pump", "listener", "reaper", "demux"} /\ phase \in Roles
 BY SupervisorTyped DEF SupervisorInv, StartedTogether, AskedToStop, SupervisorPhase, Roles
<1>2. pending[phase] = 0 /\ phase = "demux" => \A r \in Roles : Ended(r)
 BY <1>1, ZeroEnds DEF SupervisorInv, DrainedInOrder, Roles
<1>3. ASSUME pending[phase] # 0
      PROVE  \E c \in Children : Role(c) = phase /\
                \/ IsLive(c) /\ (IF Role(c) = "demux" THEN told ELSE Fired(Role(c)))
                \/ child[c] = "exited"
 <2>1. ~Ended(phase)
  BY <1>1, <1>3, ZeroEnds
 <2>2. PICK c \in Children : Role(c) = phase /\ child[c] \in {"live", "exited"}
  BY <2>1, SupervisorTyped DEF Ended
 <2>3. IF Role(c) = "demux" THEN told ELSE Fired(Role(c))
  BY <1>1, <2>2 DEF SupervisorInv, AskedToStop, DemuxTold, Fired
 <2> QED BY <2>2, <2>3 DEF IsLive
<1> QED BY <1>1, <1>2, <1>3

LEMMA SupervisorInvGives ==
    ASSUME UdpSupervisorAssumption, SupervisorInv PROVE SupervisorSound
<1>1. OneEnd
 <2> DEFINE n == Len(reports)
            ended == reports[1] = "Activated" /\ reports[2] \in {"Failed", "Removed"} /\ phase = "done"
 <2>1. n \in Nat
  BY SupervisorTyped, LenProperties
 <2>2. n = 0 \/ n = 1 \/ n <= 1 \/ (n = 2 /\ ended)
  BY SupervisorTyped DEF SupervisorInv, ReportsSoFar, SaidNothing, SaidActivated, RunnerStage
 <2>3. n <= 2 /\ (n = 2 => ended)
  <3> HIDE DEF n, ended
  <3> QED BY <2>1, <2>2
 <2> QED BY <2>3 DEF OneEnd
<1> QED BY <1>1, DrainNotStuck DEF SupervisorInv, SupervisorSound

\* For every set of listen ports and every number of flows: the gauge ends
\* at zero, the tasks are drained in order, the end is reported once and
\* after the drain, and the drain always has a step it can take
\* (udp/runtime.rs, run_udp).
THEOREM SupervisorCorrect == SupervisorSpec => []SupervisorSound
<1>1. SupervisorInit => SupervisorInv
 BY SupervisorStarts, UdpSupervisorAssumption
<1>2. SupervisorInv /\ [SupervisorNext]_supervisorVars => SupervisorInv'
 BY SupervisorNextKeeps, UdpSupervisorAssumption
<1>3. SupervisorInv => SupervisorSound
 BY SupervisorInvGives, UdpSupervisorAssumption
<1> QED BY <1>1, <1>2, <1>3, PTL DEF SupervisorSpec
----
(* Multi-target UDP: the state's shape *)

Admitting == {"resolve", "insert"}
HasSource == {"get", "admit", "relay"} \cup Admitting
ListenerStage == {"start", "recv", "done"} \cup HasSource
ListenerState ==
    [at : ListenerStage, src : Sources \cup {NoFlow}, flow : FlowIds \cup {NoFlow},
     order : Seq(TargetRows)]
FlowRecord ==
    [src : Sources, target : TargetRows, addr : Nat, idle : BOOLEAN, cancelled : BOOLEAN,
     pump : BOOLEAN, guards : SUBSET Scopes2]
BroomState ==
    [at : {"sleep", "remove", "cancel", "off"}, stale : SUBSET Sources, out : SUBSET FlowIds]

MultiUdpTypeOK ==
    /\ udpRule \in {"probing", "activated", "running", "removed", "failed"}
    /\ udpStop \in BOOLEAN
    /\ flowTable \in [Sources -> FlowIds \cup {NoFlow}]
    /\ udpFlow \in Seq(FlowRecord) /\ Len(udpFlow) <= MaxUdpFlows
    /\ rx \in ListenerState
    /\ broom \in BroomState
    /\ turned \in [TargetRows -> BOOLEAN]
    /\ active \in [Scopes2 -> Int]
    /\ spent \in BOOLEAN
    /\ turns \in [datagrams : Nat, outside : Nat]

\* Where the listener is says what it has in hand: a source, a flow, targets
\* left to try; and a source it admits has no flow, since no other task inserts.
ListenerInHand ==
    /\ rx.at \in HasSource => rx.src \in Sources
    /\ rx.at = "relay" => rx.flow \in DOMAIN udpFlow
    /\ rx.at \in Admitting => rx.order /= <<>>
    /\ rx.at \in {"admit"} \cup Admitting => flowTable[rx.src] = NoFlow

\* Before the listener starts there is nothing in the table and no reaper.
NotStarted ==
    /\ udpRule \in {"probing", "activated", "failed"} => rx.at = "start"
    /\ rx.at = "start" => Entries = {} /\ broom.at = "off"

\* What the table holds are flows of their source.
TableOwn ==
    \A s \in Entries : flowTable[s] \in DOMAIN udpFlow /\ udpFlow[flowTable[s]].src = s

\* The reaper holds flows only between removal and cancellation.
BroomEmpty == broom.at = "cancel" \/ broom.out = {}

MultiUdpInv ==
    /\ MultiUdpTypeOK /\ ListenerInHand /\ NotStarted /\ TableOwn /\ BroomEmpty
    /\ NoFlowLeaks /\ GuardsExact /\ TableBounded

----
(* Facts about flows and targets *)

\* One flow is given another value.
LEMMA FlowUpdated ==
    ASSUME NEW f \in DOMAIN udpFlow, NEW v \in FlowRecord, udpFlow \in Seq(FlowRecord)
    PROVE  LET g == [udpFlow EXCEPT ![f] = v] IN
           /\ g \in Seq(FlowRecord) /\ Len(g) = Len(udpFlow) /\ DOMAIN g = DOMAIN udpFlow
           /\ \A e \in DOMAIN udpFlow : g[e] = IF e = f THEN v ELSE udpFlow[e]
  BY SMT

\* A flow of the sequence, by its parts.
LEMMA FlowParts ==
    ASSUME MultiUdpTypeOK, NEW f \in DOMAIN udpFlow
    PROVE  /\ udpFlow[f] \in FlowRecord /\ f \in FlowIds /\ f \in Nat /\ f /= NoFlow
           /\ udpFlow[f].src \in Sources /\ udpFlow[f].guards \subseteq Scopes2
           /\ udpFlow[f].cancelled \in BOOLEAN
<1>1. f \in 1..Len(udpFlow) /\ Len(udpFlow) \in Nat
 BY DEF MultiUdpTypeOK
<1>2. udpFlow[f] \in FlowRecord
 BY <1>1, ElementOfSeq DEF MultiUdpTypeOK
<1>3. Len(udpFlow) <= MaxUdpFlows /\ MaxUdpFlows \in Nat /\ NoFlow \notin Nat
 BY MultiUdpAssumption DEF MultiUdpTypeOK
<1>4. f \in FlowIds /\ f \in Nat /\ f /= NoFlow
 BY <1>1, <1>3 DEF FlowIds
<1> QED BY <1>2, <1>4 DEF FlowRecord

LEMMA TargetFacts ==
    /\ TargetRows = 1..Len(Addresses) /\ Len(Addresses) \in Nat /\ 1 \in TargetRows
    /\ \A t \in TargetRows : Addresses[t] \in Nat
  BY MultiUdpAssumption DEF TargetRows

\* A nonempty set of numbers has a least one.
LEMMA LessPairs ==
    \A u, t \in Nat : u < t => <<u, t>> \in OpToRel(<, Nat)
  BY Zenon DEF OpToRel

LEMMA LeastNumber ==
    ASSUME NEW S, S \subseteq Nat, S /= {} PROVE \E t \in S : \A u \in S : t <= u
<1>1. \E t \in S : \A u \in S : ~(<<u, t>> \in OpToRel(<, Nat))
 BY NatLessThanWellFounded, WFMin, Zenon
<1>2. \E t \in S : \A u \in S : ~(u < t)
 BY <1>1, LessPairs, Zenon
<1> QED BY <1>2

\* The walk has somewhere to start, and leads to targets only.
LEMMA OrderTyped ==
    ASSUME MultiUdpTypeOK PROVE TargetOrder \in Seq(TargetRows) /\ TargetOrder /= <<>>
<1> DEFINE healthy == {t \in TargetRows : turned[t]}
           first == IF healthy = {} THEN 1
                    ELSE CHOOSE t \in healthy : \A u \in healthy : t <= u
           walk == [i \in TargetRows |-> IF i = 1 THEN first ELSE IF i <= first THEN i - 1 ELSE i]
<1>1. ASSUME healthy /= {} PROVE \E t \in healthy : \A u \in healthy : t <= u
 <2>1. healthy \subseteq Nat
  BY TargetFacts
 <2> HIDE DEF healthy
 <2> QED BY <1>1, <2>1, LeastNumber
<1>2. first \in TargetRows
 BY <1>1, TargetFacts
<1>3. walk \in [1..Len(Addresses) -> TargetRows]
 <2> HIDE DEF first
 <2> QED BY <1>2, TargetFacts
<1>4. walk \in Seq(TargetRows) /\ 1 \in DOMAIN walk
 <2> HIDE DEF walk
 <2> QED BY <1>3, TargetFacts
<1>5. TargetOrder = walk
 BY DEF TargetOrder
<1> QED BY <1>4, <1>5

----
(* What a step leaves alone *)

LEMMA TableAlone ==
    ASSUME MultiUdpInv, UNCHANGED <<flowTable, udpFlow>>, broom'.out = broom.out
    PROVE  /\ TableOwn' /\ NoFlowLeaks' /\ Entries' = Entries
           /\ Cardinality(Entries') <= FlowCap
  BY DEF MultiUdpInv, TableOwn, NoFlowLeaks, Entries, TableBounded

LEMMA GuardsAlone ==
    ASSUME MultiUdpInv, UNCHANGED <<udpFlow, active>>,
           rx'.at \in Admitting <=> rx.at \in Admitting
    PROVE  GuardsExact'
  BY DEF MultiUdpInv, GuardsExact, Admitting

\* A flow is refreshed, aged, moved to another address or loses its pump: its
\* source, its guards and whether it is cancelled stay.
LEMMA FlowTouched ==
    ASSUME MultiUdpInv, UNCHANGED <<flowTable, broom>>,
           NEW f \in DOMAIN udpFlow, NEW v \in FlowRecord,
           v.src = udpFlow[f].src, v.guards = udpFlow[f].guards,
           v.cancelled = udpFlow[f].cancelled,
           udpFlow' = [udpFlow EXCEPT ![f] = v]
    PROVE  /\ udpFlow' \in Seq(FlowRecord) /\ Len(udpFlow') = Len(udpFlow)
           /\ DOMAIN udpFlow' = DOMAIN udpFlow
           /\ TableOwn' /\ NoFlowLeaks' /\ Entries' = Entries
           /\ \A sc : {e \in DOMAIN udpFlow' : sc \in udpFlow'[e].guards}
                        = {e \in DOMAIN udpFlow : sc \in udpFlow[e].guards}
<1>1. udpFlow \in Seq(FlowRecord)
 BY DEF MultiUdpInv, MultiUdpTypeOK
<1>2. /\ udpFlow' \in Seq(FlowRecord) /\ Len(udpFlow') = Len(udpFlow)
      /\ DOMAIN udpFlow' = DOMAIN udpFlow
      /\ \A e \in DOMAIN udpFlow : udpFlow'[e] = IF e = f THEN v ELSE udpFlow[e]
 BY <1>1, FlowUpdated
<1>3. \A e \in DOMAIN udpFlow :
        /\ udpFlow'[e].src = udpFlow[e].src
        /\ udpFlow'[e].guards = udpFlow[e].guards
        /\ udpFlow'[e].cancelled = udpFlow[e].cancelled
 BY <1>2
<1>4. Entries' = Entries
 BY DEF Entries
<1>5. TableOwn'
 BY <1>2, <1>3, <1>4 DEF MultiUdpInv, TableOwn
<1>6. NoFlowLeaks'
 BY <1>2, <1>3 DEF MultiUdpInv, NoFlowLeaks
<1> QED BY <1>2, <1>3, <1>4, <1>5, <1>6

\* Guards, after such a step.
LEMMA GuardsTouched ==
    ASSUME MultiUdpInv, UNCHANGED active, rx'.at \in Admitting <=> rx.at \in Admitting,
           \A sc : {e \in DOMAIN udpFlow' : sc \in udpFlow'[e].guards}
                     = {e \in DOMAIN udpFlow : sc \in udpFlow[e].guards}
    PROVE  GuardsExact'
  BY DEF MultiUdpInv, GuardsExact, Admitting

\* Some flows are cancelled; all else about the flows stays.
LEMMA FlowsCancelled ==
    ASSUME MultiUdpTypeOK, NEW gone,
           udpFlow' = [f \in DOMAIN udpFlow |->
             [udpFlow[f] EXCEPT !.cancelled = udpFlow[f].cancelled \/ f \in gone]]
    PROVE  /\ udpFlow' \in Seq(FlowRecord) /\ Len(udpFlow') = Len(udpFlow)
           /\ DOMAIN udpFlow' = DOMAIN udpFlow
           /\ \A f \in DOMAIN udpFlow :
                /\ udpFlow'[f].src = udpFlow[f].src /\ udpFlow'[f].guards = udpFlow[f].guards
                /\ udpFlow'[f].cancelled <=> udpFlow[f].cancelled \/ f \in gone
<1>1. \A f \in DOMAIN udpFlow :
        LET v == [udpFlow[f] EXCEPT !.cancelled = udpFlow[f].cancelled \/ f \in gone]
        IN  /\ v \in FlowRecord /\ v.src = udpFlow[f].src /\ v.guards = udpFlow[f].guards
            /\ v.cancelled <=> udpFlow[f].cancelled \/ f \in gone
 BY FlowParts DEF FlowRecord
<1>2. DOMAIN udpFlow = 1..Len(udpFlow) /\ Len(udpFlow) \in Nat
 BY DEF MultiUdpTypeOK
<1>3. udpFlow' \in [1..Len(udpFlow) -> FlowRecord]
 BY <1>1, <1>2
<1>4. udpFlow' \in Seq(FlowRecord) /\ Len(udpFlow') = Len(udpFlow)
 BY <1>2, <1>3
<1> QED BY <1>1, <1>4

\* The flows are finitely many.
LEMMA HoldersFinite ==
    ASSUME MultiUdpTypeOK, NEW sc
    PROVE  IsFiniteSet({f \in DOMAIN udpFlow : sc \in udpFlow[f].guards})
<1>1. DOMAIN udpFlow = 1..Len(udpFlow) /\ Len(udpFlow) \in Nat
 BY DEF MultiUdpTypeOK
<1>2. IsFiniteSet(1..Len(udpFlow))
 BY <1>1, FS_Interval
<1> QED BY <1>1, <1>2, FS_Subset

LEMMA ListenerParts ==
    ASSUME MultiUdpTypeOK
    PROVE  /\ rx.at \in ListenerStage /\ rx.src \in Sources \cup {NoFlow}
           /\ rx.flow \in FlowIds \cup {NoFlow} /\ rx.order \in Seq(TargetRows)
           /\ rx = [at |-> rx.at, src |-> rx.src, flow |-> rx.flow, order |-> rx.order]
  BY DEF MultiUdpTypeOK, ListenerState

LEMMA AtTyped ==
    ASSUME NEW step \in ListenerStage PROVE At(step) \in ListenerState /\ At(step).at = step
<1>1. <<>> \in Seq(TargetRows)
 BY EmptySeq
<1> QED BY <1>1 DEF At, ListenerState

----
(* The rule's task and everyone outside *)

LEMMA MultiUdpInitial == MultiUdpInit => MultiUdpInv
<1> SUFFICES ASSUME MultiUdpInit PROVE MultiUdpInv
 OBVIOUS
<1> USE DEF MultiUdpInit
<1>1. udpFlow \in Seq(FlowRecord) /\ Len(udpFlow) = 0 /\ DOMAIN udpFlow = {}
 BY EmptySeq
<1>2. rx \in ListenerState /\ rx.at = "start"
 BY AtTyped DEF ListenerStage
<1>3. broom \in BroomState /\ broom.out = {} /\ broom.at = "off"
 BY DEF Asleep, BroomState
<1>4. MultiUdpTypeOK
 <2>1. flowTable \in [Sources -> FlowIds \cup {NoFlow}] /\ active \in [Scopes2 -> Int]
       /\ turned \in [TargetRows -> BOOLEAN]
  OBVIOUS
 <2>2. turns \in [datagrams : Nat, outside : Nat]
  OBVIOUS
 <2>3. udpRule \in {"probing", "activated", "running", "removed", "failed"}
       /\ udpStop \in BOOLEAN /\ spent \in BOOLEAN
  OBVIOUS
 <2>4. 0 <= MaxUdpFlows
  BY MultiUdpAssumption
 <2> HIDE DEF MultiUdpInit
 <2> QED BY <1>1, <1>2, <1>3, <2>1, <2>2, <2>3, <2>4 DEF MultiUdpTypeOK
<1>5. Entries = {}
 BY DEF Entries
<1>6. GuardsExact
 BY <1>1, <1>2, FS_EmptySet, MultiUdpAssumption DEF GuardsExact, Scopes2
<1>7. TableBounded
 BY <1>5, FS_EmptySet, MultiUdpAssumption DEF TableBounded
<1> QED BY <1>1, <1>2, <1>3, <1>4, <1>5, <1>6, <1>7 DEF MultiUdpInv, ListenerInHand, NotStarted,
  TableOwn, BroomEmpty, NoFlowLeaks, HasSource, Admitting

\* The listener, the table, the flows and the gauges stay.
LEMMA AroundPreserves ==
    ASSUME MultiUdpInv, UNCHANGED <<flowTable, udpFlow, rx, broom, active>>,
           MultiUdpTypeOK', udpRule' \in {"probing", "activated", "failed"} => rx.at = "start"
    PROVE  MultiUdpInv'
<1>1. TableOwn' /\ NoFlowLeaks' /\ Entries' = Entries /\ GuardsExact'
 BY TableAlone, GuardsAlone
<1>2. ListenerInHand' /\ NotStarted'
 BY <1>1 DEF MultiUdpInv, ListenerInHand, NotStarted
<1> QED BY <1>1, <1>2 DEF MultiUdpInv, BroomEmpty, TableBounded

LEMMA RuleTask ==
    ASSUME MultiUdpInv, ProbeBind \/ CancelRule \/ RuleRemoved \/ Outside PROVE MultiUdpInv'
<1> USE DEF MultiUdpInv
<1>1. CASE ProbeBind
 BY <1>1, AroundPreserves DEF ProbeBind, MultiUdpTypeOK, NotStarted
<1>2. CASE CancelRule
 BY <1>2, AroundPreserves DEF CancelRule, MultiUdpTypeOK, NotStarted
<1>3. CASE RuleRemoved
 BY <1>3, AroundPreserves DEF RuleRemoved, MultiUdpTypeOK, NotStarted
<1>4. CASE Outside
 <2>1. turned' \in [TargetRows -> BOOLEAN] /\ spent' \in BOOLEAN
  BY <1>4 DEF Outside, MultiUdpTypeOK
 <2>2. turns' \in [datagrams : Nat, outside : Nat]
  BY <1>4 DEF Outside, MultiUdpTypeOK
 <2>3. UNCHANGED <<udpRule, udpStop, flowTable, udpFlow, rx, broom, active, shown>>
  BY <1>4 DEF Outside
 <2>4. MultiUdpTypeOK'
  BY <2>1, <2>2, <2>3 DEF MultiUdpTypeOK
 <2> QED BY <2>3, <2>4, AroundPreserves DEF NotStarted
<1> QED BY <1>1, <1>2, <1>3, <1>4

LEMMA ListenerStarts ==
    ASSUME MultiUdpInv, ListenerStart PROVE MultiUdpInv'
<1> USE DEF ListenerStart
<1>1. PICK step \in {"recv", "done"} :
        /\ rx' = At(step)
        /\ broom' = [broom EXCEPT !.at = IF step = "recv" THEN "sleep" ELSE "off"]
 OBVIOUS
<1>2. rx' \in ListenerState /\ rx'.at = step
 BY <1>1, AtTyped DEF ListenerStage
<1> USE DEF MultiUdpInv
<1>3. broom' \in BroomState /\ broom'.out = broom.out
 BY <1>1 DEF MultiUdpTypeOK, BroomState
<1> USE DEF NotStarted
<1>4. rx.at = "start" /\ Entries = {}
 OBVIOUS
<1>5. broom.out = {}
 BY DEF BroomEmpty
<1>6. TableOwn' /\ NoFlowLeaks' /\ Entries' = Entries /\ GuardsExact'
 BY <1>1, <1>2, <1>3, <1>4, TableAlone, GuardsAlone DEF Admitting
<1> QED BY <1>1, <1>2, <1>3, <1>4, <1>5, <1>6 DEF MultiUdpTypeOK, ListenerInHand, BroomEmpty,
  TableBounded, HasSource, Admitting

----
(* The listener, up to the table *)

\* The listener moves on, and with it at most the gauges.
LEMMA ListenerMoves ==
    ASSUME MultiUdpInv, UNCHANGED <<udpRule, udpStop, flowTable, udpFlow, broom>>,
           turned' \in [TargetRows -> BOOLEAN], spent' = spent,
           turns' \in [datagrams : Nat, outside : Nat],
           rx.at \in {"recv"} \cup HasSource, rx' \in ListenerState,
           rx'.at \in {"recv"} \cup HasSource, ListenerInHand',
           active' \in [Scopes2 -> Int], GuardsExact'
    PROVE  MultiUdpInv'
<1>1. TableOwn' /\ NoFlowLeaks' /\ Entries' = Entries
 BY TableAlone
<1> USE DEF MultiUdpInv
<1>2. udpRule \notin {"probing", "activated", "failed"}
 BY DEF NotStarted, HasSource, Admitting
<1>3. MultiUdpTypeOK'
 BY DEF MultiUdpTypeOK
<1>4. NotStarted'
 BY <1>2 DEF NotStarted, HasSource, Admitting
<1>5. TableBounded'
 BY <1>1 DEF TableBounded, HasSource, Admitting
<1> QED BY <1>1, <1>3, <1>4, <1>5 DEF BroomEmpty

\* Back to recv: nothing is in hand.
LEMMA ListenerBack ==
    ASSUME rx' = At("recv")
    PROVE  rx' \in ListenerState /\ rx'.at = "recv" /\ rx'.at \notin Admitting /\ ListenerInHand'
  BY AtTyped DEF ListenerStage, ListenerInHand, HasSource, Admitting

LEMMA Receives ==
    ASSUME MultiUdpInv, NEW s \in Sources, ReceiveDatagram(s) PROVE MultiUdpInv'
<1>1. rx' \in ListenerState /\ rx'.at = "get" /\ rx'.src = s
 <2>1. At("get") \in ListenerState /\ At("get").at = "get"
  BY AtTyped DEF ListenerStage, HasSource
 <2>2. rx' = [At("get") EXCEPT !.src = s]
  BY DEF ReceiveDatagram
 <2> QED BY <2>1, <2>2 DEF ListenerState
<1>2. turns' \in [datagrams : Nat, outside : Nat]
 BY DEF ReceiveDatagram, MultiUdpInv, MultiUdpTypeOK
<1>3. rx.at = "recv" /\ turned' = turned /\ active' = active /\ spent' = spent
      /\ UNCHANGED <<udpRule, udpStop, flowTable, udpFlow, broom>>
 BY DEF ReceiveDatagram
<1>4. GuardsExact'
 BY <1>1, <1>3, GuardsAlone DEF Admitting
<1>5. ListenerInHand'
 BY <1>1 DEF ListenerInHand, HasSource, Admitting
<1> QED BY <1>1, <1>2, <1>3, <1>4, <1>5, ListenerMoves DEF MultiUdpInv, MultiUdpTypeOK, HasSource

LEMMA LooksUp ==
    ASSUME MultiUdpInv, LookupFlow PROVE MultiUdpInv'
<1> DEFINE fl == flowTable[rx.src]
<1>0. MultiUdpTypeOK /\ rx.src \in Sources /\ rx.at = "get"
 BY DEF LookupFlow, MultiUdpInv, ListenerInHand, HasSource
<1>1. fl \in FlowIds \cup {NoFlow}
 BY <1>0 DEF MultiUdpTypeOK
<1>2. /\ turned' = turned /\ active' = active /\ spent' = spent /\ turns' = turns
      /\ UNCHANGED <<udpRule, udpStop, flowTable, udpFlow, broom>>
 BY DEF LookupFlow
<1> USE <1>0
<1>3. rx' \in ListenerState /\ rx'.at \in {"recv", "admit", "relay"} /\ ListenerInHand'
 <2>1. CASE fl /= NoFlow
  <3>1. rx' = [rx EXCEPT !.at = "relay", !.flow = fl]
   BY <2>1 DEF LookupFlow
  <3>2. fl \in DOMAIN udpFlow
   BY <2>1 DEF MultiUdpInv, TableOwn, Entries
  <3> HIDE DEF fl
  <3>3. rx' \in ListenerState /\ rx'.at = "relay" /\ rx'.flow = fl /\ rx'.src = rx.src
   BY <1>1, <3>1 DEF MultiUdpTypeOK, ListenerState, ListenerStage, HasSource
  <3> QED BY <1>2, <3>2, <3>3 DEF ListenerInHand, Admitting
 <2>2. CASE fl = NoFlow
  <3>1. PICK step \in {"recv", "admit"} : rx' = [rx EXCEPT !.at = step]
   BY <2>2 DEF LookupFlow
  <3>2. rx' \in ListenerState /\ rx'.at = step /\ rx'.src = rx.src
   BY <3>1 DEF MultiUdpTypeOK, ListenerState, ListenerStage, HasSource
  <3> QED BY <1>2, <2>2, <3>2 DEF ListenerInHand, Admitting
 <2> QED BY <2>1, <2>2
<1>4. GuardsExact'
 BY <1>2, <1>3, GuardsAlone DEF Admitting
<1> QED BY <1>2, <1>3, <1>4, ListenerMoves DEF MultiUdpTypeOK, HasSource, Admitting

\* The gauges go up by one for the datagram that is admitted.
LEMMA Admits ==
    ASSUME MultiUdpInv, AcquireFirstPacket PROVE MultiUdpInv'
<1>0. MultiUdpTypeOK /\ rx.src \in Sources /\ rx.at = "admit" /\ flowTable[rx.src] = NoFlow
 BY DEF AcquireFirstPacket, MultiUdpInv, ListenerInHand, HasSource, Admitting
<1>1. /\ turned' = turned /\ spent' = spent /\ turns' = turns
      /\ UNCHANGED <<udpRule, udpStop, flowTable, udpFlow, broom>>
 BY DEF AcquireFirstPacket
<1>2. CASE /\ \A sc \in Scopes2 : active[sc] < FlowCeilings[sc]
           /\ active' = [sc \in Scopes2 |-> active[sc] + 1]
           /\ rx' = [rx EXCEPT !.at = "resolve", !.order = TargetOrder]
 <2>1. TargetOrder \in Seq(TargetRows) /\ TargetOrder /= <<>>
  BY <1>0, OrderTyped
 <2> DEFINE order == TargetOrder
 <2>2. order \in Seq(TargetRows) /\ order /= <<>> /\ rx' = [rx EXCEPT !.at = "resolve", !.order = order]
  BY <1>2, <2>1
 <2> HIDE DEF order
 <2> USE <1>0
 <2>3. rx' \in ListenerState /\ rx'.at = "resolve" /\ rx'.src = rx.src /\ rx'.order = order
  BY <2>2 DEF MultiUdpTypeOK, ListenerState, ListenerStage, HasSource, Admitting
 <2>4. ListenerInHand'
  BY <1>1, <2>2, <2>3 DEF ListenerInHand
 <2>5. active' \in [Scopes2 -> Int]
  BY <1>2 DEF MultiUdpTypeOK
 <2>6. GuardsExact'
  <3> SUFFICES ASSUME NEW sc \in Scopes2
               PROVE  /\ active'[sc] <= FlowCeilings[sc]
                      /\ active'[sc] = Cardinality({f \in DOMAIN udpFlow' : sc \in udpFlow'[f].guards}) + 1
   BY <2>3 DEF GuardsExact
  <3>1. active[sc] = Cardinality({f \in DOMAIN udpFlow : sc \in udpFlow[f].guards}) + 0
   BY DEF MultiUdpInv, GuardsExact
  <3>2. active[sc] \in Int /\ FlowCeilings[sc] \in Nat /\ active'[sc] = active[sc] + 1
   BY <1>2, MultiUdpAssumption DEF MultiUdpTypeOK, Scopes2
  <3>3. IsFiniteSet({f \in DOMAIN udpFlow : sc \in udpFlow[f].guards})
   BY HoldersFinite
  <3>4. Cardinality({f \in DOMAIN udpFlow : sc \in udpFlow[f].guards}) \in Nat
   BY <3>3, FS_CardinalityType
  <3> QED BY <1>1, <1>2, <3>1, <3>2, <3>4
 <2> QED BY <1>1, <2>3, <2>4, <2>5, <2>6, ListenerMoves DEF MultiUdpTypeOK, HasSource, Admitting
<1>3. CASE rx' = At("recv") /\ UNCHANGED active
 <2>1. GuardsExact'
  BY <1>0, <1>1, <1>3, ListenerBack, GuardsAlone DEF Admitting
 <2> QED BY <1>0, <1>1, <1>3, <2>1, ListenerBack, ListenerMoves DEF MultiUdpTypeOK, HasSource
<1> QED BY <1>2, <1>3 DEF AcquireFirstPacket

\* ... and down by one for the datagram that is given up.
LEMMA GivenBack ==
    ASSUME MultiUdpInv, rx.at \in Admitting, rx'.at \notin Admitting,
           active' = GiveBack, UNCHANGED udpFlow
    PROVE  active' \in [Scopes2 -> Int] /\ GuardsExact'
<1>1. active' \in [Scopes2 -> Int] /\ \A sc \in Scopes2 : active'[sc] = active[sc] - 1
 BY DEF GiveBack, MultiUdpInv, MultiUdpTypeOK
<1>2. ASSUME NEW sc \in Scopes2
      PROVE  /\ active'[sc] <= FlowCeilings[sc]
             /\ active'[sc] = Cardinality({f \in DOMAIN udpFlow : sc \in udpFlow[f].guards}) + 0
 <2>1. active[sc] = Cardinality({f \in DOMAIN udpFlow : sc \in udpFlow[f].guards}) + 1
       /\ active[sc] <= FlowCeilings[sc]
  BY DEF MultiUdpInv, GuardsExact, Admitting
 <2>2. active[sc] \in Int /\ FlowCeilings[sc] \in Nat
  BY MultiUdpAssumption DEF MultiUdpInv, MultiUdpTypeOK, Scopes2
 <2>3. IsFiniteSet({f \in DOMAIN udpFlow : sc \in udpFlow[f].guards})
  BY HoldersFinite DEF MultiUdpInv
 <2>4. Cardinality({f \in DOMAIN udpFlow : sc \in udpFlow[f].guards}) \in Nat
  BY <2>3, FS_CardinalityType
 <2> QED BY <1>1, <2>1, <2>2, <2>4
<1> QED BY <1>1, <1>2 DEF GuardsExact, Admitting

LEMMA TriesTarget ==
    ASSUME MultiUdpInv, ResolveFails \/ ResolveWorks PROVE MultiUdpInv'
<1> DEFINE order == rx.order
           t == Head(order)
<1>0. MultiUdpTypeOK /\ rx.src \in Sources /\ rx.at = "resolve" /\ flowTable[rx.src] = NoFlow
      /\ order \in Seq(TargetRows) /\ order /= <<>>
 BY ListenerParts DEF ResolveFails, ResolveWorks, MultiUdpInv, ListenerInHand, HasSource, Admitting
<1>1. t \in TargetRows /\ Tail(order) \in Seq(TargetRows) /\ Len(order) \in Nat
      /\ (Len(order) /= 1 => Tail(order) /= <<>>)
 <2> HIDE DEF order
 <2>1. Len(order) \in Nat /\ Len(order) /= 0 /\ Len(Tail(order)) = Len(order) - 1
  BY <1>0, EmptySeq
 <2>2. t \in TargetRows /\ Tail(order) \in Seq(TargetRows)
  BY <1>0, HeadTailProperties
 <2> QED BY <2>1, <2>2, EmptySeq
<1>2. /\ spent' = spent /\ turns' = turns
      /\ UNCHANGED <<udpRule, udpStop, flowTable, udpFlow, broom>>
 BY DEF ResolveFails, ResolveWorks
<1>3. turned' \in [TargetRows -> BOOLEAN]
 <2>1. \E h \in {turned[t], TRUE, FALSE} : turned' = [turned EXCEPT ![t] = h]
  BY DEF ResolveFails, ResolveWorks, TargetFailed, TargetWorked
 <2> HIDE DEF t
 <2> QED BY <1>0, <1>1, <2>1 DEF MultiUdpTypeOK
<1>4. CASE rx' = At("recv") /\ active' = GiveBack
 <2>1. rx.at \in Admitting
  BY <1>0 DEF Admitting
 <2>2. active' \in [Scopes2 -> Int] /\ GuardsExact'
  BY <1>2, <1>4, <2>1, ListenerBack, GivenBack
 <2> QED BY <1>0, <1>2, <1>3, <1>4, <2>2, ListenerBack, ListenerMoves DEF MultiUdpTypeOK,
   HasSource, Admitting
<1>5. CASE UNCHANGED active /\ \E left \in Seq(TargetRows), step \in Admitting :
             left /= <<>> /\ rx' = [rx EXCEPT !.at = step, !.order = left]
 <2>1. PICK left \in Seq(TargetRows), step \in Admitting :
         left /= <<>> /\ rx' = [rx EXCEPT !.at = step, !.order = left]
  BY <1>5
 <2>2. rx' \in ListenerState /\ rx'.at = step /\ rx'.src = rx.src /\ rx'.order = left
  BY <1>0, <2>1 DEF MultiUdpTypeOK, ListenerState, ListenerStage, HasSource
 <2> USE <1>2, <2>2 DEF Admitting
 <2>3. ListenerInHand'
  BY <1>0, <2>1 DEF ListenerInHand
 <2>4. GuardsExact'
  BY <1>0, <1>5, GuardsAlone
 <2> QED BY <1>0, <1>3, <1>5, <2>3, <2>4, ListenerMoves DEF MultiUdpTypeOK, HasSource
<1>6. CASE ResolveFails
 <2>1. CASE Len(order) = 1
  BY <1>4, <1>6, <2>1 DEF ResolveFails
 <2>2. CASE Len(order) /= 1
  <3>1. rx' = [rx EXCEPT !.order = Tail(order)] /\ UNCHANGED active
   BY <1>6, <2>2 DEF ResolveFails
  <3>2. rx' = [rx EXCEPT !.at = "resolve", !.order = Tail(order)]
   BY <1>0, <3>1, ListenerParts DEF MultiUdpTypeOK, ListenerState
  <3> HIDE DEF order
  <3> QED BY <1>1, <1>5, <2>2, <3>1, <3>2 DEF Admitting
 <2> QED BY <2>1, <2>2
<1>7. CASE ResolveWorks
 <2>1. rx' = [rx EXCEPT !.at = "insert"] /\ UNCHANGED active
  BY <1>7 DEF ResolveWorks
 <2>2. rx' = [rx EXCEPT !.at = "insert", !.order = order]
  BY <1>0, <2>1, ListenerParts DEF MultiUdpTypeOK, ListenerState
 <2> HIDE DEF order
 <2> QED BY <1>0, <1>5, <2>1, <2>2 DEF Admitting
<1> QED BY <1>6, <1>7

\* A flow is built: the datagram's guards become the flow's.
LEMMA FlowBuilt ==
    ASSUME MultiUdpInv, Insert,
           Cardinality(Entries) < FlowCap, Len(udpFlow) + 1 <= MaxUdpFlows,
           udpFlow' = Append(udpFlow, NewMultiTarget),
           flowTable' = [flowTable EXCEPT ![rx.src] = Len(udpFlow) + 1],
           rx' = [rx EXCEPT !.at = "relay", !.flow = Len(udpFlow) + 1],
           UNCHANGED active
    PROVE  MultiUdpInv'
<1> DEFINE id == Len(udpFlow) + 1
           new == NewMultiTarget
<1>0. MultiUdpTypeOK /\ rx.src \in Sources /\ rx.at = "insert" /\ flowTable[rx.src] = NoFlow
      /\ rx.order \in Seq(TargetRows) /\ rx.order /= <<>>
 BY ListenerParts DEF Insert, MultiUdpInv, ListenerInHand, HasSource, Admitting
<1>1. /\ UNCHANGED <<udpRule, udpStop, broom, turned, spent, shown, turns>>
 BY DEF Insert
<1>2. new \in FlowRecord /\ new.src = rx.src /\ new.guards = Scopes2 /\ new.cancelled = FALSE
 <2>1. Head(rx.order) \in TargetRows
  BY <1>0, HeadTailProperties
 <2> QED BY <1>0, <2>1 DEF NewMultiTarget, FlowRecord
<1>3. udpFlow \in Seq(FlowRecord) /\ Len(udpFlow) \in Nat /\ DOMAIN udpFlow = 1..Len(udpFlow)
 BY <1>0 DEF MultiUdpTypeOK
<1> HIDE DEF new
<1>4. /\ udpFlow' \in Seq(FlowRecord) /\ Len(udpFlow') = id /\ DOMAIN udpFlow' = 1..id
      /\ udpFlow'[id] = new /\ \A f \in DOMAIN udpFlow : udpFlow'[f] = udpFlow[f]
 <2>1. udpFlow' = Append(udpFlow, new)
  BY DEF new
 <2> QED BY <1>2, <1>3, <2>1, AppendProperties
<1>5. id \in Nat /\ id \notin DOMAIN udpFlow /\ id \in FlowIds /\ DOMAIN udpFlow' = DOMAIN udpFlow \cup {id}
      /\ id /= NoFlow
 <2>1. MaxUdpFlows \in Nat /\ NoFlow \notin Nat
  BY MultiUdpAssumption
 <2> QED BY <1>3, <1>4, <2>1 DEF FlowIds
<1> HIDE DEF id
<1>6. flowTable' = [flowTable EXCEPT ![rx.src] = id] /\ rx' = [rx EXCEPT !.at = "relay", !.flow = id]
 BY DEF id
<1>7. rx' \in ListenerState /\ rx'.at = "relay" /\ rx'.src = rx.src /\ rx'.flow = id
 BY <1>0, <1>5, <1>6 DEF MultiUdpTypeOK, ListenerState, ListenerStage, HasSource
<1>8. /\ flowTable' \in [Sources -> FlowIds \cup {NoFlow}] /\ flowTable'[rx.src] = id
      /\ \A s \in Sources \ {rx.src} : flowTable'[s] = flowTable[s]
 BY <1>0, <1>5, <1>6 DEF MultiUdpTypeOK
<1>9. Entries' = Entries \cup {rx.src} /\ rx.src \notin Entries
 BY <1>0, <1>5, <1>8 DEF Entries
<1>10. MultiUdpTypeOK'
 <2>1. id <= MaxUdpFlows
  BY DEF id
 <2> QED BY <1>0, <1>1, <1>4, <1>7, <1>8, <2>1 DEF MultiUdpTypeOK
<1>11. ListenerInHand'
 BY <1>0, <1>5, <1>7 DEF ListenerInHand, Admitting
<1>12. NotStarted'
 BY <1>0, <1>1, <1>7 DEF MultiUdpInv, NotStarted
<1>13. TableOwn'
 <2> SUFFICES ASSUME NEW s \in Entries'
              PROVE  flowTable'[s] \in DOMAIN udpFlow' /\ udpFlow'[flowTable'[s]].src = s
  BY DEF TableOwn
 <2>1. CASE s = rx.src
  BY <1>2, <1>4, <1>5, <1>8, <2>1
 <2>2. CASE s /= rx.src
  <3>1. s \in Entries /\ s \in Sources
   BY <1>9, <2>2 DEF Entries
  <3>2. flowTable[s] \in DOMAIN udpFlow /\ udpFlow[flowTable[s]].src = s
   BY <3>1 DEF MultiUdpInv, TableOwn
  <3> QED BY <1>4, <1>5, <1>8, <2>2, <3>1, <3>2
 <2> QED BY <2>1, <2>2
<1>14. NoFlowLeaks'
 <2> SUFFICES ASSUME NEW f \in DOMAIN udpFlow', ~udpFlow'[f].cancelled
              PROVE  flowTable'[udpFlow'[f].src] = f \/ f \in broom'.out
  BY DEF NoFlowLeaks
 <2>1. CASE f = id
  BY <1>2, <1>4, <1>8, <2>1
 <2>2. CASE f /= id
  <3>1. f \in DOMAIN udpFlow /\ udpFlow'[f] = udpFlow[f]
   BY <1>4, <1>5, <2>2
  <3>2. flowTable[udpFlow[f].src] = f \/ f \in broom.out
   BY <3>1 DEF MultiUdpInv, NoFlowLeaks
  <3>3. f /= NoFlow /\ udpFlow[f].src \in Sources
   BY <1>0, <3>1, FlowParts
  <3> QED BY <1>0, <1>1, <1>8, <3>1, <3>2, <3>3
 <2> QED BY <2>1, <2>2
<1>15. GuardsExact'
 <2> SUFFICES ASSUME NEW sc \in Scopes2
              PROVE  /\ active[sc] <= FlowCeilings[sc]
                     /\ active[sc] = Cardinality({f \in DOMAIN udpFlow' : sc \in udpFlow'[f].guards}) + 0
  BY <1>7 DEF GuardsExact
 <2> DEFINE held == {f \in DOMAIN udpFlow : sc \in udpFlow[f].guards}
 <2>1. active[sc] <= FlowCeilings[sc] /\ active[sc] = Cardinality(held) + 1
  BY <1>0 DEF MultiUdpInv, GuardsExact
 <2>2. IsFiniteSet(held) /\ id \notin held
  BY <1>0, <1>5, HoldersFinite
 <2>3. {f \in DOMAIN udpFlow' : sc \in udpFlow'[f].guards} = held \cup {id}
  BY <1>2, <1>4, <1>5
 <2> HIDE DEF held
 <2>4. Cardinality(held \cup {id}) = Cardinality(held) + 1 /\ Cardinality(held) \in Nat
  BY <2>2, FS_AddElement, FS_CardinalityType
 <2>5. Cardinality({f \in DOMAIN udpFlow' : sc \in udpFlow'[f].guards}) = Cardinality(held) + 1
  BY <2>3, <2>4, Zenon
 <2> DEFINE count == Cardinality({f \in DOMAIN udpFlow' : sc \in udpFlow'[f].guards})
 <2>6. count = Cardinality(held) + 1
  BY <2>5
 <2> HIDE DEF count
 <2>7. active[sc] <= FlowCeilings[sc] /\ active[sc] = count + 0
  BY <2>1, <2>4, <2>6
 <2> QED BY <2>7, Zenon DEF count
<1>16. TableBounded'
 <2>1. Entries \subseteq Sources
  BY DEF Entries
 <2>2. IsFiniteSet(Entries)
  BY <2>1, FS_Subset, MultiUdpAssumption
 <2>3. Cardinality(Entries') = Cardinality(Entries) + 1 /\ Cardinality(Entries) \in Nat
  BY <1>9, <2>2, FS_AddElement, FS_CardinalityType
 <2> QED BY <1>7, <2>3, MultiUdpAssumption DEF TableBounded
<1> QED BY <1>1, <1>10, <1>11, <1>12, <1>13, <1>14, <1>15, <1>16 DEF MultiUdpInv, BroomEmpty

LEMMA Inserts ==
    ASSUME MultiUdpInv, Insert PROVE MultiUdpInv'
<1>1. CASE rx' = At("recv") /\ active' = GiveBack /\ UNCHANGED <<udpFlow, flowTable>>
 <2>1. rx.at \in Admitting /\ UNCHANGED <<udpRule, udpStop, broom, turned, spent, shown, turns>>
  BY DEF Insert, Admitting
 <2>2. active' \in [Scopes2 -> Int] /\ GuardsExact'
  BY <1>1, <2>1, ListenerBack, GivenBack
 <2> QED BY <1>1, <2>1, <2>2, ListenerBack, ListenerMoves DEF MultiUdpInv, MultiUdpTypeOK, HasSource
<1> QED BY <1>1, FlowBuilt DEF Insert

----
(* The listener on a flow *)

LEMMA Relays ==
    ASSUME MultiUdpInv, RelaySent \/ RelayDropped \/ RelayFailed PROVE MultiUdpInv'
<1>0. MultiUdpTypeOK /\ rx.src \in Sources /\ rx.at = "relay" /\ rx.flow \in DOMAIN udpFlow
 BY DEF RelaySent, RelayDropped, RelayFailed, MultiUdpInv, ListenerInHand, HasSource
<1>1. UNCHANGED <<udpRule, udpStop, flowTable, broom, turned, active, spent, turns>>
 BY DEF RelaySent, RelayDropped, RelayFailed
<1>2. CASE UNCHANGED udpFlow /\ rx' = At("recv")
 <2>1. GuardsExact'
  BY <1>0, <1>1, <1>2, ListenerBack, GuardsAlone DEF Admitting
 <2> QED BY <1>0, <1>1, <1>2, <2>1, ListenerBack, ListenerMoves DEF MultiUdpTypeOK, HasSource
<1>3. ASSUME NEW v \in FlowRecord, udpFlow' = [udpFlow EXCEPT ![rx.flow] = v],
             v.src = udpFlow[rx.flow].src, v.guards = udpFlow[rx.flow].guards,
             v.cancelled = udpFlow[rx.flow].cancelled,
             rx' = At("recv") \/ rx' = rx
      PROVE  MultiUdpInv'
 <2>1. /\ udpFlow' \in Seq(FlowRecord) /\ Len(udpFlow') = Len(udpFlow)
       /\ DOMAIN udpFlow' = DOMAIN udpFlow
       /\ TableOwn' /\ NoFlowLeaks' /\ Entries' = Entries
       /\ \A sc : {e \in DOMAIN udpFlow' : sc \in udpFlow'[e].guards}
                    = {e \in DOMAIN udpFlow : sc \in udpFlow[e].guards}
  BY <1>0, <1>1, <1>3, FlowTouched
 <2>2. rx' \in ListenerState /\ rx'.at \in {"recv", "relay"} /\ ListenerInHand'
  <3>1. CASE rx' = At("recv")
   BY <3>1, ListenerBack
  <3>2. CASE rx' = rx
   BY <1>0, <1>1, <2>1, <3>2 DEF ListenerInHand, MultiUdpTypeOK, Admitting
  <3> QED BY <1>3, <3>1, <3>2
 <2> USE <1>1, <2>1, <2>2
 <2>3. GuardsExact'
  BY <1>0, GuardsTouched DEF Admitting
 <2>4. MultiUdpTypeOK'
  BY <1>0 DEF MultiUdpTypeOK
 <2> USE DEF MultiUdpInv
 <2>5. NotStarted'
  BY <1>0 DEF NotStarted
 <2>6. TableBounded'
  BY DEF TableBounded
 <2> QED BY <2>3, <2>4, <2>5, <2>6 DEF BroomEmpty
<1>4. CASE RelaySent
 <2> DEFINE v == [udpFlow[rx.flow] EXCEPT !.idle = FALSE]
 <2>1. udpFlow' = [udpFlow EXCEPT ![rx.flow] = v] /\ rx' = At("recv")
  BY <1>4 DEF RelaySent
 <2>2. v \in FlowRecord /\ v.src = udpFlow[rx.flow].src /\ v.guards = udpFlow[rx.flow].guards
       /\ v.cancelled = udpFlow[rx.flow].cancelled
  BY <1>0, FlowParts DEF FlowRecord
 <2> HIDE DEF v
 <2> QED BY <1>3, <2>1, <2>2
<1>5. CASE RelayDropped
 BY <1>2, <1>5 DEF RelayDropped
<1>6. CASE RelayFailed
 <2>1. CASE rx' = At("recv") /\ UNCHANGED udpFlow
  BY <1>2, <2>1
 <2>2. CASE udpFlow' = [udpFlow EXCEPT ![rx.flow].addr = @ + 1] /\ UNCHANGED rx
  <3> DEFINE v == [udpFlow[rx.flow] EXCEPT !.addr = @ + 1]
  <3>1. udpFlow' = [udpFlow EXCEPT ![rx.flow] = v]
   BY <2>2
  <3>2. v \in FlowRecord /\ v.src = udpFlow[rx.flow].src /\ v.guards = udpFlow[rx.flow].guards
        /\ v.cancelled = udpFlow[rx.flow].cancelled
   BY <1>0, FlowParts DEF FlowRecord
  <3> HIDE DEF v
  <3> QED BY <1>3, <2>2, <3>1, <3>2
 <2> QED BY <1>6, <2>1, <2>2 DEF RelayFailed
<1> QED BY <1>4, <1>5, <1>6

\* What the listener's end cancels is what the table held.
LEMMA Drains ==
    ASSUME MultiUdpInv, ListenerDrain PROVE MultiUdpInv'
<1> DEFINE kept == {flowTable[s] : s \in Entries}
<1>0. MultiUdpTypeOK /\ rx.at = "recv"
 BY DEF ListenerDrain, MultiUdpInv
<1>1. /\ UNCHANGED <<udpRule, udpStop, broom, turned, active, spent, turns>>
      /\ flowTable' = [s \in Sources |-> NoFlow] /\ rx' = At("done")
      /\ udpFlow' = [f \in DOMAIN udpFlow |->
           [udpFlow[f] EXCEPT !.cancelled = udpFlow[f].cancelled \/ f \in kept]]
 BY DEF ListenerDrain
<1>2. rx' \in ListenerState /\ rx'.at = "done"
 BY <1>1, AtTyped DEF ListenerStage
<1> HIDE DEF kept
<1>3. /\ udpFlow' \in Seq(FlowRecord) /\ Len(udpFlow') = Len(udpFlow)
      /\ DOMAIN udpFlow' = DOMAIN udpFlow
      /\ \A f \in DOMAIN udpFlow :
           /\ udpFlow'[f].src = udpFlow[f].src /\ udpFlow'[f].guards = udpFlow[f].guards
           /\ udpFlow'[f].cancelled <=> udpFlow[f].cancelled \/ f \in kept
 BY <1>0, <1>1, FlowsCancelled
<1>4. Entries' = {}
 BY <1>1 DEF Entries
<1>5. NoFlowLeaks'
 <2> SUFFICES ASSUME NEW f \in DOMAIN udpFlow, ~udpFlow'[f].cancelled PROVE f \in broom.out
  BY <1>1, <1>3 DEF NoFlowLeaks
 <2>1. ~udpFlow[f].cancelled /\ f \notin kept
  BY <1>3
 <2>2. udpFlow[f].src \in Sources /\ f /= NoFlow
  BY <1>0, FlowParts
 <2>3. flowTable[udpFlow[f].src] /= f
  BY <2>1, <2>2 DEF kept, Entries
 <2> QED BY <2>1, <2>3 DEF MultiUdpInv, NoFlowLeaks
<1>6. GuardsExact'
 <2>1. \A sc : {e \in DOMAIN udpFlow' : sc \in udpFlow'[e].guards}
                 = {e \in DOMAIN udpFlow : sc \in udpFlow[e].guards}
  BY <1>3
 <2> QED BY <1>0, <1>1, <1>2, <2>1, GuardsTouched DEF Admitting
<1>7. MultiUdpTypeOK'
 BY <1>0, <1>1, <1>2, <1>3 DEF MultiUdpTypeOK
<1>8. TableBounded'
 BY <1>4, FS_EmptySet, MultiUdpAssumption DEF TableBounded
<1>9. NotStarted' /\ ListenerInHand' /\ TableOwn'
 BY <1>0, <1>1, <1>2, <1>4 DEF MultiUdpInv, NotStarted, ListenerInHand, TableOwn, HasSource,
  Admitting
<1> QED BY <1>1, <1>5, <1>6, <1>7, <1>8, <1>9 DEF MultiUdpInv, BroomEmpty

----
(* The tasks of a flow and the reaper *)

LEMMA FlowTasks ==
    ASSUME MultiUdpInv, NEW f \in DOMAIN udpFlow, Reply(f) \/ PumpFails(f) \/ Ages(f)
    PROVE  MultiUdpInv'
<1>0. MultiUdpTypeOK /\ udpFlow[f] \in FlowRecord
 BY FlowParts DEF MultiUdpInv
<1>1. UNCHANGED <<udpRule, udpStop, flowTable, rx, broom, turned, active, spent>>
 BY DEF Reply, PumpFails, Ages
<1>2. turns' \in [datagrams : Nat, outside : Nat]
 BY <1>0 DEF Reply, PumpFails, Ages, MultiUdpTypeOK
<1>3. PICK v \in FlowRecord :
        /\ udpFlow' = [udpFlow EXCEPT ![f] = v]
        /\ v.src = udpFlow[f].src /\ v.guards = udpFlow[f].guards
        /\ v.cancelled = udpFlow[f].cancelled
 <2>1. CASE Reply(f)
  <3> DEFINE v == [udpFlow[f] EXCEPT !.idle = FALSE]
  <3>1. v \in FlowRecord /\ v.src = udpFlow[f].src /\ v.guards = udpFlow[f].guards
        /\ v.cancelled = udpFlow[f].cancelled
   BY <1>0 DEF FlowRecord
  <3>2. udpFlow' = [udpFlow EXCEPT ![f] = v]
   BY <2>1 DEF Reply
  <3> HIDE DEF v
  <3> QED BY <3>1, <3>2
 <2>2. CASE PumpFails(f)
  <3> DEFINE v == [udpFlow[f] EXCEPT !.pump = FALSE]
  <3>1. v \in FlowRecord /\ v.src = udpFlow[f].src /\ v.guards = udpFlow[f].guards
        /\ v.cancelled = udpFlow[f].cancelled
   BY <1>0 DEF FlowRecord
  <3>2. udpFlow' = [udpFlow EXCEPT ![f] = v]
   BY <2>2 DEF PumpFails
  <3> HIDE DEF v
  <3> QED BY <3>1, <3>2
 <2>3. CASE Ages(f)
  <3> DEFINE v == [udpFlow[f] EXCEPT !.idle = TRUE]
  <3>1. v \in FlowRecord /\ v.src = udpFlow[f].src /\ v.guards = udpFlow[f].guards
        /\ v.cancelled = udpFlow[f].cancelled
   BY <1>0 DEF FlowRecord
  <3>2. udpFlow' = [udpFlow EXCEPT ![f] = v]
   BY <2>3 DEF Ages
  <3> HIDE DEF v
  <3> QED BY <3>1, <3>2
 <2> QED BY <2>1, <2>2, <2>3
<1> USE <1>1
<1>4. /\ udpFlow' \in Seq(FlowRecord) /\ Len(udpFlow') = Len(udpFlow)
      /\ DOMAIN udpFlow' = DOMAIN udpFlow
      /\ TableOwn' /\ NoFlowLeaks' /\ Entries' = Entries
      /\ \A sc : {e \in DOMAIN udpFlow' : sc \in udpFlow'[e].guards}
                   = {e \in DOMAIN udpFlow : sc \in udpFlow[e].guards}
 BY <1>3, FlowTouched
<1>5. GuardsExact'
 BY <1>4, GuardsTouched
<1>6. MultiUdpTypeOK'
 BY <1>0, <1>2, <1>4 DEF MultiUdpTypeOK
<1>7. ListenerInHand' /\ NotStarted'
 BY <1>4 DEF MultiUdpInv, ListenerInHand, NotStarted
<1> QED BY <1>4, <1>5, <1>6, <1>7 DEF MultiUdpInv, BroomEmpty, TableBounded

\* A guard goes and the gauge of its scope with it.
LEMMA Releases ==
    ASSUME MultiUdpInv, NEW f \in DOMAIN udpFlow, NEW sc \in Scopes2, GuardReleased(f, sc)
    PROVE  MultiUdpInv'
<1> DEFINE v == [udpFlow[f] EXCEPT !.guards = @ \ {sc}]
<1>0. MultiUdpTypeOK /\ udpFlow[f] \in FlowRecord /\ sc \in udpFlow[f].guards
 BY FlowParts DEF MultiUdpInv, GuardReleased
<1>1. /\ UNCHANGED <<udpRule, udpStop, flowTable, rx, broom, turned, spent, shown, turns>>
      /\ udpFlow' = [udpFlow EXCEPT ![f] = v] /\ active' = [active EXCEPT ![sc] = @ - 1]
 BY DEF GuardReleased
<1>2. /\ v \in FlowRecord /\ v.src = udpFlow[f].src /\ v.cancelled = udpFlow[f].cancelled
      /\ v.guards = udpFlow[f].guards \ {sc}
 BY <1>0 DEF FlowRecord
<1> HIDE DEF v
<1>3. /\ udpFlow' \in Seq(FlowRecord) /\ Len(udpFlow') = Len(udpFlow)
      /\ DOMAIN udpFlow' = DOMAIN udpFlow
      /\ \A e \in DOMAIN udpFlow : udpFlow'[e] = IF e = f THEN v ELSE udpFlow[e]
 BY <1>0, <1>1, <1>2, FlowUpdated DEF MultiUdpTypeOK
<1>4. active' \in [Scopes2 -> Int] /\ active'[sc] = active[sc] - 1
      /\ \A sd \in Scopes2 \ {sc} : active'[sd] = active[sd]
 BY <1>0, <1>1 DEF MultiUdpTypeOK
<1>5. Entries' = Entries
 BY <1>1 DEF Entries
<1>6. TableOwn' /\ NoFlowLeaks'
 BY <1>1, <1>2, <1>3, <1>5 DEF MultiUdpInv, TableOwn, NoFlowLeaks
<1>7. GuardsExact'
 <2> SUFFICES ASSUME NEW sd \in Scopes2
              PROVE  /\ active'[sd] <= FlowCeilings[sd]
                     /\ active'[sd] = Cardinality({e \in DOMAIN udpFlow' : sd \in udpFlow'[e].guards})
                                      + (IF rx.at \in {"resolve", "insert"} THEN 1 ELSE 0)
  BY <1>1 DEF GuardsExact
 <2> DEFINE held == {e \in DOMAIN udpFlow : sd \in udpFlow[e].guards}
            more == IF rx.at \in {"resolve", "insert"} THEN 1 ELSE 0
 <2>1. active[sd] <= FlowCeilings[sd] /\ active[sd] = Cardinality(held) + more
  BY DEF MultiUdpInv, GuardsExact
 <2>2. more \in Nat /\ active[sd] \in Int /\ FlowCeilings[sd] \in Nat
  BY <1>0, MultiUdpAssumption DEF MultiUdpTypeOK, Scopes2
 <2>3. IsFiniteSet(held)
  BY <1>0, HoldersFinite
 <2>4. Cardinality(held) \in Nat
  BY <2>3, FS_CardinalityType
 <2>5. CASE sd = sc
  <3>1. {e \in DOMAIN udpFlow' : sd \in udpFlow'[e].guards} = held \ {f} /\ f \in held
   BY <1>0, <1>2, <1>3, <2>5
  <3> HIDE DEF held, more
  <3>2. Cardinality(held \ {f}) = Cardinality(held) - 1
   BY <2>3, <3>1, FS_RemoveElement
  <3>3. active'[sd] = Cardinality(held \ {f}) + more /\ active'[sd] <= FlowCeilings[sd]
   BY <1>4, <2>1, <2>2, <2>4, <2>5, <3>2
  <3> QED BY <3>1, <3>3, Zenon DEF more
 <2>6. CASE sd /= sc
  <3>1. {e \in DOMAIN udpFlow' : sd \in udpFlow'[e].guards} = held
   BY <1>2, <1>3, <2>6
  <3> QED BY <1>4, <2>1, <2>6, <3>1
 <2> QED BY <2>5, <2>6
<1>8. MultiUdpTypeOK'
 BY <1>0, <1>1, <1>3, <1>4 DEF MultiUdpTypeOK
<1>9. ListenerInHand' /\ NotStarted'
 BY <1>1, <1>3, <1>5 DEF MultiUdpInv, ListenerInHand, NotStarted
<1> QED BY <1>1, <1>5, <1>6, <1>7, <1>8, <1>9 DEF MultiUdpInv, BroomEmpty, TableBounded

LEMMA ReaperLooks ==
    ASSUME MultiUdpInv, SweepSnapshot \/ BroomStops PROVE MultiUdpInv'
<1>0. MultiUdpTypeOK /\ broom.at = "sleep" /\ broom.out = {}
 BY DEF SweepSnapshot, BroomStops, MultiUdpInv, BroomEmpty
<1>1. UNCHANGED <<udpRule, udpStop, flowTable, udpFlow, rx, turned, active, spent, shown, turns>>
 BY DEF SweepSnapshot, BroomStops
<1>2. broom' \in BroomState /\ broom'.out = broom.out
 BY <1>0 DEF SweepSnapshot, BroomStops, MultiUdpTypeOK, BroomState, Entries
<1> USE <1>1, <1>2
<1>3. TableOwn' /\ NoFlowLeaks' /\ Entries' = Entries /\ GuardsExact'
 BY TableAlone, GuardsAlone
<1>4. MultiUdpTypeOK'
 BY <1>0 DEF MultiUdpTypeOK
<1>5. NotStarted'
 BY <1>0, <1>3 DEF MultiUdpInv, NotStarted
<1> QED BY <1>0, <1>3, <1>4, <1>5 DEF MultiUdpInv, ListenerInHand, BroomEmpty, TableBounded

\* What leaves the table is in the reaper's hands.
LEMMA ReaperRemoves ==
    ASSUME MultiUdpInv, SweepRemove PROVE MultiUdpInv'
<1>0. MultiUdpTypeOK /\ broom.at = "remove" /\ broom.out = {} /\ broom.stale \subseteq Sources
 BY DEF SweepRemove, MultiUdpInv, BroomEmpty, MultiUdpTypeOK, BroomState
<1>1. /\ UNCHANGED <<udpRule, udpStop, udpFlow, rx, turned, active, spent, shown, turns>>
      /\ broom' = [at |-> "cancel", stale |-> {}, out |-> {flowTable[s] : s \in broom.stale} \ {NoFlow}]
      /\ flowTable' = [s \in Sources |-> IF s \in broom.stale THEN NoFlow ELSE flowTable[s]]
 BY DEF SweepRemove
<1>2. broom' \in BroomState /\ broom'.at = "cancel"
      /\ broom'.out = {flowTable[s] : s \in broom.stale} \ {NoFlow}
 <2>1. {flowTable[s] : s \in broom.stale} \ {NoFlow} \subseteq FlowIds
  BY <1>0 DEF MultiUdpTypeOK
 <2> QED BY <1>1, <2>1 DEF BroomState
<1>3. flowTable' \in [Sources -> FlowIds \cup {NoFlow}]
 BY <1>0, <1>1 DEF MultiUdpTypeOK
<1>4. Entries' = Entries \ broom.stale /\ \A s \in Entries' : flowTable'[s] = flowTable[s]
 BY <1>0, <1>1 DEF Entries
<1>5. TableOwn'
 BY <1>1, <1>4 DEF MultiUdpInv, TableOwn
<1>6. NoFlowLeaks'
 <2> SUFFICES ASSUME NEW f \in DOMAIN udpFlow, ~udpFlow[f].cancelled
              PROVE  flowTable'[udpFlow[f].src] = f \/ f \in broom'.out
  BY <1>1 DEF NoFlowLeaks
 <2>1. udpFlow[f].src \in Sources /\ f /= NoFlow
  BY <1>0, FlowParts
 <2>2. flowTable[udpFlow[f].src] = f
  BY <1>0 DEF MultiUdpInv, NoFlowLeaks
 <2> QED BY <1>1, <1>2, <2>1, <2>2
<1>7. GuardsExact'
 BY <1>1, GuardsAlone
<1>8. TableBounded'
 <2>1. Entries \subseteq Sources /\ Entries' \subseteq Entries
  BY <1>4 DEF Entries
 <2>2. IsFiniteSet(Entries)
  BY <2>1, FS_Subset, MultiUdpAssumption
 <2>3. IsFiniteSet(Entries') /\ Cardinality(Entries') <= Cardinality(Entries)
  BY <2>1, <2>2, FS_Subset
 <2>4. Cardinality(Entries) \in Nat /\ Cardinality(Entries') \in Nat /\ Cardinality(Entries) <= FlowCap
  BY <2>2, <2>3, FS_CardinalityType DEF MultiUdpInv, TableBounded
 <2>5. Cardinality(Entries') <= FlowCap
  BY <2>3, <2>4, MultiUdpAssumption
 <2> QED BY <1>1, <2>1, <2>5 DEF MultiUdpInv, TableBounded
<1> USE <1>0, <1>1 DEF MultiUdpInv
<1>9. ListenerInHand'
 BY DEF ListenerInHand, HasSource, Admitting
<1>10. NotStarted'
 BY <1>4 DEF NotStarted
<1>11. MultiUdpTypeOK'
 BY <1>2, <1>3 DEF MultiUdpTypeOK
<1> QED BY <1>2, <1>5, <1>6, <1>7, <1>8, <1>9, <1>10, <1>11 DEF BroomEmpty

LEMMA ReaperCancels ==
    ASSUME MultiUdpInv, SweepCancel PROVE MultiUdpInv'
<1> DEFINE out == broom.out
<1>0. MultiUdpTypeOK /\ broom.at = "cancel"
 BY DEF SweepCancel, MultiUdpInv
<1>1. /\ UNCHANGED <<udpRule, udpStop, flowTable, rx, turned, active, spent, shown, turns>>
      /\ broom' = Asleep
      /\ udpFlow' = [f \in DOMAIN udpFlow |->
           [udpFlow[f] EXCEPT !.cancelled = udpFlow[f].cancelled \/ f \in broom.out]]
 BY DEF SweepCancel
<1> USE <1>1
<1>2. broom' \in BroomState /\ broom'.at = "sleep" /\ broom'.out = {}
 BY DEF Asleep, BroomState
<1>3. /\ udpFlow' \in Seq(FlowRecord) /\ Len(udpFlow') = Len(udpFlow)
      /\ DOMAIN udpFlow' = DOMAIN udpFlow
      /\ \A f \in DOMAIN udpFlow :
           /\ udpFlow'[f].src = udpFlow[f].src /\ udpFlow'[f].guards = udpFlow[f].guards
           /\ udpFlow'[f].cancelled <=> udpFlow[f].cancelled \/ f \in broom.out
 BY <1>0, FlowsCancelled
<1>4. Entries' = Entries
 BY DEF Entries
<1>5. NoFlowLeaks' /\ TableOwn'
 BY <1>3, <1>4 DEF MultiUdpInv, NoFlowLeaks, TableOwn
<1>6. GuardsExact'
 <2>1. \A sc : {e \in DOMAIN udpFlow' : sc \in udpFlow'[e].guards}
                 = {e \in DOMAIN udpFlow : sc \in udpFlow[e].guards}
  BY <1>3
 <2> QED BY <2>1, GuardsTouched
<1>7. MultiUdpTypeOK'
 BY <1>0, <1>2, <1>3 DEF MultiUdpTypeOK
<1>8. ListenerInHand' /\ NotStarted' /\ TableBounded'
 BY <1>0, <1>2, <1>3, <1>4 DEF MultiUdpInv, ListenerInHand, NotStarted, TableBounded
<1> QED BY <1>2, <1>5, <1>6, <1>7, <1>8 DEF MultiUdpInv, BroomEmpty

----
\* A UDP rule with any number of targets, sources and flows (failover_path.rs
\* run_udp, udp/table.rs): no flow is left behind uncancelled, whatever the
\* listener, the reaper and the removal of the rule do at once; the gauges of
\* both scopes count exactly the guards held and keep their ceilings; the table
\* keeps its cap and ends empty.
THEOREM MultiUdpCorrect == MultiUdpSpec => []MultiUdpSound
<1>1. MultiUdpInit => MultiUdpInv
 BY MultiUdpInitial
<1>2. MultiUdpInv /\ [MultiUdpNext]_multiUdpVars => MultiUdpInv'
 <2> SUFFICES ASSUME MultiUdpInv, [MultiUdpNext]_multiUdpVars PROVE MultiUdpInv'
  OBVIOUS
 <2>1. CASE UNCHANGED multiUdpVars
  <3>1. UNCHANGED <<udpRule, udpStop, flowTable, udpFlow, rx, broom, turned, active, spent, turns>>
   BY <2>1 DEF multiUdpVars
  <3>2. MultiUdpTypeOK' /\ (udpRule' \in {"probing", "activated", "failed"} => rx.at = "start")
   BY <3>1 DEF MultiUdpInv, MultiUdpTypeOK, NotStarted
  <3> QED BY <3>1, <3>2, AroundPreserves
 <2>2. CASE ProbeBind \/ CancelRule \/ RuleRemoved \/ Outside
  BY <2>2, RuleTask
 <2>3. CASE ListenerStart
  BY <2>3, ListenerStarts
 <2>4. CASE LookupFlow \/ AcquireFirstPacket \/ ResolveFails \/ ResolveWorks \/ Insert
  BY <2>4, LooksUp, Admits, TriesTarget, Inserts
 <2>5. CASE RelaySent \/ RelayDropped \/ RelayFailed \/ ListenerDrain
  BY <2>5, Relays, Drains
 <2>6. CASE SweepSnapshot \/ SweepRemove \/ SweepCancel \/ BroomStops
  BY <2>6, ReaperLooks, ReaperRemoves, ReaperCancels
 <2>7. CASE \E s \in Sources : ReceiveDatagram(s)
  BY <2>7, Receives
 <2>8. CASE \E f \in DOMAIN udpFlow :
              Reply(f) \/ PumpFails(f) \/ Ages(f) \/ \E sc \in Scopes2 : GuardReleased(f, sc)
  BY <2>8, FlowTasks, Releases
 <2> QED BY <2>1, <2>2, <2>3, <2>4, <2>5, <2>6, <2>7, <2>8 DEF MultiUdpNext
<1>3. MultiUdpInv => MultiUdpSound
 BY DEF MultiUdpInv, MultiUdpSound
<1> QED BY <1>1, <1>2, <1>3, PTL DEF MultiUdpSpec

----
(* SNI port groups *)

\* The members of a group, or a table built from them.
IsGroup(ms) == DOMAIN ms \subseteq SniRules /\ ms \in [DOMAIN ms -> Patterns]

GroupTypeOK ==
    /\ members = [p \in SniPorts |-> members[p]]
    /\ published = [p \in SniPorts |-> published[p]]
    /\ \A p \in SniPorts : IsGroup(members[p]) /\ IsGroup(published[p])
    /\ ruleToPort \in [SniRules -> SniPorts \cup {NoPort}]
    /\ socket \in [SniPorts -> {"free", "open", "cancelled"}]
    /\ acked \subseteq SniRules
    /\ founding = NotFounding \/ \E r \in SniRules, p \in SniPorts, q \in Patterns : founding = <<r, p, q>>

\* The index leads to the group of a rule, and to no other.
IndexExact ==
    \A r \in SniRules, p \in SniPorts : r \in DOMAIN members[p] <=> ruleToPort[r] = p

\* No table in a watch channel has two rules for one pattern.
TablesBuild == \A p \in SniPorts : Builds(published[p])

\* A push between its two steps holds a port nobody else uses.
FoundingAlone ==
    founding # NotFounding =>
        /\ members[founding[2]] = NoMembers
        /\ socket[founding[2]] = "open"
        /\ ruleToPort[founding[1]] = NoPort

\* The table has the pattern an Activated rule was pushed with.
AckedPublished ==
    \A r \in acked :
        /\ ruleToPort[r] # NoPort
        /\ r \in DOMAIN published[ruleToPort[r]]

GroupInv ==
    /\ GroupTypeOK /\ IndexExact /\ TablesBuild /\ FoundingAlone /\ AckedPublished
    /\ PublishedIsCurrent

----
(* The lookup *)

LEMMA PatternShape ==
    ASSUME PortGroupAssumption, NEW p \in Patterns
    PROVE  /\ p.kind = "exact" => p.name \in Hosts
           /\ p.kind = "wildcard" => p.name \in Suffixes /\ p.name \in Seq(Labels)
           /\ p.kind \in {"exact", "wildcard", "fallback"}
           /\ p.name \in Hosts \cup Suffixes \cup {<<>>}
  BY DEF Patterns, PortGroupAssumption

LEMMA SamePattern ==
    ASSUME NEW p \in Patterns, NEW q \in Patterns, p.kind = q.kind, p.name = q.name PROVE p = q
<1> DEFINE E == [kind : {"exact"}, name : Hosts]
           W == [kind : {"wildcard"}, name : Suffixes]
           f == [kind |-> "fallback", name |-> <<>>]
<1>1. p \in E \cup W \cup {f} /\ q \in E \cup W \cup {f}
 BY DEF Patterns
<1>2. /\ \A x \in E : x.kind = "exact"
      /\ \A x \in W : x.kind = "wildcard"
      /\ f.kind = "fallback"
 OBVIOUS
<1>3. /\ \A x, y \in E : x.name = y.name => x = y
      /\ \A x, y \in W : x.name = y.name => x = y
 OBVIOUS
<1> HIDE DEF E, W, f
<1> QED BY <1>1, <1>2, <1>3

LEMMA OneFallback ==
    ASSUME NEW p \in Patterns, NEW q \in Patterns, p.kind = "fallback", q.kind = "fallback"
    PROVE  p = q
  BY DEF Patterns

\* A name one label longer than a suffix matches it when the labels agree.
LEMMA SuffixMatches ==
    ASSUME NEW host \in Seq(Labels), NEW suffix \in Seq(Labels), Len(host) = Len(suffix) + 1,
           \A i \in 1..Len(suffix) : host[i + 1] = suffix[i]
    PROVE  WildcardMatches(host, suffix)
<1>1. Len(suffix) \in Nat /\ host # <<>>
 BY EmptySeq, LenProperties
<1>2. /\ Tail(host) \in Seq(Labels) /\ Len(Tail(host)) = Len(host) - 1
      /\ \A i \in 1..Len(Tail(host)) : Tail(host)[i] = host[i + 1]
 BY <1>1
<1>3. Len(Tail(host)) = Len(suffix)
 BY <1>1, <1>2
<1>4. \A i \in 1..Len(suffix) : Tail(host)[i] = suffix[i]
 BY <1>2, <1>3
<1>5. Tail(host) = suffix
 BY <1>2, <1>3, <1>4, SeqEqual
<1> QED BY <1>5 DEF WildcardMatches

\* In a table without equal patterns, lookup finds the rule a name belongs to
\* and no other.
LEMMA LookupFinds ==
    ASSUME PortGroupAssumption, NEW table, IsGroup(table), Builds(table), NEW r \in DOMAIN table,
           NEW host \in Hosts \cup {NoSni},
           \/ table[r].kind = "exact" /\ host = table[r].name
           \/ /\ table[r].kind = "wildcard" /\ host # NoSni /\ Exact(table, host) = {}
              /\ Len(host) = Len(table[r].name) + 1
              /\ \A i \in 1..Len(table[r].name) : host[i + 1] = table[r].name[i]
           \/ table[r].kind = "fallback" /\ host = NoSni
    PROVE  Lookup(table, host) = {r}
<1>1. \A s \in DOMAIN table : table[s] \in Patterns
 BY DEF IsGroup
<1>2. \A s \in DOMAIN table : table[s].kind = table[r].kind /\ table[s].name = table[r].name => s = r
 BY <1>1, SamePattern DEF Builds
<1>3. CASE table[r].kind = "exact" /\ host = table[r].name
 <2>1. Exact(table, host) = {r}
  BY <1>2, <1>3 DEF Exact
 <2> QED BY <2>1 DEF Lookup
<1>4. CASE /\ table[r].kind = "wildcard" /\ host # NoSni /\ Exact(table, host) = {}
           /\ Len(host) = Len(table[r].name) + 1
           /\ \A i \in 1..Len(table[r].name) : host[i + 1] = table[r].name[i]
 <2>1. host \in Seq(Labels)
  BY <1>4 DEF PortGroupAssumption
 <2>2. table[r].name \in Seq(Labels)
  BY <1>1, <1>4, PatternShape
 <2>3. WildcardMatches(host, table[r].name)
  BY <1>4, <2>1, <2>2, SuffixMatches
 <2>4. \A s \in DOMAIN table : WildcardMatches(host, table[s].name) => table[s].name = table[r].name
  BY <2>3 DEF WildcardMatches
 <2>5. Wild(table, host) = {r}
  BY <1>2, <1>4, <2>3, <2>4 DEF Wild
 <2>6. Len(table[r].name) \in Nat
  BY <2>2, LenProperties
 <2>7. Longest(table, {r}) = {r}
  BY <2>6 DEF Longest
 <2> QED BY <1>4, <2>5, <2>7 DEF Lookup
<1>5. CASE table[r].kind = "fallback" /\ host = NoSni
 <2>1. Exact(table, host) = {}
  BY <1>1, <1>5, PatternShape DEF Exact, PortGroupAssumption
 <2>2. Wild(table, host) = {}
  BY <1>5 DEF Wild
 <2>3. Fallback(table) = {r}
  BY <1>1, <1>5, OneFallback DEF Fallback, Builds
 <2> QED BY <2>1, <2>2, <2>3 DEF Lookup
<1> QED BY <1>3, <1>4, <1>5

----
(* The manager *)

LEMMA GroupEmpty ==
    /\ IsGroup(NoMembers) /\ DOMAIN NoMembers = {} /\ Builds(NoMembers)
    /\ \A ms : IsGroup(ms) => (ms = NoMembers <=> DOMAIN ms = {})
<1>1. DOMAIN NoMembers = {} /\ NoMembers = [r \in {} |-> NoMembers[r]]
 BY DEF NoMembers
<1>2. IsGroup(NoMembers)
 BY <1>1 DEF IsGroup
<1>3. ASSUME NEW ms, IsGroup(ms), DOMAIN ms = {} PROVE ms = NoMembers
 <2>1. ms = [r \in {} |-> ms[r]]
  BY <1>3 DEF IsGroup
 <2> QED BY <1>1, <2>1
<1> QED BY <1>1, <1>2, <1>3 DEF Builds

LEMMA GroupWith ==
    ASSUME NEW ms, IsGroup(ms), NEW r \in SniRules, NEW q \in Patterns
    PROVE  /\ IsGroup(With(ms, r, q)) /\ DOMAIN With(ms, r, q) = DOMAIN ms \cup {r}
           /\ With(ms, r, q) # NoMembers
<1>1. /\ DOMAIN With(ms, r, q) = DOMAIN ms \cup {r}
      /\ \A s \in DOMAIN ms \cup {r} : With(ms, r, q)[s] = IF s = r THEN q ELSE ms[s]
      /\ With(ms, r, q) = [s \in DOMAIN ms \cup {r} |-> IF s = r THEN q ELSE ms[s]]
 BY DEF With
<1>2. \A s \in DOMAIN ms : ms[s] \in Patterns
 BY DEF IsGroup
<1>3. With(ms, r, q) \in [DOMAIN ms \cup {r} -> Patterns]
 BY <1>1, <1>2
<1>4. IsGroup(With(ms, r, q))
 BY <1>1, <1>3 DEF IsGroup
<1> QED BY <1>1, <1>4, GroupEmpty

LEMMA GroupWithout ==
    ASSUME NEW ms, IsGroup(ms), NEW r
    PROVE  IsGroup(WithoutMember(ms, r)) /\ DOMAIN WithoutMember(ms, r) = DOMAIN ms \ {r}
<1>1. /\ DOMAIN WithoutMember(ms, r) = DOMAIN ms \ {r}
      /\ WithoutMember(ms, r) = [s \in DOMAIN ms \ {r} |-> ms[s]]
 BY DEF WithoutMember
<1>2. \A s \in DOMAIN ms : ms[s] \in Patterns
 BY DEF IsGroup
<1>3. WithoutMember(ms, r) \in [DOMAIN ms \ {r} -> Patterns]
 BY <1>1, <1>2
<1> QED BY <1>1, <1>3 DEF IsGroup

\* What a new table leaves of the others.
LEMMA Republishes ==
    ASSUME GroupInv, NEW p \in SniPorts, NEW ms, IsGroup(ms), Republish(p, ms)
    PROVE  /\ published' = [x \in SniPorts |-> published'[x]]
           /\ \A x \in SniPorts : IsGroup(published'[x])
           /\ TablesBuild'
           /\ Builds(ms) => published'[p] = ms
           /\ ~Builds(ms) => published'[p] = published[p]
           /\ \A x \in SniPorts : x # p => published'[x] = published[x]
<1>1. /\ published = [x \in SniPorts |-> published[x]]
      /\ \A x \in SniPorts : IsGroup(published[x]) /\ Builds(published[x])
 BY DEF GroupInv, GroupTypeOK, TablesBuild
<1>2. CASE Builds(ms)
 <2>1. published' = [published EXCEPT ![p] = ms]
  BY <1>2 DEF Republish, Table
 <2>2. /\ published' = [x \in SniPorts |-> published'[x]]
       /\ published'[p] = ms
       /\ \A x \in SniPorts : x # p => published'[x] = published[x]
  BY <1>1, <2>1
 <2>3. \A x \in SniPorts : IsGroup(published'[x]) /\ Builds(published'[x])
  BY <1>1, <1>2, <2>2
 <2> QED BY <1>2, <2>2, <2>3 DEF TablesBuild
<1>3. CASE ~Builds(ms)
 <2>1. published' = published
  BY <1>3 DEF Republish
 <2> QED BY <1>1, <1>3, <2>1 DEF TablesBuild
<1> QED BY <1>2, <1>3

LEMMA GroupTyped ==
    ASSUME GroupInv
    PROVE  /\ members = [p \in SniPorts |-> members[p]] /\ published = [p \in SniPorts |-> published[p]]
           /\ \A p \in SniPorts : IsGroup(members[p]) /\ IsGroup(published[p])
           /\ ruleToPort \in [SniRules -> SniPorts \cup {NoPort}]
           /\ socket \in [SniPorts -> {"free", "open", "cancelled"}]
           /\ acked \subseteq SniRules
           /\ \A r \in acked : ruleToPort[r] \in SniPorts /\ r \in DOMAIN members[ruleToPort[r]]
                               /\ members[ruleToPort[r]] # NoMembers
<1>1. /\ members = [p \in SniPorts |-> members[p]] /\ published = [p \in SniPorts |-> published[p]]
      /\ \A p \in SniPorts : IsGroup(members[p]) /\ IsGroup(published[p])
      /\ ruleToPort \in [SniRules -> SniPorts \cup {NoPort}]
      /\ socket \in [SniPorts -> {"free", "open", "cancelled"}]
      /\ acked \subseteq SniRules
 BY DEF GroupInv, GroupTypeOK
<1>2. \A r \in acked : ruleToPort[r] \in SniPorts
 BY <1>1 DEF GroupInv, AckedPublished
<1>3. \A r \in acked : r \in DOMAIN members[ruleToPort[r]]
 BY <1>1, <1>2 DEF GroupInv, IndexExact
<1> QED BY <1>1, <1>2, <1>3, GroupEmpty

LEMMA JoinKeeps ==
    ASSUME PortGroupAssumption, GroupInv, NEW r \in SniRules, NEW p \in SniPorts, NEW q \in Patterns,
           founding = NotFounding, ruleToPort[r] = NoPort, Join(r, p, q)
    PROVE  GroupInv'
<1> DEFINE ms == With(members[p], r, q)
<1>1. /\ members[p] # NoMembers /\ members' = [members EXCEPT ![p] = ms]
      /\ ruleToPort' = [ruleToPort EXCEPT ![r] = p]
      /\ Republish(p, ms)
      /\ acked' = IF Builds(ms) THEN acked \cup {r} ELSE acked
      /\ socket' = socket /\ founding' = founding
 BY DEF Join
<1>2. IsGroup(ms) /\ DOMAIN ms = DOMAIN members[p] \cup {r} /\ ms # NoMembers
 BY GroupTyped, GroupWith
<1> HIDE DEF ms
<1>3. /\ published' = [x \in SniPorts |-> published'[x]]
      /\ \A x \in SniPorts : IsGroup(published'[x])
      /\ TablesBuild'
      /\ Builds(ms) => published'[p] = ms
      /\ ~Builds(ms) => published'[p] = published[p]
      /\ \A x \in SniPorts : x # p => published'[x] = published[x]
 BY <1>1, <1>2, Republishes
<1>4. /\ members' = [x \in SniPorts |-> members'[x]] /\ members'[p] = ms
      /\ \A x \in SniPorts : x # p => members'[x] = members[x]
 BY <1>1, GroupTyped
<1>5. /\ ruleToPort' \in [SniRules -> SniPorts \cup {NoPort}] /\ ruleToPort'[r] = p
      /\ \A s \in SniRules : s # r => ruleToPort'[s] = ruleToPort[s]
 BY <1>1, GroupTyped
<1>6. GroupTypeOK'
 <2>1. \A x \in SniPorts : IsGroup(members'[x])
  BY <1>2, <1>4, GroupTyped
 <2>2. acked' \subseteq SniRules /\ socket' \in [SniPorts -> {"free", "open", "cancelled"}]
  BY <1>1, GroupTyped
 <2> QED BY <1>1, <1>3, <1>4, <1>5, <2>1, <2>2 DEF GroupTypeOK
<1>7. IndexExact'
 <2>1. \A s \in SniRules, x \in SniPorts : s \in DOMAIN members[x] <=> ruleToPort[s] = x
  BY DEF GroupInv, IndexExact
 <2>2. \A s \in SniRules, x \in SniPorts : s \in DOMAIN members'[x] <=> ruleToPort'[s] = x
  BY <1>2, <1>4, <1>5, <2>1 DEF PortGroupAssumption
 <2> QED BY <2>2 DEF IndexExact
<1>8. AckedPublished'
 <2>1. ASSUME NEW s \in acked', s # r
       PROVE  ruleToPort'[s] # NoPort /\ s \in DOMAIN published'[ruleToPort'[s]]
  <3>1. s \in acked /\ ruleToPort'[s] = ruleToPort[s]
   BY <1>1, <1>5, <2>1, GroupTyped
  <3>2. ruleToPort[s] \in SniPorts /\ s \in DOMAIN members[ruleToPort[s]]
        /\ s \in DOMAIN published[ruleToPort[s]] /\ ruleToPort[s] # NoPort
   BY <3>1, GroupTyped DEF GroupInv, AckedPublished
  <3> QED BY <1>2, <1>3, <3>1, <3>2
 <2>2. ASSUME r \in acked' PROVE ruleToPort'[r] # NoPort /\ r \in DOMAIN published'[ruleToPort'[r]]
  <3>1. Builds(ms)
   BY <1>1, <2>2 DEF GroupInv, AckedPublished
  <3> QED BY <1>2, <1>3, <1>5, <3>1 DEF PortGroupAssumption
 <2> QED BY <2>1, <2>2 DEF AckedPublished
<1>9. FoundingAlone'
 BY <1>1 DEF FoundingAlone
<1>10. PublishedIsCurrent'
 BY <1>1, <1>3, <1>4 DEF GroupInv, PublishedIsCurrent, Table
<1> QED BY <1>3, <1>6, <1>7, <1>8, <1>9, <1>10 DEF GroupInv

\* Connections, and pushes that leave no trace.
LEMMA GroupsUntouched ==
    ASSUME GroupInv, UNCHANGED <<members, ruleToPort, published, socket, acked, founding>>
    PROVE  GroupInv'
  BY DEF GroupInv, GroupTypeOK, IndexExact, TablesBuild, FoundingAlone, AckedPublished,
   PublishedIsCurrent

LEMMA FoundKeeps ==
    ASSUME PortGroupAssumption, GroupInv, NEW r \in SniRules, NEW p \in SniPorts, NEW q \in Patterns,
           founding = NotFounding, ruleToPort[r] = NoPort, Found(r, p, q)
    PROVE  GroupInv'
<1>1. members[p] = NoMembers /\ members' = members /\ ruleToPort' = ruleToPort /\ acked' = acked
 BY DEF Found
<1>2. CASE UNCHANGED <<socket, published, founding>>
 BY <1>1, <1>2, GroupsUntouched
<1>3. CASE /\ socket[p] = "free" /\ socket' = [socket EXCEPT ![p] = "open"]
           /\ published' = [published EXCEPT ![p] = NoMembers]
           /\ founding' = <<r, p, q>>
 <2>1. /\ socket' \in [SniPorts -> {"free", "open", "cancelled"}] /\ socket'[p] = "open"
       /\ \A x \in SniPorts : x # p => socket'[x] = socket[x]
  BY <1>3, GroupTyped
 <2>2. /\ published' = [x \in SniPorts |-> published'[x]] /\ published'[p] = NoMembers
       /\ \A x \in SniPorts : x # p => published'[x] = published[x]
  BY <1>3, GroupTyped
 <2>3. \A x \in SniPorts : IsGroup(published'[x]) /\ Builds(published'[x])
  BY <2>2, GroupTyped, GroupEmpty DEF GroupInv, TablesBuild
 <2> USE <1>1
 <2>4. GroupTypeOK'
  BY <1>3, <2>1, <2>2, <2>3, GroupTyped DEF GroupTypeOK
 <2>5. FoundingAlone'
  <3>1. founding'[1] = r /\ founding'[2] = p
   BY <1>3
  <3> QED BY <2>1, <3>1 DEF FoundingAlone
 <2> USE DEF GroupInv
 <2>6. AckedPublished'
  <3>1. \A s \in acked : ruleToPort[s] \in SniPorts /\ ruleToPort[s] # p
   BY GroupTyped
  <3> QED BY <2>2, <3>1 DEF AckedPublished
 <2>7. IndexExact' /\ TablesBuild'
  BY <2>3 DEF IndexExact, TablesBuild
 <2>8. PublishedIsCurrent'
  BY <2>1, <2>2 DEF PublishedIsCurrent
 <2> QED BY <2>4, <2>5, <2>6, <2>7, <2>8
<1> QED BY <1>2, <1>3 DEF Found

LEMMA FirstTableKeeps ==
    ASSUME PortGroupAssumption, GroupInv, FirstTable PROVE GroupInv'
<1>0. founding # NotFounding
 BY DEF FirstTable
<1>1. PICK r \in SniRules, p \in SniPorts, q \in Patterns : founding = <<r, p, q>>
 BY <1>0 DEF GroupInv, GroupTypeOK
<1> DEFINE ms == With(NoMembers, r, q)
<1>2. founding[1] = r /\ founding[2] = p /\ founding[3] = q
 BY <1>1
<1>3. /\ members' = [members EXCEPT ![p] = ms]
      /\ ruleToPort' = [ruleToPort EXCEPT ![r] = p]
      /\ Republish(p, ms)
      /\ acked' = acked \cup {r}
      /\ founding' = NotFounding /\ socket' = socket
 BY <1>2 DEF FirstTable
<1>4. members[p] = NoMembers /\ socket[p] = "open" /\ ruleToPort[r] = NoPort
 BY <1>0, <1>2 DEF GroupInv, FoundingAlone
<1>5. IsGroup(ms) /\ DOMAIN ms = {r} /\ ms # NoMembers
 <2>1. IsGroup(NoMembers) /\ DOMAIN NoMembers = {}
  BY GroupEmpty
 <2>2. /\ IsGroup(ms) /\ DOMAIN ms = DOMAIN NoMembers \cup {r} /\ ms # NoMembers
  BY <2>1, GroupWith
 <2> QED BY <2>1, <2>2
<1>6. Builds(ms)
 BY <1>5 DEF Builds
<1> HIDE DEF ms
<1>7. /\ published' = [x \in SniPorts |-> published'[x]]
      /\ \A x \in SniPorts : IsGroup(published'[x])
      /\ TablesBuild'
      /\ published'[p] = ms
      /\ \A x \in SniPorts : x # p => published'[x] = published[x]
 BY <1>3, <1>5, <1>6, Republishes
<1>8. /\ members' = [x \in SniPorts |-> members'[x]] /\ members'[p] = ms
      /\ \A x \in SniPorts : x # p => members'[x] = members[x]
 BY <1>3, GroupTyped
<1>9. /\ ruleToPort' \in [SniRules -> SniPorts \cup {NoPort}] /\ ruleToPort'[r] = p
      /\ \A s \in SniRules : s # r => ruleToPort'[s] = ruleToPort[s]
 BY <1>3, GroupTyped
<1>10. GroupTypeOK'
 <2>1. \A x \in SniPorts : IsGroup(members'[x])
  BY <1>5, <1>8, GroupTyped
 <2>2. acked' \subseteq SniRules /\ socket' \in [SniPorts -> {"free", "open", "cancelled"}]
  BY <1>3, GroupTyped
 <2> QED BY <1>3, <1>7, <1>8, <1>9, <2>1, <2>2 DEF GroupTypeOK
<1>11. IndexExact'
 <2>1. \A s \in SniRules, x \in SniPorts : s \in DOMAIN members[x] <=> ruleToPort[s] = x
  BY DEF GroupInv, IndexExact
 <2>2. \A s \in SniRules : ruleToPort[s] # p
  BY <1>4, <2>1, GroupEmpty
 <2>3. \A s \in SniRules, x \in SniPorts : s \in DOMAIN members'[x] <=> ruleToPort'[s] = x
  BY <1>4, <1>5, <1>8, <1>9, <2>1, <2>2 DEF PortGroupAssumption
 <2> QED BY <2>3 DEF IndexExact
<1>12. AckedPublished'
 <2>1. \A s \in acked : ruleToPort[s] \in SniPorts /\ ruleToPort[s] # p /\ s # r /\ ruleToPort[s] # NoPort
  BY <1>4, GroupTyped DEF PortGroupAssumption
 <2>2. \A s \in acked : ruleToPort'[s] = ruleToPort[s] /\ s \in DOMAIN published'[ruleToPort[s]]
  BY <1>7, <1>9, <2>1, GroupTyped DEF GroupInv, AckedPublished
 <2>3. ruleToPort'[r] # NoPort /\ r \in DOMAIN published'[ruleToPort'[r]]
  BY <1>5, <1>7, <1>9 DEF PortGroupAssumption
 <2> QED BY <1>3, <2>1, <2>2, <2>3 DEF AckedPublished
<1>13. FoundingAlone'
 BY <1>3 DEF FoundingAlone
<1>14. PublishedIsCurrent'
 BY <1>3, <1>4, <1>7, <1>8 DEF GroupInv, PublishedIsCurrent, Table
<1> QED BY <1>7, <1>10, <1>11, <1>12, <1>13, <1>14 DEF GroupInv

LEMMA RemoveRuleKeeps ==
    ASSUME PortGroupAssumption, GroupInv, NEW r \in SniRules, RemoveRule(r) PROVE GroupInv'
<1> DEFINE p == ruleToPort[r]
           ms == WithoutMember(members[p], r)
<1>1. /\ founding = NotFounding /\ p # NoPort
      /\ ruleToPort' = [ruleToPort EXCEPT ![r] = NoPort]
      /\ members' = [members EXCEPT ![p] = ms]
      /\ IF ms = NoMembers
         THEN socket' = [socket EXCEPT ![p] = "cancelled"] /\ published' = published
         ELSE Republish(p, ms) /\ socket' = socket
      /\ acked' = acked \ {r} /\ founding' = founding
 BY DEF RemoveRule
<1>2. p \in SniPorts
 BY <1>1, GroupTyped
<1>3. IsGroup(ms) /\ DOMAIN ms = DOMAIN members[p] \ {r}
 BY <1>2, GroupTyped, GroupWithout
<1>4. r \in DOMAIN members[p] /\ members[p] # NoMembers
 BY <1>2, GroupEmpty DEF GroupInv, IndexExact
<1>5. socket[p] = "open"
 BY <1>2, <1>4 DEF GroupInv, PublishedIsCurrent
<1>6. \A s \in SniRules, x \in SniPorts : s \in DOMAIN members[x] <=> ruleToPort[s] = x
 BY DEF GroupInv, IndexExact
<1>7. p = ruleToPort[r]
 OBVIOUS
<1> HIDE DEF ms, p
<1>8. /\ published' = [x \in SniPorts |-> published'[x]]
      /\ \A x \in SniPorts : IsGroup(published'[x])
      /\ TablesBuild'
      /\ ms # NoMembers /\ Builds(ms) => published'[p] = ms
      /\ ms = NoMembers \/ ~Builds(ms) => published'[p] = published[p]
      /\ \A x \in SniPorts : x # p => published'[x] = published[x]
 <2>1. CASE ms = NoMembers
  BY <1>1, <2>1, GroupTyped DEF GroupInv, TablesBuild
 <2>2. CASE ms # NoMembers
  BY <1>1, <1>2, <1>3, <2>2, Republishes
 <2> QED BY <2>1, <2>2
<1>9. /\ members' = [x \in SniPorts |-> members'[x]] /\ members'[p] = ms
      /\ \A x \in SniPorts : x # p => members'[x] = members[x]
 BY <1>1, <1>2, GroupTyped
<1>10. /\ ruleToPort' \in [SniRules -> SniPorts \cup {NoPort}] /\ ruleToPort'[r] = NoPort
       /\ \A s \in SniRules : s # r => ruleToPort'[s] = ruleToPort[s]
 BY <1>1, GroupTyped
<1>11. /\ socket' \in [SniPorts -> {"free", "open", "cancelled"}]
       /\ ms # NoMembers => socket'[p] = socket[p]
       /\ \A x \in SniPorts : x # p => socket'[x] = socket[x]
 BY <1>1, <1>2, GroupTyped
<1>12. GroupTypeOK'
 <2>1. \A x \in SniPorts : IsGroup(members'[x])
  BY <1>3, <1>9, GroupTyped
 <2>2. acked' \subseteq SniRules
  BY <1>1, GroupTyped
 <2> QED BY <1>1, <1>8, <1>9, <1>10, <1>11, <2>1, <2>2 DEF GroupTypeOK
<1>13. IndexExact'
 <2>1. \A s \in SniRules, x \in SniPorts : s \in DOMAIN members'[x] <=> ruleToPort'[s] = x
  BY <1>3, <1>6, <1>7, <1>9, <1>10 DEF PortGroupAssumption
 <2> QED BY <2>1 DEF IndexExact
<1>14. AckedPublished'
 <2> SUFFICES ASSUME NEW s \in acked'
              PROVE  ruleToPort'[s] # NoPort /\ s \in DOMAIN published'[ruleToPort'[s]]
  BY DEF AckedPublished
 <2>1. s \in acked /\ s # r /\ s \in SniRules /\ ruleToPort'[s] = ruleToPort[s]
  BY <1>1, <1>10, GroupTyped
 <2>2. /\ ruleToPort[s] \in SniPorts /\ ruleToPort[s] # NoPort
       /\ s \in DOMAIN members[ruleToPort[s]] /\ s \in DOMAIN published[ruleToPort[s]]
  BY <2>1, GroupTyped DEF GroupInv, AckedPublished
 <2> QED BY <1>3, <1>8, <2>1, <2>2
<1>15. FoundingAlone'
 BY <1>1 DEF FoundingAlone
<1>16. PublishedIsCurrent'
 <2>1. \A x \in SniPorts : members[x] # NoMembers =>
           socket[x] = "open" /\ (Builds(members[x]) => published[x] = Table(members[x]))
  BY DEF GroupInv, PublishedIsCurrent
 <2>2. \A x \in SniPorts : members'[x] # NoMembers =>
           socket'[x] = "open" /\ (Builds(members'[x]) => published'[x] = Table(members'[x]))
  BY <1>5, <1>8, <1>9, <1>11, <2>1 DEF Table
 <2> QED BY <2>2 DEF PublishedIsCurrent
<1> QED BY <1>8, <1>12, <1>13, <1>14, <1>15, <1>16 DEF GroupInv

LEMMA ShutdownGroupsKeeps ==
    ASSUME PortGroupAssumption, GroupInv, ShutdownGroups PROVE GroupInv'
<1>1. /\ founding = NotFounding /\ founding' = founding /\ published' = published /\ acked' = {}
      /\ socket' = [p \in SniPorts |-> IF members[p] = NoMembers THEN socket[p] ELSE "cancelled"]
      /\ members' = [p \in SniPorts |-> NoMembers] /\ ruleToPort' = [r \in SniRules |-> NoPort]
 BY DEF ShutdownGroups
<1> USE <1>1
<1>2. \A p \in SniPorts : members'[p] = NoMembers
 OBVIOUS
<1>3. members' = [p \in SniPorts |-> members'[p]]
 OBVIOUS
<1>4. socket' \in [SniPorts -> {"free", "open", "cancelled"}]
 BY GroupTyped
<1>5. \A p \in SniPorts : IsGroup(members'[p])
 BY <1>2, GroupEmpty
<1>6. GroupTypeOK'
 BY <1>3, <1>4, <1>5, GroupTyped DEF GroupTypeOK
<1>7. IndexExact'
 BY <1>2, GroupEmpty DEF IndexExact, PortGroupAssumption
<1>8. TablesBuild' /\ FoundingAlone' /\ AckedPublished' /\ PublishedIsCurrent'
 BY <1>2 DEF GroupInv, TablesBuild, FoundingAlone, AckedPublished, PublishedIsCurrent
<1> QED BY <1>6, <1>7, <1>8 DEF GroupInv

LEMMA ListenerExitsKeeps ==
    ASSUME GroupInv, NEW p \in SniPorts, ListenerExits(p) PROVE GroupInv'
<1>1. /\ socket[p] = "cancelled" /\ socket' = [socket EXCEPT ![p] = "free"]
      /\ members' = members /\ ruleToPort' = ruleToPort /\ published' = published /\ acked' = acked
      /\ founding' = founding
 BY DEF ListenerExits
<1> USE <1>1
<1>2. /\ socket' \in [SniPorts -> {"free", "open", "cancelled"}]
      /\ \A x \in SniPorts : x # p => socket'[x] = socket[x]
 BY GroupTyped
<1> USE DEF GroupInv
<1>3. members[p] = NoMembers
 BY DEF PublishedIsCurrent
<1>4. GroupTypeOK'
 BY <1>2 DEF GroupTypeOK
<1>5. IndexExact' /\ TablesBuild' /\ AckedPublished'
 BY DEF IndexExact, TablesBuild, AckedPublished
<1>6. PublishedIsCurrent'
 BY <1>2, <1>3 DEF PublishedIsCurrent
<1>7. FoundingAlone'
 <2>1. founding # NotFounding => founding[2] \in SniPorts /\ founding[2] # p
  BY DEF GroupTypeOK, FoundingAlone
 <2> QED BY <1>2, <2>1 DEF FoundingAlone
<1> QED BY <1>4, <1>5, <1>6, <1>7

LEMMA GroupStarts ==
    ASSUME PortGroupAssumption, PortGroupInit PROVE GroupInv
<1>1. /\ members = [p \in SniPorts |-> NoMembers] /\ ruleToPort = [r \in SniRules |-> NoPort]
      /\ published = [p \in SniPorts |-> NoMembers] /\ socket = [p \in SniPorts |-> "free"]
      /\ acked = {} /\ founding = NotFounding
 BY DEF PortGroupInit
<1> USE <1>1
<1>2. \A p \in SniPorts : members[p] = NoMembers /\ published[p] = NoMembers
 OBVIOUS
<1>3. members = [p \in SniPorts |-> members[p]] /\ published = [p \in SniPorts |-> published[p]]
 OBVIOUS
<1>4. \A p \in SniPorts : IsGroup(members[p]) /\ IsGroup(published[p]) /\ Builds(published[p])
 BY <1>2, GroupEmpty
<1>5. GroupTypeOK
 BY <1>3, <1>4 DEF GroupTypeOK
<1>6. IndexExact
 BY <1>2, GroupEmpty DEF IndexExact, PortGroupAssumption
<1>7. TablesBuild /\ FoundingAlone /\ AckedPublished /\ PublishedIsCurrent
 BY <1>2, <1>4 DEF TablesBuild, FoundingAlone, AckedPublished, PublishedIsCurrent
<1> QED BY <1>5, <1>6, <1>7 DEF GroupInv

LEMMA PushRuleKeeps ==
    ASSUME PortGroupAssumption, GroupInv, NEW r \in SniRules, NEW p \in SniPorts, NEW q \in Patterns,
           PushRule(r, p, q)
    PROVE  GroupInv'
<1>1. founding = NotFounding /\ ruleToPort[r] = NoPort /\ (Join(r, p, q) \/ Found(r, p, q))
 BY DEF PushRule
<1> QED BY <1>1, JoinKeeps, FoundKeeps

LEMMA GroupNextKeeps ==
    ASSUME PortGroupAssumption, GroupInv, [PortGroupNext]_portGroupVars PROVE GroupInv'
<1>1. CASE UNCHANGED portGroupVars
 BY <1>1, GroupsUntouched DEF portGroupVars
<1>2. CASE \E r \in SniRules, p \in SniPorts, q \in Patterns : PushRule(r, p, q)
 BY <1>2, PushRuleKeeps
<1>3. CASE \E r \in SniRules : RemoveRule(r)
 BY <1>3, RemoveRuleKeeps
<1>4. CASE FirstTable \/ ShutdownGroups \/ \E p \in SniPorts : ListenerExits(p)
 BY <1>4, FirstTableKeeps, ShutdownGroupsKeeps, ListenerExitsKeeps
<1> USE GroupsUntouched
<1>5. CASE \E c \in Peers, p \in SniPorts : AcceptPeer(c, p)
 BY <1>5 DEF AcceptPeer
<1>6. CASE \E c \in Peers, host \in Hosts \cup {NoSni} : Route(c, host)
 BY <1>6 DEF Route
<1>7. CASE \E c \in Peers : PeerEnds(c)
 BY <1>7 DEF PeerEnds
<1> QED BY <1>1, <1>2, <1>3, <1>4, <1>5, <1>6, <1>7 DEF PortGroupNext

LEMMA GroupInvGives ==
    ASSUME PortGroupAssumption, GroupInv PROVE RoutesSound
<1>1. ASSUME NEW r \in acked, NEW table, table = published[ruleToPort[r]]
      PROVE  r \in DOMAIN table /\ IsGroup(table) /\ Builds(table)
 BY <1>1, GroupTyped DEF GroupInv, AckedPublished, TablesBuild
<1>2. ActivatedIsRouted
 <2> SUFFICES ASSUME NEW r \in acked
              PROVE  LET table == published[ruleToPort[r]]
                         p == table[r]
                     IN  /\ r \in DOMAIN table
                         /\ \A host \in Hosts \cup {NoSni} :
                               \/ p.kind = "exact" /\ host = p.name
                               \/ /\ p.kind = "wildcard" /\ host /= NoSni /\ Exact(table, host) = {}
                                  /\ Len(host) = Len(p.name) + 1
                                  /\ \A i \in 1..Len(p.name) : host[i + 1] = p.name[i]
                               \/ p.kind = "fallback" /\ host = NoSni
                               => Lookup(table, host) = {r}
  BY DEF ActivatedIsRouted
 <2> DEFINE table == published[ruleToPort[r]]
 <2>1. r \in DOMAIN table /\ IsGroup(table) /\ Builds(table)
  BY <1>1
 <2> HIDE DEF table
 <2>2. ASSUME NEW host \in Hosts \cup {NoSni},
              \/ table[r].kind = "exact" /\ host = table[r].name
              \/ /\ table[r].kind = "wildcard" /\ host /= NoSni /\ Exact(table, host) = {}
                 /\ Len(host) = Len(table[r].name) + 1
                 /\ \A i \in 1..Len(table[r].name) : host[i + 1] = table[r].name[i]
              \/ table[r].kind = "fallback" /\ host = NoSni
       PROVE  Lookup(table, host) = {r}
  BY <2>1, <2>2, LookupFinds
 <2> QED BY <2>1, <2>2 DEF table
<1> QED BY <1>2 DEF GroupInv, RoutesSound

\* For every set of rules, ports, names and suffixes: the published table is
\* the members of its group whenever they build, and a rule reported
\* Activated is the one lookup finds for the names of its pattern
\* (port_groups.rs, sni/route_table.rs).
THEOREM RoutesCorrect == PortGroupSpec => []RoutesSound
<1>1. PortGroupInit => GroupInv
 BY GroupStarts, PortGroupAssumption
<1>2. GroupInv /\ [PortGroupNext]_portGroupVars => GroupInv'
 BY GroupNextKeeps, PortGroupAssumption
<1>3. GroupInv => RoutesSound
 BY GroupInvGives, PortGroupAssumption
<1> QED BY <1>1, <1>2, <1>3, PTL DEF PortGroupSpec

----
\* One element joins, leaves or stays: the count follows.
LEMMA OneMoves ==
    ASSUME NEW S, NEW T, NEW a, IsFiniteSet(S), \A b : b # a => (b \in S <=> b \in T)
    PROVE  /\ IsFiniteSet(T) /\ Cardinality(S) \in Nat /\ Cardinality(T) \in Nat
           /\ Cardinality(T) = Cardinality(S) - (IF a \in S THEN 1 ELSE 0)
                                              + (IF a \in T THEN 1 ELSE 0)
<1> DEFINE R == S \ {a}
<1>1. IsFiniteSet(R) /\ Cardinality(R) = IF a \in S THEN Cardinality(S) - 1 ELSE Cardinality(S)
 BY FS_RemoveElement
<1>2. (a \in T => T = R \cup {a}) /\ (a \notin T => T = R) /\ a \notin R
 OBVIOUS
<1> HIDE DEF R
<1> USE <1>1
<1>3. IsFiniteSet(R \cup {a}) /\ Cardinality(R \cup {a}) = Cardinality(R) + 1
 BY <1>2, FS_AddElement
<1>4. Cardinality(S) \in Nat /\ Cardinality(R) \in Nat
 BY FS_CardinalityType
<1>5. CASE a \in T
 <2>1. IsFiniteSet(T) /\ Cardinality(T) = Cardinality(R) + 1
  BY <1>2, <1>3, <1>5
 <2> QED BY <1>4, <1>5, <2>1
<1>6. CASE a \notin T
 <2>1. IsFiniteSet(T) /\ Cardinality(T) = Cardinality(R)
  BY <1>2, <1>6
 <2> QED BY <1>4, <1>6, <2>1
<1> QED BY <1>5, <1>6

----
(* The parser of the SNI peek *)

\* A whole record is a hello or broken, never unfinished.
LEMMA FragmentDecides ==
    ASSUME NEW f PROVE ParseFragment(f) = Malformed \/ ParseFragment(f).what = "hello"
  BY DEF ParseFragment, ParseBody, Unnamed, Outcome

\* More bytes never change the verdict of the bytes that decided it, and a record
\* is whole before the cap.
LEMMA ParsePrefix ==
    ASSUME NEW s \in Seq(Nat), NEW n \in 0..Len(s)
    PROVE  /\ Parse(SubSeq(s, 1, n)) # Truncated => Parse(SubSeq(s, 1, n)) = Parse(s)
           /\ Parse(SubSeq(s, 1, n)) = Truncated => n < MaxRecord + 3
           /\ Parse(SubSeq(s, 1, n)) = Truncated
                \/ Parse(SubSeq(s, 1, n)).what \in {"hello", "not tls", "malformed"}
           /\ Parse(SubSeq(s, 1, n)).what = "hello" => Parse(SubSeq(s, 1, n)) # Truncated
<1> DEFINE p == SubSeq(s, 1, n)
<1>0. Len(s) \in Nat /\ n \in Nat /\ n <= Len(s) /\ MaxRecord \in Nat
 BY SniPeekAssumption
<1>1. p \in Seq(Nat) /\ Len(p) = n /\ \A i \in 1..n : p[i] = s[i]
 <2>1. \A i \in 1..n : s[i] \in Nat
  BY <1>0
 <2>2. /\ p \in Seq(Nat) /\ Len(p) = (IF 1 <= n THEN n - 1 + 1 ELSE 0)
       /\ \A i \in 1..(n - 1 + 1) : p[i] = s[1 + i - 1]
  <3> HIDE DEF p
  <3> QED BY <1>0, <2>1, SubSeqProperties DEF p
 <2> HIDE DEF p
 <2> QED BY <1>0, <2>2
<1> HIDE DEF p
<1>2. /\ Truncated # NotTls /\ Truncated # Malformed /\ Truncated.what = "truncated"
      /\ NotTls.what = "not tls" /\ Malformed.what = "malformed"
 BY DEF Truncated, NotTls, Malformed, Outcome
<1>3. CASE n < 3
 <2>1. Parse(p) = Truncated
  BY <1>0, <1>1, <1>3 DEF Parse
 <2>2. n < MaxRecord + 3
  BY <1>0, <1>3
 <2> QED BY <1>2, <2>1, <2>2 DEF p
<1>4. CASE n >= 3
 <2>1. p[1] = s[1] /\ p[2] = s[2] /\ p[3] = s[3] /\ s[3] \in Nat /\ Len(s) >= 3
       /\ ~(Len(p) < 3) /\ ~(Len(s) < 3)
  BY <1>0, <1>1, <1>4
 <2>2. CASE s[1] # Handshake \/ s[2] # Major
  <3>1. Parse(p) = NotTls /\ Parse(s) = NotTls
   BY <2>1, <2>2 DEF Parse
  <3> QED BY <1>2, <3>1 DEF p
 <2>3. CASE s[1] = Handshake /\ s[2] = Major /\ (s[3] = 0 \/ s[3] > MaxRecord)
  <3>1. Parse(p) = Malformed /\ Parse(s) = Malformed
   BY <2>1, <2>3 DEF Parse
  <3> QED BY <1>2, <3>1 DEF p
 <2>4. CASE s[1] = Handshake /\ s[2] = Major /\ ~(s[3] = 0 \/ s[3] > MaxRecord)
  <3>1. CASE n < 3 + s[3]
   <4>1. Parse(p) = Truncated
    BY <1>1, <2>1, <2>4, <3>1 DEF Parse
   <4>2. n < MaxRecord + 3
    BY <1>0, <2>1, <2>4, <3>1
   <4> QED BY <1>2, <4>1, <4>2 DEF p
  <3>2. CASE ~(n < 3 + s[3])
   <4>1. ~(Len(s) < 3 + s[3])
    BY <1>0, <2>1, <3>2
   <4>2. SubSeq(p, 4, 3 + s[3]) = SubSeq(s, 4, 3 + s[3])
    <5>1. \A i \in 4..(3 + s[3]) : i \in 1..n /\ p[i] = s[i] /\ s[i] \in Nat /\ p[i] \in Nat
     <6>1. \A i \in 4..(3 + s[3]) : i \in 1..n
      BY <1>0, <2>1, <3>2
     <6>2. \A i \in 1..n : p[i] = s[i] /\ s[i] \in Nat
      BY <1>0, <1>1
     <6> QED BY <6>1, <6>2
    <5>2. 4 \in Int /\ 3 + s[3] \in Int /\ s[3] \in Nat /\ s[3] > 0
     BY <2>1, <2>4
    <5> DEFINE m == 3 + s[3]
    <5>3. /\ SubSeq(p, 4, m) \in Seq(Nat) /\ Len(SubSeq(p, 4, m)) = IF 4 <= m THEN m - 4 + 1 ELSE 0
          /\ \A i \in 1..(m - 4 + 1) : SubSeq(p, 4, m)[i] = p[4 + i - 1]
     BY <5>1, <5>2, SubSeqProperties
    <5>4. /\ SubSeq(s, 4, m) \in Seq(Nat) /\ Len(SubSeq(s, 4, m)) = IF 4 <= m THEN m - 4 + 1 ELSE 0
          /\ \A i \in 1..(m - 4 + 1) : SubSeq(s, 4, m)[i] = s[4 + i - 1]
     BY <5>1, <5>2, SubSeqProperties
    <5>5. /\ m - 4 + 1 = s[3] /\ 4 <= m
          /\ \A i \in 1..s[3] : 4 + i - 1 \in 4..m
     BY <5>2
    <5>6. /\ Len(SubSeq(p, 4, m)) = s[3] /\ Len(SubSeq(s, 4, m)) = s[3]
          /\ \A i \in 1..s[3] : SubSeq(p, 4, m)[i] = SubSeq(s, 4, m)[i]
     <6> HIDE DEF m
     <6> QED BY <5>1, <5>3, <5>4, <5>5 DEF m
    <5> HIDE DEF m
    <5>7. SubSeq(p, 4, m) = SubSeq(s, 4, m)
     BY <5>3, <5>4, <5>6, SeqEqual
    <5> QED BY <5>7 DEF m
   <4>3. Parse(s) = ParseFragment(SubSeq(s, 4, 3 + s[3]))
    BY <2>1, <2>4, <4>1 DEF Parse
   <4>4. Parse(p) = ParseFragment(SubSeq(p, 4, 3 + s[3]))
    BY <1>1, <2>1, <2>4, <3>2 DEF Parse
   <4>5. Parse(p) = Parse(s) /\ (Parse(p) = Malformed \/ Parse(p).what = "hello")
    BY <4>2, <4>3, <4>4, FragmentDecides
   <4> QED BY <1>2, <4>5 DEF p
  <3> QED BY <3>1, <3>2
 <2> QED BY <2>2, <2>3, <2>4
<1>5. n < 3 \/ n >= 3
 BY <1>0
<1> QED BY <1>3, <1>4, <1>5

----
(* What is known of every peeked connection *)

Unjudged == {"none", "refused", "reading"}
Routed == {"routed", "dialed", "relaying", "done"}

\* What the target has of a connection: nothing, the PROXY header, or that and
\* what was read of the stream s.
TargetHas(f, s, n) ==
    \/ f = <<>>
    \/ f \in Preludes
    \/ \E prelude \in Preludes : f = prelude \o SubSeq(s, 1, n)

\* The stream s of a connection, what has arrived of it, the pieces it came in,
\* its task p and what the target has.
Fits(s, got, pieces, p, f) ==
    /\ s \in Seq(Nat)
    /\ got \in 0..Len(s)
    /\ pieces \in 0..MaxSends
    /\ DOMAIN p = {"at", "read", "verdict"}
    /\ p.at \in Stages /\ p.read \in 0..got
    /\ p.at \in Unjudged => p.verdict = Truncated
    /\ p.at \in {"none", "refused"} => p.read = 0
    /\ p.at \in Unjudged \cup {"failed"} => Parse(SubSeq(s, 1, p.read)) = Truncated
    /\ p.at = "failed" => p.verdict = Parse(s) \/ p.verdict.what \in {"timeout", "io"}
    /\ p.at \in {"peeked", "dropped"} \cup Routed =>
           p.verdict = Parse(s) /\ p.verdict.what = "hello"
    /\ p.at \in Stages \ {"dialed", "relaying", "done"} => f = <<>>
    /\ p.at = "dialed" => f \in Preludes
    /\ p.at = "relaying" => \E prelude \in Preludes : f = prelude \o SubSeq(s, 1, p.read)
    /\ p.at = "done" => TargetHas(f, s, p.read)

PeekFits(d) == Fits(offer[d].stream, arrived[d], sends[d], peek[d], forwarded[d])

PeekShape ==
    /\ \E o \in Offers : offer = o.streams
    /\ arrived \in [Dialers -> Nat] /\ sends \in [Dialers -> 0..MaxSends]
    /\ DOMAIN peek = Dialers /\ DOMAIN forwarded = Dialers
    /\ closed \subseteq Dialers /\ late \subseteq Dialers

PeekCounts ==
    /\ peekPermits \in Nat
    /\ tallies \in [Tallies -> Nat]
    /\ buckets \in [inTime : Nat, count : Nat]
    /\ PermitsExact /\ CountedOnce

PeekInv == PeekShape /\ PeekCounts /\ \A d \in Dialers : PeekFits(d)

\* A step of one connection leaves the others as they are.
LEMMA OthersFit ==
    ASSUME PeekInv, NEW d \in Dialers, UNCHANGED offer, PeekFits(d)',
           \A e \in Dialers : e # d =>
              /\ arrived'[e] = arrived[e] /\ sends'[e] = sends[e]
              /\ peek'[e] = peek[e] /\ forwarded'[e] = forwarded[e]
    PROVE  \A e \in Dialers : PeekFits(e)'
<1>1. ASSUME NEW e \in Dialers, e # d PROVE PeekFits(e)'
 <2>1. PeekFits(e)
  BY DEF PeekInv
 <2> QED BY <1>1, <2>1 DEF PeekFits
<1> QED BY <1>1

\* The counts of the stages follow a connection that moves.
LEMMA StageMoves ==
    ASSUME PeekInv, NEW d \in Dialers, NEW X,
           \A e \in Dialers : e # d => peek'[e] = peek[e]
    PROVE  /\ Cardinality(PeeksAt(X)) \in Nat /\ Cardinality(PeeksAt(X)') \in Nat
           /\ Cardinality(PeeksAt(X)') = Cardinality(PeeksAt(X))
                 - (IF peek[d].at \in X THEN 1 ELSE 0) + (IF peek'[d].at \in X THEN 1 ELSE 0)
<1> DEFINE S == PeeksAt(X)  T == {e \in Dialers : peek'[e].at \in X}
<1>1. PeeksAt(X)' = T
 BY DEF PeeksAt
<1>2. IsFiniteSet(S)
 <2>1. IsFiniteSet(Dialers) /\ S \in SUBSET Dialers
  BY SniPeekAssumption DEF PeeksAt
 <2> QED BY <2>1, FS_Subset
<1>3. \A e : e # d => (e \in S <=> e \in T)
 BY DEF PeeksAt
<1>4. (d \in S <=> peek[d].at \in X) /\ (d \in T <=> peek'[d].at \in X)
 BY DEF PeeksAt
<1> HIDE DEF S, T
<1>5. /\ Cardinality(S) \in Nat /\ Cardinality(T) \in Nat
      /\ Cardinality(T) = Cardinality(S) - (IF d \in S THEN 1 ELSE 0) + (IF d \in T THEN 1 ELSE 0)
 BY <1>2, <1>3, OneMoves
<1> QED BY <1>1, <1>4, <1>5 DEF S

\* The counters of connections whose stage did not move.
LEMMA CountsRest ==
    ASSUME PeekInv, NEW d \in Dialers, \A e \in Dialers : e # d => peek'[e] = peek[e],
           peek'[d].at = peek[d].at,
           UNCHANGED <<peekPermits, tallies, buckets>>
    PROVE  PeekCounts'
<1>1. \A X : PeeksAt(X)' = PeeksAt(X)
 BY DEF PeeksAt
<1> QED BY <1>1 DEF PeekInv, PeekCounts, PermitsExact, CountedOnce

\* The counters of a connection that moves from one stage to another.
LEMMA CountsMove ==
    ASSUME PeekInv, NEW d \in Dialers, \A e \in Dialers : e # d => peek'[e] = peek[e],
           NEW a, NEW b, a = peek[d].at, b = peek'[d].at,
           peekPermits' \in Nat, tallies' \in [Tallies -> Nat],
           buckets' \in [inTime : Nat, count : Nat],
           peekPermits' = peekPermits + (IF a = "reading" THEN 1 ELSE 0)
                                      - (IF b = "reading" THEN 1 ELSE 0),
           tallies'["capacity"] = tallies["capacity"] - (IF a = "refused" THEN 1 ELSE 0)
                                      + (IF b = "refused" THEN 1 ELSE 0),
           tallies'["failures"] = tallies["failures"] - (IF a = "failed" THEN 1 ELSE 0)
                                      + (IF b = "failed" THEN 1 ELSE 0),
           tallies'["miss"] + tallies'["owner"] + tallies'["rule"] =
              tallies["miss"] + tallies["owner"] + tallies["rule"]
                  - (IF a = "dropped" THEN 1 ELSE 0) + (IF b = "dropped" THEN 1 ELSE 0),
           tallies'["exact"] + tallies'["fallback"] - tallies'["owner"] - tallies'["rule"] =
              tallies["exact"] + tallies["fallback"] - tallies["owner"] - tallies["rule"]
                  - (IF a \in Routed THEN 1 ELSE 0) + (IF b \in Routed THEN 1 ELSE 0),
           buckets'.count = buckets.count - (IF a \in Stages \ Unjudged THEN 1 ELSE 0)
                                + (IF b \in Stages \ Unjudged THEN 1 ELSE 0),
           buckets'.inTime <= buckets'.count
    PROVE  PeekCounts'
<1> DEFINE N(X) == Cardinality(PeeksAt(X))
           M(X) == Cardinality(PeeksAt(X)')
<1>1. \A X : /\ N(X) \in Nat /\ M(X) \in Nat
             /\ M(X) = N(X) - (IF a \in X THEN 1 ELSE 0) + (IF b \in X THEN 1 ELSE 0)
 BY StageMoves
<1>2. /\ peekPermits \in Nat /\ \A t \in Tallies : tallies[t] \in Nat /\ tallies'[t] \in Nat
      /\ buckets.count \in Nat /\ buckets.inTime \in Nat /\ PeekSlots \in Nat
      /\ {"capacity", "failures", "miss", "exact", "fallback", "owner", "rule"} = Tallies
 BY SniPeekAssumption DEF PeekInv, PeekCounts, Tallies
<1>3. /\ peekPermits + N({"reading"}) = PeekSlots
      /\ tallies["capacity"] = N({"refused"})
      /\ tallies["failures"] = N({"failed"})
      /\ tallies["miss"] + tallies["owner"] + tallies["rule"] = N({"dropped"})
      /\ tallies["exact"] + tallies["fallback"] =
            tallies["owner"] + tallies["rule"] + N(Routed)
      /\ buckets.count = N(Stages \ Unjudged)
 BY DEF PeekInv, PeekCounts, PermitsExact, CountedOnce, Routed, Unjudged
<1> HIDE DEF N, M
<1>4. peekPermits' + M({"reading"}) = PeekSlots
 <2>1. M({"reading"}) = N({"reading"}) - (IF a = "reading" THEN 1 ELSE 0)
                                       + (IF b = "reading" THEN 1 ELSE 0)
  BY <1>1
 <2>2. peekPermits \in Nat /\ PeekSlots \in Nat /\ N({"reading"}) \in Nat /\ M({"reading"}) \in Nat
  BY <1>1, <1>2
 <2> QED BY <1>3, <2>1, <2>2
<1>5. tallies'["capacity"] = M({"refused"})
 <2>1. M({"refused"}) = N({"refused"}) - (IF a = "refused" THEN 1 ELSE 0)
                                       + (IF b = "refused" THEN 1 ELSE 0)
  BY <1>1
 <2>2. tallies["capacity"] \in Nat /\ N({"refused"}) \in Nat /\ M({"refused"}) \in Nat
  BY <1>1, <1>2
 <2> QED BY <1>3, <2>1, <2>2
<1>6. tallies'["failures"] = M({"failed"})
 <2>1. M({"failed"}) = N({"failed"}) - (IF a = "failed" THEN 1 ELSE 0)
                                       + (IF b = "failed" THEN 1 ELSE 0)
  BY <1>1
 <2>2. tallies["failures"] \in Nat /\ N({"failed"}) \in Nat /\ M({"failed"}) \in Nat
  BY <1>1, <1>2
 <2> QED BY <1>3, <2>1, <2>2
<1>7. tallies'["miss"] + tallies'["owner"] + tallies'["rule"] = M({"dropped"})
 <2>1. M({"dropped"}) = N({"dropped"}) - (IF a = "dropped" THEN 1 ELSE 0)
                                       + (IF b = "dropped" THEN 1 ELSE 0)
  BY <1>1
 <2>2. /\ tallies["miss"] \in Nat /\ tallies["owner"] \in Nat /\ tallies["rule"] \in Nat
       /\ tallies'["miss"] \in Nat /\ tallies'["owner"] \in Nat /\ tallies'["rule"] \in Nat
       /\ N({"dropped"}) \in Nat
  BY <1>1, <1>2
 <2> QED BY <1>3, <2>1, <2>2
<1>8. tallies'["exact"] + tallies'["fallback"] = tallies'["owner"] + tallies'["rule"] + M(Routed)
 <2>1. M(Routed) = N(Routed) - (IF a \in Routed THEN 1 ELSE 0) + (IF b \in Routed THEN 1 ELSE 0)
  BY <1>1
 <2>2. /\ tallies["exact"] \in Nat /\ tallies["fallback"] \in Nat /\ tallies["owner"] \in Nat
       /\ tallies["rule"] \in Nat /\ tallies'["exact"] \in Nat /\ tallies'["fallback"] \in Nat
       /\ tallies'["owner"] \in Nat /\ tallies'["rule"] \in Nat /\ N(Routed) \in Nat
  BY <1>1, <1>2
 <2> QED BY <1>3, <2>1, <2>2
<1>9. buckets'.count = M(Stages \ Unjudged)
 <2> DEFINE J == Stages \ Unjudged
 <2> HIDE DEF J
 <2>1. M(J) = N(J) - (IF a \in J THEN 1 ELSE 0) + (IF b \in J THEN 1 ELSE 0)
  BY <1>1
 <2>2. buckets.count = N(J) /\ buckets'.count = buckets.count - (IF a \in J THEN 1 ELSE 0)
                               + (IF b \in J THEN 1 ELSE 0)
  BY <1>3 DEF J
 <2>3. buckets'.count = M(J)
  BY <1>1, <1>2, <2>1, <2>2
 <2> QED BY <2>3 DEF J
<1> QED BY <1>4, <1>5, <1>6, <1>7, <1>8, <1>9 DEF PeekCounts, PermitsExact, CountedOnce, M, Routed,
  Unjudged

----
(* The steps of the peek *)

\* What is left to show of a step of one connection.
LEMMA OneStep ==
    ASSUME PeekInv, NEW d \in Dialers, UNCHANGED offer,
           arrived' \in [Dialers -> Nat], sends' \in [Dialers -> 0..MaxSends],
           DOMAIN peek' = Dialers, DOMAIN forwarded' = Dialers,
           closed' \subseteq Dialers, late' \subseteq Dialers,
           \A e \in Dialers : e # d =>
              /\ arrived'[e] = arrived[e] /\ sends'[e] = sends[e]
              /\ peek'[e] = peek[e] /\ forwarded'[e] = forwarded[e],
           PeekFits(d)', PeekCounts'
    PROVE  PeekInv'
<1>1. \A e \in Dialers : PeekFits(e)'
 BY OthersFit
<1>2. PeekShape'
 <2>1. \E o \in Offers : offer = o.streams
  BY DEF PeekInv, PeekShape
 <2> QED BY <2>1 DEF PeekShape
<1> QED BY <1>1, <1>2 DEF PeekInv

\* A connection that moves on with what was read and judged of it.
LEMMA MovesOn ==
    ASSUME NEW s, NEW got, NEW pieces, NEW p, NEW f, NEW q, Fits(s, got, pieces, p, f),
           DOMAIN q = {"at", "read", "verdict"}, q.read = p.read, q.verdict = p.verdict,
           \/ p.at = "none" /\ q.at \in {"refused", "reading"}
           \/ p.at = "peeked" /\ q.at \in {"dropped", "routed"}
           \/ p.at = "routed" /\ q.at \in {"dropped", "done"}
           \/ p.at \in {"dialed", "relaying"} /\ q.at = "done"
    PROVE  Fits(s, got, pieces, q, f)
  BY DEF Fits, Stages, Unjudged, Routed, TargetHas

\* The fields of a task whose stage alone is set.
LEMMA StageSet ==
    ASSUME PeekInv, NEW d \in Dialers, NEW b, peek' = [peek EXCEPT ![d].at = b]
    PROVE  /\ DOMAIN peek' = Dialers
           /\ \A e \in Dialers : e # d => peek'[e] = peek[e]
           /\ DOMAIN peek'[d] = {"at", "read", "verdict"} /\ peek'[d].at = b
           /\ peek'[d].read = peek[d].read /\ peek'[d].verdict = peek[d].verdict
  BY DEF PeekInv, PeekShape, PeekFits, Fits

\* The steps of the dialers, of the clock and of the listener's cancellation.
LEMMA DialersKeep ==
    ASSUME PeekInv, CancelListener \/ \E d \in Dialers :
                        DialerSends(d) \/ DialerCloses(d) \/ DeadlinePasses(d)
    PROVE  PeekInv'
<1>1. CASE CancelListener
 <2>1. UNCHANGED <<offer, arrived, sends, closed, late, peek, peekPermits, tallies, buckets, forwarded>>
  BY <1>1 DEF CancelListener, dialerVars
 <2> USE <2>1 DEF PeekInv
 <2>2. PeekShape'
  BY DEF PeekShape
 <2>3. \A d \in Dialers : PeekFits(d)'
  BY DEF PeekFits
 <2>4. PeekCounts'
  BY DEF PeekCounts, PermitsExact, CountedOnce, PeeksAt
 <2> QED BY <2>2, <2>3, <2>4
<1>2. ASSUME NEW d \in Dialers, DialerSends(d) PROVE PeekInv'
 <2>1. /\ UNCHANGED <<offer, closed, late, peek, peekPermits, tallies, buckets, forwarded>>
       /\ sends[d] < MaxSends /\ sends' = [sends EXCEPT ![d] = @ + 1]
  BY <1>2 DEF DialerSends, taskVars
 <2>2. PICK n \in arrived[d] + 1 .. Len(offer[d].stream) : arrived' = [arrived EXCEPT ![d] = n]
  BY <1>2 DEF DialerSends
 <2>3. PeekFits(d) /\ PeekShape
  BY DEF PeekInv
 <2>4. arrived[d] \in 0..Len(offer[d].stream) /\ sends[d] \in 0..MaxSends /\ MaxSends \in Nat
       /\ offer[d].stream \in Seq(Nat) /\ peek[d].read \in 0..arrived[d]
  BY <2>3, SniPeekAssumption DEF PeekFits, Fits
 <2> USE <2>1
 <2>5. n \in 0..Len(offer[d].stream) /\ sends[d] + 1 \in 0..MaxSends /\ peek[d].read \in 0..n /\ n \in Nat
  <3>1. Len(offer[d].stream) \in Nat
   BY <2>4
  <3> QED BY <2>4, <3>1
 <2>8. /\ arrived' \in [Dialers -> Nat] /\ arrived'[d] = n
       /\ sends' \in [Dialers -> 0..MaxSends] /\ sends'[d] = sends[d] + 1
       /\ \A e \in Dialers : e # d => arrived'[e] = arrived[e] /\ sends'[e] = sends[e]
  BY <2>2, <2>3, <2>5 DEF PeekShape
 <2>9. PeekFits(d)'
  BY <2>3, <2>5, <2>8 DEF PeekFits, Fits
 <2>6. PeekCounts'
  BY CountsRest
 <2>7. DOMAIN peek' = Dialers /\ DOMAIN forwarded' = Dialers
       /\ closed' \subseteq Dialers /\ late' \subseteq Dialers
  BY <2>3 DEF PeekShape
 <2> QED BY <2>6, <2>7, <2>8, <2>9, OneStep
<1>3. ASSUME NEW d \in Dialers, DialerCloses(d) \/ DeadlinePasses(d) PROVE PeekInv'
 <2>1. /\ UNCHANGED <<offer, arrived, sends, peek, peekPermits, tallies, buckets, forwarded>>
       /\ closed' \subseteq closed \cup {d} /\ late' \subseteq late \cup {d}
  BY <1>3 DEF DialerCloses, DeadlinePasses, taskVars
 <2> USE <2>1 DEF PeekInv
 <2>2. PeekShape'
  BY DEF PeekShape
 <2>3. \A e \in Dialers : PeekFits(e)'
  BY DEF PeekFits
 <2>4. PeekCounts'
  BY DEF PeekCounts, PermitsExact, CountedOnce, PeeksAt
 <2> QED BY <2>2, <2>3, <2>4
<1> QED BY <1>1, <1>2, <1>3

\* A counter that goes up by one.
LEMMA TallyUp ==
    ASSUME PeekInv, NEW t \in Tallies, Tally(t)
    PROVE  /\ tallies' \in [Tallies -> Nat]
           /\ \A u \in Tallies : tallies[u] \in Nat
           /\ \A u \in Tallies : tallies'[u] = tallies[u] + (IF u = t THEN 1 ELSE 0)
  BY DEF PeekInv, PeekCounts, Tally

\* A connection that is accepted or refused, routed, dropped or done.
LEMMA StageKeeps ==
    ASSUME PeekInv, NEW d \in Dialers, NEW b, peek' = [peek EXCEPT ![d].at = b],
           UNCHANGED <<offer, arrived, sends, closed, late, forwarded>>,
           \/ peek[d].at = "none" /\ b \in {"refused", "reading"}
           \/ peek[d].at = "peeked" /\ b \in {"dropped", "routed"}
           \/ peek[d].at = "routed" /\ b \in {"dropped", "done"}
           \/ peek[d].at \in {"dialed", "relaying"} /\ b = "done",
           PeekCounts'
    PROVE  PeekInv'
<1>1. /\ DOMAIN peek' = Dialers
      /\ \A e \in Dialers : e # d => peek'[e] = peek[e]
      /\ DOMAIN peek'[d] = {"at", "read", "verdict"} /\ peek'[d].at = b
      /\ peek'[d].read = peek[d].read /\ peek'[d].verdict = peek[d].verdict
 BY StageSet
<1>2. PeekFits(d)'
 <2>1. Fits(offer[d].stream, arrived[d], sends[d], peek[d], forwarded[d])
  BY DEF PeekInv, PeekFits
 <2>2. Fits(offer[d].stream, arrived[d], sends[d], peek'[d], forwarded[d])
  BY <1>1, <2>1, MovesOn
 <2> QED BY <2>2 DEF PeekFits
<1>3. arrived' \in [Dialers -> Nat] /\ sends' \in [Dialers -> 0..MaxSends] /\ DOMAIN forwarded' = Dialers
      /\ closed' \subseteq Dialers /\ late' \subseteq Dialers
 BY DEF PeekInv, PeekShape
<1> QED BY <1>1, <1>2, <1>3, OneStep

\* Whether there was a permit or not.
LEMMA AcceptKeeps ==
    ASSUME PeekInv, NEW d \in Dialers, AcceptRefused(d) \/ AcceptPeek(d) PROVE PeekInv'
<1>0. peekPermits \in Nat /\ buckets \in [inTime : Nat, count : Nat] /\ buckets.inTime <= buckets.count
      /\ tallies \in [Tallies -> Nat] /\ buckets.count \in Nat
 BY DEF PeekInv, PeekCounts, CountedOnce
<1>1. CASE AcceptRefused(d)
 <2>1. /\ peek[d].at = "none" /\ peek' = [peek EXCEPT ![d].at = "refused"] /\ Tally("capacity")
       /\ UNCHANGED <<offer, arrived, sends, closed, late, forwarded, peekPermits, buckets>>
  BY <1>1 DEF AcceptRefused, dialerVars
 <2>2. "capacity" \in Tallies /\ "failures" \in Tallies /\ "miss" \in Tallies /\ "exact" \in Tallies
       /\ "fallback" \in Tallies /\ "owner" \in Tallies /\ "rule" \in Tallies
  BY DEF Tallies
 <2> USE <2>1
 <2>3. /\ tallies' \in [Tallies -> Nat]
       /\ tallies'["capacity"] = tallies["capacity"] + 1 /\ tallies["capacity"] \in Nat
       /\ tallies'["failures"] = tallies["failures"] /\ tallies["failures"] \in Nat
       /\ tallies'["miss"] = tallies["miss"] /\ tallies["miss"] \in Nat
       /\ tallies'["owner"] = tallies["owner"] /\ tallies["owner"] \in Nat
       /\ tallies'["rule"] = tallies["rule"] /\ tallies["rule"] \in Nat
       /\ tallies'["exact"] = tallies["exact"] /\ tallies["exact"] \in Nat
       /\ tallies'["fallback"] = tallies["fallback"] /\ tallies["fallback"] \in Nat
  BY <2>2, TallyUp
 <2>4. \A e \in Dialers : e # d => peek'[e] = peek[e]
  BY StageSet
 <2>5. peek'[d].at = "refused"
  BY StageSet
 <2>6. PeekCounts'
  BY <1>0, <2>3, <2>4, <2>5, CountsMove DEF Routed, Stages, Unjudged
 <2> QED BY <2>6, StageKeeps
<1>2. CASE AcceptPeek(d)
 <2>1. /\ peek[d].at = "none" /\ peek' = [peek EXCEPT ![d].at = "reading"]
       /\ peekPermits > 0 /\ peekPermits' = peekPermits - 1
       /\ UNCHANGED <<offer, arrived, sends, closed, late, forwarded, tallies, buckets>>
  BY <1>2 DEF AcceptPeek, dialerVars
 <2>2. /\ tallies["capacity"] \in Nat /\ tallies["failures"] \in Nat /\ tallies["miss"] \in Nat
       /\ tallies["owner"] \in Nat /\ tallies["rule"] \in Nat /\ tallies["exact"] \in Nat
       /\ tallies["fallback"] \in Nat
  BY <1>0 DEF Tallies
 <2>4. \A e \in Dialers : e # d => peek'[e] = peek[e]
  BY <2>1, StageSet
 <2>5. peek'[d].at = "reading"
  BY <2>1, StageSet
 <2>6. PeekCounts'
  BY <1>0, <2>1, <2>2, <2>4, <2>5, CountsMove DEF Routed, Stages, Unjudged
 <2> QED BY <2>1, <2>6, StageKeeps
<1> QED BY <1>1, <1>2

\* The lookup, the admission and the end of a relayed connection.
LEMMA RouteKeeps ==
    ASSUME PeekInv, NEW d \in Dialers,
           \/ RouteHit(d) \/ RouteMiss(d) \/ ProxyEnds(d)
           \/ \E scope \in {"owner", "rule"} : AdmitRefused(d, scope)
    PROVE  PeekInv'
<1>0. peekPermits \in Nat /\ buckets \in [inTime : Nat, count : Nat] /\ buckets.inTime <= buckets.count
      /\ tallies \in [Tallies -> Nat] /\ buckets.count \in Nat
 BY DEF PeekInv, PeekCounts, CountedOnce
<1>1. "capacity" \in Tallies /\ "failures" \in Tallies /\ "miss" \in Tallies /\ "exact" \in Tallies
      /\ "fallback" \in Tallies /\ "owner" \in Tallies /\ "rule" \in Tallies
 BY DEF Tallies
<1>2. CASE RouteHit(d)
 <2>1. /\ peek[d].at = "peeked" /\ peek' = [peek EXCEPT ![d].at = "routed"]
       /\ UNCHANGED <<offer, arrived, sends, closed, late, forwarded, peekPermits, buckets>>
  BY <1>2 DEF RouteHit, dialerVars
 <2>2. PICK t \in {"exact", "fallback"} : Tally(t)
  BY <1>2 DEF RouteHit, MatchKind
 <2>3. /\ tallies' \in [Tallies -> Nat]
       /\ tallies'["capacity"] = tallies["capacity"] /\ tallies["capacity"] \in Nat
       /\ tallies'["failures"] = tallies["failures"] /\ tallies["failures"] \in Nat
       /\ tallies'["miss"] = tallies["miss"] /\ tallies["miss"] \in Nat
       /\ tallies'["owner"] = tallies["owner"] /\ tallies["owner"] \in Nat
       /\ tallies'["rule"] = tallies["rule"] /\ tallies["rule"] \in Nat
       /\ tallies'["exact"] = tallies["exact"] + (IF t = "exact" THEN 1 ELSE 0)
       /\ tallies'["fallback"] = tallies["fallback"] + (IF t = "fallback" THEN 1 ELSE 0)
       /\ tallies["exact"] \in Nat /\ tallies["fallback"] \in Nat
  BY <1>1, <2>2, TallyUp
 <2>4. \A e \in Dialers : e # d => peek'[e] = peek[e]
  BY <2>1, StageSet
 <2>5. peek'[d].at = "routed"
  BY <2>1, StageSet
 <2>6. PeekCounts'
  BY <1>0, <2>1, <2>2, <2>3, <2>4, <2>5, CountsMove DEF Routed, Stages, Unjudged
 <2> QED BY <2>1, <2>6, StageKeeps
<1>3. CASE RouteMiss(d) \/ \E scope \in {"owner", "rule"} : AdmitRefused(d, scope)
 <2>1. PICK t \in {"miss", "owner", "rule"} :
           /\ Tally(t) /\ (IF t = "miss" THEN peek[d].at = "peeked" ELSE peek[d].at = "routed")
           /\ peek' = [peek EXCEPT ![d].at = "dropped"]
           /\ UNCHANGED <<dialerVars, forwarded, peekPermits, buckets>>
  BY <1>3 DEF RouteMiss, AdmitRefused, Drops
 <2> USE <2>1
 <2>2. /\ peek[d].at \in {"peeked", "routed"} /\ (t = "miss" <=> peek[d].at = "peeked")
       /\ UNCHANGED <<offer, arrived, sends, closed, late, forwarded, peekPermits, buckets>>
  BY DEF dialerVars
 <2>3. /\ tallies' \in [Tallies -> Nat]
       /\ tallies'["capacity"] = tallies["capacity"] /\ tallies["capacity"] \in Nat
       /\ tallies'["failures"] = tallies["failures"] /\ tallies["failures"] \in Nat
       /\ tallies'["miss"] = tallies["miss"] + (IF t = "miss" THEN 1 ELSE 0)
       /\ tallies'["owner"] = tallies["owner"] + (IF t = "owner" THEN 1 ELSE 0)
       /\ tallies'["rule"] = tallies["rule"] + (IF t = "rule" THEN 1 ELSE 0)
       /\ tallies["miss"] \in Nat /\ tallies["owner"] \in Nat /\ tallies["rule"] \in Nat
       /\ tallies'["exact"] = tallies["exact"] /\ tallies["exact"] \in Nat
       /\ tallies'["fallback"] = tallies["fallback"] /\ tallies["fallback"] \in Nat
  BY <1>1, TallyUp
 <2>4. \A e \in Dialers : e # d => peek'[e] = peek[e]
  BY StageSet
 <2>5. peek'[d].at = "dropped"
  BY StageSet
 <2>6. PeekCounts'
  BY <1>0, <2>2, <2>3, <2>4, <2>5, CountsMove DEF Routed, Stages, Unjudged
 <2> QED BY <2>2, <2>6, StageKeeps
<1>4. CASE ProxyEnds(d)
 <2>1. /\ peek[d].at \in {"routed", "dialed", "relaying"} /\ peek' = [peek EXCEPT ![d].at = "done"]
       /\ UNCHANGED <<offer, arrived, sends, closed, late, forwarded, peekPermits, tallies, buckets>>
  BY <1>4 DEF ProxyEnds, dialerVars
 <2>2. /\ tallies["capacity"] \in Nat /\ tallies["failures"] \in Nat /\ tallies["miss"] \in Nat
       /\ tallies["owner"] \in Nat /\ tallies["rule"] \in Nat /\ tallies["exact"] \in Nat
       /\ tallies["fallback"] \in Nat
  BY <1>0 DEF Tallies
 <2>4. \A e \in Dialers : e # d => peek'[e] = peek[e]
  BY <2>1, StageSet
 <2>5. peek'[d].at = "done"
  BY <2>1, StageSet
 <2>6. PeekCounts'
  BY <1>0, <2>1, <2>2, <2>4, <2>5, CountsMove DEF Routed, Stages, Unjudged
 <2> QED BY <2>1, <2>6, StageKeeps
<1> QED BY <1>2, <1>3, <1>4

\* A peek that fails is counted and gives its permit back.
LEMMA GiveKeeps ==
    ASSUME PeekInv, NEW d \in Dialers, NEW v, peek[d].at = "reading", Give(d, v),
           v = Parse(offer[d].stream) \/ v.what \in {"timeout", "io"}
    PROVE  PeekInv'
<1>0. peekPermits \in Nat /\ buckets \in [inTime : Nat, count : Nat] /\ buckets.inTime <= buckets.count
      /\ tallies \in [Tallies -> Nat] /\ buckets.count \in Nat /\ buckets.inTime \in Nat
 BY DEF PeekInv, PeekCounts, CountedOnce
<1>1. "capacity" \in Tallies /\ "failures" \in Tallies /\ "miss" \in Tallies /\ "exact" \in Tallies
      /\ "fallback" \in Tallies /\ "owner" \in Tallies /\ "rule" \in Tallies
 BY DEF Tallies
<1>2. /\ peek' = [peek EXCEPT ![d].at = "failed", ![d].verdict = v]
      /\ peekPermits' = peekPermits + 1 /\ Tally("failures") /\ Observe(d)
      /\ UNCHANGED <<offer, arrived, sends, closed, late, forwarded>>
 BY DEF Give, dialerVars
<1> USE <1>2
<1>3. /\ DOMAIN peek' = Dialers
      /\ \A e \in Dialers : e # d => peek'[e] = peek[e]
      /\ DOMAIN peek'[d] = {"at", "read", "verdict"} /\ peek'[d].at = "failed"
      /\ peek'[d].read = peek[d].read /\ peek'[d].verdict = v
 BY DEF PeekInv, PeekShape, PeekFits, Fits
<1>4. PeekFits(d)'
 <2>1. Fits(offer[d].stream, arrived[d], sends[d], peek[d], forwarded[d])
  BY DEF PeekInv, PeekFits
 <2>2. Fits(offer[d].stream, arrived[d], sends[d], peek'[d], forwarded[d])
  BY <1>3, <2>1 DEF Fits, Stages, Unjudged, Routed
 <2> QED BY <2>2 DEF PeekFits
<1>5. /\ tallies' \in [Tallies -> Nat]
      /\ tallies'["capacity"] = tallies["capacity"] /\ tallies["capacity"] \in Nat
      /\ tallies'["failures"] = tallies["failures"] + 1 /\ tallies["failures"] \in Nat
      /\ tallies'["miss"] = tallies["miss"] /\ tallies["miss"] \in Nat
      /\ tallies'["owner"] = tallies["owner"] /\ tallies["owner"] \in Nat
      /\ tallies'["rule"] = tallies["rule"] /\ tallies["rule"] \in Nat
      /\ tallies'["exact"] = tallies["exact"] /\ tallies["exact"] \in Nat
      /\ tallies'["fallback"] = tallies["fallback"] /\ tallies["fallback"] \in Nat
 BY <1>1, TallyUp
<1>6. /\ buckets' \in [inTime : Nat, count : Nat] /\ buckets'.count = buckets.count + 1
      /\ buckets'.inTime <= buckets'.count
 BY <1>0 DEF Observe
<1>7. PeekCounts'
 BY <1>0, <1>3, <1>5, <1>6, CountsMove DEF Routed, Stages, Unjudged
<1>8. arrived' \in [Dialers -> Nat] /\ sends' \in [Dialers -> 0..MaxSends] /\ DOMAIN forwarded' = Dialers
      /\ closed' \subseteq Dialers /\ late' \subseteq Dialers
 BY DEF PeekInv, PeekShape
<1> QED BY <1>3, <1>4, <1>7, <1>8, OneStep

\* A read takes something, and never more than has arrived.
LEMMA WantedFits ==
    ASSUME PeekInv, NEW d \in Dialers, peek[d].at = "reading", arrived[d] > Read(d)
    PROVE  Wanted(d) \in Nat /\ Read(d) + Wanted(d) \in Read(d)..arrived[d]
<1> DEFINE r == Read(d)
           room == {Chunk, ByteCap - r, arrived[d] - r}
<1>1. /\ offer[d].stream \in Seq(Nat) /\ r \in 0..arrived[d] /\ arrived[d] \in 0..Len(offer[d].stream)
      /\ Parse(SubSeq(offer[d].stream, 1, r)) = Truncated
 BY DEF PeekInv, PeekFits, Fits, Unjudged, Read
<1>2. r \in Nat /\ arrived[d] \in Nat /\ r \in 0..Len(offer[d].stream)
 BY <1>1
<1>3. r < MaxRecord + 3
 BY <1>1, <1>2, ParsePrefix
<1>4. Chunk \in Nat /\ ByteCap - r \in Nat /\ arrived[d] - r \in Nat
 BY <1>2, <1>3, SniPeekAssumption DEF Read
<1>5. \E n \in room : \A m \in room : n <= m
 <2> HIDE DEF r
 <2>1. CASE Chunk <= ByteCap - r /\ Chunk <= arrived[d] - r
  BY <1>4, <2>1
 <2>2. CASE ByteCap - r <= Chunk /\ ByteCap - r <= arrived[d] - r
  <3>1. \A m \in room : ByteCap - r <= m
   BY <1>4, <2>2
  <3> QED BY <3>1
 <2>3. CASE arrived[d] - r <= Chunk /\ arrived[d] - r <= ByteCap - r
  <3>1. \A m \in room : arrived[d] - r <= m
   BY <1>4, <2>3
  <3> QED BY <3>1
 <2> QED BY <1>4, <2>1, <2>2, <2>3
<1>6. Wanted(d) \in room /\ \A m \in room : Wanted(d) <= m
 BY <1>5 DEF Wanted
<1>7. Wanted(d) \in Nat /\ Wanted(d) <= arrived[d] - r
 BY <1>4, <1>6
<1> HIDE DEF r
<1>8. r + Wanted(d) \in r..arrived[d]
 BY <1>2, <1>7
<1> QED BY <1>7, <1>8 DEF r

\* A read and what it settles.
LEMMA ReadKeeps ==
    ASSUME PeekInv, NEW d \in Dialers, ReadChunk(d) \/ ReadEof(d) \/ ReadTimesOut(d) PROVE PeekInv'
<1>1. CASE ReadEof(d) \/ ReadTimesOut(d)
 <2>1. PICK w \in {"timeout", "io"} : peek[d].at = "reading" /\ Give(d, Outcome(w, <<>>))
  BY <1>1 DEF ReadEof, ReadTimesOut
 <2>2. Outcome(w, <<>>).what \in {"timeout", "io"}
  BY <2>1 DEF Outcome
 <2> QED BY <2>1, <2>2, GiveKeeps
<1>2. CASE ReadChunk(d)
 <2> DEFINE s == offer[d].stream
            n == Read(d) + Wanted(d)
            outcome == Parse(Buffered(d, n))
 <2>1. peek[d].at = "reading" /\ arrived[d] > Read(d)
  BY <1>2 DEF ReadChunk
 <2>2. /\ s \in Seq(Nat) /\ Read(d) \in 0..arrived[d] /\ arrived[d] \in 0..Len(s)
  BY DEF PeekInv, PeekFits, Fits, Read
 <2>3. n \in Read(d)..arrived[d]
  BY <2>1, WantedFits
 <2>4. n \in 0..arrived[d] /\ n \in 0..Len(s) /\ n \in Nat
  <3> HIDE DEF n, s
  <3>1. Len(s) \in Nat
   BY <2>2
  <3> QED BY <2>2, <2>3, <3>1
 <2>5. /\ outcome # Truncated => outcome = Parse(s)
       /\ outcome = Truncated => n < MaxRecord + 3
       /\ outcome = Truncated \/ outcome.what \in {"hello", "not tls", "malformed"}
       /\ outcome.what = "hello" => outcome # Truncated
  <3> HIDE DEF n, s
  <3>1. outcome = Parse(SubSeq(s, 1, n))
   BY DEF Buffered, s
  <3> HIDE DEF outcome
  <3> QED BY <2>2, <2>4, <3>1, ParsePrefix
 <2>6. \/ /\ outcome.what = "hello"
          /\ peek' = [peek EXCEPT ![d] = [at |-> "peeked", read |-> n, verdict |-> outcome]]
          /\ peekPermits' = peekPermits + 1
          /\ Observe(d)
          /\ UNCHANGED <<dialerVars, tallies, forwarded, stopping>>
       \/ outcome.what \in {"not tls", "malformed"} /\ Give(d, outcome)
       \/ outcome = Truncated /\ n >= ByteCap
       \/ outcome = Truncated /\ Give(d, Outcome("timeout", <<>>))
       \/ /\ outcome = Truncated /\ peek' = [peek EXCEPT ![d].read = n]
          /\ UNCHANGED <<dialerVars, peekPermits, tallies, buckets, forwarded, stopping>>
  BY <1>2 DEF ReadChunk
 <2> HIDE DEF n, s, outcome
 <2>7. CASE outcome.what = "hello"
  <3>1. /\ peek' = [peek EXCEPT ![d] = [at |-> "peeked", read |-> n, verdict |-> outcome]]
        /\ peekPermits' = peekPermits + 1
        /\ Observe(d)
        /\ UNCHANGED <<offer, arrived, sends, closed, late, forwarded, tallies>>
   BY <2>5, <2>6, <2>7 DEF dialerVars
  <3>2. /\ DOMAIN peek' = Dialers
        /\ \A e \in Dialers : e # d => peek'[e] = peek[e]
        /\ peek'[d] = [at |-> "peeked", read |-> n, verdict |-> outcome]
   BY <3>1 DEF PeekInv, PeekShape
  <3>3. PeekFits(d)'
   <4>1. Fits(s, arrived[d], sends[d], peek[d], forwarded[d])
    BY DEF PeekInv, PeekFits, s
   <4>2. Fits(s, arrived[d], sends[d], peek'[d], forwarded[d])
    BY <2>1, <2>4, <2>5, <2>7, <3>2, <4>1 DEF Fits, Stages, Unjudged, Routed
   <4> QED BY <3>1, <4>2 DEF PeekFits, s
  <3>4. peekPermits \in Nat /\ buckets \in [inTime : Nat, count : Nat]
        /\ buckets.inTime <= buckets.count
        /\ tallies \in [Tallies -> Nat] /\ buckets.count \in Nat /\ buckets.inTime \in Nat
   BY DEF PeekInv, PeekCounts, CountedOnce
  <3>5. /\ tallies["capacity"] \in Nat /\ tallies["failures"] \in Nat /\ tallies["miss"] \in Nat
        /\ tallies["owner"] \in Nat /\ tallies["rule"] \in Nat /\ tallies["exact"] \in Nat
        /\ tallies["fallback"] \in Nat
   BY <3>4 DEF Tallies
  <3>6. /\ buckets' \in [inTime : Nat, count : Nat] /\ buckets'.count = buckets.count + 1
        /\ buckets'.inTime <= buckets'.count
   BY <3>1, <3>4 DEF Observe
  <3>7. peek'[d].at = "peeked"
   BY <3>2
  <3>8. PeekCounts'
   BY <2>1, <3>1, <3>2, <3>4, <3>5, <3>6, <3>7, CountsMove DEF Routed, Stages, Unjudged
  <3>9. arrived' \in [Dialers -> Nat] /\ sends' \in [Dialers -> 0..MaxSends] /\ DOMAIN forwarded' = Dialers
        /\ closed' \subseteq Dialers /\ late' \subseteq Dialers
   BY <3>1 DEF PeekInv, PeekShape
  <3> QED BY <3>1, <3>2, <3>3, <3>8, <3>9, OneStep
 <2>8. CASE outcome.what \in {"not tls", "malformed"}
  <3>0. Truncated.what = "truncated"
   BY DEF Truncated, Outcome
  <3>1. outcome # Truncated
   BY <2>8, <3>0
  <3>2. Give(d, outcome) /\ outcome = Parse(offer[d].stream)
   BY <2>5, <2>6, <2>8, <3>1 DEF s
  <3> QED BY <2>1, <3>2, GiveKeeps
 <2>9. CASE outcome = Truncated
  <3>1. ~(n >= ByteCap)
   BY <2>4, <2>5, <2>9, SniPeekAssumption
  <3>2. outcome.what = "truncated"
   BY <2>9 DEF Truncated, Outcome
  <3>3. CASE Give(d, Outcome("timeout", <<>>))
   <4>1. Outcome("timeout", <<>>).what \in {"timeout", "io"}
    BY DEF Outcome
   <4> QED BY <2>1, <3>3, <4>1, GiveKeeps
  <3>4. CASE /\ peek' = [peek EXCEPT ![d].read = n]
             /\ UNCHANGED <<dialerVars, peekPermits, tallies, buckets, forwarded, stopping>>
   <4>1. UNCHANGED <<offer, arrived, sends, closed, late, forwarded, peekPermits, tallies, buckets>>
    BY <3>4 DEF dialerVars
   <4>2. /\ DOMAIN peek' = Dialers
         /\ \A e \in Dialers : e # d => peek'[e] = peek[e]
         /\ DOMAIN peek'[d] = {"at", "read", "verdict"} /\ peek'[d].at = "reading"
         /\ peek'[d].read = n /\ peek'[d].verdict = peek[d].verdict
    BY <2>1, <3>4 DEF PeekInv, PeekShape, PeekFits, Fits
   <4>3. Parse(SubSeq(s, 1, n)) = Truncated
    BY <2>9 DEF outcome, Buffered, s
   <4>4. PeekFits(d)'
    <5>1. Fits(s, arrived[d], sends[d], peek[d], forwarded[d])
     BY DEF PeekInv, PeekFits, s
    <5>2. Fits(s, arrived[d], sends[d], peek'[d], forwarded[d])
     BY <2>1, <2>4, <4>2, <4>3, <5>1 DEF Fits, Stages, Unjudged, Routed
    <5> QED BY <4>1, <5>2 DEF PeekFits, s
   <4>5. PeekCounts'
    BY <2>1, <4>1, <4>2, CountsRest
   <4>6. arrived' \in [Dialers -> Nat] /\ sends' \in [Dialers -> 0..MaxSends] /\ DOMAIN forwarded' = Dialers
         /\ closed' \subseteq Dialers /\ late' \subseteq Dialers
    BY <4>1 DEF PeekInv, PeekShape
   <4> QED BY <4>1, <4>2, <4>4, <4>5, <4>6, OneStep
  <3> QED BY <2>6, <3>1, <3>2, <3>3, <3>4
 <2> QED BY <2>5, <2>7, <2>8, <2>9
<1> QED BY <1>1, <1>2

\* A sequence over a set is one over a larger set.
LEMMA SeqWider ==
    ASSUME NEW A, NEW B, A \subseteq B, NEW s \in Seq(A) PROVE s \in Seq(B)
<1>1. Len(s) \in Nat /\ \A i \in 1..Len(s) : s[i] \in B
 OBVIOUS
<1>2. SubSeq(s, 1, Len(s)) \in Seq(B)
 BY <1>1, SubSeqProperties
<1> QED BY <1>2, SubSeqFull

\* Three sequences put together either way.
LEMMA ThreeTogether ==
    ASSUME NEW S, NEW x, NEW y, NEW z, x \in Seq(S), y \in Seq(S), z \in Seq(S)
    PROVE  (x \o y) \o z = x \o (y \o z)
  BY ConcatAssociative

\* A stream is cut and put together again.
LEMMA Rejoined ==
    ASSUME NEW p \in Seq(STRING), NEW s \in Seq(Nat), NEW m \in 0..Len(s), NEW n \in 0..m
    PROVE  (p \o SubSeq(s, 1, n)) \o SubSeq(s, n + 1, m) = p \o SubSeq(s, 1, m)
<1> DEFINE S == STRING \cup Nat
<1>0. Len(s) \in Nat /\ m \in Nat /\ n \in Nat /\ m <= Len(s) /\ n <= m
 OBVIOUS
<1>1. p \in Seq(S) /\ s \in Seq(S)
 <2>1. STRING \subseteq S /\ Nat \subseteq S
  OBVIOUS
 <2> HIDE DEF S
 <2> QED BY <2>1, SeqWider
<1> HIDE DEF S
<1>2. SubSeq(s, 1, n) \in Seq(S) /\ SubSeq(s, n + 1, m) \in Seq(S)
 <2>1. \A i \in 1..Len(s) : s[i] \in S
  BY <1>1
 <2>2. \A i \in 1..n : i \in 1..Len(s)
  BY <1>0
 <2>3. \A i \in n + 1..m : i \in 1..Len(s)
  BY <1>0
 <2>4. n + 1 \in Int /\ m \in Int /\ n \in Int /\ 1 \in Int
  BY <1>0
 <2>5. SubSeq(s, 1, n) \in Seq(S)
  BY <2>1, <2>2, <2>4, SubSeqProperties
 <2>6. SubSeq(s, n + 1, m) \in Seq(S)
  BY <2>1, <2>3, <2>4, SubSeqProperties
 <2> QED BY <2>5, <2>6
<1>3. SubSeq(s, 1, n) \o SubSeq(s, n + 1, m) = SubSeq(s, 1, m)
 <2>1. 1 \in 1..Len(s) + 1 /\ n \in 1 - 1..Len(s) /\ m \in n..Len(s)
  BY <1>0
 <2> QED BY <1>1, <2>1, ConcatAdjacentSubSeq
<1> DEFINE t == SubSeq(s, 1, n)  u == SubSeq(s, n + 1, m)
<1>4. p \in Seq(S) /\ t \in Seq(S) /\ u \in Seq(S)
 BY <1>1, <1>2
<1>5. t \o u = SubSeq(s, 1, m)
 BY <1>3
<1> HIDE DEF t, u
<1>6. (p \o t) \o u = p \o (t \o u)
 BY ONLY <1>4, ThreeTogether
<1>7. (p \o t) \o u = p \o SubSeq(s, 1, m)
 BY <1>5, <1>6
<1> QED BY <1>7 DEF t, u

\* What the target is sent.
LEMMA RelayKeeps ==
    ASSUME PeekInv, NEW d \in Dialers,
           \/ \E prelude \in Preludes : WritePrelude(d, prelude)
           \/ ReplayPreread(d) \/ RelayMore(d)
    PROVE  PeekInv'
<1> DEFINE s == offer[d].stream
<1>0. Fits(s, arrived[d], sends[d], peek[d], forwarded[d]) /\ PeekShape
 BY DEF PeekInv, PeekFits
<1>1. /\ UNCHANGED <<offer, arrived, sends, closed, late, peekPermits, tallies, buckets>>
      /\ arrived' \in [Dialers -> Nat] /\ sends' \in [Dialers -> 0..MaxSends]
      /\ closed' \subseteq Dialers /\ late' \subseteq Dialers
 BY <1>0 DEF PeekShape, WritePrelude, ReplayPreread, RelayMore, dialerVars
<1>2. peekPermits \in Nat /\ buckets \in [inTime : Nat, count : Nat] /\ buckets.inTime <= buckets.count
      /\ tallies \in [Tallies -> Nat] /\ buckets.count \in Nat
 BY DEF PeekInv, PeekCounts, CountedOnce
<1>3. /\ tallies["capacity"] \in Nat /\ tallies["failures"] \in Nat /\ tallies["miss"] \in Nat
      /\ tallies["owner"] \in Nat /\ tallies["rule"] \in Nat /\ tallies["exact"] \in Nat
      /\ tallies["fallback"] \in Nat
 BY <1>2 DEF Tallies
<1>4. ASSUME NEW prelude \in Preludes, WritePrelude(d, prelude) PROVE PeekInv'
 <2>1. /\ peek[d].at = "routed" /\ peek' = [peek EXCEPT ![d].at = "dialed"]
       /\ forwarded' = [forwarded EXCEPT ![d] = prelude]
  BY <1>4 DEF WritePrelude
 <2>2. /\ DOMAIN forwarded' = Dialers /\ forwarded'[d] = prelude
       /\ \A e \in Dialers : e # d => forwarded'[e] = forwarded[e]
  BY <1>0, <2>1 DEF PeekShape
 <2>3. /\ DOMAIN peek' = Dialers
       /\ \A e \in Dialers : e # d => peek'[e] = peek[e]
       /\ DOMAIN peek'[d] = {"at", "read", "verdict"} /\ peek'[d].at = "dialed"
       /\ peek'[d].read = peek[d].read /\ peek'[d].verdict = peek[d].verdict
  BY <2>1, StageSet
 <2> USE <2>3, <1>1
 <2>4. PeekFits(d)'
  <3>1. Fits(s, arrived[d], sends[d], peek'[d], prelude)
   BY <1>0, <2>1 DEF Fits, Stages, Unjudged, Routed
  <3> QED BY <2>2, <3>1 DEF PeekFits
 <2>5. PeekCounts'
  BY <1>2, <1>3, <2>1, CountsMove DEF Routed, Stages, Unjudged
 <2> QED BY <2>2, <2>4, <2>5, OneStep
<1>5. CASE ReplayPreread(d)
 <2>1. /\ peek[d].at = "dialed" /\ peek' = [peek EXCEPT ![d].at = "relaying"]
       /\ forwarded' = [forwarded EXCEPT ![d] = @ \o SubSeq(s, 1, peek[d].read)]
  BY <1>5 DEF ReplayPreread, Buffered, Read
 <2>2. /\ DOMAIN forwarded' = Dialers /\ forwarded'[d] = forwarded[d] \o SubSeq(s, 1, peek[d].read)
       /\ \A e \in Dialers : e # d => forwarded'[e] = forwarded[e]
  BY <1>0, <2>1 DEF PeekShape
 <2>3. /\ DOMAIN peek' = Dialers
       /\ \A e \in Dialers : e # d => peek'[e] = peek[e]
       /\ DOMAIN peek'[d] = {"at", "read", "verdict"} /\ peek'[d].at = "relaying"
       /\ peek'[d].read = peek[d].read /\ peek'[d].verdict = peek[d].verdict
  BY <2>1, StageSet
 <2>4. PeekFits(d)'
  <3>1. Fits(s, arrived[d], sends[d], peek'[d], forwarded[d] \o SubSeq(s, 1, peek[d].read))
   BY <1>0, <2>1, <2>3 DEF Fits, Stages, Unjudged, Routed
  <3> QED BY <1>1, <2>2, <3>1 DEF PeekFits
 <2>6. peek[d].at = "dialed"
  BY <2>1
 <2>5. PeekCounts'
  BY <1>1, <1>2, <1>3, <2>3, <2>6, CountsMove DEF Routed, Stages, Unjudged
 <2> QED BY <1>1, <2>2, <2>3, <2>4, <2>5, OneStep
<1>6. CASE RelayMore(d)
 <2> DEFINE n == peek[d].read  m == arrived[d]
 <2>1. /\ peek[d].at = "relaying" /\ m > n /\ peek' = [peek EXCEPT ![d].read = m]
       /\ forwarded' = [forwarded EXCEPT ![d] = @ \o SubSeq(s, n + 1, m)]
  BY <1>6 DEF RelayMore, Read
 <2>2. PICK prelude \in Preludes : forwarded[d] = prelude \o SubSeq(s, 1, n)
  BY <1>0, <2>1 DEF Fits
 <2>3. s \in Seq(Nat) /\ m \in 0..Len(s) /\ n \in 0..m /\ prelude \in Seq(STRING)
  BY <1>0, SniPeekAssumption DEF Fits
 <2> DEFINE f == prelude \o SubSeq(s, 1, m)
 <2>4. forwarded[d] \o SubSeq(s, n + 1, m) = f
  <3> HIDE DEF n, m, s
  <3> QED BY <2>2, <2>3, Rejoined
 <2>5. /\ DOMAIN forwarded' = Dialers /\ forwarded'[d] = f
       /\ \A e \in Dialers : e # d => forwarded'[e] = forwarded[e]
  BY <1>0, <2>1, <2>4 DEF PeekShape
 <2>6. /\ DOMAIN peek' = Dialers
       /\ \A e \in Dialers : e # d => peek'[e] = peek[e]
       /\ DOMAIN peek'[d] = {"at", "read", "verdict"} /\ peek'[d].at = "relaying"
       /\ peek'[d].read = m /\ peek'[d].verdict = peek[d].verdict
  BY <1>0, <2>1 DEF PeekShape, Fits
 <2>7. PeekFits(d)'
  <3>1. m \in 0..m
   BY <2>3
  <3>2. Fits(s, m, sends[d], peek'[d], f)
   BY <1>0, <2>1, <2>6, <3>1 DEF Fits, Stages, Unjudged, Routed
  <3> QED BY <1>1, <2>5, <3>2 DEF PeekFits
 <2>8. PeekCounts'
  BY <1>1, <2>1, <2>6, CountsRest
 <2> QED BY <1>1, <2>5, <2>6, <2>7, <2>8, OneStep
<1> QED BY <1>4, <1>5, <1>6

\* A listener that has accepted nothing.
LEMMA PeekInvInit == SniPeekInit => PeekInv
<1> SUFFICES ASSUME SniPeekInit PROVE PeekInv
 OBVIOUS
<1>1. PeekShape
 <2>1. 0 \in 0..MaxSends
  BY SniPeekAssumption
 <2> QED BY <2>1 DEF SniPeekInit, PeekShape
<1>2. ASSUME NEW d \in Dialers PROVE PeekFits(d)
 <2>1. PICK o \in Offers : offer = o.streams
  BY DEF SniPeekInit
 <2>2. offer[d].stream \in Seq(Nat)
  BY <2>1, OffersAssumption
 <2>3. /\ arrived[d] = 0 /\ sends[d] = 0 /\ forwarded[d] = <<>>
       /\ peek[d] = [at |-> "none", read |-> 0, verdict |-> Truncated]
  BY DEF SniPeekInit
 <2>4. Parse(SubSeq(offer[d].stream, 1, 0)) = Truncated
  <3>1. SubSeq(offer[d].stream, 1, 0) = <<>>
   BY SubSeqEmpty
  <3>2. Len(<<>>) < 3
   OBVIOUS
  <3> QED BY <3>1, <3>2 DEF Parse
 <2>5. 0 \in 0..Len(offer[d].stream) /\ 0 \in 0..MaxSends
  BY <2>2, SniPeekAssumption
 <2> QED BY <2>2, <2>3, <2>4, <2>5 DEF PeekFits, Fits, Stages, Unjudged, Routed
<1>3. PeekCounts
 <2>1. \A X : "none" \notin X => PeeksAt(X) = {}
  BY DEF SniPeekInit, PeeksAt
 <2>2. Cardinality({}) = 0
  BY FS_EmptySet
 <2>3. /\ peekPermits = PeekSlots /\ PeekSlots \in Nat
       /\ buckets = [inTime |-> 0, count |-> 0]
       /\ tallies \in [Tallies -> Nat] /\ \A t \in Tallies : tallies[t] = 0
  BY SniPeekAssumption DEF SniPeekInit
 <2>4. /\ tallies["capacity"] = 0 /\ tallies["failures"] = 0 /\ tallies["miss"] = 0
       /\ tallies["owner"] = 0 /\ tallies["rule"] = 0 /\ tallies["exact"] = 0
       /\ tallies["fallback"] = 0
  BY <2>3 DEF Tallies
 <2>5. /\ PeeksAt({"reading"}) = {} /\ PeeksAt({"refused"}) = {} /\ PeeksAt({"failed"}) = {}
       /\ PeeksAt({"dropped"}) = {} /\ PeeksAt({"routed", "dialed", "relaying", "done"}) = {}
       /\ PeeksAt(Stages \ {"none", "refused", "reading"}) = {}
  BY <2>1
 <2>6. PermitsExact
  <3>1. Cardinality(PeeksAt({"reading"})) = 0
   BY <2>2, <2>5
  <3> QED BY <2>3, <3>1 DEF PermitsExact
 <2>7. buckets \in [inTime : Nat, count : Nat] /\ buckets.count = 0 /\ buckets.inTime <= buckets.count
  BY <2>3
 <2>8. CountedOnce
  <3>1. /\ Cardinality(PeeksAt({"refused"})) = 0 /\ Cardinality(PeeksAt({"failed"})) = 0
        /\ Cardinality(PeeksAt({"dropped"})) = 0
        /\ Cardinality(PeeksAt({"routed", "dialed", "relaying", "done"})) = 0
        /\ Cardinality(PeeksAt(Stages \ {"none", "refused", "reading"})) = 0
   BY <2>2, <2>5
  <3> QED BY <2>4, <2>7, <3>1 DEF CountedOnce
 <2> QED BY <2>3, <2>6, <2>7, <2>8 DEF PeekCounts
<1> QED BY <1>1, <1>2, <1>3 DEF PeekInv

\* Every step of the listener keeps what is known of its connections.
LEMMA PeekInvNext == PeekInv /\ [SniPeekNext]_sniPeekVars => PeekInv'
<1> SUFFICES ASSUME PeekInv, [SniPeekNext]_sniPeekVars PROVE PeekInv'
 OBVIOUS
<1>1. CASE UNCHANGED sniPeekVars
 <2>1. UNCHANGED <<offer, arrived, sends, closed, late, peek, peekPermits, tallies, buckets, forwarded>>
  BY <1>1 DEF sniPeekVars, dialerVars, taskVars
 <2> USE <2>1 DEF PeekInv
 <2>2. PeekShape'
  BY DEF PeekShape
 <2>3. \A d \in Dialers : PeekFits(d)'
  BY DEF PeekFits
 <2>4. PeekCounts'
  BY DEF PeekCounts, PermitsExact, CountedOnce, PeeksAt
 <2> QED BY <2>2, <2>3, <2>4
<1>2. CASE SniPeekNext
 BY <1>2, DialersKeep, AcceptKeeps, ReadKeeps, RouteKeeps, RelayKeeps DEF SniPeekNext
<1> QED BY <1>1, <1>2

\* What is known of every connection, with hellos that parse as they were built.
LEMMA PeekInvSound ==
    ASSUME BuiltHellosParse, PeekInv PROVE PeeksSound
<1>1. \A d \in Dialers : Fits(offer[d].stream, arrived[d], sends[d], peek[d], forwarded[d])
 BY DEF PeekInv, PeekFits
<1>2. SniPeekTypeOK
 <2>1. \A d \in Dialers : peek[d].at \in Stages /\ peek[d].read <= arrived[d]
  <3>1. \A d \in Dialers : arrived[d] \in Nat /\ peek[d].at \in Stages /\ peek[d].read \in 0..arrived[d]
   BY <1>1 DEF PeekInv, PeekShape, Fits
  <3> QED BY <3>1
 <2> QED BY <2>1 DEF PeekInv, PeekShape, PeekCounts, SniPeekTypeOK
<1>3. VerdictOfStream
 BY <1>1 DEF VerdictOfStream, Fits, PeeksAt, Buffered, Read, Stages, Unjudged, Routed
<1>4. WellFormedIsNamed
 <2> SUFFICES ASSUME NEW d \in Dialers, offer[d].built
              PROVE  /\ peek[d].verdict.what \notin {"not tls", "malformed", "size cap"}
                     /\ peek[d].verdict.what = "hello" => peek[d].verdict.host = offer[d].named
  BY DEF WellFormedIsNamed
 <2>1. Parse(offer[d].stream) = Outcome("hello", offer[d].named)
  BY DEF BuiltHellosParse, PeekInv, PeekShape
 <2>2. /\ Outcome("hello", offer[d].named).what = "hello"
       /\ Outcome("hello", offer[d].named).host = offer[d].named
       /\ Truncated.what = "truncated"
  BY DEF Outcome, Truncated
 <2>3. \/ peek[d].verdict = Truncated \/ peek[d].verdict = Parse(offer[d].stream)
       \/ peek[d].verdict.what \in {"timeout", "io"}
  BY <1>1 DEF Fits, Stages, Unjudged, Routed
 <2> QED BY <2>1, <2>2, <2>3
<1>5. ReplayedVerbatim
 <2> SUFFICES ASSUME NEW d \in Dialers, forwarded[d] # <<>>
              PROVE  \E prelude \in Preludes :
                        forwarded[d] \in {prelude \o Buffered(d, n) : n \in {0, Read(d)}}
  BY DEF ReplayedVerbatim
 <2>1. TargetHas(forwarded[d], offer[d].stream, peek[d].read)
  BY <1>1 DEF Fits, TargetHas, Stages
 <2>2. CASE forwarded[d] \in Preludes
  <3>1. Buffered(d, 0) = <<>>
   BY SubSeqEmpty DEF Buffered
  <3>2. forwarded[d] \in Seq(STRING)
   BY <2>2, SniPeekAssumption
  <3>3. forwarded[d] = forwarded[d] \o Buffered(d, 0)
   BY <3>1, <3>2, ConcatEmptySeq
  <3> QED BY <2>2, <3>3
 <2>3. CASE \E prelude \in Preludes : forwarded[d] = prelude \o SubSeq(offer[d].stream, 1, peek[d].read)
  BY <2>3 DEF Buffered, Read
 <2> QED BY <2>1, <2>2, <2>3 DEF TargetHas
<1> QED BY <1>2, <1>3, <1>4, <1>5 DEF PeekInv, PeekCounts, PeeksSound

\* However the network cuts a stream, a connection of an SNI port is judged by
\* its whole hello, holds a permit exactly while it is read, is counted once
\* where it ended and reaches the target from its first byte; hellos that
\* build_client_hello wrote are taken by the name in them.
THEOREM PeeksAreSound ==
    ASSUME BuiltHellosParse PROVE SniPeekSpec => []PeeksSound
<1>1. SniPeekInit => PeekInv
 BY PeekInvInit
<1>2. PeekInv /\ [SniPeekNext]_sniPeekVars => PeekInv'
 BY PeekInvNext
<1>3. PeekInv => PeeksSound
 BY PeekInvSound
<1> QED BY <1>1, <1>2, <1>3, PTL DEF SniPeekSpec
=============================================================================
