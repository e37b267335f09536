------------------------------ MODULE Throttle ------------------------------
(***************************************************************************)
(* Bandwidth throttling: the lazily refilled token bucket of a cap at the  *)
(* level of its two atomics (rate_limit/bucket.rs), and what draws from    *)
(* it: the TCP copy loop, which sleeps out a deficit and tries again       *)
(* (rate_limit/copy.rs copy_with_cap), and the UDP shaper, which drops the *)
(* datagram (rate_limit/scope.rs UdpBandwidthShaper).  A chunk passes the  *)
(* bucket of the owner, then the bucket of the rule.                       *)
(***************************************************************************)
EXTENDS Integers, Sequences

CONSTANTS Layers,     \* the capped layers in order, of "owner" and "rule"
          Streams,    \* copy directions of TCP connections
          Shapers,    \* UDP batches
          ChunkSizes,      \* bytes a read may return, at most chunk_for_direction
          Rate, Unit, \* tokens per Unit of the clock
          Burst,      \* pool size
          MaxTime     \* bound: clock

ASSUME ThrottleRate == Rate \in Nat \ {0} /\ Unit \in Nat \ {0}
ASSUME ThrottleBurst == Burst \in Nat \ {0}
ASSUME ThrottleSizes == ChunkSizes \subseteq Nat \ {0}
ASSUME ThrottleTime == MaxTime \in Nat
ASSUME ThrottleLayers == Layers \in Seq({"owner", "rule"})

VARIABLES tokens,    \* AtomicU64 of each layer's bucket
          last,      \* last_refill_micros of each layer's bucket
          time,      \* the monotonic clock
          draw,      \* the acquire each data path is in
          granted    \* history: tokens granted by each layer

throttleVars == <<tokens, last, time, draw, granted>>

Draws == Streams \cup Shapers
Capped == {Layers[i] : i \in DOMAIN Layers}
ReadyToRead == [pc |-> "read", i |-> 0, n |-> 0, now |-> 0, seen |-> 0, added |-> 0,
          wake |-> 0, waits |-> 0]

\* The layer d is at.
Here(d) == Layers[draw[d].i]

\* TokenBucket::new: full.
ThrottleInit ==
    /\ tokens = [l \in Capped |-> Burst]
    /\ last = [l \in Capped |-> 0]
    /\ time = 0
    /\ draw = [d \in Draws |-> ReadyToRead]
    /\ granted = [l \in Capped |-> 0]

Moved(d, rec) == draw' = [draw EXCEPT ![d] = rec]

\* A chunk or a datagram is read; the clock is read by each acquire.
ReadChunk(d) ==
    /\ draw[d].pc = "read"
    /\ \E n \in ChunkSizes : Moved(d, [ReadyToRead EXCEPT !.pc = "acquire", !.i = 1, !.n = n])
    /\ UNCHANGED <<tokens, last, time, granted>>

AcquireReadsClock(d) ==
    /\ draw[d].pc = "acquire"
    /\ Moved(d, [draw[d] EXCEPT !.pc = "refill", !.now = time])
    /\ UNCHANGED <<tokens, last, time, granted>>

\* refill: whole tokens since the last refill; a fraction is left to accrue.
RefillLoads(d) ==
    /\ draw[d].pc = "refill"
    /\ LET elapsed == draw[d].now - last[Here(d)]
           added == (elapsed * Rate) \div Unit IN
       IF elapsed <= 0 \/ added = 0 THEN Moved(d, [draw[d] EXCEPT !.pc = "load"])
       ELSE Moved(d, [draw[d] EXCEPT !.pc = "publish", !.seen = last[Here(d)], !.added = added])
    /\ UNCHANGED <<tokens, last, time, granted>>

\* Slip: the new time stamp is stored, whoever has refilled meanwhile.
RefillStores(d) ==
    /\ draw[d].pc = "publish"
    /\ last' = [last EXCEPT ![Here(d)] = draw[d].now]
    /\ Moved(d, [draw[d] EXCEPT !.pc = "mint"])
    /\ UNCHANGED <<tokens, time, granted>>

\* The winner of the time stamp mints, the loser does not.
RefillPublishes(d) ==
    /\ draw[d].pc = "publish"
    /\ IF last[Here(d)] = draw[d].seen
       THEN /\ last' = [last EXCEPT ![Here(d)] = draw[d].now]
            /\ Moved(d, [draw[d] EXCEPT !.pc = "mint"])
       ELSE /\ Moved(d, [draw[d] EXCEPT !.pc = "load", !.added = 0])
            /\ UNCHANGED last
    /\ UNCHANGED <<tokens, time, granted>>

RefillReadsPool(d) ==
    /\ draw[d].pc = "mint"
    /\ Moved(d, [draw[d] EXCEPT !.pc = "swap", !.seen = tokens[Here(d)]])
    /\ UNCHANGED <<tokens, last, time, granted>>

\* Capped at the burst; a failed exchange takes the value it met.
RefillMints(d) ==
    /\ draw[d].pc = "swap"
    /\ LET l == Here(d)  c == draw[d]
           next == IF c.seen + c.added < Burst THEN c.seen + c.added ELSE Burst IN
       IF next = c.seen \/ tokens[l] = c.seen
       THEN /\ tokens' = [tokens EXCEPT ![l] = IF next = c.seen THEN @ ELSE next]
            /\ Moved(d, [c EXCEPT !.pc = "load", !.added = 0])
       ELSE /\ Moved(d, [c EXCEPT !.seen = tokens[l]])
            /\ UNCHANGED tokens
    /\ UNCHANGED <<last, time, granted>>

AcquireReadsPool(d) ==
    /\ draw[d].pc = "load"
    /\ Moved(d, [draw[d] EXCEPT !.pc = "take", !.seen = tokens[Here(d)]])
    /\ UNCHANGED <<tokens, last, time, granted>>

\* ceil(needed / rate)
Deficit(needed) == (needed * Unit + Rate - 1) \div Rate

\* What a caller does with Throttled: the copy loop sleeps, the shaper drops.
Throttled(d) ==
    LET c == draw[d] IN
    IF d \in Shapers THEN ReadyToRead
    ELSE [c EXCEPT !.pc = "sleep", !.wake = time + Deficit(c.n - c.seen),
                   !.waits = IF @ < 2 THEN @ + 1 ELSE @]

\* The next layer, or the write of the chunk.
Admitted(d) ==
    IF draw[d].i = Len(Layers) THEN ReadyToRead
    ELSE [ReadyToRead EXCEPT !.pc = "acquire", !.i = draw[d].i + 1, !.n = draw[d].n]

AcquireTakes(d) ==
    /\ draw[d].pc = "take"
    /\ LET l == Here(d)  c == draw[d] IN
       IF c.seen < c.n THEN Moved(d, Throttled(d)) /\ UNCHANGED <<tokens, granted>>
       ELSE IF tokens[l] = c.seen
       THEN /\ tokens' = [tokens EXCEPT ![l] = c.seen - c.n]
            /\ granted' = [granted EXCEPT ![l] = @ + c.n]
            /\ Moved(d, Admitted(d))
       ELSE Moved(d, [c EXCEPT !.pc = "load"]) /\ UNCHANGED <<tokens, granted>>
    /\ UNCHANGED <<last, time>>

Wake(d) ==
    /\ draw[d].pc = "sleep" /\ time >= draw[d].wake
    /\ Moved(d, [draw[d] EXCEPT !.pc = "acquire", !.wake = 0])
    /\ UNCHANGED <<tokens, last, time, granted>>

TimePasses ==
    /\ time < MaxTime
    /\ time' = time + 1
    /\ UNCHANGED <<tokens, last, draw, granted>>

ThrottleNext ==
    \/ \E d \in Draws :
         \/ ReadChunk(d) \/ AcquireReadsClock(d) \/ RefillLoads(d) \/ RefillPublishes(d)
         \/ RefillReadsPool(d) \/ RefillMints(d) \/ AcquireReadsPool(d) \/ AcquireTakes(d)
         \/ Wake(d)
    \/ TimePasses

ThrottleSpec == ThrottleInit /\ [][ThrottleNext]_throttleVars

-----------------------------------------------------------------------------
(* Properties *)

\* However acquires and refills of one bucket interleave, a layer grants no
\* more than its burst and what its rate has earned since it was built: no
\* stretch of time is minted twice (bucket.rs acquire, refill).
RateHeld == \A l \in Capped : granted[l] <= Burst + (time * Rate) \div Unit
=============================================================================
