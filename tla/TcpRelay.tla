------------------------------ MODULE TcpRelay ------------------------------
(***************************************************************************)
(* The relay of accepted TCP connections on one worker thread              *)
(* (forwarder/proxy.rs, forwarder/splice.rs, forwarder/stats.rs): dial,    *)
(* PROXY prelude and replayed ClientHello, then one of three copy loops    *)
(* (splice through a pooled pipe per direction, the userspace loop, the    *)
(* quota loop), a fallback from the first to the others, cancellation, and *)
(* the booking of bytes in the rule's statistics.                          *)
(***************************************************************************)
EXTENDS Integers, Sequences

CONSTANTS Relayed,      \* connections, in any overlap, on one worker
          MaxStream,    \* bound: bytes a peer sends in each direction
          PoolMax,      \* PIPE_POOL_MAX
          RelayBudgets  \* initial budgets of a quota

ASSUME RelayBounds == MaxStream \in [{"in", "out"} -> Nat] /\ PoolMax \in Nat /\ RelayBudgets \subseteq Nat

VARIABLES relay,      \* Relayed -> where the connection's task is
          copy,       \* per direction: outcome, bytes read, pipe, batch
          received,   \* per direction: the bytes its destination was sent
          booked,     \* history: bytes of the connection added to RuleStats
          pipePool,   \* PIPE_POOL: pipes, each the bytes it holds
          budget      \* QuotaHandle budget of the metered connections

relayVars == <<relay, copy, received, booked, pipePool, budget>>

Directions == {"in", "out"}
EndStates == {"closed", "failed", "cancelled"}

\* `moved` is moved_any, `live` the bytes the LiveBytesSink recorded.
NotDialed == [at |-> "accepted", path |-> "none", preread |-> 0, metered |-> FALSE,
              moved |-> FALSE]
NotCopying == [end |-> "none", read |-> 0, pipe |-> <<>>, left |-> 0,
               copied |-> 0, live |-> 0]

Byte(c, d, k) == <<c, d, k>>
Bytes(c, d, from, n) == [i \in 1..n |-> Byte(c, d, from + i)]

RelayInit ==
    /\ relay = [c \in Relayed |-> NotDialed]
    /\ copy = [c \in Relayed |-> [d \in Directions |-> NotCopying]]
    /\ received = [c \in Relayed |-> [d \in Directions |-> <<>>]]
    /\ booked = [c \in Relayed |-> [d \in Directions |-> 0]]
    /\ pipePool = <<>>
    /\ budget \in RelayBudgets

To(c, rec) == relay' = [relay EXCEPT ![c] = rec]
Fail(c) == To(c, [relay[c] EXCEPT !.at = "failed"])

Dials(c) ==
    /\ relay[c].at = "accepted"
    /\ \/ Fail(c)
       \/ \E metered \in BOOLEAN :
            To(c, [relay[c] EXCEPT !.at = "dialed", !.metered = metered])
    /\ UNCHANGED <<copy, received, booked, pipePool, budget>>

\* The PROXY prelude is not part of the stream; the captured ClientHello is
\* its first byte and is not booked yet.
Replays(c) ==
    /\ relay[c].at = "dialed"
    /\ \/ Fail(c) /\ UNCHANGED <<copy, received>>
       \/ \E n \in {0, 1} :
            /\ To(c, [relay[c] EXCEPT !.at = "replayed", !.preread = n])
            /\ copy' = [copy EXCEPT ![c]["in"].read = n]
            /\ received' = [received EXCEPT ![c]["in"] = @ \o Bytes(c, "in", 0, n)]
    /\ UNCHANGED <<booked, pipePool, budget>>

\* Userspace loops: the rate-limited loop and the quota loop do not feed the
\* live sink.
UserPath(c, capped) ==
    IF capped THEN "capped" ELSE IF relay[c].metered THEN "quota" ELSE "userspace"

\* copy_bidirectional acquires two pipes (the pool's last, or new ones); a
\* failed pipe2 is terminal and drops what was acquired.
TakenPipes == SubSeq(pipePool, 1, Len(pipePool) - 2)
PoolTop(i) == IF Len(pipePool) >= i THEN pipePool[Len(pipePool) + 1 - i] ELSE <<>>

StartCopy(c) ==
    /\ relay[c].at = "replayed"
    /\ \/ \E capped \in BOOLEAN :    \* capped, or splice switched off
            To(c, [relay[c] EXCEPT !.at = "copying", !.path = UserPath(c, capped)])
          /\ UNCHANGED <<copy, pipePool>>
       \/ /\ To(c, [relay[c] EXCEPT !.at = "copying", !.path = "splice"])
          /\ copy' = [copy EXCEPT ![c]["in"].pipe = PoolTop(1),
                                  ![c]["out"].pipe = PoolTop(2)]
          /\ pipePool' = IF Len(pipePool) >= 2 THEN TakenPipes ELSE <<>>
       \/ /\ Len(pipePool) < 2
          /\ Fail(c)
          /\ pipePool' = <<>>
          /\ UNCHANGED copy
    /\ UNCHANGED <<received, booked, budget>>

Running(c, d, path) ==
    relay[c].at = "copying" /\ relay[c].path = path /\ copy[c][d].end = "none"

Exhausted(c) == relay[c].metered /\ budget = 0
Granted(c, n) == relay[c].metered => budget >= n
Consumed(c, n) ==
    IF ~relay[c].metered THEN budget ELSE IF budget >= n THEN budget - n ELSE 0
Ending(c, d, how) == [copy EXCEPT ![c][d].end = how]

\* The top of a loop: quota cutoff (splice and quota loops) or end of the
\* source; both half-close the destination.
Cutoff(c, d, path) ==
    /\ Running(c, d, path) /\ copy[c][d].left = 0
    /\ Exhausted(c)
    /\ copy' = Ending(c, d, "QuotaCutoff")
    /\ UNCHANGED <<relay, received, booked, pipePool, budget>>

Eof(c, d, path) ==
    /\ Running(c, d, path) /\ copy[c][d].left = 0
    /\ ~Exhausted(c)
    /\ copy' = Ending(c, d, "Eof")
    /\ UNCHANGED <<relay, received, booked, pipePool, budget>>

\* splice_dir, src -> pipe.
SpliceIn(c, d) ==
    /\ Running(c, d, "splice") /\ copy[c][d].left = 0 /\ ~Exhausted(c)
    /\ \E n \in 1..(MaxStream[d] - copy[c][d].read) :
         copy' = [copy EXCEPT ![c][d].pipe = @ \o Bytes(c, d, copy[c][d].read, n),
                              ![c][d].left = n, ![c][d].read = @ + n]
    /\ To(c, [relay[c] EXCEPT !.moved = TRUE])
    /\ UNCHANGED <<received, booked, pipePool, budget>>

\* drain_pipe_to, pipe -> dst: delivered, booked live, then charged.
SpliceOut(c, d) ==
    /\ Running(c, d, "splice") /\ copy[c][d].left > 0
    /\ \E n \in 1..copy[c][d].left :
         /\ received' = [received EXCEPT ![c][d] = @ \o SubSeq(copy[c][d].pipe, 1, n)]
         /\ booked' = [booked EXCEPT ![c][d] = @ + n]
         /\ budget' = Consumed(c, n)
         /\ copy' = [copy EXCEPT ![c][d] =
              [copy[c][d] EXCEPT
                 !.pipe = SubSeq(@, n + 1, Len(@)), !.copied = @ + n, !.live = @ + n,
                 !.left = IF Granted(c, n) THEN @ - n ELSE 0,
                 !.end = IF Granted(c, n) THEN @ ELSE "QuotaCutoff"]]
    /\ UNCHANGED <<relay, pipePool>>

\* A read, a whole write and its booking in the userspace loops.  The quota
\* charges before the write and drops the chunk that straddles the budget.
UserCopy(c, d, path) ==
    /\ path # "splice"
    /\ Running(c, d, path)
    /\ ~Exhausted(c)
    /\ \E n \in 1..(MaxStream[d] - copy[c][d].read) :
         LET passes == Granted(c, n)
             sunk == IF path = "userspace" THEN n ELSE 0
         IN  /\ budget' = Consumed(c, n)
             /\ copy' = [copy EXCEPT ![c][d] =
                  IF passes
                  THEN [copy[c][d] EXCEPT !.read = @ + n, !.copied = @ + n, !.live = @ + sunk]
                  ELSE [copy[c][d] EXCEPT !.read = @ + n, !.end = "QuotaCutoff"]]
             /\ received' = [received EXCEPT ![c][d] =
                  IF passes THEN @ \o Bytes(c, d, copy[c][d].read, n) ELSE @]
             /\ booked' = [booked EXCEPT ![c][d] = @ + IF passes THEN sunk ELSE 0]
    /\ UNCHANGED <<relay, pipePool>>

\* classify: an unsupported errno permits the fallback only while no byte of
\* either direction entered a pipe; anything else ends the connection.
MayFallBack(c) == relay[c].path = "splice" /\ ~relay[c].moved

\* An error of one direction: try_join drops the other one.
CopyFails(c, d, path) ==
    /\ Running(c, d, path)
    /\ \/ Fail(c) /\ UNCHANGED copy
       \/ /\ MayFallBack(c)
          /\ copy[c][d].left = 0 /\ ~Exhausted(c)
          /\ To(c, [relay[c] EXCEPT !.path = UserPath(c, FALSE)])
          /\ copy' = [copy EXCEPT ![c] =
               [e \in Directions |-> [copy[c][e] EXCEPT !.pipe = <<>>, !.left = 0]]]
    /\ UNCHANGED <<received, booked, pipePool, budget>>

\* Slip: pipes always return to the pool, the state before issue #43.
ReuseAlways(c) == relay[c].path = "splice"

may_reuse_pipes(c) ==
    relay[c].path = "splice" /\ \A d \in Directions : copy[c][d].end = "Eof"

Released(pool, pipe) == IF Len(pool) < PoolMax THEN Append(pool, pipe) ELSE pool

\* What record_remaining books: the totals minus what the sink recorded.
Remaining(c, d) ==
    copy[c][d].copied + (IF d = "in" THEN relay[c].preread ELSE 0) - copy[c][d].live

CopyEnds(c) ==
    /\ relay[c].at = "copying"
    /\ \A d \in Directions : copy[c][d].end # "none"
    /\ pipePool' = IF may_reuse_pipes(c)
                   THEN Released(Released(pipePool, copy[c]["in"].pipe), copy[c]["out"].pipe)
                   ELSE pipePool
    /\ booked' = [booked EXCEPT ![c] = [d \in Directions |-> booked[c][d] + Remaining(c, d)]]
    /\ To(c, [relay[c] EXCEPT !.at = "closed"])
    /\ UNCHANGED <<copy, received, budget>>

\* proxy_cancelled: the copy future and its pipes are dropped, nothing more
\* is booked.
Cancelled(c) ==
    /\ relay[c].at = "copying"
    /\ To(c, [relay[c] EXCEPT !.at = "cancelled"])
    /\ UNCHANGED <<copy, received, booked, pipePool, budget>>

Paths == {"splice", "userspace", "quota", "capped"}

RelayNext ==
    \E c \in Relayed :
      \/ Dials(c) \/ Replays(c) \/ StartCopy(c) \/ CopyEnds(c) \/ Cancelled(c)
      \/ \E d \in Directions :
           \/ SpliceIn(c, d) \/ SpliceOut(c, d)
           \/ \E path \in Paths : \/ Cutoff(c, d, path) \/ Eof(c, d, path)
                                  \/ UserCopy(c, d, path) \/ CopyFails(c, d, path)

RelaySpec == RelayInit /\ [][RelayNext]_relayVars

----------------------------------------------------------------------------
\* A destination is sent a prefix of what its own peer sent, in order: no
\* byte of another connection left in a pooled pipe, none skipped by a
\* fallback or by a quota cutoff (splice.rs may_reuse_pipes and classify).
DeliveredIsPrefix ==
    \A c \in Relayed, d \in Directions :
      received[c][d] = Bytes(c, d, 0, Len(received[c][d]))

\* A connection that closed cleanly has every delivered byte in the rule's
\* statistics exactly once, on whichever loop it ran and after a fallback;
\* at no time is a byte booked that was not delivered (LiveBytesSink).
BookedOnce ==
    \A c \in Relayed, d \in Directions :
      /\ booked[c][d] <= Len(received[c][d])
      /\ relay[c].at = "closed" => booked[c][d] = Len(received[c][d])

\* Bytes arrive in order and unmixed, and are counted once (splice.rs, proxy.rs).
RelaySound == DeliveredIsPrefix /\ BookedOnce
=============================================================================
