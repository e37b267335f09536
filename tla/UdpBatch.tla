------------------------------ MODULE UdpBatch ------------------------------
(***************************************************************************)
(* What happens to the datagrams of a single-target UDP rule on one port:   *)
(* the batched system calls of udp/batch.rs, the runs the listener sends    *)
(* (udp/listener.rs) and the replies the demux returns (udp/demux.rs).      *)
(*                                                                          *)
(* Listener and demux each keep one arena of slots for all flows and every  *)
(* batch; a call fills a prefix of it, and what earlier batches left stays  *)
(* behind.  Flows come and go as UdpFlows says; evicting is one step here.  *)
(***************************************************************************)
EXTENDS Naturals, Sequences

CONSTANTS
    Senders,     \* client addresses: [family, ip, port, flowinfo, scope]
    BatchSize,   \* BATCH_SIZE, also DEMUX_FAIRNESS_BUDGET
    MaxCarried   \* bound: datagrams of the clients and of the target

ASSUME BatchAssumption ==
    /\ BatchSize \in Nat \ {0}
    /\ MaxCarried \in Nat

\* A SocketAddr: an IPv4 one has neither flow label nor scope.
ASSUME SenderAssumption ==
    /\ Senders \subseteq [family : {"inet", "inet6"}, ip : {a.ip : a \in Senders},
                          port : Nat, flowinfo : Nat, scope : Nat]
    /\ \A a \in Senders :
           /\ a.port < 65536
           /\ a.family = "inet" => a.flowinfo = 0 /\ a.scope = 0

VARIABLES
    batched,   \* the platform has recvmmsg and sendmmsg
    arriving,  \* the listener socket's queue
    replies,   \* the queue of each flow's connected socket
    inArena,   \* BatchBufs of the listener
    outArena,  \* BatchBufs of the demux
    batch,     \* process_batch: slots filled, the slot at hand, what the
               \* registry said of it, and the pending run
    flow,      \* the registry: "vacant", "pending" or "live"
    coldPaths, \* the cold paths: first datagram, and whether the flow is live
    upstream,  \* history: what the target was sent by each client
    clients,   \* history: what each address was sent
    tallied,    \* inc_datagram_in, inc_datagram_out
    numbers    \* datagrams so far, each way

batchVars == <<batched, arriving, replies, inArena, outArena, batch, flow, coldPaths,
               upstream, clients, tallied, numbers>>

-----------------------------------------------------------------------------
(* Addresses on their way into and out of the kernel *)

\* u16::to_be, u16::from_be on a little-endian machine.
Swap(port) == (port % 256) * 256 + port \div 256

\* socketaddr_to_sockaddr
Encoded(a) ==
    IF a.family = "inet"
    THEN [family |-> "inet", port |-> Swap(a.port), addr |-> a.ip, rest |-> <<0, 0>>, len |-> 16]
    ELSE [family |-> "inet6", port |-> Swap(a.port), addr |-> a.ip,
          rest |-> <<a.flowinfo, a.scope>>, len |-> 28]

\* sockaddr_to_socketaddr; a slot whose address does not decode would panic.
Decodes(s) == \/ s.family = "inet" /\ s.len >= 16
              \/ s.family = "inet6" /\ s.len >= 28
Decoded(s) == [family |-> s.family, ip |-> s.addr, port |-> Swap(s.port),
               flowinfo |-> s.rest[1], scope |-> s.rest[2]]

\* The kernel reads and writes ports in network order.
KernelName(s) == [family |-> s.family, ip |-> s.addr, port |-> Swap(s.port),
             flowinfo |-> s.rest[1], scope |-> s.rest[2]]

-----------------------------------------------------------------------------
(* The arena *)

\* A datagram: its client, its number, and whether a cold path carried it.
Datagram(a, no) == [of |-> a, no |-> no, cold |-> FALSE]
NoDatagram == [of |-> [family |-> "none"], no |-> 0, cold |-> FALSE]
FreshArena == [i \in 1..BatchSize |-> [data |-> NoDatagram, addr |-> Encoded(CHOOSE a \in Senders : TRUE)]]

\* recvmmsg fills the first slots; recv_batch_connected leaves addresses alone.
Filled(arena, ds) ==
    [i \in 1..BatchSize |->
        IF i <= Len(ds) THEN [data |-> ds[i], addr |-> Encoded(ds[i].of)] ELSE arena[i]]
FilledConnected(arena, ds) ==
    [i \in 1..BatchSize |-> IF i <= Len(ds) THEN [arena[i] EXCEPT !.data = ds[i]] ELSE arena[i]]

\* Slip: every slot of the arena is forwarded.
AllPayloads(arena, n) == [i \in 1..BatchSize |-> arena[i].data]

\* BatchBufs::payload, BatchBufs::slot for the n slots just filled.
Payloads(arena, n) == [i \in 1..n |-> arena[i].data]
Source(arena, i) == Decoded(arena[i].addr)

Taken(queue) == 1..(IF Len(queue) < BatchSize THEN Len(queue) ELSE BatchSize)
DropFirst(s, n) == SubSeq(s, n + 1, Len(s))

-----------------------------------------------------------------------------
(* Sending *)

NoRun == [of |-> NoDatagram, slots |-> <<>>]
IdleBatch == [filled |-> 0, at |-> 1, got |-> "none", run |-> NoRun]

\* To the target over the flow of k: stats count what was sent.
SentUp(k, ds) ==
    /\ upstream' = [upstream EXCEPT ![k] = @ \o ds]
    /\ tallied' = [tallied EXCEPT !.in[k] = @ + Len(ds)]

Evicted(k) ==
    /\ flow' = [flow EXCEPT ![k] = "vacant"]
    /\ replies' = [replies EXCEPT ![k] = <<>>]

\* UdpAction: only what says that the target is unreachable costs the flow.
UdpAction(error) ==
    CASE error = "WouldBlock" -> "WouldBlock"
      [] error = "EMSGSIZE" -> "MessageTooLarge"
      [] error \in {"ConnectionRefused", "ConnectionAborted", "ConnectionReset",
                    "HostUnreachable", "NetworkUnreachable"} -> "Evict"
      [] OTHER -> "Transient"

\* The error a send or a receive on the flow's socket may end in, classified.
MaybeEvicted(k) ==
    \E action \in {UdpAction(e) : e \in {"WouldBlock", "EMSGSIZE", "ConnectionRefused", "Interrupted"}} :
        IF action = "Evict" THEN Evicted(k) ELSE UNCHANGED <<flow, replies>>

\* A subsequence: each datagram goes out on its own, or is dropped.
Rising(f) == \A i, j \in DOMAIN f : i < j => f[i] < f[j]
Subsequences(ds) ==
    UNION {{[i \in 1..n |-> ds[at[i]]] : at \in {f \in [1..n -> DOMAIN ds] : Rising(f)}} :
               n \in 0..Len(ds)}

-----------------------------------------------------------------------------
(* The listener *)

ClientSends(a) ==
    /\ numbers.in + numbers.out < MaxCarried
    /\ numbers' = [numbers EXCEPT !.in = @ + 1]
    /\ arriving' = Append(arriving, Datagram(a, numbers.in + 1))
    /\ UNCHANGED <<batched, replies, inArena, outArena, batch, flow, coldPaths, upstream, clients, tallied>>

RecvBatch(n) ==
    /\ batched
    /\ batch = IdleBatch
    /\ n \in Taken(arriving)
    /\ inArena' = Filled(inArena, SubSeq(arriving, 1, n))
    /\ arriving' = DropFirst(arriving, n)
    /\ batch' = [IdleBatch EXCEPT !.filled = n]
    /\ UNCHANGED <<batched, replies, outArena, flow, coldPaths, upstream, clients, tallied, numbers>>

Here == Source(inArena, batch.at)

\* process_batch asks the registry about the slot at hand.
LookUp ==
    /\ batch.at <= batch.filled /\ batch.got = "none"
    /\ batch' = [batch EXCEPT !.got = flow[Here]]
    /\ UNCHANGED <<batched, arriving, replies, inArena, outArena, flow, coldPaths, upstream, clients,
                   tallied, numbers>>

\* The pending run is of another flow than the slot at hand, or the slot takes
\* the cold path, or the batch is over.
MustFlush ==
    /\ batch.run # NoRun
    /\ \/ batch.at > batch.filled
       \/ batch.got \in {"vacant", "pending"}
       \/ batch.got = "live" /\ Here # batch.run.of

RunData == [i \in DOMAIN batch.run.slots |-> inArena[batch.run.slots[i]].data]

\* send_batch_connected accepted a prefix; after a partial one the first
\* datagram left is tried alone, for the error it shows.
FlushSent(sent, probed) ==
    /\ MustFlush
    /\ sent \in 1..Len(RunData)
    /\ probed => sent < Len(RunData)
    /\ SentUp(batch.run.of, SubSeq(RunData, 1, IF probed THEN sent + 1 ELSE sent))
    /\ IF sent < Len(RunData) /\ ~probed THEN MaybeEvicted(batch.run.of)
                                         ELSE UNCHANGED <<flow, replies>>
    /\ batch' = [batch EXCEPT !.run = NoRun]
    /\ UNCHANGED <<batched, arriving, inArena, outArena, coldPaths, clients, numbers>>

\* It accepted none: each datagram is sent alone, or the error is classified.
FlushRefused ==
    /\ MustFlush
    /\ \/ /\ \E ds \in Subsequences(RunData) : SentUp(batch.run.of, ds)
          /\ UNCHANGED <<flow, replies>>
       \/ /\ MaybeEvicted(batch.run.of)
          /\ UNCHANGED <<upstream, tallied>>
    /\ batch' = [batch EXCEPT !.run = NoRun]
    /\ UNCHANGED <<batched, arriving, inArena, outArena, coldPaths, clients, numbers>>

NextSlot(run) == [batch EXCEPT !.at = @ + 1, !.got = "none", !.run = run]

\* A datagram of a live flow joins the run, unless quota or bandwidth drop it.
JoinRun ==
    /\ batch.got = "live"
    /\ \/ batch' = NextSlot(batch.run)
       \/ /\ ~MustFlush
          /\ batch' = NextSlot([of |-> Here, slots |-> Append(batch.run.slots, batch.at)])
    /\ UNCHANGED <<batched, arriving, replies, inArena, outArena, flow, coldPaths, upstream, clients,
                   tallied, numbers>>

\* handle_datagram: sent alone over a live flow, unless quota or bandwidth drop
\* it; a vacant key gets a cold path, which carries it; a pending one drops it.
HandleDatagram(k, d) ==
    CASE flow[k] = "live" ->
            /\ \/ SentUp(k, <<d>>) /\ UNCHANGED <<flow, replies>>
               \/ MaybeEvicted(k) /\ UNCHANGED <<upstream, tallied>>
            /\ UNCHANGED coldPaths
      [] flow[k] = "vacant" ->
            /\ flow' = [flow EXCEPT ![k] = "pending"]
            /\ coldPaths' = coldPaths \cup {[first |-> [d EXCEPT !.cold = TRUE], live |-> FALSE]}
            /\ UNCHANGED <<upstream, tallied, replies>>
      [] OTHER -> UNCHANGED <<flow, coldPaths, upstream, tallied, replies>>

ColdSlot ==
    /\ batch.got \in {"vacant", "pending"}
    /\ batch.run = NoRun
    /\ HandleDatagram(Here, inArena[batch.at].data)
    /\ batch' = NextSlot(NoRun)
    /\ UNCHANGED <<batched, arriving, inArena, outArena, clients, numbers>>

BatchDone ==
    /\ batch.filled > 0 /\ batch.at > batch.filled
    /\ batch.run = NoRun
    /\ batch' = IdleBatch
    /\ UNCHANGED <<batched, arriving, replies, inArena, outArena, flow, coldPaths, upstream, clients,
                   tallied, numbers>>

\* Without recvmmsg: one datagram at a time.
RecvOne ==
    /\ ~batched
    /\ arriving # <<>>
    /\ HandleDatagram(Head(arriving).of, Head(arriving))
    /\ arriving' = Tail(arriving)
    /\ UNCHANGED <<batched, inArena, outArena, batch, clients, numbers>>

\* complete_cold_flow: the flow goes live, also when its slot is gone or taken,
\* then its first datagram out; later datagrams of the client may overtake it.
\* A cold path that fails gives back a slot that is still pending.
ColdCommits(c) ==
    /\ ~c.live
    /\ \/ /\ flow' = [flow EXCEPT ![c.first.of] = "live"]
          /\ coldPaths' = (coldPaths \ {c}) \cup {[c EXCEPT !.live = TRUE]}
       \/ /\ flow' = [flow EXCEPT ![c.first.of] = IF @ = "pending" THEN "vacant" ELSE @]
          /\ coldPaths' = coldPaths \ {c}
    /\ UNCHANGED <<batched, arriving, replies, inArena, outArena, batch, upstream, clients, tallied, numbers>>

ColdSends(c) ==
    /\ c.live
    /\ \/ SentUp(c.first.of, <<c.first>>) /\ UNCHANGED <<flow, replies>>
       \/ MaybeEvicted(c.first.of) /\ UNCHANGED <<upstream, tallied>>
    /\ coldPaths' = coldPaths \ {c}
    /\ UNCHANGED <<batched, arriving, inArena, outArena, batch, clients, numbers>>

-----------------------------------------------------------------------------
(* The demux *)

TargetReplies(k) ==
    /\ flow[k] = "live"
    /\ numbers.in + numbers.out < MaxCarried
    /\ numbers' = [numbers EXCEPT !.out = @ + 1]
    /\ replies' = [replies EXCEPT ![k] = Append(@, Datagram(k, numbers.out + 1))]
    /\ UNCHANGED <<batched, arriving, inArena, outArena, batch, flow, coldPaths, upstream, clients, tallied>>

\* send_batch_to: each message to the address in its header; stats count the
\* prefix that was accepted, the rest is dropped.
SentDown(k, ds) ==
    /\ clients' = [clients EXCEPT ![KernelName(Encoded(k))] = @ \o ds]
    /\ tallied' = [tallied EXCEPT !.out[k] = @ + Len(ds)]

\* forward_reply_batch: the shaper drops some of the n slots just filled,
\* sendmmsg accepts a prefix of the others.
ForwardReplies(k, arena, n) ==
    \E ds \in Subsequences(Payloads(arena, n)) : \E sent \in 0..Len(ds) :
        SentDown(k, SubSeq(ds, 1, sent))

\* drain_one_flow_batched
DrainBatched(k, n) ==
    /\ batched
    /\ n \in Taken(replies[k])
    /\ LET arena == FilledConnected(outArena, SubSeq(replies[k], 1, n))
       IN  /\ outArena' = arena
           /\ ForwardReplies(k, arena, n)
    /\ replies' = [replies EXCEPT ![k] = DropFirst(@, n)]
    /\ UNCHANGED <<batched, arriving, inArena, batch, flow, coldPaths, upstream, numbers>>

\* drain_one_flow, one datagram.
DrainOne(k) ==
    /\ ~batched
    /\ replies[k] # <<>>
    /\ SentDown(k, <<Head(replies[k])>>) \/ UNCHANGED <<clients, tallied>>
    /\ replies' = [replies EXCEPT ![k] = Tail(@)]
    /\ UNCHANGED <<batched, arriving, inArena, outArena, batch, flow, coldPaths, upstream, numbers>>

\* classify_udp_error: an ICMP error on a reply, or the reaper, evicts.
DemuxEvicts(k) ==
    /\ flow[k] = "live"
    /\ Evicted(k)
    /\ UNCHANGED <<batched, arriving, inArena, outArena, batch, coldPaths, upstream, clients, tallied, numbers>>

-----------------------------------------------------------------------------
BatchInit ==
    /\ batched \in BOOLEAN
    /\ arriving = <<>>
    /\ replies = [k \in Senders |-> <<>>]
    /\ inArena = FreshArena /\ outArena = FreshArena
    /\ batch = IdleBatch
    /\ flow = [k \in Senders |-> "vacant"]
    /\ coldPaths = {}
    /\ upstream = [k \in Senders |-> <<>>]
    /\ clients = [k \in Senders |-> <<>>]
    /\ tallied = [in |-> [k \in Senders |-> 0], out |-> [k \in Senders |-> 0]]
    /\ numbers = [in |-> 0, out |-> 0]

BatchNext ==
    \/ \E a \in Senders : ClientSends(a) \/ TargetReplies(a)
    \/ \E n \in 1..BatchSize : RecvBatch(n)
    \/ LookUp \/ JoinRun \/ ColdSlot \/ BatchDone
    \/ \E sent \in 1..BatchSize, probed \in BOOLEAN : FlushSent(sent, probed)
    \/ FlushRefused
    \/ RecvOne
    \/ \E c \in coldPaths : ColdCommits(c) \/ ColdSends(c)
    \/ \E k \in Senders : \/ DrainOne(k) \/ DemuxEvicts(k)
                          \/ \E n \in 1..BatchSize : DrainBatched(k, n)

BatchSpec == BatchInit /\ [][BatchNext]_batchVars

-----------------------------------------------------------------------------
(* Properties *)

Ascending(s) == \A i, j \in DOMAIN s : i < j => s[i].no < s[j].no

\* The target is sent a client's datagrams over that client's flow, none of
\* them twice, in the order they arrived; only a datagram a cold path carried
\* may come late.
SentInOrder ==
    \A k \in Senders :
        /\ \A i \in DOMAIN upstream[k] : upstream[k][i].of = k
        /\ \A i, j \in DOMAIN upstream[k] :
               i < j => \/ upstream[k][i].no < upstream[k][j].no
                        \/ /\ upstream[k][i].no # upstream[k][j].no
                           /\ upstream[k][i].cold \/ upstream[k][j].cold

\* A client gets the replies to its own flow, none twice and in order, whatever
\* earlier batches left in the arena.
RepliedInOrder ==
    \A k \in Senders :
        /\ \A i \in DOMAIN clients[k] : clients[k][i].of = k
        /\ Ascending(clients[k])

\* The statistics count what was sent, after partial and refused batches too.
TalliedAsSent ==
    \A k \in Senders :
        /\ tallied.in[k] = Len(upstream[k])
        /\ tallied.out[k] = Len(clients[k])

\* A listener's run is of one flow and of the batch at hand.
RunOfBatch ==
    \A i \in DOMAIN batch.run.slots :
        /\ batch.run.slots[i] < batch.at
        /\ Source(inArena, batch.run.slots[i]) = batch.run.of

\* Batched datagrams arrive where, and as often as, single ones would
\* (process_batch, flush_run, forward_reply_batch).
BatchesSound == SentInOrder /\ RepliedInOrder /\ TalliedAsSent /\ RunOfBatch
=============================================================================
