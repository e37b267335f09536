------------------------------- MODULE SniPeek -------------------------------
(***************************************************************************)
(* What happens to a connection accepted on an SNI port before it is        *)
(* relayed (forwarder/sni): a bounded number of tasks read the ClientHello, *)
(* parse it after every read until it is whole, broken or late, find the    *)
(* rule and replay what was read to the target.                             *)
(*                                                                          *)
(* A stream is a sequence of fields: a length, a type or the 34 fixed bytes *)
(* of a hello are one number each, a host name is a sequence of characters. *)
(***************************************************************************)
EXTENDS Naturals, Sequences, FiniteSets
Ext == INSTANCE SequencesExt

CONSTANTS
    Dialers,    \* connections
    Offers,     \* what the dialers will send, to a port with or without a fallback
    ServedHosts,\* host names of the port's rules
    Preludes,   \* PROXY headers the rules ask for
    PeekSlots,  \* MAX_INFLIGHT_PEEKS
    MaxRecord,  \* MAX_HANDSHAKE_BODY
    Chunk,      \* CHUNK
    ByteCap,    \* PEEK_BYTE_CAP
    MaxSends    \* bound on the pieces a stream arrives in

ASSUME SniPeekAssumption ==
    /\ IsFiniteSet(Dialers) /\ Preludes \subseteq Seq(STRING)
    /\ PeekSlots \in Nat \ {0} /\ Chunk \in Nat \ {0} /\ MaxSends \in Nat
    /\ MaxRecord \in Nat /\ ByteCap \in Nat /\ MaxRecord + 3 <= ByteCap

VARIABLES
    offer,    \* whether the dialers connect and what they send
    fallback, \* one of the port's rules takes the rest
    arrived,  \* fields of each stream that are in the socket or were read
    sends,    \* pieces sent
    closed,   \* dialers that have closed
    late,     \* connections whose deadline has passed
    peek,     \* the task of each connection
    peekPermits,\* permits left in the semaphore
    tallies,  \* SniListenerCounters, the rules' route and reject counters
    buckets,  \* the histogram: in time, and all
    forwarded,\* what the target has received
    stopping  \* the listener is cancelled

dialerVars == <<offer, fallback, arrived, sends, closed, late>>
taskVars == <<peek, peekPermits, tallies, buckets, forwarded, stopping>>
sniPeekVars == <<dialerVars, taskVars>>

-----------------------------------------------------------------------------
(* client_hello.rs *)

Handshake == 1    \* RECORD_TYPE_HANDSHAKE
Major == 3
ClientHello == 1  \* HS_MSG_CLIENT_HELLO
ServerName == 0   \* EXT_SERVER_NAME
HostName == 0     \* SNI_NAME_TYPE_HOST

\* Characters of a name.
Dot == 0
Lower == 1
Upper == 2
Blank == 3
NotUtf8 == 4

Outcome(what, host) == [what |-> what, host |-> host]
Truncated == Outcome("truncated", <<>>)
NotTls == Outcome("not tls", <<>>)
Malformed == Outcome("malformed", <<>>)
Unnamed == Outcome("hello", <<>>)

\* Cursor: after the length and the bytes it announces, past the end if short.
Short == 99
Skip(b, p) ==
    IF p < Len(b) /\ p + 1 + b[p + 1] <= Len(b) THEN p + 1 + b[p + 1] ELSE Short
TakenField(b, p) == SubSeq(b, p + 2, Skip(b, p))

\* trim and trim_end_matches('.').
Trimmed(name) ==
    LET text == {i \in DOMAIN name : name[i] # Blank}
        inner == IF text = {} THEN <<>> ELSE SubSeq(name, Ext!Min(text), Ext!Max(text))
        kept == {i \in DOMAIN inner : inner[i] # Dot}
    IN  IF kept = {} THEN <<>> ELSE SubSeq(inner, 1, Ext!Max(kept))

Lowercased(name) == [i \in DOMAIN name |-> IF name[i] = Upper THEN Lower ELSE name[i]]

\* The first usable host_name of a server_name_list.
NameIn(list) ==
    LET From[p \in 0 .. Len(list)] ==
          IF p = Len(list) THEN Unnamed
          ELSE LET next == Skip(list, p + 1)
                   name == TakenField(list, p + 1)
               IN  IF next = Short THEN Malformed
                   ELSE IF list[p + 1] # HostName \/ name = <<>> THEN From[next]
                   ELSE IF \E i \in DOMAIN name : name[i] = NotUtf8 THEN Malformed
                   ELSE IF Trimmed(name) = <<>> THEN From[next]
                   ELSE Outcome("hello", Lowercased(Trimmed(name)))
    IN  From[0]

\* The first server_name extension; the others are skipped by their length.
NameAmong(extensions) ==
    LET From[p \in 0 .. Len(extensions)] ==
          IF p = Len(extensions) THEN Unnamed
          ELSE LET next == Skip(extensions, p + 1)
                   data == TakenField(extensions, p + 1)
               IN  IF next = Short THEN Malformed
                   ELSE IF extensions[p + 1] # ServerName THEN From[next]
                   ELSE IF Skip(data, 0) = Short THEN Malformed
                   ELSE NameIn(TakenField(data, 0))
    IN  From[0]

\* legacy_session_id, cipher_suites, compression_methods, extensions.  A hello
\* with a name or without one; what the extensions answer else is an error.
ParseBody(body) ==
    LET extensions == Skip(body, Skip(body, Skip(body, 1)))
        found == NameAmong(TakenField(body, extensions))
    IN  IF extensions = Short THEN Malformed
        ELSE IF extensions = Len(body) THEN Unnamed
        ELSE IF Skip(body, extensions) = Short THEN Malformed
        ELSE IF found.what = "hello" THEN Outcome("hello", found.host)
        ELSE Malformed

\* The handshake header: a hello that fits in its record.
ParseFragment(f) ==
    IF Len(f) < 2 \/ f[1] # ClientHello \/ f[2] > Len(f) - 2 \/ f[2] < 1
    THEN Malformed
    ELSE ParseBody(SubSeq(f, 3, 2 + f[2]))

\* A slip: the record is parsed as soon as its header is there.
ParseEarly(s) ==
    IF Len(s) < 3 THEN Truncated
    ELSE IF s[1] # Handshake \/ s[2] # Major THEN NotTls
    ELSE IF s[3] = 0 \/ s[3] > MaxRecord THEN Malformed
    ELSE ParseFragment(SubSeq(s, 4, Ext!Min({Len(s), 3 + s[3]})))

Parse(s) ==
    IF Len(s) < 3 THEN Truncated
    ELSE IF s[1] # Handshake \/ s[2] # Major THEN NotTls
    ELSE IF s[3] = 0 \/ s[3] > MaxRecord THEN Malformed
    ELSE IF Len(s) < 3 + s[3] THEN Truncated
    ELSE ParseFragment(SubSeq(s, 4, 3 + s[3]))

\* build_client_hello: the wire form of a hello given its extensions.
Counted(s) == <<Len(s)>> \o s
NameEntry(n) == <<n.type>> \o Counted(n.name)
NameList(names) == Counted(Ext!FoldLeft(LAMBDA out, n : out \o NameEntry(n), <<>>, names))
Extension(type, data) == <<type>> \o Counted(data)
TlsRecord(hello) == <<Handshake, Major>> \o Counted(<<ClientHello>> \o Counted(<<0>> \o hello))
BuildClientHello(sid, extensions) ==
    TlsRecord(Counted(sid) \o Counted(<<1>>) \o Counted(<<0>>) \o Counted(extensions))

\* The dialers' streams are sequences of fields.
ASSUME OffersAssumption ==
    \A o \in Offers : \A d \in Dialers :
        o.streams[d].stream \in Seq(Nat) /\ o.streams[d].built \in BOOLEAN

\* A hello that is built and whole is parsed as what was written.
BuiltHellosParse ==
    \A o \in Offers : \A d \in Dialers :
        o.streams[d].built => Parse(o.streams[d].stream) = Outcome("hello", o.streams[d].named)

-----------------------------------------------------------------------------
(* Dialers and the clock *)

\* What arrives while the task does not read waits in the socket, unseen.
DialerSends(d) ==
    /\ peek[d].at \in {"reading", "relaying"} /\ d \notin closed
    /\ sends[d] < MaxSends
    /\ \E n \in arrived[d] + 1 .. Len(offer[d].stream) :
          arrived' = [arrived EXCEPT ![d] = n]
    /\ sends' = [sends EXCEPT ![d] = @ + 1]
    /\ UNCHANGED <<offer, fallback, closed, late>> /\ UNCHANGED taskVars

DialerCloses(d) ==
    /\ peek[d].at \in {"reading", "relaying"} /\ d \notin closed
    /\ closed' = closed \cup {d}
    /\ UNCHANGED <<offer, fallback, arrived, sends, late>> /\ UNCHANGED taskVars

DeadlinePasses(d) ==
    /\ peek[d].at = "reading"
    /\ late' = late \cup {d}
    /\ UNCHANGED <<offer, fallback, arrived, sends, closed>> /\ UNCHANGED taskVars

-----------------------------------------------------------------------------
(* SniListener::run_with_peek_cap *)

Tally(t) == tallies' = [tallies EXCEPT ![t] = @ + 1]

\* No permit: the socket is dropped.
AcceptRefused(d) ==
    /\ ~stopping /\ offer[d].dials
    /\ peek[d].at = "none"
    /\ peekPermits = 0
    /\ peek' = [peek EXCEPT ![d].at = "refused"]
    /\ Tally("capacity")
    /\ UNCHANGED <<dialerVars, peekPermits, buckets, forwarded, stopping>>

AcceptPeek(d) ==
    /\ ~stopping /\ offer[d].dials
    /\ peek[d].at = "none"
    /\ peekPermits > 0
    /\ peekPermits' = peekPermits - 1
    /\ peek' = [peek EXCEPT ![d].at = "reading"]
    /\ UNCHANGED <<dialerVars, tallies, buckets, forwarded, stopping>>

CancelListener ==
    /\ ~stopping
    /\ stopping' = TRUE
    /\ UNCHANGED <<dialerVars, peek, peekPermits, tallies, buckets, forwarded>>

-----------------------------------------------------------------------------
(* read_client_hello_with *)

\* PeekDurationHistogram::observe: cumulative, the last bucket ends at the
\* deadline, later ones are in the count alone.
Observe(d) ==
    buckets' = [inTime |-> buckets.inTime + IF d \in late THEN 0 ELSE 1,
                count |-> buckets.count + 1]

Give(d, verdict) ==
    /\ peek' = [peek EXCEPT ![d].at = "failed", ![d].verdict = verdict]
    /\ peekPermits' = peekPermits + 1
    /\ Tally("failures")
    /\ Observe(d)
    /\ UNCHANGED <<dialerVars, forwarded, stopping>>

Read(d) == peek[d].read
Buffered(d, n) == SubSeq(offer[d].stream, 1, n)
Wanted(d) ==
    LET room == {Chunk, ByteCap - Read(d), arrived[d] - Read(d)}
    IN  CHOOSE n \in room : \A m \in room : n <= m

\* A read, the parse after it, then the checks at the head of the next round.
ReadChunk(d) ==
    /\ peek[d].at = "reading"
    /\ arrived[d] > Read(d)
    /\ LET n == Read(d) + Wanted(d)
           outcome == Parse(Buffered(d, n))
       IN  \/ /\ outcome.what = "hello"
              /\ peek' = [peek EXCEPT ![d] = [at |-> "peeked", read |-> n, verdict |-> outcome]]
              /\ peekPermits' = peekPermits + 1
              /\ Observe(d)
              /\ UNCHANGED <<dialerVars, tallies, forwarded, stopping>>
           \/ /\ outcome.what \in {"not tls", "malformed"}
              /\ Give(d, outcome)
           \/ /\ outcome = Truncated /\ n >= ByteCap
              /\ Give(d, Outcome("size cap", <<>>))
           \/ /\ outcome = Truncated /\ n < ByteCap /\ d \in late
              /\ Give(d, Outcome("timeout", <<>>))
           \/ /\ outcome = Truncated /\ n < ByteCap /\ d \notin late
              /\ peek' = [peek EXCEPT ![d].read = n]
              /\ UNCHANGED <<dialerVars, peekPermits, tallies, buckets, forwarded, stopping>>

ReadEof(d) ==
    /\ peek[d].at = "reading"
    /\ arrived[d] = Read(d) /\ d \in closed
    /\ Give(d, Outcome("io", <<>>))

ReadTimesOut(d) ==
    /\ peek[d].at = "reading"
    /\ arrived[d] = Read(d) /\ d \notin closed /\ d \in late
    /\ Give(d, Outcome("timeout", <<>>))

-----------------------------------------------------------------------------
(* handle_accept, from the lookup on *)

\* The table this port serves; PortGroups has its lookup in full.
MatchKind(host) ==
    IF host \in ServedHosts THEN "exact" ELSE IF fallback THEN "fallback" ELSE "miss"

Drops(d, t) ==
    /\ peek' = [peek EXCEPT ![d].at = "dropped"]
    /\ Tally(t)
    /\ UNCHANGED <<dialerVars, peekPermits, buckets, forwarded, stopping>>

RouteMiss(d) ==
    /\ peek[d].at = "peeked"
    /\ MatchKind(peek[d].verdict.host) = "miss"
    /\ Drops(d, "miss")

RouteHit(d) ==
    /\ peek[d].at = "peeked"
    /\ LET kind == MatchKind(peek[d].verdict.host)
       IN  kind # "miss" /\ Tally(kind)
    /\ peek' = [peek EXCEPT ![d].at = "routed"]
    /\ UNCHANGED <<dialerVars, peekPermits, buckets, forwarded, stopping>>

\* try_acquire_layered, owner then rule; Admission models it.
AdmitRefused(d, scope) ==
    /\ peek[d].at = "routed"
    /\ Drops(d, scope)

\* The PROXY header, if the rule asks for one, goes first; then what was read.
WritePrelude(d, prelude) ==
    /\ peek[d].at = "routed"
    /\ peek' = [peek EXCEPT ![d].at = "dialed"]
    /\ forwarded' = [forwarded EXCEPT ![d] = prelude]
    /\ UNCHANGED <<dialerVars, peekPermits, tallies, buckets, stopping>>

ReplayPreread(d) ==
    /\ peek[d].at = "dialed"
    /\ peek' = [peek EXCEPT ![d].at = "relaying"]
    /\ forwarded' = [forwarded EXCEPT ![d] = @ \o Buffered(d, Read(d))]
    /\ UNCHANGED <<dialerVars, peekPermits, tallies, buckets, stopping>>

\* The rest of the stream; TcpRelay has the copy in full.
RelayMore(d) ==
    /\ peek[d].at = "relaying"
    /\ arrived[d] > Read(d)
    /\ forwarded' = [forwarded EXCEPT ![d] = @ \o SubSeq(offer[d].stream, Read(d) + 1, arrived[d])]
    /\ peek' = [peek EXCEPT ![d].read = arrived[d]]
    /\ UNCHANGED <<dialerVars, peekPermits, tallies, buckets, stopping>>

\* The dial fails, a side closes or the listener is cancelled.
ProxyEnds(d) ==
    /\ \/ peek[d].at \in {"routed", "dialed"}
       \/ peek[d].at = "relaying" /\ (d \in closed \/ stopping)
    /\ peek' = [peek EXCEPT ![d].at = "done"]
    /\ UNCHANGED <<dialerVars, peekPermits, tallies, buckets, forwarded, stopping>>

-----------------------------------------------------------------------------
Tallies == {"capacity", "failures", "miss", "exact", "fallback", "owner", "rule"}

SniPeekInit ==
    /\ \E o \in Offers : offer = o.streams /\ fallback = o.fallback
    /\ arrived = [d \in Dialers |-> 0]
    /\ sends = [d \in Dialers |-> 0]
    /\ closed = {}
    /\ late = {}
    /\ peek = [d \in Dialers |-> [at |-> "none", read |-> 0, verdict |-> Truncated]]
    /\ peekPermits = PeekSlots
    /\ tallies = [t \in Tallies |-> 0]
    /\ buckets = [inTime |-> 0, count |-> 0]
    /\ forwarded = [d \in Dialers |-> <<>>]
    /\ stopping = FALSE

SniPeekNext ==
    \/ CancelListener
    \/ \E d \in Dialers :
          \/ DialerSends(d) \/ DialerCloses(d) \/ DeadlinePasses(d)
          \/ AcceptPeek(d) \/ AcceptRefused(d)
          \/ ReadChunk(d) \/ ReadEof(d) \/ ReadTimesOut(d)
          \/ RouteHit(d) \/ RouteMiss(d)
          \/ \E scope \in {"owner", "rule"} : AdmitRefused(d, scope)
          \/ \E prelude \in Preludes : WritePrelude(d, prelude)
          \/ ReplayPreread(d) \/ RelayMore(d) \/ ProxyEnds(d)

SniPeekSpec == SniPeekInit /\ [][SniPeekNext]_sniPeekVars

-----------------------------------------------------------------------------
(* Properties *)

Stages == {"none", "refused", "reading", "failed", "peeked", "dropped", "routed", "dialed",
           "relaying", "done"}
PeeksAt(s) == {d \in Dialers : peek[d].at \in s}

SniPeekTypeOK ==
    /\ arrived \in [Dialers -> Nat] /\ sends \in [Dialers -> 0 .. MaxSends]
    /\ closed \subseteq Dialers /\ late \subseteq Dialers
    /\ \A d \in Dialers : peek[d].at \in Stages /\ peek[d].read <= arrived[d]
    /\ tallies \in [Tallies -> Nat]

\* However the stream was cut up by the network and the reads, its verdict is
\* that of the whole stream, unless the dialer stalled or closed before its
\* record was whole (peek.rs, client_hello.rs).
VerdictOfStream ==
    \A d \in PeeksAt(Stages \ {"none", "refused", "reading"}) :
        \/ peek[d].verdict = Parse(offer[d].stream)
        \/ /\ peek[d].verdict.what \in {"timeout", "io"}
           /\ Parse(Buffered(d, Read(d))) = Truncated

\* A hello built as build_client_hello builds them is never taken for broken,
\* and the name it is routed by is the one its dialer wrote.
WellFormedIsNamed ==
    \A d \in Dialers : offer[d].built =>
        /\ peek[d].verdict.what \notin {"not tls", "malformed", "size cap"}
        /\ peek[d].verdict.what = "hello" => peek[d].verdict.host = offer[d].named

\* The target receives the PROXY header and then the dialer's stream from its
\* first byte, nothing lost or twice, although the peek consumed its beginning
\* (proxy.rs).
ReplayedVerbatim ==
    \A d \in Dialers : forwarded[d] # <<>> =>
        \E prelude \in Preludes :
            forwarded[d] \in {prelude \o Buffered(d, n) : n \in {0, Read(d)}}

\* A permit is held exactly while a hello is read, so slow dialers never stop a
\* listener for longer than their deadline (MAX_INFLIGHT_PEEKS).
PermitsExact == peekPermits + Cardinality(PeeksAt({"reading"})) = PeekSlots

\* Every connection is counted once, in the counter that says how it ended, and
\* every peek once in the histogram.
CountedOnce ==
    /\ tallies["capacity"] = Cardinality(PeeksAt({"refused"}))
    /\ tallies["failures"] = Cardinality(PeeksAt({"failed"}))
    /\ tallies["miss"] + tallies["owner"] + tallies["rule"] = Cardinality(PeeksAt({"dropped"}))
    /\ tallies["exact"] + tallies["fallback"] =
          tallies["owner"] + tallies["rule"]
            + Cardinality(PeeksAt({"routed", "dialed", "relaying", "done"}))
    /\ buckets.count = Cardinality(PeeksAt(Stages \ {"none", "refused", "reading"}))
    /\ buckets.inTime <= buckets.count

\* A peeked connection is judged by its whole hello, counted once and relayed
\* from its first byte (sni/listener.rs).
PeeksSound ==
    SniPeekTypeOK /\ VerdictOfStream /\ WellFormedIsNamed /\ ReplayedVerbatim
        /\ PermitsExact /\ CountedOnce
=============================================================================
