# Portunus: TLA+ models and proofs

Portunus forwards TCP and UDP ports. A *server* keeps clients, credentials,
rules and users in SQLite and in memory and is driven by operators over HTTP; a
*client* on each edge node keeps one gRPC stream to the server, receives rules
over it and runs a *forwarder* per rule. The standalone binary runs the same
forwarders from a file. Everything is written in async Rust: state is shared by
tasks that may be interrupted at every `await`, and most of what can go wrong
lies between two of them.

This directory models that: each module is a component whose actions are the
steps a task takes between two awaits (or two atomic operations, where threads
race without a lock). TLC checks the properties on small instances; TLAPS proves
the main ones for instances of any size.

| Module | What it models | Run | Proofs |
|---|---|---|---|
| `SessionRegistry` | enrollment codes, client tokens, control sessions, the map of connected clients | `sessions` | `SessionRegistryProofs` |
| `RuleControl` | the life of a rule: operator requests, both server copies, the wire, the client's pump and listeners | `operators`, `accounting`, `control_plane` | `RuleControlProofs` |
| `RuleRequests` | what a rule request asks: validation, conflict matrix, version gates, rows, replay | `operators` | `OperatorProofs` |
| `Access` | users, grants, rule ownership, both cascades, onboarding of the first superadmin | `operators` | `OperatorProofs` |
| `WebAuth` | password login, lockout, web sessions, resets | `operators` | `OperatorProofs` |
| `AuditLog` | ring, bounded queue, batching writer, final drain, retention | `operators` | `OperatorProofs` |
| `AuditQuery` | the pages of `GET /v1/audit` while rows are written and deleted | `accounting` | `AccountingProofs` |
| `DataDirectory` | the processes that meet in one data directory: lock, database, schema, TLS pair | `operators` | `OperatorProofs` |
| `Commands` | the operator's commands: requests, timeouts, exit codes | `operators` | `OperatorProofs` |
| `OwnerCaps` | the cap of an owner: row, cache, frames, replay, collection, the client's limiter | `control_plane` | `ControlProofs` |
| `Onboarding` | advertised endpoint, certificate, URI, redemption, bundle file, start of a client | `control_plane` | `ControlProofs` |
| `ClientAdmin` | the roster: stable ids, display names and the requests that edit them or go by them | `accounting` | `AccountingProofs` |
| `RuleStats` | reports, collectors, event streams | `accounting` | `AccountingProofs` |
| `QuotaAccounting` | charge, exhaustion, rollover, requests and replay of a traffic quota | `accounting` | `AccountingProofs` |
| `QuotaHandle`, `QuotaBudget` | the lock-free budget on the client, and the atomic budget it implements | `accounting` | `AccountingProofs` |
| `TrafficHistory` | minute and hour samples, rollup, retention, queries | `accounting` | |
| `BillingPeriod` | the calendar arithmetic of a billing period | `accounting` | |
| `Throttle` | token bucket with its two users | `accounting` | `AccountingProofs` |
| `Admission` | layered admission: gauges, guards, replacement with carry-over | `accounting` | `AccountingProofs` |
| `Failover` | one multi-target TCP rule: dial walk, health, prober, drain | `failover_walk`, `data_plane` | `FailoverProofs` |
| `UdpFlows` | one single-target UDP rule: flow registry, listeners, cold paths, demux, reaper, teardown | `data_plane` | `UdpFlowsProofs` |
| `UdpBatch` | the datagrams of that rule in batches: arenas, runs, partial sends, counts | `data_plane` | `UdpFlowsProofs` |
| `UdpSupervisor` | the supervisor of that rule: ordered shutdown, reports, gauge | `data_plane` | `ForwarderProofs` |
| `MultiUdp` | one multi-target UDP rule | `data_plane` | `ForwarderProofs` |
| `TcpRelay` | the bytes of a TCP connection: splice, copy, fallback, booking | `data_plane` | `ForwarderProofs` |
| `ResolverCache` | DNS cache with single flight | `data_plane` | `ForwarderProofs` |
| `PortGroups` | SNI rules that share a port | `data_plane` | `ForwarderProofs` |
| `SniPeek` | one such port before routing: reading, parsing and replaying the ClientHello | `data_plane` | `ForwarderProofs` |
| `Standalone` | the standalone daemon | `data_plane` | |
| `Dashboard` | its `stats` command: one snapshot or the terminal dashboard | `data_plane` | |

`MC<...>.tla` holds what TLC needs besides the constants. Components that share
no variable are explored side by side: in `MCOperators`, `MCControl`,
`MCAccounting` and `MCDataPlane` the variable `part` names the component that
moves in a behaviour, and the others stay in an initial state; the reachable
states are the union, not the product. `PROJECT.json` maps every definition to
the source lines it stands for and lists runs, mutants, hazards and theorems. A
definition whose comment starts with *Slip* is a wrong variant of the definition
below it, kept to show that a property notices it.

## Inventory

| Component | State | Operations | Talks to | What is hard | Correct when |
|---|---|---|---|---|---|
| Session registry (`server/clients.rs`, `grpc/service.rs`) | map client id to session (cancel token, outbound queue, capabilities, version); session counter | register (takes over), set Hello attributes, unregister, disconnect | interceptor before it, rule replay after it, operators through `handles` | handshake in several awaits, takeover, late tear-down, revocation in the middle | one live session per client; no entry without a session; attributes are the session's own; a revoked client ends |
| Credentials (`store/enrollment_store.rs`, `store/token_store.rs`, `grpc/enrollment.rs`, `grpc/interceptor.rs`) | codes and token rows in SQLite | create, supersede, expire, redeem, revoke, delete, verify | session registry (disconnect) | long sequences of legal calls | a code buys one token; one open code per client; rotated tokens are dead |
| Rules, server side (`rules.rs`, `operator/cli.rs`, `store/rule_store.rs`, `grpc/service.rs`) | rule map in memory, rows in SQLite, acknowledgement waiters | push, update limit, remove, replay, apply status, hydrate | client over the stream; operators over HTTP | two copies written in separate steps, acknowledgement against timeout, concurrent operators, cuts, restarts | what is Active runs; what is Failed does not; nothing runs unknown; nothing known is lost |
| Rules, client side (`client/control.rs`, `forwarder/mod.rs`) | slots, limiter scope, status channel (64), forwarder tasks | PUSH, REMOVE, relay status, bind, drain, leave | server, forwarders | events that arrive late, lossy channel, draining across sessions | every listener can be stopped |
| TCP failover (`forwarder/failover*.rs`, `probe.rs`) | health record per target behind its own mutex, counter | accept, snapshot, dial, record, probe, drain | resolver, sockets | torn snapshots, stamps out of order, recovery without traffic | no needless drop or demotion; recovery; the drain ends |
| UDP runtime (`forwarder/udp/*`) | flow registry (DashMap) and occupancy counter, command channel, five kinds of task | receive, reserve, commit, hand over, reply, sweep, evict, tear down | sockets | removal by key (ABA), counter beside the map, detached tasks, full channel | counter exact, live flows served, Pending owned, teardown ends |
| Traffic quotas (`server/traffic_quotas/*`, `forwarder/quota/*`) | rows in SQLite and a cache, previous counters, an atomic budget per (user, client) | accumulate, exhaust, roll over, set, replay, consume, restore | stats reports, client stream | cache against store, budget and flag in two atomics, replay | never more than the budget; every client holds its budget |
| Rate limits, owner caps (`forwarder/rate_limit/*`, `operator/owner_cap.rs`) | token buckets, gauges, per-rule and per-owner scopes | acquire, throttle, replace with carry-over | rules, UDP and TCP paths | CAS races, replacing a limiter in use, layered admission | gauges exact, caps respected |
| SNI port groups (`client/port_groups.rs`, `forwarder/sni/*`) | groups by port, routing table | push, remove, route | rule pump | rules that share a listener, fallback rules, mode of a port | every member routed, last one closes |
| Resolver cache (`resolver/*`) | entry per name: Pending, Resolved, Stale, Failed; permits | get or resolve, commit, evict | data paths, prober | single flight, abandoned owners, load shedding | no waiter forgotten, no more than the permitted lookups |
| RBAC, users, grants (`operator/*`, `store/operator_store.rs`) | users, tokens, grants, ownership | authenticate, authorise, grant, revoke with cascade | rule control | check and use in different transactions | no rule outside its owner's grants |
| Web login (`operator/web_auth.rs`, `throttle.rs`, `sessions.rs`, `csrf.rs`) | sessions, failure counters | log in, lock out, expire | operators | clock arithmetic | bounded lock-out, expiry |
| Audit log (`store/audit_writer.rs`) | bounded queue, batch | record, batch, flush, drain | every handler | loss at the bound and at shutdown | every entry written or counted as dropped |
| Statistics (`server/metrics.rs`, `rule_stats.rs`, `operator/stats_stream.rs`, `forwarder/stats.rs`) | last report per rule, collectors, a broadcast channel per viewer | report, merge, forget, stream | client sessions, viewers | an old session's report overlapping the new one's, a lagging viewer | a counter never runs ahead of the client; a stream is in order |
| Onboarding (`advertised/*`, `server/tls.rs`, `client/enroll.rs`, `client/bundle.rs`, `client/main.rs`) | certificate pair, advertised endpoint, bundle file, the client's reasons to give up | enroll, redeem, write bundle, connect, give up | credentials, session registry | three steps on two machines, a certificate that changes in between | bundles name covered endpoints; a client gives up for cause |
| Data directory (`store/mod.rs`, `store/backup.rs`, `server/main.rs`, `server/serve.rs`) | database, sentinel lock, schema version, TLS pair with its marker | serve, bootstrap, offline commands, restore, reset, die | every process on the machine | two processes and a crash between any two file operations | one owner; nothing committed is lost; a running server has its control channel |
| Commands (`operator/rule_cli.rs`, `identity_cli.rs`, `owner_cap_cli.rs`, `password_cli.rs`) | one shell, one or two HTTP requests, an exit code | run, time out, read the answer | the running server, or the store | the handler outlives the shell; four tables of exit codes | the exit code is true |
| Standalone binary (`portunus-standalone/*`) | configuration, forwarders, status channel, statistics ring; the dashboard's ring and view | start gate, report, fail, signal, stop; read a line, press a key, probe, draw | forwarders | bounded channels at start and stop, a read cut off by a timeout | exit code true, nothing left behind, the picture consistent |
| TCP byte path (`forwarder/proxy.rs`, `splice.rs`, `quota/copy.rs`) | two directions, pooled pipes, byte counters | dial, splice, copy, fall back, cut off, end | limits, quotas, statistics | pipes reused, fallback in the middle | bytes in order, unmixed, booked once |
| Client roster (`store/enrollment_store.rs`, `store/token_store.rs`, `operator/http.rs`, `clients.rs`) | id and display name in four places | enroll, rename, re-address, revoke, delete, restore | rule control by name, sessions by id | requests that go by a name another request changes | names in step with ids, nothing sent astray unnoticed |
| Audit pages (`store/audit_query.rs`, `operator/audit_http.rs`) | rows by number and time, a cursor | query, next page, retain | writers, operators | two orders, rows that come and go between pages | each row once |
| UDP batches (`udp/batch.rs`, `listener.rs`, `demux.rs`) | two reused arenas, a pending run | receive, join a run, flush, forward replies | kernel, flow registry | partial and refused batches, stale slots | every datagram once, in order, counted |
| SNI peek (`sni/peek.rs`, `client_hello.rs`, `listener.rs`) | buffer, deadline, permits, counters | accept, read, parse, route, replay | dialers, targets | hellos in pieces against a deadline | verdict of the whole stream, nothing lost |
| Wire conversions, web UI, layout of the terminal view | see `PROJECT.json` | | | I/O, rendering, generated code | |

## What is modelled, and how it corresponds to the code

### SessionRegistry

`tokens` and `codes` are the SQLite tables, written by one transaction per
action. A Channel call `k` is `conn[k]`, whose `pc` names its awaits:
`Authenticate` is the interceptor, `TakeSessionId` and `Register` the two halves
of `ConnectedClients::register` (the number is drawn before the lock is taken),
`HelloCaps`/`HelloVersion`/`FirstMessageOther`/`FirstMessageLost` the wait for
the first message, `SendWelcome`, then the pump with its cancel and end-of-stream
arms, then `Unregister`. `Revoke`, `Redeem` and `DeleteClient` write first and
owe a `Disconnect` (`cuts`), which is a later step of the same handler.
`Shutdown` fires the root token, `Restart` empties memory and keeps the tables.
Tokens are numbers in the order of minting; the clock is the action `Expire`.

### RuleControl

One client, any number of operator requests (`task`), each cut at its awaits:
conflict check and insertion, write to SQLite, send, wait, timeout, mark, read,
write. `mem` and `db` are the two copies of a rule; `pump[s]` is the server half
of session `s` with the replay and the handling of unsolicited statuses;
`toClient`/`toServer` are the stream, FIFO, lost when `Cut`. On the client,
`slots`, `events` (the bounded status channel), `scope` (limiters) and the
forwarder tasks `fw`. `Restart` hydrates `mem` from `db`. The constant
`Operations` selects the kinds of request and `Faults` whether connections break
and whether `upsert_rule` may fail (`UpsertFails`), so that a run can ask about
one kind of trouble at a time. Both channels are bounded: a send waits for room
among `OutboundCap` messages. Ports are abstract and conflict by equality.
`ReceivePush` leaves out the refusals of a rule that does not parse (the server
parsed it first) and the SNI branch, which is `PortGroups`.

### Failover

`health[t]` is the `HealthState` of a target; `Record` its two operations with
the saturating count and the anchored window. A connection snapshots the targets
one lock at a time, fixes its order, dials, possibly fails at the PROXY prelude,
and records the outcome with the stamp taken before it waited for the lock. The
prober visits one target per tick. `Cancel`, `AcceptStops`, `DrainTimeout`,
`Shutdown` and `Removed` are the removal of the rule. `steady`, `well` and
`streak` are history variables for the properties; no guard reads them.

### UdpFlows

`slot` is the DashMap (Vacant, Pending, or the flow that is Live) and `occ` the
counter beside it, modulo `OccMod` as a `usize` wraps. Flows are named by the
cold path that builds them. Atomic operations that can interleave are separate
actions: `Claim`/`OverCap`/`Reserve`, `Commit`/`Count`, `Hand`, and every
eviction as remove then cancel, in the listener, the cold path, the demux and
the reaper. The demux's `biased` select shows in `Polling`: it looks at flows
only when the channel is empty. The supervisor's phases are `Shutdown`,
`ListenersJoined`, `ReaperJoined`, `Drain`, `SendStop`, `DemuxJoined`; the cold
paths are detached and nobody joins them. `MayBeIdle` assumes that the idle
timeout (seconds) outlasts the few instructions between a commit and the end of
its cold path. Tasks do not panic: the supervisor's unexpected-exit paths are
left out.

`UdpSupervisor` has the part left out here: the roles of `runtime.rs`, the
order in which the supervisor cancels and joins them, exits out of turn, the
flow drain and the gauge pump.

### RuleRequests, Access, WebAuth

`RuleRequests` takes a request body through `post_rules`: shape, listen range,
targets, limits, SNI pattern, then the conflict walk over the port index, the
version gates, the row, the frame and the replay; `PUT` and `DELETE` beside it.
A version is the number of the feature it brought; `peer` is the connected
client with the version and abilities it said. `Access` cuts user, grant and
push requests at every transaction; `held` is what a request read and still
uses. `raced` names the rules whose push or cascade was overtaken, so that the
property can say what is left. `WebAuth` keeps the failure counter of
`throttle.rs` in hours, passwords as versions and sessions with both timeouts;
hashing takes `HashTime`, during which a reset may come.

### AuditLog, DataDirectory, Commands

`AuditLog` numbers the entries; `closing` is the number at which the shutdown
began. `DataDirectory` has files as inodes (`disk`, `dbName`, `lockName`), so
that a process keeps what it opened when the name moves; a process dies between
any two file operations; `meddled` and `torn` record that a restore or reset ran
beside another process, and that a TLS pair was interrupted. `Commands` groups
errors by what the four exit-code tables and the HTTP status table make of them;
its handlers are cut down to what they leave behind. `AuditQuery` has the rows by
`seq` with the time their handler took earlier; `reader` follows `next_cursor`
and remembers what it was owed and shown.

### ClientAdmin

A client is its stable id. Its display name is copied to the roster row, to the
rules table, to the rules in memory and to the live session; each request is cut
where the handler goes from one of them to the next. `sent` is what a rule
request sent to which client (or failed to send); `bearers` and `astray` are
history: who ever bore a name, and whose name changed while something else
concerned the client.

### OwnerCaps, Onboarding

One owner: `capRow`, `capCache`, the frames to the client and `enforced`, the
limiter it keeps; callers are cut between store, cache and push, and `tangled`
says that two of them overlapped and none has run alone since. `Onboarding`
follows an enrollment from the tiers of the advertised endpoint against the
certificate's names over the URI, the pinned handshake and the redemption to the
bundle file and the client that loads it.

### Accounting

`QuotaHandle` has one action per atomic operation of the budget handle and
implements `QuotaBudget`, in which a draw is one step (`BudgetRefined`). A UDP
send is debited before it is sent (batches), checked and debited afterwards
(`CheckSingle`), or not checked at all (`DemuxReply`).
`QuotaAccounting` is the server side with the client's cumulative counters:
accumulate, exhaust, roll over, put, patch, delete, replay. `TrafficHistory` has
the sample tables with an hour of `Hour` minutes; `BillingPeriod` walks every day
of eighteen months. `Throttle` and `Admission` are the token bucket and the
gauges at the level of their atomics. `RuleStats` has one cumulative reading for
each family of counters.

### The data plane besides Failover and UdpFlows

`TcpRelay` numbers the bytes of every connection and direction, so that a byte
left in a pooled pipe is seen; quotas cut a copy off, splice falls back to the
user-space copy. `ResolverCache` has the entry of a name with its placeholder,
waiters, take-over after abandonment, grace and negative answers. `PortGroups` has
host names as sequences of labels, the table as published and a connection between
accept and route; `SniPeek` has what comes before: the stream of a dialer as a
sequence of fields, cut into pieces by network and reads, `Parse` run on what is
buffered after every read, the deadline, the permits, the counters and the replay
of what was read. `UdpBatch` keeps the two arenas with what earlier batches left
in them, the run of slots the listener has pending, the prefix the kernel
accepted, and as history what target and clients were sent. `MultiUdp` has the
flow table, guards in two scopes, the walk over targets and their addresses, the
sweep and the drain. `Standalone` goes from the configuration file over the start
gate and the status channel to the exit code, with the readers of the statistics
socket; a forwarder may also panic, which only an unwinding build joins (release
is `panic = "abort"`). `Dashboard` is one of these readers: `link` is its
connection with a line that may be half there, `LineTimesOut` the timeout that
throws the half away, `view` what pause and reset change, `dirty` and `screen` the
decision to draw and the figures drawn last.

## Runs

| Run | Instance | Shows |
|---|---|---|
| `sessions` | 1 client, 2 connections, 2 codes, 2 tokens, fair | handshakes and tear-downs in every order: `SessionsSound`, `CodesSound`; `RotatedTokenRefused` as an action property; `CutsTakeEffect` in the end |
| `operators` | 2 requests on one port; 2 users, 1 grant, 2 HTTP requests; 2 logins; queue of 4; 2 processes with 3 starts; 2 shells (1.8 million states) | `ListenersSound`, `StoreSound`, `RequestsSound`, `AccessSound`, `WebAuthSound`, `DrainTakesAll`, `DirectorySound`, `CommandsSound` |
| `accounting` | a client that reconnects, a server that restarts; every day of 18 months; 1 TCP copy and 1 UDP send over one budget; 3 audit rows in pages of 1 or 2; 2 clients, 2 names and 2 operator requests | `StatusSound`, `StatsSound`, `ChargedOnce`, `AcceptedQueryExact`, `PeriodIsCurrent`, `BudgetSound` (the refinement of `QuotaBudget` and `NeverOverdelivered`), `RateHeld`, `AdmissionSound`, `PagesSound`, `NamesSound` |
| `control_plane` | 3 requests with limits, cuts, status channel of 2; 2 callers of one cap; 2 machines (465 000 states), fair | `UpdatesSound`, `OwnerCapsSound`, `OnboardingSound`; `RequestsComplete` in the end |
| `failover_walk` | 2 targets, 1 connection slot that is reused, prober, PROXY prelude, fair | `WalkSound`, `FailoversCounted`; `RuleComesToRest` in the end |
| `data_plane` | 2 UDP ports with cap 1; 2 relayed connections over 2 pipes; 2 lookups in a cache of 1; 2 SNI rules on a port; 2 sources of a multi-target rule; 2 senders in batches of 2; 2 TLS dialers and 1 permit; a dashboard over 3 snapshots | `FlowsSound`, `RegistrySound`, `RelaySound`, `FlightsSound`, `RoutesSound`, `MultiUdpSound`, `SupervisorSound`, `StandaloneSound` (daemon and dashboard), `HealthSound`, `BatchesSound`, `PeeksSound` |
| `revoke_race`, `rules_orphan`, `rules_stranded`, `udp_orphan`, `quota_replay`, `last_superadmin` | the smallest instance that shows it | **violated**: findings 1 to 6 |

### Why the bounds are enough

* `sessions`: the trouble is a successor, its predecessor and the predecessor's
  late tear-down. The invariants are proved for any number.
* Requests: every conflict needs two of them, or one and a session; two sessions
  make one reconnect, and a replay can itself be cut. `EventCap` is 1 in
  `operators` and 2 in `control_plane`, so that the status channel overflows; in
  `accounting` it is the code's 64. `OutboundCap` 2 makes senders wait.
* `DataDirectory`: a forced restore beside a server and a third start that finds
  what they left is three runs; two inodes beyond those make a name move twice.
* `failover_walk`: the second target is the fallback; the prober is the second
  recorder; one success recovers (`RecoverThreshold` 1) where the code asks for two.
  `data_plane` has one target, threshold 3 and a moving clock, because
  `HealthSound` is about time.
* `UdpFlows`: a cap and a channel of 1 make both limits bind with two clients.
* `TrafficHistory`: an hour of 2 minutes, retentions of 2 and 3 hours and a clock
  of 13 let rollup, pruning and a late report meet. `BillingPeriod` includes a
  leap February, outages longer than two months and anchors up to `AnchorGap` days
  before or after today, which is more than a month. `MaxUnpaid` bounds the bytes
  sent unpaid, which the code does not bound.
* Capacities (queue, ring, cache, pool, ceilings) are 1, 2 or 4, so that every
  limit is met and passed.
* `ClientAdmin`: two clients and two names, because a name goes astray between a
  client and its namesake; the first of two requests is one a rename overtakes.
  By symmetry the first rule is pushed for one chosen client and name.
* `SniPeek`: the second dialer is there for the permit; a hello that is broken
  comes alone, since the dialers share nothing but permits and counters.
* `UdpBatch`: three datagrams make a batch and what the arena keeps of it.
* `Dashboard`: three snapshots through a ring of two, the second of which may
  arrive in two pieces; one round of probes.
* `TcpRelay`, `MultiUdp`: two connections meet in the pool of pipes and in the
  quota; one that has neither is explored as the first, with the other beside it.
  By symmetry the first datagram is that of one chosen end user.

Where a theorem exists the bound matters for the run only: see below. Deadlock is
not checked where a component that has used up its bounds has nothing left to do.

### Fairness

Weak fairness, and only of the code's own tasks: the runtime polls a ready task;
`ack_timeout`, `drain_timeout`, the dial timeout and the probe tick fire; a
connected peer reads its stream, so that a send waiting for room in the outbound
queue goes on; a client notices a cut because it writes its statistics. Nothing
obliges a client to send its first message: `CutsTakeEffect` excepts a session
whose client has said nothing yet (`Silent`), because `service.rs:89` waits for it
without a timeout or cancel arm. Nothing obliges operators, reconnects, new
connections, faults or restarts.

## Proofs

For any values of the constants that satisfy the named assumptions (bounds are
numbers, absent values are distinct from present ones, sets that are counted are
finite, `N` is positive, `OccMod` exceeds what can be counted, four audit batches
hold the audit channel as the code's constants do):

| Theorem | States |
|---|---|
| `SessionRegistryProofs!SessionsAreSound`, `CodesAreSound` (with the parts `LiveSessionUnique`, `MapBacked`, `HelloOwned`, `CodesSpentOnce`, `OpenCodeUnique`) | `SessionsSound`, `CodesSound` |
| `SessionRegistryProofs!RotatedRefused` | `RotatedTokenRefused`, an action property |
| `RuleControlProofs!StoreIsSound` | `StoreSound` |
| `RuleControlProofs!StatusIsSound`, `ListenersAreSound` | `StatusSound`, `ListenersSound`, where no request is an update (`NoUpdates`) |
| `FailoverProofs!WalkIsSound` (`DemotionJustified`, `DropJustified`) | `WalkSound` |
| `FailoverProofs!FailoversAreCounted` | `FailoversCounted` |
| `FailoverProofs!HealthIsSound` | `HealthSound`, for `FailThreshold >= 2` and `StreakLen >= FailThreshold` (the code has 3; `StreakLen` bounds the history only) |
| `UdpFlowsProofs!FlowsAreSound` (`NeverTornDown`, `AlwaysServed`, `PendingHasOwner`) | `FlowsSound` |
| `UdpFlowsProofs!RegistryIsSound` | `RegistrySound` |
| `UdpFlowsProofs!BatchesAreSound` | `BatchesSound` |
| `OperatorProofs!AuditDrain` | `DrainTakesAll` |
| `OperatorProofs!AccessCorrect` | `AccessSound` |
| `OperatorProofs!WebAuthCorrect` | `WebAuthSound`, an action property and an invariant |
| `OperatorProofs!DirectoryCorrect` | `DirectorySound` |
| `OperatorProofs!RequestsCorrect` | `RequestsSound` |
| `OperatorProofs!CommandsCorrect` | `CommandsSound` |
| `ControlProofs!OwnerCapsCorrect` | `OwnerCapsSound` |
| `ControlProofs!OnboardingCorrect` | `OnboardingSound` |
| `ForwarderProofs!ResolverFlights` | `FlightsSound` |
| `ForwarderProofs!RelayCorrect` | `RelaySound` |
| `ForwarderProofs!SupervisorCorrect` | `SupervisorSound` |
| `ForwarderProofs!MultiUdpCorrect` | `MultiUdpSound` |
| `ForwarderProofs!RoutesCorrect` | `RoutesSound` |
| `ForwarderProofs!PeeksAreSound` | `PeeksSound`, for hellos of which `BuiltHellosParse` holds; `MCDataPlane` assumes it, so TLC evaluates it for the hellos of the run |
| `AccountingProofs!BudgetCorrect` | `BudgetSound`: `QuotaHandle` implements `QuotaBudget`, and copies and batches never overdeliver |
| `AccountingProofs!ChargedOnceHolds` | `ChargedOnce` |
| `AccountingProofs!RateIsHeld` | `RateHeld` |
| `AccountingProofs!AdmissionCorrect` | `AdmissionSound`, an action property and an invariant |
| `AccountingProofs!PagesAreSound` | `PagesSound` |
| `AccountingProofs!StatsAreSound` | `StatsSound` |
| `AccountingProofs!NamesAreSound` | `NamesSound` |

`TypeCorrect` of the first four modules states their types. The
properties were checked by TLC before they were proved.

* **Sessions.** The three invariants hold only together, and only with
  `SessionIds` (numbers in use are below the counter and distinct: this is what
  makes the comparison in `unregister` identify a connection) and `HelloUnread`
  (before its Hello a connection still has the defaults). `SpentCodes` records
  that a code which bought a token is consumed or pruned for good. `TokenInv`:
  tokens are numbered in the order they were bought, and the row of a client that
  has one holds the newest of its tokens, so whoever passes `verify` brought that.
* **Rules.** `StoreInv` adds to the types that ids not given out yet are in no
  copy, that requests only refer to ids given out, and that a removal takes the
  rule from memory before it deletes the row. `KnownIsStored` allows for a failing
  `upsert_rule`: a rule without a row is Pending and no request sent it.
* **Rules, end to end.** `LifeInv` adds what is under way. `SessInv`: sessions are
  opened in order, only the client's latest can be up, and messages wait for the
  client only while it is. `SpawnInv`: every forwarder that was not cancelled is
  held by the slot of its rule, and a slot, an event and a forwarder tell the same
  story. `CarryInv`: the outcome of a rule has *one* carrier at a time (a push not
  sent yet, a PUSH, a forwarder that binds, an event, a status, a replay); an
  outcome that stands has none but a replay (`Decided`), and nothing says Failed
  of a rule that was bound in the live session (`BoundTold`). `ReqInv` ties
  request numbers to rules; `BoundInv`: whoever claims that a rule is active, in
  whatever place, claims it of a rule that was bound. For the first session of a
  server `FirstInv` adds that two listeners never share a port, that all copies of
  a rule agree on its port (`FitsInv`), and, once the session is down, that the
  claims left over are about different ports (`Contend`). The proof failed for the
  properties as they stood: see the findings on overlapping sessions.
* **Failover.** `WalkInv` says, for every place in the walk, which targets the
  connection has already found unhealthy or down; the history sets only shrink,
  so the conclusion survives whatever others do between two locks. `FailoversCounted`
  is inductive as it stands: a record moves one mark and the counter together.
  `EvidenceInv` relates the record of an unmarked target to its last failures in
  a row: the counted ones are the latest, the first of them is the anchor of the
  window, and what lies before is too old for it.
* **UDP flows.** `FlowInv`: a task that evicts has a flow of the key it works on
  in hand; whatever is referred to was committed; and a flow that is cancelled or
  about to be has left the registry and does not come back. The last part makes
  removal by key harmless to flows that are *live*, although it can hit the wrong
  flow (finding 4). `OccupancyExact` is inductive with it: each step moves the
  counter, modulo `OccMod`, by what it adds to entries, claims and commits to be
  counted. `StopInv`: the demux ends only for the Stop, which the supervisor
  sends last.
* **UDP batches.** `BatchInv`: the filled slots hold datagrams in the order they
  arrived, each under its address; the pending run takes slots before the one at
  hand, in order and all of one client; what was sent or is in a cold path has a
  number before all that wait (`Past`), so `SentInOrder` survives the next send.
* **Audit.** `OldFits`: what the final drain took and the old entries still
  waiting fitted in the channel at once, so the drain's limit is not reached
  before the last of them.
* **Access.** `MemoryInv`: every uncovered rule is in the list of a cascade that
  will remove it, or named in `raced`; `RowInv` and `AgreeInv` say the same of
  the rows, `CascadeInv` that a cascade works on one owner's rules. `TokenInv`:
  the valid setup token and those not issued yet founded nobody.
* **Login.** `LocksWellFormed` and `LoginsRecent`: the counter is at the
  threshold whenever there is a lock, and a login that is still hashing arrived
  at most `HashTime` ago; a failure recorded with that older time can therefore
  not lift a lock.
* **Data directory.** `FilesInv`: as long as nobody meddled there is one
  sentinel, one holder of its lock, and an open store is the named one at the
  holder's schema. `PairInv`: as long as no pair was torn one process writes it,
  and what is on disk is whole, or half of that writer's. The proof failed first:
  a server that loads a pair while another server writes it is up without its
  control channel although nobody died. Two servers run at once only after a
  reset or a forced restore beside a running one, so `DirectorySound` now states
  the control channel, too, under `~meddled`.
* **Requests.** `SentHolds` carries the promise of the gate with the frame until
  the session ends; `MatrixExact` is shown for any state whose rules have valid
  shapes, since the walk and the table are compared as formulas, all rows but
  `FallbackRow`.
* **Commands.** `ShellOK` says, by where shell and handler are, what the handler
  did; `BoardOnward` is what all steps have in common (gone stays gone, a rule
  that is up is never waited for again), so what a shell told stays true.
* **Owner caps.** `CapInv` follows `Eventual`, the envelope the client will
  enforce once it has applied all frames under way; the three statements are
  about the moment at which nothing is under way.
* **Onboarding.** `OnboardInv` says which certificate a ticket, a URI, a held
  reply and a bundle were made under, and that a token number is issued once.
* **Resolver.** `OwnersInv`: a lookup in flight owns the placeholder of its name
  and is younger than the abandonment time, so nobody can have taken it over.
* **Relay.** `RelayInv` describes the bytes in a pipe as the next ones of its own
  connection and direction, and an idle pipe in the pool as empty; `booked` is
  tied to what was delivered on either loop.
* **Supervisor.** `SupervisorInv` counts, per role, the children not yet joined;
  the counts decide when a phase ends, in whatever order children exit, and
  name the child that can still move (`DrainGoesOn`).
* **Multi-target UDP.** `MultiUdpInv`: a guard counted is the guard of one flow or
  of the datagram being admitted; the sums are handled with the cardinality
  lemmas of FiniteSetTheorems, and the first healthy target exists by a least
  element argument.
* **SNI.** `GroupInv`: published tables build and belong to groups; a rule that
  was acknowledged is in the published table of its port. `PeekInv`: a
  connection that is still read has an undecided prefix, a judged one has the
  verdict on its whole stream, and the target has been sent what was read; `Parse`
  of a longer prefix agrees with that of a shorter one once it is decided.
* **Budget.** `BudgetInv`: what was delivered and what the data paths have in
  hand, by their places between two atomics, is at most what was spent and what
  is owed. Sums over any number of paths are cardinalities of sets of units.
* **Charges.** `ChargeBalance`: what is charged, about to be charged and may still
  be read is at most what was sent: all of the counter if it started afresh,
  what lies beyond the baseline otherwise.
* **Rates.** `RateInv`: granted, in the pool and won but not yet put there, all
  tokens are at most the burst and what was earned up to the *published* time
  stamp, which a refill moves before it mints.
* **Admission.** `AdmissionInv`: a gauge is the number of guards on it and of
  admissions about to take a unit back, and belongs to one slot for good.
* **Audit pages.** `WalkInv`: between two pages the rows a walk still owes lie
  below its cursor, and no row that came later does, except rows whose times and
  numbers cross.
* **Statistics.** `CounterInv`: a counter holds what earlier sessions did, or that
  and its baseline, which is older than every report to come; `StreamInv`: a
  stream holds reports in order, none newer than the last one made.
* **Names.** `NamesInv`: rows, rules, sessions and requests carry only names their
  client bore (`BorneInv`), and a client that did not go `astray` is known by one
  name wherever a name of it is kept, except in memory while it is renamed
  (`OneName`).

Only model-checked, and why:

* liveness (`CutsTakeEffect`, `RequestsComplete`, `RuleComesToRest`) and `ENABLED`
  (in `StandaloneSound`) are beyond the installed provers; the rates of the
  dashboard, in the same property, and the calendar of `PeriodIsCurrent` are
  induction over data, as is the sum in `AcceptedQueryExact`;
* `UpdatesSound` of `RuleControl` is true only within one session and with requests
  one at a time (see below), which is the instance its run checks.

## Findings

Six runs show the code doing other than a comment or document says:

1. **A revocation can miss a connecting client** (`grpc/service.rs:68`). The
   identity is verified before `register`; a revocation in between finds nothing
   to disconnect and the session stays.
2. **A remove can overtake a push** (`operator/cli.rs:1134`). The rule is visible
   before its PUSH is sent; the REMOVE goes first, is ignored as unknown, and the
   PUSH then starts a listener that no server knows.
3. **A rule that is Pending at a cut is never replayed** (`grpc/service.rs:590`).
   Replay marks rules Pending and skips all that are not Active.
4. **A second eviction removes the wrong flow** (`udp/registry.rs:202`). `remove`
   takes a key; the client's new flow leaves the registry uncancelled and its
   admission guards stay.
5. **Quotas are not replayed** (`grpc/service.rs:635`). The replay asks by client
   name a cache that is keyed by client id.
6. **The last superadmin can be deleted** (`operator/users.rs:228`). Two
   superadmins who delete each other both count two before either removes.

Met while modelling, described here and kept out of the properties:

* *Rules.* `apply_unsolicited_rule_status` and the push path write a rule to
  SQLite after an await; a removal in between deletes the row first and the next
  start hydrates the removed rule. An acknowledgement that finds the waiter, but
  whose receiver has timed out, is lost. A failed `upsert_rule` leaves a Pending
  rule in memory, or an update that memory shows and nobody sends (`cli.rs:1053`,
  `1307`, `1592`). The bounded outbound channel is awaited outside `ack_timeout`
  (`cli.rs:1134`). `update_rule_rate_limit` has no version gate and pushes rules
  in any state; the client acknowledges a PUSH of a known rule before its listener
  has bound. A rule pushed without a limit builds no limiter handle, so a later
  limit is not enforced until the rule is pushed afresh, where `specs/011`
  `data-model.md:185` has it swapped in. An SNI bind failure leaves no slot, so
  its Failed carries no request id and the request times out (`control.rs:847`). A
  RuleUpdate can precede Welcome.
* *Sessions.* A connection that never sends its first message is cut neither by a
  revocation nor by a shutdown (`service.rs:89`).
* *Overlapping sessions.* Nothing stops the server side of a session that was
  replaced from writing rule states, and the proofs of `ListenersSound` and
  `StatusSound` failed on it. A late status of the old session can make a second
  rule of a port Active; a push that was acknowledged in the old session writes
  Active after the replay of the new one has marked the rule Pending and passed
  over it; a replay of the old session reads the version of the new client before
  its Hello, finds it unknown, and marks a rate-limited rule Failed that runs; a
  removal or an update between a replay's list and its send leaves the client
  with the rule as it was. `OneActivePerPort` and `ActiveRuns` are therefore
  stated for the first session of a server, `FailedIsSilent` for rules without a
  limit; `EveryListenerHeld` and `ActiveWasBound` hold through any sessions.
* *Requests.* Once a port has a fallback no further SNI pattern is accepted,
  although `specs/009-tls-sni-routing/data-model.md:76` accepts it
  (`rules.rs:565`; `FallbackRow`). `PUT` compares a missing priority with 0 where
  `POST` defaults to the row's index. Several targets with a listen range always
  fail. An unknown version passes the gates, and a push gated by one session may
  reach the next, of an older build. A rule id is reused after the highest was
  deleted and the server restarted. An empty limit envelope comes back as none.
* *Access.* A push persisted after the cascade of its owner's deletion, and
  `delete_grant` removes a superadmin's uncovered rules. The cascade sends no
  REMOVE to the client (compare spec 005, FR-013).
* *Login.* A login that compared the old password creates its session after a
  reset; `post_self_password` can overwrite an administrator's reset. At
  the longest lockout a late failure can bring its end forward (it does not lift it).
* *Audit.* A failed flush discards its batch without counting it
  (`audit_writer.rs:230`); `serve.rs:409` does not wait for the writer; the queue
  said to be drop-oldest drops the newest. Pages are sorted by time and cut by
  `seq`: two rows whose times and numbers disagree can be skipped or shown twice,
  where `specs/008-sqlite-storage/tasks.md:188` has paging reach "every entry
  exactly once" (`PagesSound` excepts these rows).
* *Data directory.* `restore --force` and `reset` ignore the lock and unlink its
  sentinel; an artefact refused after `--force` has already cost the old
  database; unforced restore checks and copies in two steps; offline commands
  generate a TLS pair before they take the store's lock; a crash between
  certificate and key leaves a pair that does not match, with which the server
  runs without gRPC; `checkpoint_for_clean_shutdown` is never called.
* *Commands.* `rule_cli` knows few of the codes and exits 1 where
  `OperatorError::exit_code` says 3, 4, 5 or 8; `identity_cli` gives 2 and 8 where
  it says 1; an invalid enrollment lifetime is an HTTP 500. `specs/005`
  `contracts/operator-api.md:460` gives 4 and 5 for missing credentials and RBAC
  denials, `portunus-server.mdx:141` 4 for a missing token; `rule_cli.rs:68`
  returns 1. With `--ack-timeout` above 30 s the HTTP timeout fires first, and a
  push that is run again leaves a second Pending rule.
* *Onboarding.* A store that cannot be read is reported as `token_verify_error`,
  which the client takes as final; a reply lost after the redemption, or a torn
  bundle, locks the machine out until a new code.
* *Owner caps.* "Cache and store stay in lockstep" (`owner.rs:137`) fails under
  overlap; the collection after the last rule pushes no REMOVE, and counts before
  it deletes; a replay can overtake a newer PUT. A DELETE or a collection that the
  client is not told is never made good: the replay sends the caps there are, and
  no absence, where `owner_cap.rs:218` has it restore "the absence of an entry" and
  `client/control.rs:207` a stale entry overwritten.
* *Quotas and limits.* The rate-limited and metered loops lose bookings when they
  are cancelled; `patch_quota` can lose an update; an anchor in the future
  (`quota_http.rs:144`) starts the period then, and what is used before counts in
  it; demux replies are sent without a look at the budget (`demux.rs:273`, `345`),
  where `udp/mod.rs:625` drops them, and single datagrams are debited after the
  send; a refund after `replace` raises the new budget, which `quota/mod.rs:137`
  says "can never" happen; `copy.rs:337` says the next
  acquire is guaranteed to succeed after one wait, which other streams can
  prevent; `scope.rs` says that nothing was mutated by a refusal that has taken
  tokens.
* *Statistics.* A report that comes after the removal of its rule brings its
  rows back (`service.rs:344`). `metrics.rs:1084` has the stream read after it
  subscribes; `stats_stream.rs:62` reads first.
* *Failover.* The failure window is anchored at its first failure, where FR-008
  (`specs/007-multi-target-failover/spec.md:108`) reads as a sliding window. The
  prober visits one target per tick, so a target is probed every N intervals.
* *UDP.* `process_batch` is said to "never reorder packets that share a flow"; the
  datagram that opens a flow waits for its cold path and can be overtaken once the
  flow is live. A commit on a slot that a stale removal vacated is counted without
  being compared with the cap. In the multi-target path a target counts as a
  success once it resolves, probes arriving before the listeners bind are dropped,
  and the prober dials TCP. `runtime.rs:91` and `specs/014` `spec.md:228`, `363`
  say that a removal never reports Failed; its token reaches the children, and an
  unbiased select may do so (`OneEnd` leaves the kind of end open).
* *SNI.* Two rules with one pattern poison their group: its table stops
  following. A new group accepts connections before its first table.
  `client_hello.rs:6` leaves hellos split over several records to another layer;
  there is none, and such a hello is Malformed, although FR-013 of `specs/009` asks
  to account for them. The table in `sni/listener.rs`
  says a timeout is a drop; it also counts as a parse failure. `SizeCap` cannot
  happen: a record of the largest length is smaller than the cap.
* *Resolver.* A waiter on a placeholder whose owner was dropped waits for the
  take-over.
* *Standalone.* After a failed start nobody reads the status channel, which may
  block; the last rule's failure can be lost with exit code 0, where the design of
  2026-05-14 (lines 408, 579) says 1. The dashboard's help
  offers sorting (`tui/render.rs:554`), which no drawing function reads;
  `TerminalGuard` is said never to leave the terminal corrupted, but when the
  alternate screen cannot be entered raw mode stays on; the design of 2026-05-29
  probes the selected rule, the code every TCP rule.
* *Roster.* Renaming a connected client does not reach its live session, and push,
  update and removal look sessions up by display name (`clients.rs:232`): a REMOVE
  may not be sent, or go to a namesake (`NamesSound` says when). `cli.rs:1013` says
  the lookup of the id "always succeeds" after that of the session; a rename or
  deletion in between makes it fail.

## Not modelled

SQLite itself (each statement or transaction is atomic), protobuf conversions, the
bytes inside a field of a ClientHello or PROXY header, the memory layout of
`recvmmsg`/`sendmmsg`, password hashing and certificate cryptography, rendering of
metrics, argument parsing and printing, the layout of the dashboard and the web
UI. They are I/O, parsing or presentation, or are exercised through the modelled
code; `PROJECT.json` gives the reason for each.

## Next

* A module that composes two overlapping sessions with the fix of the findings
  above (a session writes states only while the registry lists it), and
  `ListenersSound` without its premise for it.
* `UpdatesSound` by theorem, for one session and requests one at a time.
* The daemon's half of `StandaloneSound`, with its progress stated by guards.
