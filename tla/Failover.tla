------------------------------ MODULE Failover ------------------------------
(***************************************************************************)
(* One multi-target TCP rule of the forwarder                              *)
(* (portunus-forwarder/src/forwarder/failover_path.rs, failover.rs,        *)
(* probe.rs).  Target 1 has the highest priority.  Each target has a       *)
(* HealthState behind a mutex of its own; connections and the optional     *)
(* prober read and update those one lock at a time, with awaits between    *)
(* taking a decision and acting on it:                                     *)
(*                                                                         *)
(*   - a connection snapshots the health of the targets one by one, fixes  *)
(*     a dial order, dials down that order, and records each outcome with  *)
(*     the time stamp it took before it waited for the target's lock;      *)
(*   - the prober dials one target per tick and records the outcome;       *)
(*   - removing the rule stops the accept loop, waits drain_timeout for    *)
(*     the connections and then shuts the remaining ones.                  *)
(*                                                                         *)
(* A target is up or down; a dial, and the PROXY-protocol prelude that may *)
(* follow it, succeed when the target is up at that moment.  The admission *)
(* gate (rate limits) is left out: a refused connection changes nothing.   *)
(***************************************************************************)
EXTENDS Naturals, Sequences, FiniteSets

CONSTANTS
    N,                 \* number of targets of the rule
    Conns,             \* connection slots, reused when a connection ends
    Proxied,           \* targets that want a PROXY-protocol prelude
    Probing,           \* health_check_interval_secs is set
    FailThreshold,     \* PASSIVE_FAILURE_THRESHOLD
    RecoverThreshold,  \* PASSIVE_RECOVERY_THRESHOLD
    Window,            \* FAILURE_WINDOW, in ticks of the clock
    CountMax,          \* where the failure count saturates (u32::MAX)
    CounterMod,        \* where target_failovers_total wraps (2^64)
    MaxClock,          \* bound: the clock stops here
    StreakLen          \* bound: failures the history variable remembers

ASSUME ConstantsAssumption ==
    /\ N \in Nat \ {0}
    /\ Proxied \subseteq 1..N
    /\ Probing \in BOOLEAN
    /\ FailThreshold \in Nat \ {0}
    /\ RecoverThreshold \in Nat \ {0}
    /\ Window \in Nat
    /\ CountMax \in Nat /\ CountMax >= FailThreshold
    /\ CounterMod \in Nat \ {0, 1}
    /\ MaxClock \in Nat
    /\ StreakLen \in Nat

Targets == 1..N

VARIABLES
    clock,      \* Instant::now()
    up,         \* targets that accept a connection
    health,     \* states: the HealthState of every target
    failovers,  \* target_failovers_total
    rule,       \* life of the run_tcp task
    accepting,  \* an accept loop that has not seen the cancellation
    conn,       \* the handle_connection task in each slot
    prober,     \* the probe::run task
    steady,     \* history: targets up ever since the connection was accepted
    well,       \* history: targets up and Healthy ever since
    streak      \* history: stamps of the last failures in a row of each target

sharedVars == <<health, failovers, streak>>
historyVars == <<steady, well>>
vars == <<clock, up, health, failovers, rule, accepting, conn, prober,
          steady, well, streak>>

-----------------------------------------------------------------------------
(* HealthState                                                             *)

None == MaxClock + 1    \* failure_window_start = None
Stamps == 0..MaxClock

\* HealthState::new: every target starts Healthy.
FreshHealth == [state |-> "Healthy", fails |-> 0, succs |-> 0, start |-> None]

\* The window is anchored at its first failure.  `duration_since` saturates
\* at zero, so a stamp taken before the anchor counts as inside.
WindowOpen(h, now) == h.start # None /\ now <= h.start + Window

CountedFailures(h, now) ==
    IF ~WindowOpen(h, now) THEN 1
    ELSE IF h.fails < CountMax THEN h.fails + 1 ELSE CountMax

Trips(h, now) ==
    h.state = "Healthy" /\ CountedFailures(h, now) >= FailThreshold

\* HealthState::record_failure, without the wall-clock fields.
FailureRecorded(h, now) ==
    [state |-> IF Trips(h, now) THEN "Failed" ELSE h.state,
     fails |-> CountedFailures(h, now),
     succs |-> 0,
     start |-> IF WindowOpen(h, now) THEN h.start ELSE now]

Recovers(h) == h.state = "Failed" /\ h.succs + 1 >= RecoverThreshold

\* Slip: a success of a Healthy target leaves its failure count alone.
SuccessKeepsCount(h) ==
    IF Recovers(h) THEN FreshHealth
    ELSE IF h.state = "Healthy" THEN [h EXCEPT !.succs = 0]
    ELSE [h EXCEPT !.succs = h.succs + 1]

\* HealthState::record_success.  A success short of the threshold leaves the
\* failure window of a Failed target alone.
SuccessRecorded(h) ==
    IF h.state = "Healthy" \/ Recovers(h) THEN FreshHealth
    ELSE [h EXCEPT !.succs = h.succs + 1]

Bump(n, b) == IF b THEN (n + 1) % CounterMod ELSE n

\* The last StreakLen elements of a sequence.
Remembered(s) ==
    IF Len(s) <= StreakLen THEN s ELSE SubSeq(s, Len(s) - StreakLen + 1, Len(s))

\* Under the lock of target t: apply the outcome of a dial stamped `now`.
RecordFailure(t, now) ==
    /\ health' = [health EXCEPT ![t] = FailureRecorded(health[t], now)]
    /\ failovers' = Bump(failovers, Trips(health[t], now))
    /\ streak' = [streak EXCEPT ![t] = Remembered(Append(@, now))]

\* Slip: only failures count as failovers.
RecordSuccessUncounted(t) ==
    /\ health' = [health EXCEPT ![t] = SuccessRecorded(health[t])]
    /\ failovers' = failovers
    /\ streak' = [streak EXCEPT ![t] = <<>>]

RecordSuccess(t) ==
    /\ health' = [health EXCEPT ![t] = SuccessRecorded(health[t])]
    /\ failovers' = Bump(failovers, Recovers(health[t]))
    /\ streak' = [streak EXCEPT ![t] = <<>>]

Record(t, ok, now) == IF ok THEN RecordSuccess(t) ELSE RecordFailure(t, now)

-----------------------------------------------------------------------------
(* Connections                                                             *)

FreshConn == [pc |-> "none", pos |-> 1, first |-> 0, ok |-> FALSE, at |-> 0]

\* dial_with_failover: the first target found Healthy, or the highest
\* priority when none was, then the others by priority.
DialOrder(first) ==
    [i \in Targets |-> IF i = 1 THEN first ELSE IF i <= first THEN i - 1 ELSE i]

Candidate(c) == DialOrder(c.first)[c.pos]

Dialing == {"dial", "prelude", "mark"}

Healthy == {t \in Targets : health[t].state = "Healthy"}

Init ==
    /\ clock = 0
    /\ up \in SUBSET Targets
    /\ health = [t \in Targets |-> FreshHealth]
    /\ failovers = 0
    /\ rule = "on"
    /\ accepting = TRUE
    /\ conn = [k \in Conns |-> FreshConn]
    /\ prober = [pc |-> IF Probing THEN "wait" ELSE "stopped",
                 next |-> 1, ok |-> FALSE, at |-> 0]
    /\ steady = [k \in Conns |-> {}]
    /\ well = [k \in Conns |-> {}]
    /\ streak = [t \in Targets |-> <<>>]

\* accept_loop: `select!` may still pick a pending accept after the
\* cancellation, until the loop has seen it.
Accept(k) ==
    /\ accepting
    /\ conn[k].pc = "none"
    /\ conn' = [conn EXCEPT ![k] = [FreshConn EXCEPT !.pc = "snap"]]
    /\ steady' = [steady EXCEPT ![k] = up]
    /\ well' = [well EXCEPT ![k] = up \cap Healthy]
    /\ UNCHANGED <<clock, up, rule, accepting, prober, sharedVars>>

\* Slip: the last Healthy target is kept instead of the first.
SnapshotLast(k) ==
    LET c == conn[k]
        first == IF health[c.pos].state = "Healthy" THEN c.pos ELSE c.first
    IN  /\ c.pc = "snap"
        /\ conn' = [conn EXCEPT ![k] =
               IF c.pos < N THEN [c EXCEPT !.pos = @ + 1, !.first = first]
               ELSE [c EXCEPT !.pc = "dial", !.pos = 1,
                              !.first = IF first = 0 THEN 1 ELSE first]]
        /\ UNCHANGED <<clock, up, rule, accepting, prober, sharedVars, historyVars>>

\* Reads the health of one target under its lock.  The order is fixed once
\* every target has been read: position() of the first Healthy, else 0.
Snapshot(k) ==
    LET c == conn[k]
        first == IF c.first = 0 /\ health[c.pos].state = "Healthy"
                 THEN c.pos ELSE c.first
    IN  /\ c.pc = "snap"
        /\ conn' = [conn EXCEPT ![k] =
               IF c.pos < N THEN [c EXCEPT !.pos = @ + 1, !.first = first]
               ELSE [c EXCEPT !.pc = "dial", !.pos = 1,
                              !.first = IF first = 0 THEN 1 ELSE first]]
        /\ UNCHANGED <<clock, up, rule, accepting, prober, sharedVars, historyVars>>

\* connect_target returned, and the stamp was taken.
Dial(k) ==
    LET c == conn[k]
        ok == Candidate(c) \in up
    IN  /\ c.pc = "dial"
        /\ conn' = [conn EXCEPT ![k] =
               [c EXCEPT !.pc = IF ok /\ Candidate(c) \in Proxied
                                THEN "prelude" ELSE "mark",
                         !.ok = ok, !.at = clock]]
        /\ UNCHANGED <<clock, up, rule, accepting, prober, sharedVars, historyVars>>

\* write_proxy_protocol_prelude; a failed write counts as a failed dial,
\* with the stamp of the dial.
Prelude(k) ==
    LET c == conn[k] IN
    /\ c.pc = "prelude"
    /\ conn' = [conn EXCEPT ![k] =
           [c EXCEPT !.pc = "mark", !.ok = Candidate(c) \in up]]
    /\ UNCHANGED <<clock, up, rule, accepting, prober, sharedVars, historyVars>>

\* The lock of the dialed target was obtained: record the outcome, then use
\* the connection, go on to the next candidate or give up.
MarkNext(c) ==
    IF c.ok THEN [c EXCEPT !.pc = "serve", !.at = 0]
    ELSE IF c.pos < N THEN [c EXCEPT !.pc = "dial", !.pos = @ + 1, !.at = 0]
    ELSE [c EXCEPT !.pc = "exhausted", !.at = 0]

\* A history set: what is left of it after a step.
StillWell(f) ==
    [k \in Conns |-> {t \in f[k] : t \in up' /\ health'[t].state = "Healthy"}]

Mark(k) ==
    LET c == conn[k] IN
    /\ c.pc = "mark"
    /\ Record(Candidate(c), c.ok, c.at)
    /\ conn' = [conn EXCEPT ![k] = MarkNext(c)]
    /\ UNCHANGED <<clock, up, rule, accepting, prober, steady>>
    /\ well' = StillWell(well)

\* The task of slot k ends.
Ends(k) ==
    /\ conn' = [conn EXCEPT ![k] = FreshConn]
    /\ steady' = [steady EXCEPT ![k] = {}]
    /\ well' = [well EXCEPT ![k] = {}]
    /\ UNCHANGED <<clock, up, rule, accepting, prober, sharedVars>>

\* Every target failed: the inbound socket is shut.
Drop(k) == conn[k].pc = "exhausted" /\ Ends(k)

\* The copy ended by itself.
PeerCloses(k) == conn[k].pc = "serve" /\ Ends(k)

\* The select! on the proxy token: only the copy listens to it.
Shutdown(k) == conn[k].pc = "serve" /\ rule = "forced" /\ Ends(k)

-----------------------------------------------------------------------------
(* Prober                                                                  *)

\* Slip: the index stays on a target.
NextTargetStuck(t) == t

\* The target after t in the round-robin walk.
NextTarget(t) == (t % N) + 1

\* A tick: connect to the next target, no lock held.  `select!` may pick a
\* due tick after the cancellation.
ProbeDial ==
    /\ prober.pc = "wait"
    /\ rule # "removed"
    /\ prober' = [prober EXCEPT !.pc = "mark", !.ok = prober.next \in up,
                                !.at = clock]
    /\ UNCHANGED <<clock, up, rule, accepting, conn, sharedVars, historyVars>>

ProbeMark ==
    /\ prober.pc = "mark"
    /\ Record(prober.next, prober.ok, prober.at)
    /\ prober' = [prober EXCEPT !.pc = "wait", !.next = NextTarget(prober.next),
                                !.ok = FALSE, !.at = 0]
    /\ UNCHANGED <<clock, up, rule, accepting, conn, steady>>
    /\ well' = StillWell(well)

ProbeStop ==
    /\ prober.pc = "wait"
    /\ rule # "on"
    /\ prober' = [prober EXCEPT !.pc = "stopped"]
    /\ UNCHANGED <<clock, up, rule, accepting, conn, sharedVars, historyVars>>

-----------------------------------------------------------------------------
(* Removal of the rule                                                     *)

Cancel ==
    /\ rule = "on"
    /\ rule' = "draining"
    /\ UNCHANGED <<clock, up, accepting, conn, prober, sharedVars, historyVars>>

AcceptStops ==
    /\ accepting
    /\ rule # "on"
    /\ accepting' = FALSE
    /\ UNCHANGED <<clock, up, rule, conn, prober, sharedVars, historyVars>>

\* drain: the deadline passed first, proxy_cancel fires.
DrainTimeout ==
    /\ rule = "draining"
    /\ rule' = "forced"
    /\ UNCHANGED <<clock, up, accepting, conn, prober, sharedVars, historyVars>>

\* drain has joined the accept loops, which join their connections; the
\* prober is aborted (a poll under way still ends) and Removed is sent.
Removed ==
    /\ rule \in {"draining", "forced"}
    /\ ~accepting
    /\ \A k \in Conns : conn[k].pc = "none"
    /\ rule' = "removed"
    /\ \/ prober' = [prober EXCEPT !.pc = "stopped"]
       \/ prober.pc = "mark" /\ prober' = prober
    /\ UNCHANGED <<clock, up, accepting, conn, sharedVars, historyVars>>

-----------------------------------------------------------------------------
(* Environment                                                             *)

Tick ==
    /\ clock < MaxClock
    /\ clock' = clock + 1
    /\ UNCHANGED <<up, rule, accepting, conn, prober, sharedVars, historyVars>>

\* A target starts or stops accepting connections.
GoesUp(t) ==
    /\ up' = up \cup {t}
    /\ UNCHANGED <<clock, rule, accepting, conn, prober, sharedVars, historyVars>>

GoesDown(t) ==
    /\ up' = up \ {t}
    /\ steady' = [k \in Conns |-> steady[k] \ {t}]
    /\ well' = [k \in Conns |-> well[k] \ {t}]
    /\ UNCHANGED <<clock, rule, accepting, conn, prober, sharedVars>>

ConnStep(k) ==
    \/ Snapshot(k) \/ Dial(k) \/ Prelude(k) \/ Mark(k)
    \/ Drop(k) \/ Shutdown(k)

ProbeStep == ProbeDial \/ ProbeMark \/ ProbeStop

RemovalStep == AcceptStops \/ DrainTimeout \/ Removed

Next ==
    \/ \E k \in Conns : Accept(k) \/ ConnStep(k) \/ PeerCloses(k)
    \/ ProbeStep
    \/ Cancel \/ RemovalStep
    \/ Tick
    \/ \E t \in Targets : GoesUp(t) \/ GoesDown(t)

Spec == Init /\ [][Next]_vars

\* Every dial ends within attempt_timeout, a lock is only held over
\* straight-line code, the tick and drain timers fire, and the shut-down arm
\* of a copy is polled: each task keeps going.  Nothing makes a client
\* connect, a copy end or the operator remove the rule.
Fairness ==
    /\ \A k \in Conns : WF_vars(ConnStep(k))
    /\ WF_vars(ProbeStep)
    /\ WF_vars(AcceptStops) /\ WF_vars(DrainTimeout) /\ WF_vars(Removed)

FairSpec == Spec /\ Fairness

-----------------------------------------------------------------------------
(* Properties                                                              *)

ConnType ==
    [pc : {"none", "snap", "serve", "exhausted"} \cup Dialing,
     pos : Targets, first : 0..N, ok : BOOLEAN, at : Stamps]

\* Types of the health records, of the connection walks and of the prober.
TypeOK ==
    /\ clock \in Stamps
    /\ up \subseteq Targets
    /\ health \in [Targets -> [state : {"Healthy", "Failed"}, fails : 0..CountMax,
                               succs : Nat, start : 0..None]]
    /\ failovers \in 0..(CounterMod - 1)
    /\ rule \in {"on", "draining", "forced", "removed"}
    /\ accepting \in BOOLEAN
    /\ conn \in [Conns -> ConnType]
    /\ \A k \in Conns : conn[k].pc \notin {"none", "snap"} => conn[k].first # 0
    /\ prober \in [pc : {"wait", "mark", "stopped"}, next : Targets,
                   ok : BOOLEAN, at : Stamps]
    /\ steady \in [Conns -> SUBSET Targets]
    /\ well \in [Conns -> SUBSET Targets]

\* FR-006, FR-011: a connection is served by a target of lower priority only
\* when each target above it was down or Failed at some moment since the
\* connection was accepted, however the health changed between the snapshot
\* and the dials; and once its first choice failed, only when each target
\* above it was down at some moment, whatever its health (dial_with_failover).
NoNeedlessDemotion ==
    \A k \in Conns : conn[k].pc = "serve" =>
        \A t \in Targets : t < Candidate(conn[k]) =>
            /\ t \notin well[k]
            /\ conn[k].pos > 1 => t \notin steady[k]

\* FR-007: a connection is dropped only when no target stayed up for the
\* whole walk; a Failed mark alone never costs a connection
\* (dial_with_failover returns None).
DroppedOnlyIfNoneUp ==
    \A k \in Conns : conn[k].pc = "exhausted" => steady[k] = {}

\* The walk of a connection over well-formed health records neither demotes
\* nor drops it without cause (dial_with_failover).
WalkSound == TypeOK /\ NoNeedlessDemotion /\ DroppedOnlyIfNoneUp

\* FR-010: target_failovers_total counts both kinds of transition, once
\* each, whoever records them: its parity is that of the Failed targets.
FailoversCounted ==
    CounterMod % 2 = 0 =>
        failovers % 2 = Cardinality({t \in Targets : health[t].state = "Failed"}) % 2

\* The stamps of the last n failures of t, none more than Window after the
\* earliest of them.
WithinWindow(s, n) ==
    /\ Len(s) >= n
    /\ \A i, j \in (Len(s) - n + 1)..Len(s) : s[j] <= s[i] + Window

\* A target is marked Failed only by FailThreshold failures in a row, without
\* a success between them, none of them stamped more than Window after the
\* first (record_failure, record_success).
FailedOnEvidence ==
    [][\A t \in Targets :
          health[t].state = "Healthy" /\ health'[t].state = "Failed" =>
              LET s == streak'[t] IN
              /\ Len(s) >= FailThreshold
              /\ \A i \in (Len(s) - FailThreshold + 1)..Len(s) :
                     s[i] <= s[Len(s) - FailThreshold + 1] + Window]_vars

\* What the anchored window of record_failure guarantees:
\* 2 * FailThreshold - 2 failures in a row within Window mark a target.
\* FR-008 asks it of FailThreshold failures in a sliding window, which does
\* not hold: stamps 0, W, W + 1, W + 1 leave it Healthy.
BurstIsNoticed ==
    \A t \in Targets :
        WithinWindow(streak[t], 2 * FailThreshold - 2) => health[t].state = "Failed"

\* A target is marked Failed when, and only when, its failures say so, with
\* stamps that reach record_failure out of order (HealthState).
HealthSound == FailedOnEvidence /\ []BurstIsNoticed

\* FR-009 with the prober on: a target that stays up while the rule runs is
\* Healthy in the end, and stays so (probe::run, record_success).
UpIsHealthyAgain ==
    \A t \in Targets :
        <>[](t \in up /\ rule = "on") => <>[](health[t].state = "Healthy")

\* Removing a rule ends: connections that are being dialed run out of targets
\* or are served, served ones are cut at the deadline (drain, accept_loop).
RemovalEnds == (rule # "on") ~> (rule = "removed")

\* A rule comes to rest: its working targets recover while it runs, and its
\* removal ends (probe::run, drain).
RuleComesToRest == UpIsHealthyAgain /\ RemovalEnds

=============================================================================
