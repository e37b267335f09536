---------------------------- MODULE UdpSupervisor ----------------------------
(***************************************************************************)
(* The life of a single-target UDP rule (portunus-forwarder,               *)
(* forwarder/mod.rs run_udp and forwarder/udp/runtime.rs): run_udp starts  *)
(* the runtime, reports to the control loop and asks for the shutdown; the *)
(* supervisor watches the child tasks and drains them in order.  UdpFlows  *)
(* has what those tasks do with flows; here only their number matters.     *)
(*                                                                         *)
(* Release builds abort on a panic, so a child task ends only when its     *)
(* token fires or, the demux, when it is told to.                          *)
(***************************************************************************)
EXTENDS Integers, Sequences, FiniteSets

CONSTANTS
    ListenPorts,   \* listen_ports
    TargetPorts,   \* how many ports the target range has
    FirstPort,     \* the first of ListenPorts
    MaxNewFlows    \* bound: flows opened

ASSUME UdpSupervisorAssumption ==
    /\ ListenPorts \subseteq Nat /\ IsFiniteSet(ListenPorts) /\ FirstPort \in ListenPorts
    /\ TargetPorts \in Nat /\ MaxNewFlows \in Nat

Roles == {"listener", "demux", "reaper", "pump"}

\* Role of runtime.rs: what a task is, and for a listener its port.
Children == {<<"listener", p>> : p \in ListenPorts} \cup {<<r, FirstPort>> : r \in {"demux", "reaper", "pump"}}
Role(c) == c[1]
Task(role) == <<role, FirstPort>>

VARIABLES
    runner,     \* run_udp: where it is and what failed_rx gave it
    reports,    \* RuleStatusEvents sent
    child,      \* task -> "none", "live", "exited" or "joined"
    fired,      \* tokens cancelled: "rule" cascades to the others
    phase,      \* the supervisor
    pending,    \* role -> tasks of it the supervisor still waits for
    surprises,  \* unexpected_during_drain
    asked,      \* a message in the shutdown channel
    failed,     \* a message in failed_tx
    told,       \* the demux was sent Shutdown
    coldTasks,  \* detached tasks completing a first packet
    opened,     \* flows in the registry, and flows opened so far
    gauge       \* active_flows

supervisorVars ==
    <<runner, reports, child, fired, phase, pending, surprises, asked, failed, told,
      coldTasks, opened, gauge>>

Fired(token) == fired \cap {"rule", token} /= {}
IsLive(c) == child[c] = "live"
Ended(role) == \A c \in Children : Role(c) = role => child[c] \in {"none", "joined"}

\* port_map: the target port of a listen port, by offset.
Mapped(port) == port - FirstPort < TargetPorts

-----------------------------------------------------------------------------
(* run_udp *)

BindFails ==
    /\ runner.at = "start"
    /\ runner' = [runner EXCEPT !.at = "end"]
    /\ reports' = Append(reports, "Failed")
    /\ UNCHANGED <<child, fired, phase, pending, surprises, asked, failed, told, coldTasks, opened, gauge>>

\* UdpRuleRuntime::start: all sockets, then the tasks, then the supervisor.
RuntimeStart ==
    /\ runner.at = "start"
    /\ runner' = [runner EXCEPT !.at = "activate"]
    /\ child' = [c \in Children |-> IF Role(c) = "listener" /\ ~Mapped(c[2]) THEN "none" ELSE "live"]
    /\ phase' = "Running"
    /\ pending' = [r \in Roles |-> IF r = "listener" THEN Cardinality({p \in ListenPorts : Mapped(p)}) ELSE 1]
    /\ UNCHANGED <<reports, fired, surprises, asked, failed, told, coldTasks, opened, gauge>>

\* Activated, or a control loop that is gone: then the runtime is shut down.
Activate ==
    /\ runner.at = "activate"
    /\ \/ reports' = Append(reports, "Activated") /\ runner' = [runner EXCEPT !.at = "await"]
       \/ UNCHANGED reports /\ runner' = [runner EXCEPT !.at = "shutdown", !.gone = TRUE]
    /\ UNCHANGED <<child, fired, phase, pending, surprises, asked, failed, told, coldTasks, opened, gauge>>

\* REMOVE, or the end of the session's control loop
RuleCancelled ==
    /\ "rule" \notin fired
    /\ fired' = fired \cup {"rule"}
    /\ UNCHANGED <<runner, reports, child, phase, pending, surprises, asked, failed, told, coldTasks, opened, gauge>>

\* select!, not biased: with both arms ready either may be taken.
AwaitEnd ==
    /\ runner.at = "await"
    /\ \/ "rule" \in fired /\ runner' = [runner EXCEPT !.at = "shutdown"] /\ UNCHANGED failed
       \/ failed /\ failed' = FALSE /\ runner' = [runner EXCEPT !.at = "shutdown", !.reason = TRUE]
    /\ UNCHANGED <<reports, child, fired, phase, pending, surprises, asked, told, coldTasks, opened, gauge>>

\* shutdown: one message, or a supervisor that is gone already.
AskShutdown ==
    /\ runner.at = "shutdown"
    /\ asked' = (phase /= "done")
    /\ runner' = [runner EXCEPT !.at = "wait"]
    /\ UNCHANGED <<reports, child, fired, phase, pending, surprises, failed, told, coldTasks, opened, gauge>>

ReportEnd ==
    /\ runner.at = "wait" /\ phase = "done"
    /\ runner' = [runner EXCEPT !.at = "end"]
    /\ reports' = IF runner.gone THEN reports
                  ELSE Append(reports, IF runner.reason THEN "Failed" ELSE "Removed")
    /\ UNCHANGED <<child, fired, phase, pending, surprises, asked, failed, told, coldTasks, opened, gauge>>

-----------------------------------------------------------------------------
(* The supervisor, first phase: one of the two arms, shutdown first *)

SeesShutdown ==
    /\ phase = "Running" /\ asked
    /\ phase' = "pump" /\ asked' = FALSE
    /\ fired' = fired \cup {"pump"}
    /\ UNCHANGED <<runner, reports, child, pending, surprises, failed, told, coldTasks, opened, gauge>>

Joined(c) ==
    /\ child[c] = "exited"
    /\ child' = [child EXCEPT ![c] = "joined"]
    /\ pending' = [pending EXCEPT ![Role(c)] = IF pending[Role(c)] > 0 THEN pending[Role(c)] - 1 ELSE 0]

\* Any exit now counts as a failure: failed_callback, and the rule is cancelled.
SeesExit(c) ==
    /\ phase = "Running" /\ ~asked
    /\ Joined(c)
    /\ failed' = TRUE
    /\ fired' = fired \cup {"rule", "pump"}
    /\ phase' = "pump"
    /\ UNCHANGED <<runner, reports, surprises, asked, told, coldTasks, opened, gauge>>

-----------------------------------------------------------------------------
(* The ordered drain *)

\* is_role_cancelled: the step that cancels the role has run.
Marked(role) ==
    CASE role = "pump" -> phase \in {"pump", "listener", "reaper", "flows", "tell", "demux"}
      [] role = "listener" -> phase \in {"listener", "reaper", "flows", "tell", "demux"}
      [] role = "reaper" -> phase \in {"reaper", "flows", "tell", "demux"}
      [] role = "demux" -> phase = "demux"

\* classify_drain_result: an exit before its role's step is recorded.
Classified(role) == IF Marked(role) THEN surprises ELSE surprises \cup {role}

\* join_next while the drain waits for `phase`: any child may be the one.
DrainJoins(c) ==
    /\ phase \in {"pump", "listener", "reaper", "demux"} /\ pending[phase] > 0
    /\ Joined(c)
    /\ surprises' = Classified(Role(c))
    /\ UNCHANGED <<runner, reports, fired, phase, asked, failed, told, coldTasks, opened, gauge>>

\* Slip: the gauge and the registry are cleared before the pump is stopped.
DrainNextEarly ==
    /\ phase \in {"pump", "listener", "reaper"}
    /\ phase = "pump" \/ pending[phase] = 0
    /\ phase' = CASE phase = "pump" -> "listener" [] phase = "listener" -> "reaper"
                  [] OTHER -> "flows"
    /\ fired' = fired \cup ({phase'} \ {"flows"})
    /\ UNCHANGED <<runner, reports, child, pending, surprises, asked, failed, told, coldTasks, opened, gauge>>

\* The role is drained; the next one's token is cancelled.
DrainNext ==
    /\ phase \in {"pump", "listener", "reaper"} /\ pending[phase] = 0
    /\ phase' = CASE phase = "pump" -> "listener" [] phase = "listener" -> "reaper"
                  [] OTHER -> "flows"
    /\ fired' = fired \cup ({phase'} \ {"flows"})
    /\ UNCHANGED <<runner, reports, child, pending, surprises, asked, failed, told, coldTasks, opened, gauge>>

DrainFlows ==
    /\ phase = "flows"
    /\ phase' = "tell"
    /\ opened' = [opened EXCEPT !.now = 0]
    /\ gauge' = 0
    /\ UNCHANGED <<runner, reports, child, fired, pending, surprises, asked, failed, told, coldTasks>>

TellDemux ==
    /\ phase = "tell"
    /\ phase' = "demux" /\ told' = TRUE
    /\ UNCHANGED <<runner, reports, child, fired, pending, surprises, asked, failed, coldTasks, opened, gauge>>

\* Nothing is left in the JoinSet; the outcome is published.
Publish ==
    /\ phase = "demux" /\ pending["demux"] = 0
    /\ \A c \in Children : child[c] \in {"none", "joined"}
    /\ phase' = "done"
    /\ UNCHANGED <<runner, reports, child, fired, pending, surprises, asked, failed, told, coldTasks, opened, gauge>>

-----------------------------------------------------------------------------
(* The child tasks *)

ChildExits(c) ==
    /\ IsLive(c)
    /\ IF Role(c) = "demux" THEN told ELSE Fired(Role(c))
    /\ child' = [child EXCEPT ![c] = "exited"]
    /\ UNCHANGED <<runner, reports, fired, phase, pending, surprises, asked, failed, told, coldTasks, opened, gauge>>

PumpTicks ==
    /\ IsLive(Task("pump")) /\ ~Fired("pump")
    /\ gauge' = opened.now
    /\ UNCHANGED <<runner, reports, child, fired, phase, pending, surprises, asked, failed, told, coldTasks, opened>>

\* A listener hands a first packet to a task of its own, which nobody joins.
NewFlow(c) ==
    /\ Role(c) = "listener" /\ IsLive(c) /\ opened.ever < MaxNewFlows
    /\ coldTasks' = coldTasks + 1
    /\ opened' = [opened EXCEPT !.ever = @ + 1]
    /\ UNCHANGED <<runner, reports, child, fired, phase, pending, surprises, asked, failed, told, gauge>>

ColdEnds ==
    /\ coldTasks > 0
    /\ coldTasks' = coldTasks - 1
    /\ \E kept \in {0, 1} : opened' = [opened EXCEPT !.now = @ + kept]
    /\ UNCHANGED <<runner, reports, child, fired, phase, pending, surprises, asked, failed, told, gauge>>

FlowReaped ==
    /\ IsLive(Task("reaper")) /\ opened.now > 0
    /\ opened' = [opened EXCEPT !.now = @ - 1]
    /\ UNCHANGED <<runner, reports, child, fired, phase, pending, surprises, asked, failed, told, coldTasks, gauge>>

-----------------------------------------------------------------------------
SupervisorInit ==
    /\ runner = [at |-> "start", gone |-> FALSE, reason |-> FALSE]
    /\ reports = <<>>
    /\ child = [c \in Children |-> "none"]
    /\ fired = {} /\ phase = "none"
    /\ pending = [r \in Roles |-> 0]
    /\ surprises = {}
    /\ asked = FALSE /\ failed = FALSE /\ told = FALSE
    /\ coldTasks = 0 /\ opened = [now |-> 0, ever |-> 0] /\ gauge = 0

SupervisorNext ==
    \/ BindFails \/ RuntimeStart \/ Activate \/ RuleCancelled \/ AwaitEnd \/ AskShutdown \/ ReportEnd
    \/ SeesShutdown \/ DrainNext \/ DrainFlows \/ TellDemux \/ Publish
    \/ PumpTicks \/ ColdEnds \/ FlowReaped
    \/ \E c \in Children : SeesExit(c) \/ DrainJoins(c) \/ ChildExits(c) \/ NewFlow(c)

SupervisorSpec == SupervisorInit /\ [][SupervisorNext]_supervisorVars

-----------------------------------------------------------------------------
(* Properties *)

\* Once the flows are drained the gauge stays 0: the pump was joined before,
\* so it cannot write a count taken before the drain over it.
GaugeEndsAtZero == phase \in {"tell", "demux", "done"} => gauge = 0

\* A drain step that finished left no task of its role behind, whichever
\* children ended out of turn, so the registry is emptied with no listener
\* and no reaper running, and the outcome is published with nothing running.
DrainedInOrder ==
    /\ phase \notin {"none", "Running", "pump"} => Ended("pump")
    /\ phase \in {"reaper", "flows", "tell", "demux", "done"} => Ended("listener")
    /\ phase \in {"flows", "tell", "demux", "done"} => Ended("reaper")
    /\ phase = "done" => Ended("demux")

\* The control loop learns of an activated rule's end at most once, and only
\* after the drain.  (Which end a removed rule is given is left open: the code
\* can say Failed, see AwaitEnd, where runtime.rs and specs/014 rule it out.)
OneEnd ==
    /\ Len(reports) <= 2
    /\ Len(reports) = 2 => reports[1] = "Activated" /\ reports[2] /= "Activated" /\ phase = "done"

\* run_udp never waits for a supervisor that is stuck: the shutdown is about to
\* be seen, the next role about to be cancelled, or a task *of the role being
\* drained* can exit or be joined, whatever ended out of turn before.
DrainGoesOn ==
    runner.at = "wait" =>
        \/ phase = "Running" /\ asked
        \/ phase \in {"flows", "tell", "done"}
        \/ /\ phase \in Roles
           /\ IF pending[phase] = 0 THEN phase = "demux" => \A r \in Roles : Ended(r)
              ELSE \E c \in Children : Role(c) = phase /\
                      \/ IsLive(c) /\ (IF Role(c) = "demux" THEN told ELSE Fired(Role(c)))
                      \/ child[c] = "exited"

SupervisorSound == GaugeEndsAtZero /\ DrainedInOrder /\ OneEnd /\ DrainGoesOn

=============================================================================
