----------------------------- MODULE Standalone -----------------------------
(***************************************************************************)
(* The standalone daemon (portunus-standalone): what config.rs accepts and *)
(* turns into rules, the process from start to exit code (main.rs,         *)
(* runtime.rs, signal.rs, reporter.rs) and its statistics socket           *)
(* (stats/server.rs, stats/client.rs).                                     *)
(*                                                                         *)
(* A forwarder is what run() sees of it: it reports Activated or Failed,   *)
(* and on shutdown reports Removed and ends; a UDP forwarder may report    *)
(* Failed instead, or at any time before (UdpSupervisor).  A task that     *)
(* panics reports nothing; run() sees it only in a build that unwinds (the *)
(* release profile aborts).                                                *)
(***************************************************************************)
EXTENDS Integers, Sequences, FiniteSets

CONSTANTS
    Files,        \* configuration files
    MaxClients,   \* MAX_STATS_CLIENTS
    StatusCap,    \* capacity of the status channel
    Readers       \* programs that connect to the statistics socket

ASSUME StandaloneAssumption == MaxClients \in Nat /\ StatusCap \in Nat \ {0}

VARIABLES
    file,      \* the configuration the process was started with
    proc,      \* main and run: where they are
    fwd,       \* name -> the forwarder's task
    statusQ,   \* the status channel
    gate,      \* what the startup gate and the main select know
    halt,      \* the shutdown token
    aux,       \* reporter, signal task, status forwarder, stats server: running?
    socketFile,\* the socket file exists
    reader     \* the readers that hold a permit

standaloneVars == <<file, proc, fwd, statusQ, gate, halt, aux, socketFile, reader>>

-----------------------------------------------------------------------------
(* config.rs *)

\* A rule's listen and target parts: "none", "one", "range"/"list" or "both".
PortsOf(kind, n) == IF kind = "one" THEN 1 ELSE n

\* Config::validate, on one rule.
ValidRule(r) ==
    /\ r.listen \in {"one", "range"}
    /\ r.target \in {"one", "list"}
    /\ r.listen = "range" => r.listenParses
    /\ IF r.target = "one" THEN r.targetParses /\ PortsOf(r.listen, r.listenLen) = r.targetLen
       ELSE r.targetLen > 0 /\ PortsOf(r.listen, r.listenLen) = 1

\* validate: names and the ids derived from them are told apart.
Validate(f) ==
    /\ f.rules /= <<>>
    /\ \A i, j \in DOMAIN f.rules : i /= j =>
          f.rules[i].name /= f.rules[j].name /\ f.rules[i].id /= f.rules[j].id
    /\ \A i \in DOMAIN f.rules : ValidRule(f.rules[i])
    /\ f.stats => f.refresh \in 250..5000

\* into_iter_rules: what validate leaves to be parsed.
Convertible(r) == r.proto \in {"tcp", "udp"} /\ r.hostParses /\ (r.target = "list" => r.proxyParses)

RuleNames == {f.rules[i].name : <<f, i>> \in {<<g, j>> \in Files \X (1..3) : j \in DOMAIN g.rules}}
NamesOf(f) == {f.rules[i].name : i \in DOMAIN f.rules}
IsUdp(n) == \E i \in DOMAIN file.rules : file.rules[i].name = n /\ file.rules[i].proto = "udp"

-----------------------------------------------------------------------------
(* main *)

Exit(code) == proc' = [at |-> "exited", code |-> code]

\* Load, override and validate.  --check ends here.
Main(check) ==
    /\ proc.at = "main"
    /\ IF ~file.loads \/ ~Validate(file) THEN Exit(2)
       ELSE IF check THEN Exit(0)
       ELSE proc' = [proc EXCEPT !.at = "setup"]
    /\ UNCHANGED <<file, fwd, statusQ, gate, halt, aux, socketFile, reader>>

\* run up to the forwarders: signal handler, resolver, reporter, rules.  A handler
\* or a resolver that cannot be set up, or a rule that does not convert, ends the
\* process before any port is bound.
SetUp(ready) ==
    /\ proc.at = "setup"
    /\ IF ready /\ \A i \in DOMAIN file.rules : Convertible(file.rules[i])
       THEN /\ proc' = [proc EXCEPT !.at = "stats"]
            /\ fwd' = [n \in RuleNames |-> IF n \in NamesOf(file) THEN "starting" ELSE "none"]
            /\ aux' = {"reporter", "signal"}
            /\ gate' = [gate EXCEPT !.pending = NamesOf(file)]
       ELSE Exit(1) /\ UNCHANGED <<fwd, aux, gate>>
    /\ UNCHANGED <<file, statusQ, halt, socketFile, reader>>

\* stats::server::spawn: a socket that cannot be bound is only logged.
StatsSpawn ==
    /\ proc.at = "stats"
    /\ proc' = [proc EXCEPT !.at = "gate"]
    /\ \E bound \in BOOLEAN :
          IF file.stats /\ bound
          THEN aux' = aux \cup {"stats"} /\ socketFile' = TRUE
          ELSE UNCHANGED <<aux, socketFile>>
    /\ UNCHANGED <<file, fwd, statusQ, gate, halt, reader>>

\* Every task has dropped its sender.
AllEnded == \A n \in NamesOf(file) : fwd[n] \in {"ended", "panicked", "joined"}

\* The startup gate: one event per rule, or a channel all senders left.
Gate ==
    /\ proc.at = "gate" /\ gate.pending /= {}
    /\ \/ /\ statusQ /= <<>>
          /\ gate' = [gate EXCEPT !.pending = @ \ {Head(statusQ)[1]},
                                  !.failed = IF Head(statusQ)[2] = "Failed" THEN @ \cup {Head(statusQ)[1]} ELSE @]
          /\ statusQ' = Tail(statusQ)
       \/ /\ statusQ = <<>> /\ AllEnded
          /\ gate' = [gate EXCEPT !.pending = {}]
          /\ UNCHANGED statusQ
    /\ UNCHANGED <<file, proc, fwd, halt, aux, socketFile, reader>>

\* Slip: the process goes on with the rules that could be bound.
GateEndsLax ==
    /\ proc.at = "gate" /\ gate.pending = {}
    /\ proc' = [proc EXCEPT !.at = "running"]
    /\ aux' = aux \cup {"forwarder"}
    /\ UNCHANGED <<file, fwd, statusQ, gate, halt, socketFile, reader>>

\* Any failure stops everything; nobody reads the status channel from then on.
GateEnds ==
    /\ proc.at = "gate" /\ gate.pending = {}
    /\ IF gate.failed /= {}
       THEN proc' = [at |-> "joining", code |-> 1] /\ halt' = TRUE /\ UNCHANGED aux
       ELSE proc' = [proc EXCEPT !.at = "running"] /\ aux' = aux \cup {"forwarder"} /\ UNCHANGED halt
    /\ UNCHANGED <<file, fwd, statusQ, gate, socketFile, reader>>

Joinable == {n \in RuleNames : fwd[n] \in {"ended", "panicked"}}
AllJoined == \A n \in RuleNames : fwd[n] \in {"none", "joined"}

\* join_next: in the main select a panic stops the daemon; after a failed start
\* the result is not looked at.
JoinForwarder(n) ==
    /\ proc.at \in {"running", "joining"} /\ n \in Joinable
    /\ proc.at = "running" => ~gate.fatal
    /\ fwd' = [fwd EXCEPT ![n] = "joined"]
    /\ IF proc.at = "running" /\ fwd[n] = "panicked"
       THEN proc' = [proc EXCEPT !.code = 1] /\ halt' = TRUE
       ELSE UNCHANGED <<proc, halt>>
    /\ UNCHANGED <<file, statusQ, gate, aux, socketFile, reader>>

\* The status forwarder turns a failure into a message for the main select.
StatusForwarder ==
    /\ "forwarder" \in aux
    /\ IF statusQ /= <<>>
       THEN /\ statusQ' = Tail(statusQ)
            /\ gate' = [gate EXCEPT !.fatal = @ \/ Head(statusQ)[2] = "Failed"]
            /\ UNCHANGED aux
       ELSE /\ AllEnded
            /\ aux' = aux \ {"forwarder"}
            /\ UNCHANGED <<statusQ, gate>>
    /\ UNCHANGED <<file, proc, fwd, halt, socketFile, reader>>

\* The biased arm of the main select.
Fatal ==
    /\ proc.at = "running" /\ gate.fatal
    /\ gate' = [gate EXCEPT !.fatal = FALSE]
    /\ proc' = [proc EXCEPT !.code = 1]
    /\ halt' = TRUE
    /\ UNCHANGED <<file, fwd, statusQ, aux, socketFile, reader>>

\* All forwarders joined: the rest is stopped and awaited.
RunEnds ==
    /\ proc.at \in {"running", "joining"} /\ AllJoined
    /\ proc.at = "running" => ~gate.fatal
    /\ proc' = [proc EXCEPT !.at = "stopping"]
    /\ halt' = TRUE
    /\ UNCHANGED <<file, fwd, statusQ, gate, aux, socketFile, reader>>

ProcessExits ==
    /\ proc.at = "stopping" /\ aux \subseteq {"forwarder"}
    /\ proc' = [proc EXCEPT !.at = "exited"]
    /\ reader' = {}
    /\ UNCHANGED <<file, fwd, statusQ, gate, halt, aux, socketFile>>

-----------------------------------------------------------------------------
(* Tasks *)

\* SIGINT or SIGTERM; SIGHUP changes nothing.
Signal ==
    /\ "signal" \in aux /\ ~halt
    /\ halt' = TRUE
    /\ aux' = aux \ {"signal"}
    /\ UNCHANGED <<file, proc, fwd, statusQ, gate, socketFile, reader>>

\* Reporter, signal task and stats server watch the token; the server removes
\* its socket on the way out.
AuxStops(t) ==
    /\ halt /\ t \in aux \ {"forwarder"}
    /\ aux' = aux \ {t}
    /\ socketFile' = (socketFile /\ t /= "stats")
    /\ UNCHANGED <<file, proc, fwd, statusQ, gate, halt, reader>>

Send(n, what) == Len(statusQ) < StatusCap /\ statusQ' = Append(statusQ, <<n, what>>)

\* A forwarder binds or fails to, whether or not a shutdown has begun; an active
\* UDP one may fail, any is told to stop, and either may panic.
Forwarder(n) ==
    /\ proc.at /= "exited"
    /\ \/ fwd[n] = "starting" /\ Send(n, "Activated") /\ fwd' = [fwd EXCEPT ![n] = "active"]
       \/ /\ fwd[n] = "starting" \/ (fwd[n] = "active" /\ IsUdp(n))
          /\ Send(n, "Failed") /\ fwd' = [fwd EXCEPT ![n] = "ended"]
       \/ fwd[n] = "active" /\ halt /\ Send(n, "Removed") /\ fwd' = [fwd EXCEPT ![n] = "ended"]
       \/ fwd[n] \in {"starting", "active"} /\ fwd' = [fwd EXCEPT ![n] = "panicked"]
             /\ UNCHANGED statusQ
    /\ UNCHANGED <<file, proc, gate, halt, aux, socketFile, reader>>

\* accept, under the semaphore; over the limit the stream is dropped.
Connect(c) ==
    /\ "stats" \in aux /\ ~halt /\ c \notin reader /\ proc.at /= "exited"
    /\ reader' = IF Cardinality(reader) < MaxClients THEN reader \cup {c} ELSE reader
    /\ UNCHANGED <<file, proc, fwd, statusQ, gate, halt, aux, socketFile>>

\* handle_client returns: the reader left, a write timed out, the daemon stops.
Disconnect(c) ==
    /\ c \in reader
    /\ reader' = reader \ {c}
    /\ UNCHANGED <<file, proc, fwd, statusQ, gate, halt, aux, socketFile>>

-----------------------------------------------------------------------------
StandaloneInit ==
    /\ file \in Files
    /\ proc = [at |-> "main", code |-> 0]
    /\ fwd = [n \in RuleNames |-> "none"]
    /\ statusQ = <<>>
    /\ gate = [pending |-> {}, failed |-> {}, fatal |-> FALSE]
    /\ halt = FALSE /\ aux = {} /\ socketFile = FALSE
    /\ reader = {}

StandaloneNext ==
    \/ StatsSpawn \/ Gate \/ GateEnds \/ StatusForwarder \/ Fatal
    \/ RunEnds \/ ProcessExits \/ Signal
    \/ \E check \in BOOLEAN : Main(check)
    \/ \E ready \in BOOLEAN : SetUp(ready)
    \/ \E t \in aux : AuxStops(t)
    \/ \E n \in RuleNames : JoinForwarder(n) \/ Forwarder(n)
    \/ \E c \in Readers : Connect(c) \/ Disconnect(c)

StandaloneSpec == StandaloneInit /\ [][StandaloneNext]_standaloneVars

-----------------------------------------------------------------------------
(* Properties *)

\* A daemon with a rule that could not be bound never gets to run, and its exit
\* code is 1.  Of a rule that fails later nothing is claimed: when it is the last
\* to end, run may find every task joined before the failure is forwarded.
ExitTells ==
    /\ proc.at = "running" => gate.failed = {} /\ gate.pending = {}
    /\ proc.at = "exited" /\ gate.failed /= {} => proc.code = 1

\* A process that exited left nothing behind: every forwarder was joined, and
\* there is no socket file.
NothingLeft ==
    proc.at = "exited" =>
        ~socketFile /\ \A n \in RuleNames : fwd[n] \in {"none", "joined"}

\* Shutdown gets to its end, with one exception the code really has: after a
\* failed start the status channel is not read any more, and once it is full
\* the remaining forwarders wait to report Removed for ever.
Flooded ==
    /\ proc.at = "joining" /\ Len(statusQ) = StatusCap
    /\ \E n \in RuleNames : fwd[n] \in {"starting", "active"}
ShutdownGoesOn ==
    halt /\ proc.at /= "exited" /\ ~Flooded => ENABLED StandaloneNext

DaemonSound == ExitTells /\ NothingLeft /\ ShutdownGoesOn

=============================================================================
