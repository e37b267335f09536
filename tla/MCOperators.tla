--------------------------- MODULE MCOperators ----------------------------
(* Instances of what operators and web users do for TLC.  The
   components share no variable, so exploring each one alone (`part` says
   which) reaches every state its properties can tell apart. *)
EXTENDS RuleControl, RuleRequests, Access, WebAuth, AuditLog,
        DataDirectory, Commands, TLC

\* One port range of one client.
OneScope == {[lo |-> 1, hi |-> 1]}

\* Operator requests and processes are told apart by nothing but their slot.
Interchangeable == Permutations(Tasks) \cup Permutations(Procs)

\* What restore is given: no database, one of the newer schema.
DatabaseOf(schema) == [sqlite |-> TRUE, schema |-> schema, rows |-> {0}]
RestoredFiles == {[sqlite |-> FALSE, schema |-> 0, rows |-> {}], DatabaseOf(2)}

\* Bodies of POST and PUT: six that may be accepted, then one per early return.
PlainBody ==
    [shape |-> "legacy", listen |-> [lo |-> 1, hi |-> 1], listenEnd |-> FALSE,
     target |-> [lo |-> 1, hi |-> 1], targetEnd |-> FALSE, proto |-> "tcp", sni |-> Absent,
     limit |-> Absent, interval |-> Absent, host |-> "h", targets |-> <<>>]
TargetOf(host, proxy) == [host |-> host, priority |-> Absent, proxy |-> proxy]
NewBody == [PlainBody EXCEPT !.shape = "targets", !.targets = <<TargetOf("h", Absent)>>]
TwoBody == [NewBody EXCEPT !.targets = <<TargetOf("h", Absent), TargetOf("g", "v2")>>]
CapOf(rate, burst) == [rate |-> rate, burst |-> burst, concurrentBurst |-> FALSE]
RequestBodies ==
    {PlainBody,
     [PlainBody EXCEPT !.listen.hi = 2, !.target.hi = 2, !.listenEnd = TRUE, !.targetEnd = TRUE],
     [PlainBody EXCEPT !.sni = <<"a", "x">>],
     [TwoBody EXCEPT !.sni = <<"*", "a", "x">>],
     [NewBody EXCEPT !.proto = "udp", !.limit = CapOf(100, 6000)],
     [NewBody EXCEPT !.limit = CapOf(Absent, Absent)]}
    \cup
    {[PlainBody EXCEPT !.shape = "both"],
     [PlainBody EXCEPT !.listenEnd = TRUE],
     [PlainBody EXCEPT !.listen.lo = 2],
     [TwoBody EXCEPT !.proto = "udp"],
     [NewBody EXCEPT !.targets = <<TargetOf("h", Absent), TargetOf("h", Absent)>>],
     [NewBody EXCEPT !.sni = <<"*", "x">>],
     [NewBody EXCEPT !.limit = CapOf(100, 6001)],
     [NewBody EXCEPT !.limit = CapOf(0, Absent)],
     [NewBody EXCEPT !.interval = 3601],
     [TwoBody EXCEPT !.listen.hi = 2, !.listenEnd = TRUE, !.targetEnd = TRUE]}

\* An old client without UDP and a new one with it.
OldAndNew == {[version |-> 8, udp |-> FALSE], [version |-> 11, udp |-> TRUE]}

VARIABLE part   \* the component that takes steps

operatorVars == <<part, vars, requestVars, accessVars, webAuthVars,
    auditVars, dirVars, commandVars>>

OperatorsInit ==
    /\ part \in {"rules", "requests", "access", "webauth", "audit", "directory", "commands"}
    /\ Init
    /\ RequestInit
    /\ AccessInit
    /\ WebAuthInit
    /\ AuditInit
    /\ DirInit
    /\ CommandsInit /\ (part # "commands" => serving)

OperatorsNext ==
    \/ /\ part = "rules" /\ Next
       /\ UNCHANGED <<part, requestVars, accessVars, webAuthVars,
                      auditVars, dirVars, commandVars>>
    \/ /\ part = "requests" /\ RequestNext
       /\ UNCHANGED <<part, vars, accessVars, webAuthVars,
                      auditVars, dirVars, commandVars>>
    \/ /\ part = "access" /\ AccessNext
       /\ UNCHANGED <<part, vars, requestVars, webAuthVars,
                      auditVars, dirVars, commandVars>>
    \/ /\ part = "webauth" /\ WebAuthNext
       /\ UNCHANGED <<part, vars, requestVars, accessVars,
                      auditVars, dirVars, commandVars>>
    \/ /\ part = "audit" /\ AuditNext
       /\ UNCHANGED <<part, vars, requestVars, accessVars,
                      webAuthVars, dirVars, commandVars>>
    \/ /\ part = "directory" /\ DirNext
       /\ UNCHANGED <<part, vars, requestVars, accessVars,
                      webAuthVars, auditVars, commandVars>>
    \/ /\ part = "commands" /\ CommandsNext
       /\ UNCHANGED <<part, vars, requestVars, accessVars,
                      webAuthVars, auditVars, dirVars>>

OperatorsSpec == OperatorsInit /\ [][OperatorsNext]_operatorVars
=============================================================================
