------------------------------ MODULE Commands ------------------------------
(***************************************************************************)
(* The operator's command line (main.rs, operator/rule_cli.rs,             *)
(* identity_cli.rs, owner_cap_cli.rs, password_cli.rs, cli.rs).  A shell   *)
(* runs one command: it is refused on the spot, or sends one or two HTTP   *)
(* requests to the running server and turns the answer into an exit code,  *)
(* or opens the store itself.  The server's handler and the shell part     *)
(* ways when the shell's HTTP timeout fires or the server stops.  The      *)
(* handlers are those of RuleControl, OwnerCaps and Access, cut down to    *)
(* what they leave behind; errors are grouped by what the tables make of   *)
(* them.                                                                   *)
(***************************************************************************)
EXTENDS Integers

CONSTANTS
    Shells,      \* processes of portunus-server other than serve, one command each
    MaxBoard     \* bound: rules pushed

ASSUME CommandAssumption == MaxBoard \in Nat

VARIABLES
    serving,     \* is the server up? it has the store's lock as long as it is
    shell,       \* shell -> its command and how far it is
    handler,     \* shell -> what the server does about its last request
    board,       \* rule id -> state of the rule in the server's memory
    committed    \* history: shells whose command changed the store, other than by a push

commandVars == <<serving, shell, handler, board, committed>>

BoardIds == 1 .. MaxBoard

-----------------------------------------------------------------------------
(* Errors, exit codes and HTTP statuses *)

\* OperatorError::exit_code.
ExitCode ==
    [exists |-> 2, input |-> 3, address |-> 3, lifetime |-> 3, endpoint |-> 3, shape |-> 3,
     udpGate |-> 3, gate |-> 3, rateGate |-> 3, proxyGate |-> 3, proxyInput |-> 3, capInput |-> 3,
     offline |-> 4, busy |-> 5, sniConflict |-> 5, notRevoked |-> 5, activation |-> 6, ack |-> 7,
     noRule |-> 8, noClient |-> 8, unauthenticated |-> 4, denied |-> 5, noAdmin |-> 6,
     bootstrapped |-> 2, identityInput |-> 3, identityConflict |-> 1, identityMissing |-> 1,
     noCap |-> 1, store |-> 1]

Errors == DOMAIN ExitCode

\* http_status_for: what RBAC answers.
RbacStatus ==
    [unauthenticated |-> 401, denied |-> 403, noAdmin |-> 503, bootstrapped |-> 409,
     identityConflict |-> 409, identityMissing |-> 404, identityInput |-> 422]

\* ApiError::from(OperatorError): an error without a row is an internal one.
HttpStatus(e) ==
    CASE e \in DOMAIN RbacStatus -> RbacStatus[e]
      [] e \in {"exists", "busy", "sniConflict", "notRevoked"} -> 409
      [] e \in {"input", "shape", "address", "proxyInput", "capInput"} -> 400
      [] e \in {"offline", "activation", "udpGate", "gate", "rateGate", "proxyGate", "endpoint"} -> 422
      [] e = "ack" -> 504
      [] e \in {"noRule", "noClient", "noCap"} -> 404
      [] OTHER -> 500

\* code_to_exit of the rule commands, ...
RuleExit(e) ==
    CASE e = "exists" -> 2
      [] e \in {"input", "udpGate", "proxyGate", "proxyInput"} -> 3
      [] e \in {"offline", "busy", "activation", "ack", "noRule"} -> ExitCode[e]
      [] OTHER -> 1

\* ... of the user and grant commands, ...
IdentityExit(e) ==
    CASE e = "identityConflict" -> 2
      [] e = "identityInput" -> 3
      [] e = "unauthenticated" -> 4
      [] e = "denied" -> 5
      [] e = "noAdmin" -> 6
      [] e = "identityMissing" -> 8
      [] OTHER -> 1

\* ... of the owner-cap commands: "validation." is a prefix.
OwnerExit(e) ==
    CASE e = "noCap" -> 8
      [] e \in {"rateGate", "capInput", "proxyInput"} -> 3
      [] OTHER -> 1

\* password_error_exit, identity_error_exit
PasswordExit(e) ==
    CASE e = "identityMissing" -> 8
      [] e \in {"identityConflict", "bootstrapped"} -> 2
      [] e = "identityInput" -> 3
      [] OTHER -> 1

-----------------------------------------------------------------------------
(* Commands *)

RuleCommands     == {"push", "remove", "read"}       \* read: list-rules, list-clients, rule-stats
IdentityCommands == {"identity"}                     \* user-add, user-remove, grant-add, grant-revoke
CapCommands      == {"set", "delete", "get"}         \* owner-cap
OfflineCommands  == {"enrollment", "password"}       \* enroll, revoke, rename; reset-password

ExitOf(cmd, e) ==
    CASE cmd \in RuleCommands -> RuleExit(e)
      [] cmd \in IdentityCommands -> IdentityExit(e)
      [] cmd \in CapCommands -> OwnerExit(e)
      [] cmd = "password" -> PasswordExit(e)
      [] OTHER -> ExitCode[e]

\* What each handler may answer before it changes anything.
Gatekeepers == {"unauthenticated", "denied", "noAdmin"}
RefusalsOf ==
    [push |-> Gatekeepers \cup {"input", "shape", "udpGate", "gate", "rateGate", "proxyGate",
                                "proxyInput", "capInput", "offline", "sniConflict"},
     remove |-> Gatekeepers,
     read |-> Gatekeepers \cup {"noRule"},
     identity |-> Gatekeepers \cup {"identityInput", "identityConflict", "identityMissing", "store"},
     set |-> Gatekeepers \cup {"rateGate", "capInput", "noClient", "store"},
     delete |-> Gatekeepers \cup {"store"},
     get |-> Gatekeepers \cup {"noCap", "noClient"},
     enrollment |-> {"exists", "input", "address", "lifetime", "endpoint", "noClient", "notRevoked", "store"},
     password |-> {"identityMissing", "identityInput", "bootstrapped", "store"}]

\* What a shell refuses by itself: an unreadable listen or target, a shape, an
\* interval (3) or --sni on a range or on UDP (2); no token (4); a set without
\* a cap, a malformed user id (3).
LocalRefusals ==
    [push |-> {2, 3}, remove |-> {}, read |-> {}, identity |-> {4}, set |-> {3}, delete |-> {},
     get |-> {}, enrollment |-> {}, password |-> {3}]

IdleShell == [cmd |-> "none", at |-> "idle", arg |-> 0, exit |-> -1]
NoHandler == [at |-> "none", verdict |-> "none", rule |-> 0]

Exits(s, code) == shell' = [shell EXCEPT ![s].at = "done", ![s].exit = code]
Working(s) == handler[s].at \in {"lookup", "gate", "send", "wait"}
Over(s) == [handler[s] EXCEPT !.at = "over", !.verdict = "none"]
Ended(s) == handler' = [handler EXCEPT ![s] = Over(s)]

\* The answer waits for its reader, if there still is one.
Answers(s, verdict) ==
    IF shell[s].at = "waits"
    THEN handler' = [handler EXCEPT ![s].at = "answer", ![s].verdict = verdict]
    ELSE Ended(s)
Present == {r \in BoardIds : board[r] \in {"Pending", "Active", "Failed"}}

-----------------------------------------------------------------------------
(* The shell *)

Typed(s, cmd, arg) ==
    /\ shell[s].at = "idle"
    /\ shell' = [shell EXCEPT ![s] = [IdleShell EXCEPT !.cmd = cmd, !.at = "typed", !.arg = arg]]
    /\ UNCHANGED <<serving, handler, board, committed>>

Typing(s) ==
    \/ \E cmd \in {"push", "read", "identity", "enrollment", "password"} : Typed(s, cmd, 0)
    \/ \E r \in BoardIds : Typed(s, "remove", r)
    \/ \E cmd \in CapCommands, named \in {0, 1} : Typed(s, cmd, named)

Refuses(s) ==
    /\ shell[s].at = "typed"
    /\ \E code \in LocalRefusals[shell[s].cmd] : Exits(s, code)
    /\ UNCHANGED <<serving, handler, board, committed>>

\* resolve_client_id: a client id (0) is used as it is, a name (1) is looked up
\* first.
Looks(s) == shell[s].cmd \in CapCommands /\ shell[s].arg = 1

Sends(s) ==
    /\ shell[s].at = "typed" /\ shell[s].cmd \notin OfflineCommands
    /\ IF serving
       THEN /\ shell' = [shell EXCEPT ![s].at = "waits"]
            /\ handler' = [handler EXCEPT ![s] = [NoHandler EXCEPT !.at = IF Looks(s) THEN "lookup" ELSE "gate"]]
       ELSE Exits(s, 1) /\ UNCHANGED handler
    /\ UNCHANGED <<serving, board, committed>>

\* The HTTP timeout fires, the connection breaks, or the body cannot be read.
GivesUp(s) ==
    /\ shell[s].at = "waits"
    /\ Exits(s, 1)
    /\ IF Working(s) THEN UNCHANGED handler ELSE Ended(s)
    /\ UNCHANGED <<serving, board, committed>>

CodeStatus(v) == IF v = "ok" THEN 200 ELSE HttpStatus(v)

\* resp.status().is_success(), else extract_error.
Reads(s) ==
    /\ shell[s].at = "waits" /\ handler[s].at = "answer"
    /\ LET v == handler[s].verdict
       IN  Exits(s, IF CodeStatus(v) \in 200 .. 299 THEN 0 ELSE ExitOf(shell[s].cmd, v))
    /\ Ended(s)
    /\ UNCHANGED <<serving, board, committed>>

\* The list of clients is back: one of them bears the name, none, or several;
\* names are changed by others and need not be unique.
Resolves(s) ==
    /\ shell[s].at = "waits" /\ handler[s].at = "listed"
    /\ \/ shell' = [shell EXCEPT ![s].at = "typed", ![s].arg = 0]
       \/ Exits(s, 8)
       \/ Exits(s, 3)
    /\ Ended(s)
    /\ UNCHANGED <<serving, board, committed>>

\* Slip: an offline command that does not take the lock.
WritesAnyway(s) ==
    /\ shell[s].at = "typed" /\ shell[s].cmd \in OfflineCommands
    /\ Exits(s, 0) /\ committed' = committed \cup {s}
    /\ UNCHANGED <<serving, handler, board>>

\* build_offline_state, open_operator_store: the store is locked while the
\* server is up.  Then one transaction.
Offline(s) ==
    /\ shell[s].at = "typed" /\ shell[s].cmd \in OfflineCommands
    /\ \/ serving /\ Exits(s, 1) /\ UNCHANGED committed
       \/ /\ ~serving
          /\ \E e \in RefusalsOf[shell[s].cmd] : Exits(s, ExitOf(shell[s].cmd, e))
          /\ UNCHANGED committed
       \/ ~serving /\ Exits(s, 0) /\ committed' = committed \cup {s}
    /\ UNCHANGED <<serving, handler, board>>

-----------------------------------------------------------------------------
(* The handler of a shell's request *)

Lists(s) ==
    /\ handler[s].at = "lookup"
    /\ \/ handler' = [handler EXCEPT ![s].at = "listed"]
       \/ \E e \in Gatekeepers : Answers(s, e)
    /\ UNCHANGED <<serving, shell, board, committed>>

Refusing(s) ==
    /\ handler[s].at = "gate"
    /\ \E e \in RefusalsOf[shell[s].cmd] : Answers(s, e)
    /\ UNCHANGED <<serving, shell, board, committed>>

\* The port all pushes ask for is taken by an Active or Failed rule.
Inserts(s) ==
    /\ handler[s].at = "gate" /\ shell[s].cmd = "push"
    /\ IF \E r \in BoardIds : board[r] \in {"Active", "Failed"}
       THEN Answers(s, "busy") /\ UNCHANGED board
       ELSE \E r \in BoardIds :
              /\ board[r] = "free" /\ \A q \in BoardIds : board[q] = "free" => r <= q
              /\ board' = [board EXCEPT ![r] = "Pending"]
              /\ handler' = [handler EXCEPT ![s].rule = r, ![s].at = "send"]
    /\ UNCHANGED <<serving, shell, committed>>

\* upsert_rule failed: the rule stays in memory.
PersistFails(s) ==
    /\ handler[s].at = "send"
    /\ Answers(s, "activation")
    /\ UNCHANGED <<serving, shell, board, committed>>

\* Slip: the rule is not taken back.
LeavesRule(s) ==
    /\ handler[s].at = "send"
    /\ Answers(s, "offline")
    /\ UNCHANGED <<serving, shell, board, committed>>

\* The stream is gone: the rule is taken back.
TakesBack(s) ==
    /\ handler[s].at = "send"
    /\ board' = [board EXCEPT ![handler[s].rule] = "gone"]
    /\ Answers(s, "offline")
    /\ UNCHANGED <<serving, shell, committed>>

Delivered(s) ==
    /\ handler[s].at = "send"
    /\ handler' = [handler EXCEPT ![s].at = "wait"]
    /\ UNCHANGED <<serving, shell, board, committed>>

\* The client's answer, unless the rule was removed meanwhile; no answer in
\* time; an outcome that is neither.
Acked(s) ==
    /\ handler[s].at = "wait"
    /\ LET r == handler[s].rule IN
       \/ /\ r \in Present
          /\ \/ board' = [board EXCEPT ![r] = "Active"] /\ Answers(s, "ok")
             \/ board' = [board EXCEPT ![r] = "Failed"] /\ Answers(s, "activation")
       \/ /\ r \notin Present /\ UNCHANGED board
          /\ \E e \in {"noRule", "activation"} : Answers(s, e)
       \/ UNCHANGED board /\ \E e \in {"ack", "activation"} : Answers(s, e)
    /\ UNCHANGED <<serving, shell, committed>>

\* delete_rule: a rule that is not there has no owner to check.
Removes(s) ==
    /\ handler[s].at = "gate" /\ shell[s].cmd = "remove"
    /\ IF shell[s].arg \in Present
       THEN board' = [board EXCEPT ![shell[s].arg] = "gone"] /\ Answers(s, "ok")
       ELSE UNCHANGED board /\ Answers(s, "noRule")
    /\ UNCHANGED <<serving, shell, committed>>

\* get_rules, get_clients, rule_stats, GET and list of owner caps.
Shows(s) ==
    /\ handler[s].at = "gate" /\ shell[s].cmd \in {"read", "get"}
    /\ Answers(s, "ok")
    /\ UNCHANGED <<serving, shell, board, committed>>

CommitsIdentity(s) ==
    /\ handler[s].at = "gate" /\ shell[s].cmd = "identity"
    /\ Answers(s, "ok") /\ committed' = committed \cup {s}
    /\ UNCHANGED <<serving, shell, board>>

\* PUT and DELETE of an owner cap; a DELETE of nothing is a success too.
CapsOwner(s) ==
    /\ handler[s].at = "gate" /\ shell[s].cmd \in {"set", "delete"}
    /\ committed' = committed \cup {s}
    /\ Answers(s, "ok")
    /\ UNCHANGED <<serving, shell, board>>

\* The connection is closed: the handler goes on, or is dropped where it waits.
Dropped(s) ==
    /\ shell[s].at = "done" /\ Working(s)
    /\ Ended(s)
    /\ UNCHANGED <<serving, shell, board, committed>>

-----------------------------------------------------------------------------
(* Everybody else *)

\* apply_unsolicited_rule_status
Reported(r) ==
    /\ serving /\ r \in Present
    /\ \E state \in {"Active", "Failed"} : board' = [board EXCEPT ![r] = state]
    /\ UNCHANGED <<serving, shell, handler, committed>>

StopsServing ==
    /\ serving /\ serving' = FALSE
    /\ handler' = [s \in Shells |-> IF Working(s) THEN Over(s) ELSE handler[s]]
    /\ UNCHANGED <<shell, board, committed>>

-----------------------------------------------------------------------------
CommandsInit ==
    /\ serving \in BOOLEAN
    /\ shell = [s \in Shells |-> IdleShell]
    /\ handler = [s \in Shells |-> NoHandler]
    /\ board = [r \in BoardIds |-> "free"]
    /\ committed = {}

Run(s) == Typing(s) \/ Refuses(s) \/ Sends(s) \/ GivesUp(s) \/ Reads(s) \/ Resolves(s) \/ Offline(s)

Handle(s) ==
    \/ Lists(s) \/ Refusing(s) \/ Inserts(s) \/ PersistFails(s) \/ TakesBack(s) \/ Delivered(s)
    \/ Acked(s) \/ Removes(s) \/ Shows(s) \/ CommitsIdentity(s) \/ CapsOwner(s) \/ Dropped(s)

CommandsNext ==
    \/ \E s \in Shells : Run(s) \/ Handle(s)
    \/ \E r \in BoardIds : Reported(r)
    \/ StopsServing

CommandsSpec == CommandsInit /\ [][CommandsNext]_commandVars

-----------------------------------------------------------------------------
(* Properties *)

\* An exit code other than 1 is the last word: the server is done with the
\* command.  0: a push put its rule up, a removal took its rule away, any
\* other change is in the store.  2 to 5: the command left nothing behind, so
\* that it can be run again.  6 and 7: only a push.  8: what it asked for, or
\* its own rule, is not there.
CommandsSound ==
    \A s \in Shells : LET x == shell[s].exit
                          cmd == shell[s].cmd
                          r == handler[s].rule
                      IN
        x > 1 \/ x = 0 =>
            /\ ~Working(s)
            /\ x = 0 /\ cmd = "push" => r /= 0 /\ board[r] /= "Pending"
            /\ x = 0 /\ cmd = "remove" => board[shell[s].arg] = "gone"
            /\ x = 0 /\ cmd \in {"identity", "set", "delete"} \cup OfflineCommands => s \in committed
            /\ x \in 2 .. 5 => s \notin committed /\ (r /= 0 => board[r] = "gone")
            /\ x = 8 => s \notin committed /\ (r /= 0 => board[r] = "gone")
            /\ x = 7 => r /= 0
            /\ x = 6 /\ cmd \in RuleCommands => r /= 0
=============================================================================
