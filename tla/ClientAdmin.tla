----------------------------- MODULE ClientAdmin -----------------------------
(* The roster of clients and the operator requests that edit it.  A client is
   its stable id; its display name is copied to four places: the roster row
   (client_tokens), the rules table, the rules in memory and the live session,
   which keeps the name it was verified with.  Requests about rules look the
   session up by display name, requests about clients by id. *)
EXTENDS Naturals, FiniteSets

CONSTANTS
    Fleet,     \* stable client ids
    Labels,    \* display names
    Admins,    \* slots, numbered, for the operator requests in progress at one time
    MaxRuleNo, \* rules pushed in one life of the server
    MaxAsks    \* requests in all


VARIABLES
    running, \* is the server running?
    roster,  \* client_tokens: the row of a client
    codes,   \* client_enrollments: unconsumed codes
    live,    \* ConnectedClients, and connections verified but not registered
    table,   \* the rules table: client and display name of a rule
    memory,  \* ServerRuleStore
    nextNo,  \* ServerRuleStore::next_id
    asks,    \* what each request is doing
    asked,   \* requests started
    sent,    \* rule updates: what was sent, about whose rule, to whom
    bearers, \* history: the clients that have borne a display name
    astray   \* history: clients whose name changed under another's feet

adminVars ==
    <<running, roster, codes, live, table, memory, nextNo, asks, asked, sent, bearers, astray>>

RuleNos == 1 .. MaxRuleNo
Nobody == "nobody"
NoRosterRow == [name |-> Nobody, revoked |-> FALSE, address |-> Nobody]
NoSession == [stage |-> "none", name |-> Nobody]
NoRuleRow == [client |-> Nobody, name |-> Nobody]
Done == [kind |-> "none", step |-> "none", client |-> Nobody, name |-> Nobody,
         to |-> Nobody, rule |-> 0]

ASSUME RosterAssumption ==
    MaxRuleNo \in Nat \ {0} /\ MaxAsks \in Nat /\ Nobody \notin Fleet \cup Labels

Address == {"ip", "host", "url", "host and port", "empty"}

\* validate_client_address: a bare address or host name.
ValidAddress(a) == a \in {"ip", "host"}

OnRoster(c) == roster[c].name # Nobody

AdminTypeOK ==
    /\ running \in BOOLEAN
    /\ roster \in [Fleet -> [name : Labels \cup {Nobody}, revoked : BOOLEAN,
                             address : Address \cup {Nobody}]]
    /\ codes \subseteq [client : Fleet, name : Labels, address : Address \cup {Nobody}]
    /\ live \in [Fleet -> [stage : {"none", "arriving", "open", "cancelled"},
                           name : Labels \cup {Nobody}]]
    /\ table \in [RuleNos -> [client : Fleet \cup {Nobody}, name : Labels \cup {Nobody}]]
    /\ memory \in [RuleNos -> [client : Fleet \cup {Nobody}, name : Labels \cup {Nobody}]]
    /\ nextNo \in 1 .. MaxRuleNo + 1
    /\ asked \in 0 .. MaxAsks

\* A server started on a database with one client's rule and code, the code
\* made under any name the client had.
RowOf(n, revoked) == [name |-> n, revoked |-> revoked, address |-> Nobody]

AdminInit ==
    /\ running = TRUE
    /\ roster \in [Fleet -> {NoRosterRow} \cup {RowOf(n, v) : n \in Labels, v \in BOOLEAN}]
    /\ \E c \in Fleet : OnRoster(c) /\ \E n \in Labels :
          /\ codes = {[client |-> c, name |-> n, address |-> Nobody]}
          /\ bearers = [m \in Labels |-> {d \in Fleet : roster[d].name = m}
                                            \cup IF m = n THEN {c} ELSE {}]
          /\ table = [r \in RuleNos |-> IF r = 1 THEN [client |-> c, name |-> roster[c].name]
                                                   ELSE NoRuleRow]
    /\ live = [c \in Fleet |-> NoSession]
    /\ memory = table
    /\ nextNo = 2
    /\ asks = [a \in Admins |-> Done]
    /\ asked = 0
    /\ sent = {}
    /\ astray = {}

-----------------------------------------------------------------------------
(* How requests move, and what the history remembers of each step *)

Open(c) == live[c].stage \in {"open", "cancelled"}

\* The requests that concern a client: by its id, or by the session found.
About(a, c) == c \in {asks[a].client, asks[a].to}
RenamingNow(c) == {a \in Admins : asks[a].kind = "rename" /\ asks[a].client = c}

\* A rename is under someone's feet while the client has a connection or
\* another request concerns it.
Contended(c) ==
    /\ RenamingNow(c) # {}
    /\ \/ live[c].stage # "none"
       \/ \E a \in Admins : About(a, c) /\ RenamingNow(c) # {a}

Remember(restored) ==
    /\ bearers' = [n \in Labels |-> bearers[n] \cup {c \in Fleet : roster'[c].name = n}]
    /\ astray' = astray \cup restored \cup {c \in Fleet : Contended(c)'}

\* A request takes the first free slot: slots are told apart by nothing else.
Starts(a, ask) ==
    /\ asks[a] = Done /\ \A b \in Admins : b < a => asks[b] # Done
    /\ asked < MaxAsks
    /\ asked' = asked + 1
    /\ asks' = [asks EXCEPT ![a] = ask]

Proceeds(a, step) == asks' = [asks EXCEPT ![a].step = step] /\ UNCHANGED asked
Ends(a) == asks' = [asks EXCEPT ![a] = Done] /\ UNCHANGED asked

AskAt(a, kind, step) == asks[a].kind = kind /\ asks[a].step = step

\* A request of an id the roster does not know ends at once.
ById(a, kind, c, n, step) ==
    /\ OnRoster(c)
    /\ Starts(a, [Done EXCEPT !.kind = kind, !.step = step, !.client = c, !.name = n])

-----------------------------------------------------------------------------
(* Enrollment: a code remembers the name the client had when it was made *)

\* SqliteEnrollmentStore::create: the new code supersedes the client's others.
Issued(c, n, addr) ==
    codes' = {k \in codes : k.client # c} \cup {[client |-> c, name |-> n, address |-> addr]}

\* enroll_client: a new client, a new id.
EnrollClient(a, c, n, addr) ==
    /\ ValidAddress(addr)
    /\ \A m \in Labels : c \notin bearers[m]
    /\ \A k \in codes : k.client # c
    /\ \A b \in Admins : asks[b].client # c
    /\ Starts(a, Done)
    /\ Issued(c, n, addr)
    /\ UNCHANGED <<roster, live, table, memory, nextNo, sent>>

\* enroll_existing_client_by_id: the name is read, then the code is stored if the
\* client is still there.
ReenrollRead(a, c) ==
    /\ ById(a, "reenroll", c, roster[c].name, "create")
    /\ UNCHANGED <<roster, codes, live, table, memory, nextNo, sent>>

ReenrollCreate(a) ==
    /\ AskAt(a, "reenroll", "create")
    /\ LET c == asks[a].client
       IN  IF OnRoster(c) THEN Issued(c, asks[a].name, roster[c].address) ELSE UNCHANGED codes
    /\ Ends(a)
    /\ UNCHANGED <<roster, live, table, memory, nextNo, sent>>

\* redeem: a client that is there keeps its current name and is no longer
\* revoked; one deleted meanwhile returns under its id with the code's name.
RedeemedRow(k) ==
    IF OnRoster(k.client)
    THEN [roster[k.client] EXCEPT !.revoked = FALSE,
                                  !.address = IF k.address = Nobody THEN @ ELSE k.address]
    ELSE [name |-> k.name, revoked |-> FALSE, address |-> k.address]

RedeemCode(a, k) ==
    /\ Starts(a, [Done EXCEPT !.kind = "redeem", !.step = "cut", !.client = k.client])
    /\ roster' = [roster EXCEPT ![k.client] = RedeemedRow(k)]
    /\ codes' = codes \ {k}
    /\ UNCHANGED <<live, table, memory, nextNo, sent>>

-----------------------------------------------------------------------------
(* Requests about a client, by id *)

\* ConnectedClients::disconnect, the last step of revoke_by_id and of a redeem.
Cancelled(c) ==
    IF live[c].stage = "open" THEN [live EXCEPT ![c].stage = "cancelled"] ELSE live

RevokeRead(a, c) ==
    /\ ById(a, "revoke", c, Nobody, "row")
    /\ UNCHANGED <<roster, codes, live, table, memory, nextNo, sent>>

RevokeRow(a) ==
    /\ AskAt(a, "revoke", "row")
    /\ roster' = IF OnRoster(asks[a].client)
                 THEN [roster EXCEPT ![asks[a].client].revoked = TRUE] ELSE roster
    /\ Proceeds(a, "cut")
    /\ UNCHANGED <<codes, live, table, memory, nextNo, sent>>

DisconnectClient(a) ==
    /\ asks[a].kind \in {"revoke", "redeem"} /\ asks[a].step = "cut"
    /\ live' = Cancelled(asks[a].client)
    /\ Ends(a)
    /\ UNCHANGED <<roster, codes, table, memory, nextNo, sent>>

\* delete_client_by_id: only a revoked client goes; its rules stay.
DeleteRead(a, c) ==
    /\ ById(a, "delete", c, Nobody, "row")
    /\ UNCHANGED <<roster, codes, live, table, memory, nextNo, sent>>

DeleteRosterRow(a) ==
    /\ AskAt(a, "delete", "row")
    /\ roster' = IF roster[asks[a].client].revoked
                 THEN [roster EXCEPT ![asks[a].client] = NoRosterRow] ELSE roster
    /\ Ends(a)
    /\ UNCHANGED <<codes, live, table, memory, nextNo, sent>>

\* SqliteTokenStore::update_client_address_by_id.
UpdatedRow(c, addr) == [roster EXCEPT ![c].address = addr]

\* update_client_by_id: one write; the row read back only fills the answer.
UpdateClient(a, c, addr) ==
    /\ ValidAddress(addr)
    /\ OnRoster(c)
    /\ Starts(a, Done)
    /\ roster' = UpdatedRow(c, addr)
    /\ UNCHANGED <<codes, live, table, memory, nextNo, sent>>

\* A slip: the roster row alone is renamed.
RowsKeepName(c, n) == table

\* SqliteTokenStore::rename: roster row and rule rows in one transaction.
RenamedRows(c, n) ==
    [r \in RuleNos |-> IF table[r].client = c THEN [table[r] EXCEPT !.name = n] ELSE table[r]]

RenameRow(a, c, n) ==
    /\ ById(a, "rename", c, Nobody, "read")
    /\ roster' = [roster EXCEPT ![c].name = n]
    /\ table' = RenamedRows(c, n)
    /\ UNCHANGED <<codes, live, memory, nextNo, sent>>

\* rename_client reads the row back; a client deleted meanwhile is an error.
RenameRead(a) ==
    /\ AskAt(a, "rename", "read")
    /\ IF OnRoster(asks[a].client)
       THEN /\ asks' = [asks EXCEPT ![a].step = "memory", ![a].name = roster[asks[a].client].name]
            /\ UNCHANGED asked
       ELSE Ends(a)
    /\ UNCHANGED <<roster, codes, live, table, memory, nextNo, sent>>

\* patch_client_name refreshes the rules in memory; the session keeps its name.
RenameMemory(a) ==
    /\ AskAt(a, "rename", "memory")
    /\ memory' = [r \in RuleNos |-> IF memory[r].client = asks[a].client
                                    THEN [memory[r] EXCEPT !.name = asks[a].name] ELSE memory[r]]
    /\ Ends(a)
    /\ UNCHANGED <<roster, codes, live, table, nextNo, sent>>

-----------------------------------------------------------------------------
(* Requests about a rule: the session is found by display name *)

\* handles_by_name and client_id_by_name: any session of that name.
SessionsNamed(n) == {c \in Fleet : Open(c) /\ live[c].name = n}

PushHandles(a, n, c) ==
    /\ c \in SessionsNamed(n)
    /\ Starts(a, [Done EXCEPT !.kind = "push", !.step = "id", !.name = n, !.to = c])
    /\ UNCHANGED <<roster, codes, live, table, memory, nextNo, sent>>

\* The id is looked up a second time, after the sender.
PushId(a) ==
    /\ AskAt(a, "push", "id")
    /\ \/ /\ SessionsNamed(asks[a].name) = {}
          /\ Ends(a)
       \/ \E c \in SessionsNamed(asks[a].name) :
             /\ asks' = [asks EXCEPT ![a].step = "memory", ![a].client = c]
             /\ UNCHANGED asked
    /\ UNCHANGED <<roster, codes, live, table, memory, nextNo, sent>>

PushMemory(a) ==
    /\ AskAt(a, "push", "memory")
    /\ nextNo <= MaxRuleNo
    /\ memory' = [memory EXCEPT ![nextNo] = [client |-> asks[a].client, name |-> asks[a].name]]
    /\ nextNo' = nextNo + 1
    /\ asks' = [asks EXCEPT ![a].step = "row", ![a].rule = nextNo]
    /\ UNCHANGED <<roster, codes, live, table, asked, sent>>

PushRow(a) ==
    /\ AskAt(a, "push", "row")
    /\ table' = [table EXCEPT ![asks[a].rule] = [client |-> asks[a].client, name |-> asks[a].name]]
    /\ Proceeds(a, "send")
    /\ UNCHANGED <<roster, codes, live, memory, nextNo, sent>>

Message(what, rule, client, to) == [what |-> what, rule |-> rule, client |-> client, to |-> to]

PushSent(a) ==
    /\ AskAt(a, "push", "send")
    /\ sent' = sent \cup {Message("push", asks[a].rule, asks[a].client, asks[a].to)}
    /\ Ends(a)
    /\ UNCHANGED <<roster, codes, live, table, memory, nextNo>>

\* remove_rule: memory, then the row, then REMOVE to a session of the rule's
\* name; without one the answer is still success.
RemoveMemory(a, r) ==
    /\ memory[r].client # Nobody
    /\ Starts(a, [Done EXCEPT !.kind = "remove", !.step = "row", !.rule = r,
                              !.client = memory[r].client, !.name = memory[r].name])
    /\ memory' = [memory EXCEPT ![r] = NoRuleRow]
    /\ UNCHANGED <<roster, codes, live, table, nextNo, sent>>

RemoveRow(a) ==
    /\ AskAt(a, "remove", "row")
    /\ table' = [table EXCEPT ![asks[a].rule] = NoRuleRow]
    /\ Proceeds(a, "send")
    /\ UNCHANGED <<roster, codes, live, memory, nextNo, sent>>

RemoveSent(a) ==
    /\ AskAt(a, "remove", "send")
    /\ LET found == SessionsNamed(asks[a].name)
           untold == found = {} /\ Open(asks[a].client)
       IN  \E to \in IF found = {} THEN {Nobody} ELSE found :
              sent' = sent \cup {Message(IF untold THEN "unsent" ELSE "remove",
                                         asks[a].rule, asks[a].client, to)}
    /\ Ends(a)
    /\ UNCHANGED <<roster, codes, live, table, memory, nextNo>>

-----------------------------------------------------------------------------
(* Connections, and the server's stop and start *)

\* verify reads the row; register stores the session with the name read then.
Verify(c) ==
    /\ live[c] = NoSession
    /\ OnRoster(c) /\ ~roster[c].revoked
    /\ live' = [live EXCEPT ![c] = [stage |-> "arriving", name |-> roster[c].name]]
    /\ UNCHANGED <<roster, codes, table, memory, nextNo, asks, asked, sent>>

RegisterSession(c) ==
    /\ live[c].stage = "arriving"
    /\ live' = [live EXCEPT ![c].stage = "open"]
    /\ UNCHANGED <<roster, codes, table, memory, nextNo, asks, asked, sent>>

SessionEnds(c) ==
    /\ Open(c)
    /\ live' = [live EXCEPT ![c] = NoSession]
    /\ UNCHANGED <<roster, codes, table, memory, nextNo, asks, asked, sent>>

\* The server stops: sessions, requests and memory are gone.
StopServer ==
    /\ running
    /\ running' = FALSE
    /\ memory' = [r \in RuleNos |-> NoRuleRow]
    /\ live' = [c \in Fleet |-> NoSession]
    /\ asks' = [a \in Admins |-> Done]
    /\ sent' = {}
    /\ UNCHANGED <<roster, codes, table, nextNo, asked>>

\* Commands open the store themselves, which the server's lock forbids while it
\* runs.  `revoke` goes by display name: every row of that name.
OfflineRevoke(n) ==
    /\ ~running
    /\ asked < MaxAsks /\ asked' = asked + 1
    /\ roster' = [c \in Fleet |-> IF roster[c].name = n THEN [roster[c] EXCEPT !.revoked = TRUE]
                                                        ELSE roster[c]]
    /\ UNCHANGED <<running, codes, live, table, memory, nextNo, asks, sent>>

OfflineRename(c, n) ==
    /\ ~running
    /\ OnRoster(c)
    /\ asked < MaxAsks /\ asked' = asked + 1
    /\ roster' = [roster EXCEPT ![c].name = n]
    /\ table' = RenamedRows(c, n)
    /\ UNCHANGED <<running, codes, live, memory, nextNo, asks, sent>>

\* The next start reads the rules from the table.
StartServer ==
    /\ ~running
    /\ running' = TRUE
    /\ memory' = table
    /\ nextNo' = 1 + Cardinality({r \in RuleNos : \E s \in r .. MaxRuleNo : table[s] # NoRuleRow})
    /\ UNCHANGED <<roster, codes, live, table, asks, asked, sent>>

\* Rows of clients deleted and brought back by a code issued before.
Restored == {c \in Fleet : ~OnRoster(c) /\ OnRoster(c)' /\ \E n \in Labels : c \in bearers[n]}

-----------------------------------------------------------------------------
(* The handlers under /v1/clients: superadmins only, then the operation *)

Roles == {"superadmin", "user"}
RequireRole(role) == role = "superadmin"

PostClientEnrollments(a, role, c, n, addr) == RequireRole(role) /\ EnrollClient(a, c, n, addr)
PostClientReenrollment(a, role, c) == RequireRole(role) /\ ReenrollRead(a, c)
PostRevoke(a, role, c) == RequireRole(role) /\ RevokeRead(a, c)
DeleteClient(a, role, c) == RequireRole(role) /\ DeleteRead(a, c)
PutClient(a, role, c, addr) == RequireRole(role) /\ UpdateClient(a, c, addr)
PatchClientName(a, role, c, n) == RequireRole(role) /\ RenameRow(a, c, n)

Served ==
    \/ \E a \in Admins, role \in Roles, c \in Fleet :
          \/ \E n \in Labels, addr \in {"ip", "url"} : PostClientEnrollments(a, role, c, n, addr)
          \/ \E addr \in {"host", "host and port"} : PutClient(a, role, c, addr)
          \/ \E n \in Labels : PatchClientName(a, role, c, n)
          \/ PostClientReenrollment(a, role, c)
          \/ PostRevoke(a, role, c)
          \/ DeleteClient(a, role, c)
    \/ \E a \in Admins :
          \/ ReenrollCreate(a) \/ RevokeRow(a) \/ DisconnectClient(a) \/ DeleteRosterRow(a)
          \/ RenameRead(a) \/ RenameMemory(a)
          \/ PushId(a) \/ PushMemory(a) \/ PushRow(a) \/ PushSent(a)
          \/ RemoveRow(a) \/ RemoveSent(a)
          \/ \E n \in Labels, c \in Fleet : PushHandles(a, n, c)
          \/ \E r \in RuleNos : RemoveMemory(a, r)
          \/ \E k \in codes : RedeemCode(a, k)
    \/ \E c \in Fleet : Verify(c) \/ RegisterSession(c) \/ SessionEnds(c)

AdminStep ==
    \/ running /\ UNCHANGED running /\ Served
    \/ StopServer \/ StartServer
    \/ \E n \in Labels : OfflineRevoke(n) \/ \E c \in Fleet : OfflineRename(c, n)

AdminNext == AdminStep /\ Remember(Restored)

AdminSpec == AdminInit /\ [][AdminNext]_adminVars

-----------------------------------------------------------------------------
(* Properties *)

\* A rule update reaches another client than the rule's only if the two have
\* borne the same display name: the session is found by name, twice.
DeliveredByName ==
    \A m \in sent : m.to \in Fleet \ {m.client} =>
        \E n \in Labels : {m.to, m.client} \subseteq bearers[n]

\* remove_rule leaves a connected client untold only if the client was renamed
\* while it was connected or another request concerned it, or was restored.
RemovalTold == \A m \in sent : m.what = "unsent" => m.client \in astray

\* A client renamed while nothing else concerned it has one name: that of its
\* row, on its rules in the table and, once the rename answered, in memory.
LockStep ==
    \A c \in Fleet \ astray : OnRoster(c) =>
        \A r \in RuleNos :
            /\ table[r].client = c => table[r].name = roster[c].name
            /\ memory[r].client = c /\ RenamingNow(c) = {} => memory[r].name = roster[c].name

\* Display names stay in step with the stable ids they stand for.
NamesSound == AdminTypeOK /\ DeliveredByName /\ RemovalTold /\ LockStep
=============================================================================
