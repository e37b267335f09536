---------------------------- MODULE SessionRegistry ----------------------------
(***************************************************************************)
(* Who may hold a control session, and which session the server serves.    *)
(*                                                                         *)
(* Client identities live in SQLite (client_tokens, client_enrollments);   *)
(* live sessions live in the in-memory ConnectedClients map, one entry per *)
(* stable client id.  A gRPC Channel call is authenticated against the     *)
(* database first (interceptor), then takes a session number, then enters  *)
(* the map: three steps of one task that interleave with other handshakes, *)
(* with enrollment redemptions, with operator revocations and with the     *)
(* tear-down of the session it replaces.                                   *)
(*                                                                         *)
(* Abstractions: tokens and codes are numbers and model values (a hash is  *)
(* as good as the secret it stands for), a Hello is the capability set and *)
(* the version it announces, the clock is the action that expires a code.  *)
(***************************************************************************)
EXTENDS Naturals, FiniteSets

CONSTANTS
    Clients,      \* stable client ids
    Conns,        \* gRPC Channel calls
    Codes,        \* enrollment codes
    Hellos,       \* wire values of Hello.supported_protocols (sets of enum values)
    Versions,     \* non-empty version strings a Hello may carry
    NoVersion,    \* version not announced
    NoSession,    \* no registry entry
    NoClient,     \* connection not authenticated yet
    MaxTokens,    \* bound: bearer tokens ever minted
    MaxCuts       \* bound: disconnects owed to one client at a time

Protocol    == {"TCP", "UDP"}
DefaultCaps == {"TCP"}  \* assumed until a Hello is read
Version     == Versions \cup {NoVersion}
Entry       == [conn : Conns, sid : Nat, caps : SUBSET Protocol, version : Version]

ASSUME NoSessionAssumption == NoSession \notin Entry
ASSUME NoClientAssumption == NoClient \notin Clients
ASSUME BoundsAssumption == MaxTokens \in Nat /\ MaxCuts \in Nat

VARIABLES
    tokens,       \* client_tokens: client id -> current token (0: no row), revoked flag
    codes,        \* client_enrollments: code -> state and client id
    issued,       \* credential bundles handed to clients
    cuts,         \* disconnect(client_id) calls still owed by a revoke or redeem
    conn,         \* one record per Channel call
    registry,     \* ConnectedClients::inner
    nextSession,  \* ConnectedClients::next_session
    cancelled,    \* connections whose cancel token was fired
    shutdown      \* session_root cancelled

store == <<tokens, codes, issued>>
vars  == <<tokens, codes, issued, cuts, conn, registry, nextSession, cancelled, shutdown>>

Token   == 1 .. MaxTokens
PCs     == {"idle", "authed", "numbered", "waiting", "named", "greeted",
            "pump", "closing", "gone"}
Bundle  == [token : Token, client : Clients, code : Codes]

\* A fresh Channel call: nothing authenticated, the default capabilities.
\* A finished one has none of its task's locals left either.
FreshConn == [pc |-> "idle", client |-> NoClient, token |-> 0, sid |-> 0,
              hello |-> DefaultCaps, version |-> NoVersion]
GoneConn  == [FreshConn EXCEPT !.pc = "gone"]

Init ==
    /\ tokens      = [c \in Clients |-> [tok |-> 0, revoked |-> FALSE]]
    /\ codes       = [e \in Codes |-> [state |-> "unused", client |-> NoClient]]
    /\ issued      = {}
    /\ cuts        = [c \in Clients |-> 0]
    /\ conn        = [k \in Conns |-> FreshConn]
    /\ registry    = [c \in Clients |-> NoSession]
    /\ nextSession = 0
    /\ cancelled   = {}
    /\ shutdown    = FALSE

-----------------------------------------------------------------------------
(* Enrollment and token store *)

Provisioned(c) == tokens[c].tok # 0
Known(c)       == Provisioned(c) \/ \E e \in Codes : codes[e].client = c
Stale          == {e \in Codes : codes[e].state \in {"consumed", "expired"}}

\* create: prune rows that went stale a day ago, supersede the client's open
\* codes, insert the new one.
CreateCode(e, c, old) ==
    codes' = [x \in Codes |->
                CASE x = e        -> [state |-> "open", client |-> c]
                  [] x \in old    -> [state |-> "pruned", client |-> NoClient]
                  [] x # e /\ x \notin old /\ codes[x].state = "open" /\ codes[x].client = c
                                  -> [codes[x] EXCEPT !.state = "consumed"]
                  [] OTHER        -> codes[x]]

\* A brand-new client: the id is minted by create itself.
EnrollNew(e, c) ==
    /\ codes[e].state = "unused"
    /\ ~Known(c)
    /\ \E old \in SUBSET Stale : CreateCode(e, c, old)
    /\ UNCHANGED <<tokens, issued, cuts, conn, registry, nextSession, cancelled, shutdown>>

\* Re-enrollment of a client that has a row, revoked or not.
EnrollExisting(e, c) ==
    /\ codes[e].state = "unused"
    /\ Provisioned(c)
    /\ \E old \in SUBSET Stale : CreateCode(e, c, old)
    /\ UNCHANGED <<tokens, issued, cuts, conn, registry, nextSession, cancelled, shutdown>>

\* The clock passes expires_at.
Expire(e) ==
    /\ codes[e].state = "open"
    /\ codes' = [codes EXCEPT ![e].state = "expired"]
    /\ UNCHANGED <<tokens, issued, cuts, conn, registry, nextSession, cancelled, shutdown>>

\* Every mint is a fresh random token; numbers stand for mint order.
NextToken == Cardinality(issued) + 1

\* Slip: redeem forgets the consumed_at test.
RedeemableTwice(e) == codes[e].state \in {"open", "consumed"}

Redeemable(e) == codes[e].state = "open"

\* redeem: one write transaction.  It rotates the row of an existing client
\* (clearing revoked_at) or re-materialises a missing one under the same id;
\* only a rotation owes a disconnect of the live session, made after commit.
Redeem(e, c, t) ==
    /\ Redeemable(e)
    /\ codes[e].client = c
    /\ t = NextToken
    /\ cuts[c] < MaxCuts
    /\ tokens' = [tokens EXCEPT ![c] = [tok |-> t, revoked |-> FALSE]]
    /\ codes'  = [codes EXCEPT ![e].state = "consumed"]
    /\ issued' = issued \cup {[token |-> t, client |-> c, code |-> e]}
    /\ cuts'   = [cuts EXCEPT ![c] = IF Provisioned(c) THEN @ + 1 ELSE @]
    /\ UNCHANGED <<conn, registry, nextSession, cancelled, shutdown>>

\* revoke_by_id: the row must exist; the flag is written, then the live
\* session is cut by a later step of the same request.
Revoke(c) ==
    /\ Provisioned(c)
    /\ cuts[c] < MaxCuts
    /\ tokens' = [tokens EXCEPT ![c].revoked = TRUE]
    /\ cuts'   = [cuts EXCEPT ![c] = @ + 1]
    /\ UNCHANGED <<codes, issued, conn, registry, nextSession, cancelled, shutdown>>

\* delete_client_by_id: only a revoked row.
DeleteClient(c) ==
    /\ Provisioned(c)
    /\ tokens[c].revoked
    /\ tokens' = [tokens EXCEPT ![c] = [tok |-> 0, revoked |-> FALSE]]
    /\ UNCHANGED <<codes, issued, cuts, conn, registry, nextSession, cancelled, shutdown>>

\* Slip: disconnect only removes the obligation, the token is not fired.
DisconnectForgets(c) ==
    /\ cuts[c] > 0
    /\ cuts' = [cuts EXCEPT ![c] = @ - 1]
    /\ UNCHANGED <<store, conn, registry, nextSession, cancelled, shutdown>>

\* ConnectedClients::disconnect, the second half of Revoke and Redeem.
Disconnect(c) ==
    /\ cuts[c] > 0
    /\ cuts' = [cuts EXCEPT ![c] = @ - 1]
    /\ cancelled' = IF registry[c] = NoSession THEN cancelled
                    ELSE cancelled \cup {registry[c].conn}
    /\ UNCHANGED <<store, conn, registry, nextSession, shutdown>>

-----------------------------------------------------------------------------
(* A Channel call *)

Cancelled(k) == shutdown \/ k \in cancelled

\* Slip: any token ever issued to the client is accepted while its row is live.
VerifyOldToken(c, t) == Provisioned(c) /\ ~tokens[c].revoked

\* Authenticator::verify: the row that holds this token's hash exists and is
\* not revoked.
Verify(c, t) == tokens[c].tok = t /\ ~tokens[c].revoked

\* The interceptor accepts the bearer token of a bundle a client holds.
Authenticate(k, b) ==
    /\ conn[k].pc = "idle"
    /\ b \in issued
    /\ Verify(b.client, b.token)
    /\ conn' = [conn EXCEPT ![k] = [@ EXCEPT !.pc = "authed", !.client = b.client,
                                             !.token = b.token]]
    /\ UNCHANGED <<store, cuts, registry, nextSession, cancelled, shutdown>>

\* register, first half: next_session.fetch_add, before the map is locked.
TakeSessionId(k) ==
    /\ conn[k].pc = "authed"
    /\ conn' = [conn EXCEPT ![k] = [@ EXCEPT !.pc = "numbered", !.sid = nextSession]]
    /\ nextSession' = nextSession + 1
    /\ UNCHANGED <<store, cuts, registry, cancelled, shutdown>>

\* Slip: the session that is replaced is not cancelled.
RegisterKeepsOld(k) ==
    LET c == conn[k].client IN
    /\ conn[k].pc = "numbered"
    /\ registry' = [registry EXCEPT ![c] =
                      [conn |-> k, sid |-> conn[k].sid,
                       caps |-> DefaultCaps, version |-> NoVersion]]
    /\ conn' = [conn EXCEPT ![k].pc = "waiting"]
    /\ UNCHANGED <<store, cuts, nextSession, cancelled, shutdown>>

\* register, second half: insert and cancel whatever session was there.
Register(k) ==
    LET c == conn[k].client IN
    /\ conn[k].pc = "numbered"
    /\ registry' = [registry EXCEPT ![c] =
                      [conn |-> k, sid |-> conn[k].sid,
                       caps |-> DefaultCaps, version |-> NoVersion]]
    /\ cancelled' = IF registry[c] = NoSession THEN cancelled
                    ELSE cancelled \cup {registry[c].conn}
    /\ conn' = [conn EXCEPT ![k].pc = "waiting"]
    /\ UNCHANGED <<store, cuts, nextSession, shutdown>>

\* The map still holds this connection's session number.
Current(k) ==
    /\ registry[conn[k].client] # NoSession
    /\ registry[conn[k].client].sid = conn[k].sid

\* capabilities_from_hello: unknown enum values and UNSPECIFIED are dropped.
CapabilitiesFromHello(wire) == wire \cap Protocol

\* First message is a Hello: set_supported_protocols.
HelloCaps(k, wire) ==
    LET caps == CapabilitiesFromHello(wire) IN
    /\ conn[k].pc = "waiting"
    /\ registry' = IF Current(k)
                   THEN [registry EXCEPT ![conn[k].client].caps = caps]
                   ELSE registry
    /\ conn' = [conn EXCEPT ![k] = [@ EXCEPT !.pc = "named", !.hello = caps]]
    /\ UNCHANGED <<store, cuts, nextSession, cancelled, shutdown>>

\* set_client_version under a second lock; skipped for an empty version.
HelloVersion(k, v) ==
    /\ conn[k].pc = "named"
    /\ registry' = IF v # NoVersion /\ Current(k)
                   THEN [registry EXCEPT ![conn[k].client].version = v]
                   ELSE registry
    /\ conn' = [conn EXCEPT ![k] = [@ EXCEPT !.pc = "greeted", !.version = v]]
    /\ UNCHANGED <<store, cuts, nextSession, cancelled, shutdown>>

\* First message is something else (a v0.3 client): defaults are kept.
FirstMessageOther(k) ==
    /\ conn[k].pc = "waiting"
    /\ conn' = [conn EXCEPT ![k].pc = "greeted"]
    /\ UNCHANGED <<store, cuts, registry, nextSession, cancelled, shutdown>>

\* Transport error or end of stream before the first message.
FirstMessageLost(k) ==
    /\ conn[k].pc = "waiting"
    /\ conn' = [conn EXCEPT ![k].pc = "closing"]
    /\ UNCHANGED <<store, cuts, registry, nextSession, cancelled, shutdown>>

\* Welcome queued, pump task spawned; or the response stream is already closed.
SendWelcome(k) ==
    /\ conn[k].pc = "greeted"
    /\ \E next \in {"pump", "closing"} : conn' = [conn EXCEPT ![k].pc = next]
    /\ UNCHANGED <<store, cuts, registry, nextSession, cancelled, shutdown>>

\* The pump loop observes its cancel token.
PumpCancelled(k) ==
    /\ conn[k].pc = "pump"
    /\ Cancelled(k)
    /\ conn' = [conn EXCEPT ![k].pc = "closing"]
    /\ UNCHANGED <<store, cuts, registry, nextSession, cancelled, shutdown>>

\* The pump loop sees a transport error or the end of the client's stream.
PumpStreamEnds(k) ==
    /\ conn[k].pc = "pump"
    /\ conn' = [conn EXCEPT ![k].pc = "closing"]
    /\ UNCHANGED <<store, cuts, registry, nextSession, cancelled, shutdown>>

\* unregister, guarded by the session number.
Unregister(k) ==
    /\ conn[k].pc = "closing"
    /\ registry' = IF Current(k)
                   THEN [registry EXCEPT ![conn[k].client] = NoSession]
                   ELSE registry
    /\ conn' = [conn EXCEPT ![k] = GoneConn]
    /\ UNCHANGED <<store, cuts, nextSession, cancelled, shutdown>>

\* ConnectedClients::shutdown: the root token; child tokens are cancelled with it.
Shutdown ==
    /\ ~shutdown
    /\ shutdown' = TRUE
    /\ UNCHANGED <<store, cuts, conn, registry, nextSession, cancelled>>

\* The process dies and starts again: only the database survives.
Restart ==
    /\ cuts'        = [c \in Clients |-> 0]
    /\ conn'        = [k \in Conns |-> IF conn[k].pc = "idle" THEN conn[k] ELSE GoneConn]
    /\ registry'    = [c \in Clients |-> NoSession]
    /\ nextSession' = 0
    /\ cancelled'   = {}
    /\ shutdown'    = FALSE
    /\ UNCHANGED store

-----------------------------------------------------------------------------
Next ==
    \/ \E e \in Codes, c \in Clients :
        \/ EnrollNew(e, c)
        \/ EnrollExisting(e, c)
        \/ \E t \in Token : Redeem(e, c, t)
    \/ \E e \in Codes : Expire(e)
    \/ \E c \in Clients : Revoke(c) \/ DeleteClient(c) \/ Disconnect(c)
    \/ \E k \in Conns :
        \/ \E b \in issued : Authenticate(k, b)
        \/ TakeSessionId(k)
        \/ Register(k)
        \/ \E wire \in Hellos : HelloCaps(k, wire)
        \/ \E v \in Version : HelloVersion(k, v)
        \/ FirstMessageOther(k)
        \/ FirstMessageLost(k)
        \/ SendWelcome(k)
        \/ PumpCancelled(k)
        \/ PumpStreamEnds(k)
        \/ Unregister(k)
    \/ Shutdown
    \/ Restart

\* What the server's own tasks do of a call.  Whether the client ever says its
\* first message is up to the client: channel() waits for it without a timeout
\* and without looking at its cancel token.
ServerStep(k) ==
    \/ TakeSessionId(k)
    \/ Register(k)
    \/ \E v \in Version : HelloVersion(k, v)
    \/ SendWelcome(k)
    \/ PumpCancelled(k)
    \/ Unregister(k)

Fairness ==
    /\ \A c \in Clients : WF_vars(Disconnect(c))
    /\ \A k \in Conns : WF_vars(ServerStep(k))

Spec     == Init /\ [][Next]_vars
FairSpec == Spec /\ Fairness

-----------------------------------------------------------------------------
(* Properties *)

ConnRecord == [pc : PCs, client : Clients \cup {NoClient}, token : 0 .. MaxTokens,
               sid : Nat, hello : SUBSET Protocol, version : Version]

StoreTypeOK ==
    /\ tokens \in [Clients -> [tok : 0 .. MaxTokens, revoked : BOOLEAN]]
    /\ codes \in [Codes -> [state : {"unused", "open", "consumed", "expired", "pruned"},
                            client : Clients \cup {NoClient}]]
    /\ issued \subseteq Bundle
    /\ cuts \in [Clients -> 0 .. MaxCuts]

ConnTypeOK ==
    /\ conn \in [Conns -> ConnRecord]
    /\ \A k \in Conns : conn[k].pc \notin {"idle", "gone"} => conn[k].client \in Clients

MapTypeOK ==
    /\ registry \in [Clients -> Entry \cup {NoSession}]
    /\ nextSession \in Nat
    /\ cancelled \subseteq Conns
    /\ shutdown \in BOOLEAN

\* Types of the database rows, of the connections and of the registry map
\* (clients.rs, token_store.rs, enrollment_store.rs); a connection that passed
\* the interceptor carries the identity it was given.
TypeOK == StoreTypeOK /\ ConnTypeOK /\ MapTypeOK

Serving == {"waiting", "named", "greeted", "pump"}
Live(k) == conn[k].pc \in Serving /\ k \notin cancelled

\* "Only one live session per client at a time" (clients.rs register): a
\* connection past registration whose token has not been fired is the one the
\* map holds, so two reconnects and any number of late tear-downs can neither
\* leave two sessions served nor evict the newest one.
OneLiveSession ==
    \A k \in Conns : Live(k) =>
        /\ registry[conn[k].client] # NoSession
        /\ registry[conn[k].client].conn = k

\* The map never lists a session that has finished: every entry is backed by a
\* connection of that client, with that session number, that still has its
\* unregister ahead of it (every exit path of channel()).
RegistryBacked ==
    \A c \in Clients : registry[c] # NoSession =>
        LET k == registry[c].conn IN
        /\ conn[k].pc \in Serving \cup {"closing"}
        /\ conn[k].client = c
        /\ conn[k].sid = registry[c].sid

\* Capabilities and version in the map come from the Hello of the very session
\* listed there, never from a late Hello of a session it replaced
\* (set_supported_protocols, set_client_version).
HelloIsOwn ==
    \A c \in Clients : registry[c] # NoSession =>
        /\ registry[c].caps = conn[registry[c].conn].hello
        /\ registry[c].version = conn[registry[c].conn].version

\* What the registry promises at every moment, together.
SessionsSound == TypeOK /\ OneLiveSession /\ RegistryBacked /\ HelloIsOwn

\* The strengthening that makes the three invariants above inductive.  Session
\* numbers handed out are below the counter and distinct, and the Hello fields of
\* a connection are still the defaults until the step that reads them.
Numbered(k) == conn[k].pc \in Serving \cup {"numbered", "closing"}

SessionIds ==
    /\ \A k \in Conns : Numbered(k) => conn[k].sid < nextSession
    /\ \A k1, k2 \in Conns :
          Numbered(k1) /\ Numbered(k2) /\ conn[k1].sid = conn[k2].sid => k1 = k2

HelloUnread ==
    \A k \in Conns :
        /\ conn[k].pc \in {"idle", "authed", "numbered", "waiting"} => conn[k].hello = DefaultCaps
        /\ conn[k].pc \in {"idle", "authed", "numbered", "waiting", "named"} => conn[k].version = NoVersion

SessionInv == SessionIds /\ HelloUnread /\ OneLiveSession /\ RegistryBacked /\ HelloIsOwn

\* An enrollment code buys at most one credential (redeem), whatever the order
\* of redemptions, re-enrollments, revocations, deletions and restarts.
CodeSingleUse ==
    \A b1, b2 \in issued : b1.code = b2.code => b1 = b2

\* Its strengthening: a code that bought a credential is spent for good.
SpentCodes == \A b \in issued : codes[b.code].state \in {"consumed", "pruned"}

\* A client never has two codes it could redeem: creating one supersedes the
\* others (create).
OneOpenCode ==
    \A e1, e2 \in Codes :
        /\ codes[e1].state = "open"
        /\ codes[e2].state = "open"
        /\ codes[e1].client = codes[e2].client
        => e1 = e2

\* What the enrollment store promises, together: no code buys two credentials
\* and no client has two codes to redeem (redeem, create).
CodesSound == CodeSingleUse /\ OneOpenCode

\* A token that a later redemption of the same client replaced never opens a
\* session again, also after the client was deleted and re-created (verify).
RotatedTokenRefused ==
    [][\A k \in Conns : conn[k].pc = "idle" /\ conn'[k].pc = "authed" =>
          \A b \in issued : b.client = conn'[k].client => b.token <= conn'[k].token]_vars

InHandshake(c) ==
    \E k \in Conns : conn[k].client = c /\ conn[k].pc \in {"authed", "numbered"}

\* The client has been quiet since it was registered.
Silent(k) == conn[k].pc = "waiting"

\* A revocation whose disconnect is still to come, at a moment when no call of
\* that client sits between authentication and registration, ends every
\* session of the client, except one whose client has said nothing yet, unless
\* the client is enrolled again or deleted (revoke_by_id, disconnect, the pump's
\* cancel arm).
RevokeCuts ==
    \A c \in Clients :
        (tokens[c].revoked /\ cuts[c] > 0 /\ ~InHandshake(c))
            ~> (registry[c] = NoSession \/ ~tokens[c].revoked \/ Silent(registry[c].conn))

\* A session whose token was fired, by a newer session, a revocation or the
\* server's shutdown, reaches the end of its tear-down, or waits for the first
\* message of its client; once that is there nothing keeps it.
CancelledSessionsEnd ==
    \A k \in Conns :
        (conn[k].pc # "idle" /\ ~Silent(k) /\ Cancelled(k)) ~> (conn[k].pc = "gone" \/ Silent(k))

\* A cut takes effect on every client that speaks: a revocation ends its
\* sessions, and a session whose token was fired ends (RevokeCuts,
\* CancelledSessionsEnd).
CutsTakeEffect == RevokeCuts /\ CancelledSessionsEnd

\* A client whose token is revoked is not among the connected ones, apart from
\* the moment between the revocation's write and its disconnect
\* (specs/001-tcp-forward-mvp/spec.md:77, "client never appears in connected list").
RevokedNotConnected ==
    \A c \in Clients :
        (registry[c] # NoSession /\ Live(registry[c].conn) /\ tokens[c].revoked)
            => cuts[c] > 0
=============================================================================
