----------------------------- MODULE Onboarding -----------------------------
(***************************************************************************)
(* How a machine becomes a client and stays one: the operator resolves an  *)
(* endpoint and prints an enrollment URI (advertised/, cli.rs), a machine  *)
(* dials it under the pin of that URI, redeems the code and writes its     *)
(* bundle (enroll.rs, bundle.rs, enrollment.rs), then connects with it     *)
(* until it is told that its token is no good (client main.rs, control.rs, *)
(* interceptor.rs).  Machines crash, replies are lost, the server restarts *)
(* under another advertised host and generates another certificate, and a  *)
(* read of the token store may fail.                                       *)
(*                                                                         *)
(* One client identity, tried from several machines.  A certificate is its *)
(* pin and the host baked into it; an endpoint is a host with or without a *)
(* port; a host reaches this server or another one.                        *)
(***************************************************************************)
EXTENDS Integers, Sequences

CONSTANTS
    Machines,      \* machines portunus-client runs on
    NetHosts,      \* host names
    Loopback,      \* 127.0.0.1: in every certificate
    Reaching,      \* hosts that reach this server from the machines
    NoEndpoint,    \* not set
    NoBundle,      \* no client.bundle.json
    TornBundle,    \* a truncated one
    MaxUris,       \* bound: enrollment codes made
    MaxBoots       \* bound: server restarts

Endpoint == [host : NetHosts \cup {Loopback}, port : BOOLEAN]

\* client.bundle.json: the endpoint, the pin and the token.
ClientBundle == [endpoint : Endpoint, pin : Nat, token : Nat]

ASSUME OnboardingAssumption ==
    /\ MaxUris \in Nat \ {0} /\ MaxBoots \in Nat
    /\ {NoBundle, TornBundle} \cap ClientBundle = {}
    /\ Loopback \notin NetHosts /\ Reaching \subseteq NetHosts \cup {Loopback}
    /\ NoEndpoint \notin Endpoint /\ NoBundle /= TornBundle

VARIABLES
    cert,        \* the certificate served: pin and baked host
    certs,       \* history: pin -> hosts it covers
    seed,        \* --advertised-endpoint of the running server
    override,    \* server_settings.advertised_endpoint
    ticket,      \* client_enrollments: code -> state, persisted endpoint
    uris,        \* enrollment URIs printed
    bearer,      \* client_tokens: the current token and whether it is revoked
    machine,     \* machine -> the portunus-client process on it
    bundle,      \* machine -> client.bundle.json
    boots,       \* restarts so far
    stranded,    \* history: tokens whose bundle a crash or a lost reply swallowed
    misread      \* history: machines told off because the token store could not be read

settingVars == <<cert, certs, seed, override>>
storeVars == <<ticket, uris, bearer>>
onboardVars == <<settingVars, storeVars, machine, bundle, boots, stranded, misread>>

Asleep == [at |-> "off", uri |-> NoEndpoint, boot |-> FALSE, held |-> NoBundle]
Sets(m, next) == machine' = [machine EXCEPT ![m] = next]

-----------------------------------------------------------------------------
(* The advertised endpoint *)

\* push_host_san: the baked host, and loopback always.
Sans(baked) == {Loopback} \cup (IF baked = NoEndpoint THEN {} ELSE {baked})
covers(h) == h \in Sans(cert.baked)

\* validate_authority: exactly host:port.
validate_authority(e) == e.port

\* Slip: an explicit endpoint was checked when it was set.
FinalizeAsSet(e) == IF validate_authority(e) THEN {e} ELSE {}

\* Explicit configuration that is malformed or not covered is an error: no
\* endpoint at all, never a fall-through.
finalize_explicit(e) == IF validate_authority(e) /\ covers(e.host) THEN {e} ELSE {}

\* The Host header, when it is covered; the loopback address otherwise.
Implicit(header) ==
    IF header /= NoEndpoint /\ covers(header) THEN {[host |-> header, port |-> TRUE]}
    ELSE {e \in {[host |-> Loopback, port |-> TRUE]} : covers(e.host)}

\* The endpoint, as a set of at most one.
resolve_advertised_endpoint(header) ==
    IF override /= NoEndpoint THEN finalize_explicit(override)
    ELSE IF seed /= NoEndpoint THEN finalize_explicit(seed)
    ELSE Implicit(header)

\* PUT of the setting; NoEndpoint clears it.
PutAdvertisedEndpoint(e) ==
    /\ override /= e
    /\ e /= NoEndpoint => validate_authority(e) /\ covers(e.host)
    /\ override' = e
    /\ UNCHANGED <<cert, certs, seed, storeVars, machine, bundle, boots, stranded, misread>>

\* The server restarts under another --advertised-endpoint.  A host that is
\* not the one baked into its certificate buys a new one; every connection
\* is gone.
Reboot(e) ==
    /\ boots < MaxBoots
    /\ boots' = boots + 1
    /\ seed' = e
    /\ LET fresh == e /= NoEndpoint /\ e.host /= cert.baked
       IN  /\ cert' = IF fresh THEN [pin |-> cert.pin + 1, baked |-> e.host] ELSE cert
           /\ certs' = IF fresh THEN Append(certs, Sans(e.host)) ELSE certs
    /\ machine' = [m \in Machines |->
          CASE machine[m].at = "dialed" -> Asleep
            [] machine[m].at = "connected" -> [machine[m] EXCEPT !.at = "trying"]
            [] OTHER -> machine[m]]
    /\ UNCHANGED <<override, storeVars, bundle, stranded, misread>>

-----------------------------------------------------------------------------
(* The operator *)

\* create_enrollment_command: the endpoint is resolved, stored with the code
\* and printed with the pin; older codes of the client are superseded.
EnrollClient(header, c) ==
    /\ ticket[c].state = "unused"
    /\ \E e \in resolve_advertised_endpoint(header) :
          /\ ticket' = [x \in DOMAIN ticket |->
                IF x = c THEN [state |-> "open", endpoint |-> e]
                ELSE IF ticket[x].state = "open" THEN [ticket[x] EXCEPT !.state = "spent"]
                ELSE ticket[x]]
          /\ uris' = uris \cup {[endpoint |-> e, pin |-> cert.pin, code |-> c]}
    /\ UNCHANGED <<settingVars, bearer, machine, bundle, boots, stranded, misread>>

CodeExpires(c) ==
    /\ ticket[c].state = "open"
    /\ ticket' = [ticket EXCEPT ![c].state = "expired"]
    /\ UNCHANGED <<settingVars, uris, bearer, machine, bundle, boots, stranded, misread>>

\* revoke: the token dies and the session is cut.
RevokeClient ==
    /\ bearer.n /= 0 /\ ~bearer.revoked
    /\ bearer' = [bearer EXCEPT !.revoked = TRUE]
    /\ machine' = [m \in Machines |-> IF machine[m].at = "connected"
                                      THEN [machine[m] EXCEPT !.at = "trying"] ELSE machine[m]]
    /\ UNCHANGED <<settingVars, ticket, uris, bundle, boots, stranded, misread>>

-----------------------------------------------------------------------------
(* portunus-client enroll, and the self-bootstrap of a first start *)

\* PinnedCertVerifier: whoever answers must present the pinned certificate.
Handshake(e, pin) == e.host \in Reaching /\ pin = cert.pin

\* The handshake fails before the code is sent.
Enroll(m, uri, boot) ==
    /\ machine[m] = Asleep
    /\ boot => bundle[m] = NoBundle
    /\ Handshake(uri.endpoint, uri.pin)
    /\ Sets(m, [Asleep EXCEPT !.at = "dialed", !.uri = uri, !.boot = boot])
    /\ UNCHANGED <<settingVars, storeVars, bundle, boots, stranded, misread>>

\* The endpoint a code was made for; a row from before endpoints were stored
\* is resolved now, and stays open when that fails.
ReplayEndpoint(c) ==
    IF ticket[c].endpoint /= NoEndpoint THEN {ticket[c].endpoint}
    ELSE resolve_advertised_endpoint(NoEndpoint)

\* redeem, in one transaction, then disconnect of the session it replaces.
RedeemCode(m) ==
    /\ machine[m].at = "dialed"
    /\ LET c == machine[m].uri.code
           e == IF ticket[c].state = "open" THEN ReplayEndpoint(c) ELSE {}
       IN  IF e = {}
           THEN Sets(m, Asleep) /\ UNCHANGED <<ticket, bearer>>
           ELSE /\ ticket' = [ticket EXCEPT ![c].state = "spent"]
                /\ bearer' = [n |-> bearer.n + 1, revoked |-> FALSE]
                /\ machine' = [x \in Machines |->
                      IF x = m
                      THEN [machine[m] EXCEPT !.at = "issued",
                              !.held = [endpoint |-> CHOOSE f \in e : TRUE, pin |-> cert.pin,
                                        token |-> bearer.n + 1]]
                      ELSE IF machine[x].at = "connected"
                      THEN [machine[x] EXCEPT !.at = "trying"] ELSE machine[x]]
    /\ UNCHANGED <<settingVars, uris, bundle, boots, stranded, misread>>

\* write_secret truncates the file ...
OpenBundle(m) ==
    /\ machine[m].at = "issued"
    /\ bundle' = [bundle EXCEPT ![m] = TornBundle]
    /\ Sets(m, [machine[m] EXCEPT !.at = "writing"])
    /\ UNCHANGED <<settingVars, storeVars, boots, stranded, misread>>

\* ... and fills it; a first start goes on with it.
WriteBundle(m) ==
    /\ machine[m].at = "writing"
    /\ bundle' = [bundle EXCEPT ![m] = machine[m].held]
    /\ Sets(m, IF machine[m].boot THEN [Asleep EXCEPT !.at = "trying", !.held = machine[m].held]
               ELSE Asleep)
    /\ UNCHANGED <<settingVars, storeVars, boots, stranded, misread>>

\* The process dies, is stopped, or the reply to its redemption is lost.
Dies(m) ==
    /\ machine[m] /= Asleep
    /\ stranded' = IF machine[m].at \in {"issued", "writing"}
                   THEN stranded \cup {machine[m].held.token} ELSE stranded
    /\ Sets(m, Asleep)
    /\ misread' = misread \ {m}
    /\ UNCHANGED <<settingVars, storeVars, bundle, boots>>

-----------------------------------------------------------------------------
(* portunus-client *)

\* A bundle that does not parse ends the start.
LoadBundle(m) ==
    /\ machine[m] = Asleep /\ bundle[m] \notin {NoBundle, TornBundle}
    /\ Sets(m, [Asleep EXCEPT !.at = "trying", !.held = bundle[m]])
    /\ UNCHANGED <<settingVars, storeVars, bundle, boots, stranded, misread>>

VerifyBearer(t) == t = bearer.n /\ ~bearer.revoked

\* connect_once: a transport error is retried after the backoff, every
\* Unauthenticated is final.
ConnectOnce(m) ==
    /\ machine[m].at = "trying"
    /\ Handshake(machine[m].held.endpoint, machine[m].held.pin)
    /\ Sets(m, [machine[m] EXCEPT !.at = IF VerifyBearer(machine[m].held.token) THEN "connected"
                                         ELSE "gaveUp"])
    /\ UNCHANGED <<settingVars, storeVars, bundle, boots, stranded, misread>>

\* The token store cannot be read: token_verify_error, Unauthenticated too.
VerifyFails(m) ==
    /\ machine[m].at = "trying"
    /\ Handshake(machine[m].held.endpoint, machine[m].held.pin)
    /\ Sets(m, [machine[m] EXCEPT !.at = "gaveUp"])
    /\ misread' = misread \cup {m}
    /\ UNCHANGED <<settingVars, storeVars, bundle, boots, stranded>>

-----------------------------------------------------------------------------
\* A server on its first certificate, or one that has run before: with a
\* host baked in, and with a code of a version that stored no endpoint.
OnboardInit ==
    /\ \E ranBefore \in BOOLEAN, h \in Reaching :
          /\ cert = [pin |-> 1, baked |-> IF ranBefore THEN h ELSE NoEndpoint]
          /\ ticket = [c \in 1 .. MaxUris |->
                [state |-> IF c = 1 /\ ranBefore THEN "open" ELSE "unused", endpoint |-> NoEndpoint]]
          /\ uris = IF ranBefore
                    THEN {[endpoint |-> [host |-> h, port |-> TRUE], pin |-> 1, code |-> 1]} ELSE {}
    /\ certs = <<Sans(cert.baked)>>
    /\ seed = NoEndpoint /\ override = NoEndpoint
    /\ bearer = [n |-> 0, revoked |-> FALSE]
    /\ machine = [m \in Machines |-> Asleep] /\ bundle = [m \in Machines |-> NoBundle]
    /\ boots = 0 /\ stranded = {} /\ misread = {}

OperatorActs ==
    \/ \E e \in Endpoint \cup {NoEndpoint} : PutAdvertisedEndpoint(e) \/ Reboot(e)
    \/ \E c \in DOMAIN ticket :
          CodeExpires(c) \/ \E h \in NetHosts \cup {Loopback, NoEndpoint} : EnrollClient(h, c)
    \/ RevokeClient

MachineActs(m) ==
    \/ \E u \in uris, boot \in BOOLEAN : Enroll(m, u, boot)
    \/ RedeemCode(m) \/ OpenBundle(m) \/ WriteBundle(m) \/ Dies(m)
    \/ LoadBundle(m) \/ ConnectOnce(m) \/ VerifyFails(m)

OnboardNext == OperatorActs \/ \E m \in Machines : MachineActs(m)

OnboardSpec == OnboardInit /\ [][OnboardNext]_onboardVars

-----------------------------------------------------------------------------
(* Properties *)

\* "Errors that should NOT trigger reconnect (operator must intervene)": a
\* client that gave up holds a token that is dead for good, unless the
\* server could not read its store when it asked.
GivesUpForCause ==
    \A m \in Machines :
        machine[m].at = "gaveUp" /\ m \notin misread => ~VerifyBearer(machine[m].held.token)

\* "Creation never fabricates an unusable endpoint": every bundle and every
\* URI made here names an endpoint the certificate it pins covers, however
\* settings, seed and certificate changed between resolving and redeeming.
EndpointCovered(e, pin) == e.port /\ e.host \in certs[pin]
BundlesUsable ==
    /\ \A m \in Machines : bundle[m] \in {NoBundle, TornBundle} \/
                           EndpointCovered(bundle[m].endpoint, bundle[m].pin)
    /\ \A u \in uris : ticket[u.code].endpoint /= NoEndpoint => EndpointCovered(u.endpoint, u.pin)

\* The current token is where it was sent: in the bundle of a machine, on its
\* way there, or lost with a crash or a reply.
TokenHeld ==
    bearer.n /= 0 =>
        \/ bearer.n \in stranded
        \/ \E m \in Machines :
              \/ bundle[m] \notin {NoBundle, TornBundle} /\ bundle[m].token = bearer.n
              \/ machine[m].at \in {"issued", "writing"} /\ machine[m].held.token = bearer.n

\* What an operator and a machine may rely on.
OnboardingSound == GivesUpForCause /\ BundlesUsable /\ TokenHeld
=============================================================================
