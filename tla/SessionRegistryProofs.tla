------------------------ MODULE SessionRegistryProofs ------------------------
(***************************************************************************)
(* Proofs about SessionRegistry, for any sets of clients, connections and *)
(* codes: the types, and the invariant behind "only one live session per *)
(* client at a time". *)
(***************************************************************************)
EXTENDS SessionRegistry, FiniteSetTheorems, TLAPS

sessionVars == <<conn, registry, nextSession, cancelled>>

USE NoSessionAssumption, NoClientAssumption, BoundsAssumption

\* Wire values of a Hello become protocols the map may hold
\* (capabilities_from_hello).
LEMMA CapsType == \A wire : CapabilitiesFromHello(wire) \in SUBSET Protocol
  BY DEF CapabilitiesFromHello

LEMMA DefaultCapsType == DefaultCaps \in SUBSET Protocol
  BY DEF DefaultCaps, Protocol

\* A registry entry can be told from the absence of one.
LEMMA EntryFacts ==
  ASSUME NEW k \in Conns, NEW n \in Nat, NEW h \in SUBSET Protocol, NEW v \in Version
  PROVE  /\ [conn |-> k, sid |-> n, caps |-> h, version |-> v] \in Entry
         /\ [conn |-> k, sid |-> n, caps |-> h, version |-> v] # NoSession
  BY DEF Entry

\* The record of a connection, after any of the updates the code makes to it.
LEMMA ConnFacts ==
  ASSUME NEW r \in ConnRecord, NEW p \in PCs, NEW c \in Clients, NEW t \in 0 .. MaxTokens,
         NEW n \in Nat, NEW h \in SUBSET Protocol, NEW v \in Version
  PROVE  /\ [r EXCEPT !.pc = p] \in ConnRecord
         /\ [r EXCEPT !.pc = p, !.client = c, !.token = t] \in ConnRecord
         /\ [r EXCEPT !.pc = p, !.sid = n] \in ConnRecord
         /\ [r EXCEPT !.pc = p, !.hello = h] \in ConnRecord
         /\ [r EXCEPT !.pc = p, !.version = v] \in ConnRecord
  BY DEF ConnRecord

LEMMA FreshFacts == FreshConn \in ConnRecord /\ GoneConn \in ConnRecord
<1>1. NoVersion \in Version
 BY DEF Version
<1> QED BY <1>1, DefaultCapsType DEF FreshConn, GoneConn, ConnRecord, PCs

\* A step that replaces one connection's record by a well-formed one.
LEMMA ConnStep ==
  ASSUME ConnTypeOK, NEW k \in Conns, NEW r \in ConnRecord,
         r.pc \notin {"idle", "gone"} => r.client \in Clients,
         conn' = [conn EXCEPT ![k] = r]
  PROVE  ConnTypeOK'
  BY DEF ConnTypeOK

\* A step of one connection that only moves its program counter.
LEMMA PcStep ==
  ASSUME ConnTypeOK, NEW k \in Conns, NEW p \in PCs, conn[k].pc \notin {"idle", "gone"},
         conn' = [conn EXCEPT ![k].pc = p]
  PROVE  ConnTypeOK'
<1>1. conn[k] \in ConnRecord /\ conn[k].client \in Clients
 BY DEF ConnTypeOK
<1>2. [conn[k] EXCEPT !.pc = p] \in ConnRecord
 BY <1>1 DEF ConnRecord
<1>3. [conn[k] EXCEPT !.pc = p].client \in Clients
 BY <1>1 DEF ConnRecord
<1>4. conn' = [conn EXCEPT ![k] = [conn[k] EXCEPT !.pc = p]]
 BY DEF ConnTypeOK
<1> QED BY <1>2, <1>3, <1>4, ConnStep

\* Steps that leave the database, the connections or the map alone.
LEMMA StoreSame == StoreTypeOK /\ UNCHANGED <<store, cuts>> => StoreTypeOK'
  BY DEF StoreTypeOK, store

LEMMA ConnSame == ConnTypeOK /\ UNCHANGED conn => ConnTypeOK'
  BY DEF ConnTypeOK

LEMMA MapSame ==
  MapTypeOK /\ UNCHANGED <<registry, nextSession, cancelled, shutdown>> => MapTypeOK'
  BY DEF MapTypeOK

\* Every operation of the registry, of the token store and of a Channel call
\* keeps the types (clients.rs, token_store.rs, enrollment_store.rs).
LEMMA TypeStep == TypeOK /\ [Next]_vars => TypeOK'
<1> SUFFICES ASSUME TypeOK, [Next]_vars PROVE TypeOK'
 OBVIOUS
<1>0. StoreTypeOK /\ ConnTypeOK /\ MapTypeOK
 BY DEF TypeOK
<1> SUFFICES StoreTypeOK' /\ ConnTypeOK' /\ MapTypeOK'
 BY DEF TypeOK
<1> USE <1>0
<1>1. ASSUME NEW e \in Codes, NEW c \in Clients, EnrollNew(e, c) \/ EnrollExisting(e, c)
      PROVE StoreTypeOK' /\ ConnTypeOK' /\ MapTypeOK'
 <2>1. PICK old : CreateCode(e, c, old) /\ UNCHANGED <<tokens, issued, cuts, conn, registry, nextSession, cancelled, shutdown>>
  BY <1>1 DEF EnrollNew, EnrollExisting
 <2>2. StoreTypeOK'
  BY <2>1 DEF StoreTypeOK, CreateCode
 <2> QED BY <2>1, <2>2, ConnSame, MapSame
<1>2. ASSUME NEW e \in Codes, NEW c \in Clients, NEW t \in Token, Redeem(e, c, t)
      PROVE StoreTypeOK' /\ ConnTypeOK' /\ MapTypeOK'
 <2> USE <1>2 DEF Redeem, StoreTypeOK
 <2>1. tokens' \in [Clients -> [tok : 0 .. MaxTokens, revoked : BOOLEAN]]
  BY DEF Token
 <2>2. issued' \subseteq Bundle
  BY DEF Bundle
 <2>3. cuts' \in [Clients -> 0 .. MaxCuts]
  OBVIOUS
 <2>4. StoreTypeOK'
  BY <2>1, <2>2, <2>3
 <2> QED BY <2>4, ConnSame, MapSame
<1>3. ASSUME NEW e \in Codes, Expire(e) PROVE StoreTypeOK' /\ ConnTypeOK' /\ MapTypeOK'
 <2>1. StoreTypeOK'
  BY <1>3 DEF Expire, StoreTypeOK
 <2> QED BY <1>3, <2>1, ConnSame, MapSame DEF Expire
<1>4. ASSUME NEW c \in Clients, Revoke(c) PROVE StoreTypeOK' /\ ConnTypeOK' /\ MapTypeOK'
 <2> USE <1>4 DEF Revoke, StoreTypeOK
 <2>1. tokens' \in [Clients -> [tok : 0 .. MaxTokens, revoked : BOOLEAN]]
  OBVIOUS
 <2>2. cuts' \in [Clients -> 0 .. MaxCuts]
  OBVIOUS
 <2>3. StoreTypeOK'
  BY <2>1, <2>2
 <2> QED BY <2>3, ConnSame, MapSame
<1>5. ASSUME NEW c \in Clients, DeleteClient(c) PROVE StoreTypeOK' /\ ConnTypeOK' /\ MapTypeOK'
 <2>1. StoreTypeOK'
  BY <1>5 DEF DeleteClient, StoreTypeOK
 <2> QED BY <1>5, <2>1, ConnSame, MapSame DEF DeleteClient
<1>6. ASSUME NEW c \in Clients, Disconnect(c) PROVE StoreTypeOK' /\ ConnTypeOK' /\ MapTypeOK'
 <2> USE <1>6 DEF Disconnect
 <2>1. StoreTypeOK'
  BY DEF StoreTypeOK, store
 <2>2. MapTypeOK'
  BY DEF MapTypeOK, Entry
 <2> QED BY <2>1, <2>2, ConnSame
<1>7. ASSUME NEW k \in Conns, NEW b \in issued, Authenticate(k, b)
      PROVE StoreTypeOK' /\ ConnTypeOK' /\ MapTypeOK'
 <2>1. conn[k] \in ConnRecord /\ b.client \in Clients /\ b.token \in 0 .. MaxTokens
  BY DEF ConnTypeOK, StoreTypeOK, Bundle, Token
 <2>2. [conn[k] EXCEPT !.pc = "authed", !.client = b.client, !.token = b.token] \in ConnRecord
  BY <2>1 DEF ConnRecord, PCs
 <2>3. [conn[k] EXCEPT !.pc = "authed", !.client = b.client, !.token = b.token].client \in Clients
  BY <2>1 DEF ConnRecord
 <2>4. ConnTypeOK'
  BY <1>7, <2>2, <2>3, ConnStep DEF Authenticate
 <2> QED BY <1>7, <2>4, StoreSame, MapSame DEF Authenticate
<1>8. ASSUME NEW k \in Conns, TakeSessionId(k) PROVE StoreTypeOK' /\ ConnTypeOK' /\ MapTypeOK'
 <2>1. conn[k] \in ConnRecord /\ conn[k].client \in Clients /\ nextSession \in Nat
  BY <1>8 DEF ConnTypeOK, MapTypeOK, TakeSessionId
 <2>2. [conn[k] EXCEPT !.pc = "numbered", !.sid = nextSession] \in ConnRecord
  BY <2>1 DEF ConnRecord, PCs
 <2>3. [conn[k] EXCEPT !.pc = "numbered", !.sid = nextSession].client \in Clients
  BY <2>1 DEF ConnRecord
 <2> USE <1>8 DEF TakeSessionId
 <2>4. ConnTypeOK'
  BY <2>2, <2>3, ConnStep
 <2>5. MapTypeOK'
  BY DEF MapTypeOK
 <2> QED BY <2>4, <2>5, StoreSame
<1>9. ASSUME NEW k \in Conns, Register(k) PROVE StoreTypeOK' /\ ConnTypeOK' /\ MapTypeOK'
 <2> USE <1>9 DEF Register
 <2>1. conn[k] \in ConnRecord /\ conn[k].client \in Clients /\ conn[k].sid \in Nat
  BY DEF ConnTypeOK, ConnRecord
 <2>2. [conn |-> k, sid |-> conn[k].sid, caps |-> DefaultCaps, version |-> NoVersion] \in Entry
  BY <2>1, DefaultCapsType, EntryFacts DEF Version
 <2>3. registry' \in [Clients -> Entry \cup {NoSession}]
  BY <2>2 DEF MapTypeOK
 <2>4. cancelled' \subseteq Conns
  BY <2>1 DEF MapTypeOK, Entry
 <2>5. MapTypeOK'
  BY <2>3, <2>4 DEF MapTypeOK
 <2>6. ConnTypeOK'
  BY PcStep DEF PCs
 <2> QED BY <2>5, <2>6, StoreSame
<1>10. ASSUME NEW k \in Conns, NEW w \in Hellos, HelloCaps(k, w)
      PROVE StoreTypeOK' /\ ConnTypeOK' /\ MapTypeOK'
 <2> DEFINE h == CapabilitiesFromHello(w)
            r == [conn[k] EXCEPT !.pc = "named", !.hello = h]
 <2>1. conn[k] \in ConnRecord /\ conn[k].client \in Clients /\ h \in SUBSET Protocol
  BY <1>10, CapsType DEF ConnTypeOK, HelloCaps
 <2> HIDE DEF h
 <2>2. r \in ConnRecord
  BY <2>1 DEF ConnRecord, PCs
 <2>3. r.client \in Clients
  BY <2>1 DEF ConnRecord
 <2>4. conn' = [conn EXCEPT ![k] = r]
  BY <1>10 DEF HelloCaps, h
 <2> HIDE DEF r
 <2>5. ConnTypeOK'
  BY <2>2, <2>3, <2>4, ConnStep
 <2>6. registry' \in [Clients -> Entry \cup {NoSession}]
  <3>1. CASE Current(k)
   <4>1. registry[conn[k].client] \in Entry
    BY <2>1, <3>1 DEF Current, MapTypeOK
   <4>2. [registry[conn[k].client] EXCEPT !.caps = h] \in Entry
    BY <2>1, <4>1 DEF Entry
   <4>3. registry' = [registry EXCEPT ![conn[k].client] = [registry[conn[k].client] EXCEPT !.caps = h]]
    BY <1>10, <3>1 DEF HelloCaps, h, MapTypeOK
   <4> QED BY <4>2, <4>3 DEF MapTypeOK
  <3>2. CASE ~Current(k)
   BY <1>10, <3>2 DEF HelloCaps, MapTypeOK
  <3> QED BY <3>1, <3>2
 <2>7. MapTypeOK'
  BY <1>10, <2>6 DEF HelloCaps, MapTypeOK
 <2> QED BY <1>10, <2>5, <2>7, StoreSame DEF HelloCaps
<1>11. ASSUME NEW k \in Conns, NEW v \in Version, HelloVersion(k, v)
      PROVE StoreTypeOK' /\ ConnTypeOK' /\ MapTypeOK'
 <2> DEFINE r == [conn[k] EXCEPT !.pc = "greeted", !.version = v]
 <2>1. conn[k] \in ConnRecord /\ conn[k].client \in Clients
  BY <1>11 DEF ConnTypeOK, HelloVersion
 <2>2. r \in ConnRecord
  BY <2>1 DEF ConnRecord, PCs
 <2>3. r.client \in Clients
  BY <2>1 DEF ConnRecord
 <2>4. conn' = [conn EXCEPT ![k] = r]
  BY <1>11 DEF HelloVersion
 <2> HIDE DEF r
 <2>5. ConnTypeOK'
  BY <2>2, <2>3, <2>4, ConnStep
 <2>6. registry' \in [Clients -> Entry \cup {NoSession}]
  <3>1. CASE v # NoVersion /\ Current(k)
   <4>1. registry[conn[k].client] \in Entry
    BY <2>1, <3>1 DEF Current, MapTypeOK
   <4>2. [registry[conn[k].client] EXCEPT !.version = v] \in Entry
    BY <2>1, <4>1 DEF Entry
   <4>3. registry' = [registry EXCEPT ![conn[k].client] = [registry[conn[k].client] EXCEPT !.version = v]]
    BY <1>11, <3>1 DEF HelloVersion, MapTypeOK
   <4> QED BY <4>2, <4>3 DEF MapTypeOK
  <3>2. CASE ~(v # NoVersion /\ Current(k))
   BY <1>11, <3>2 DEF HelloVersion, MapTypeOK
  <3> QED BY <3>1, <3>2
 <2>7. MapTypeOK'
  BY <1>11, <2>6 DEF HelloVersion, MapTypeOK
 <2> QED BY <1>11, <2>5, <2>7, StoreSame DEF HelloVersion
<1>12. ASSUME NEW k \in Conns,
              FirstMessageOther(k) \/ FirstMessageLost(k) \/ SendWelcome(k)
                  \/ PumpCancelled(k) \/ PumpStreamEnds(k)
      PROVE StoreTypeOK' /\ ConnTypeOK' /\ MapTypeOK'
 <2>1. PICK p \in PCs : conn' = [conn EXCEPT ![k].pc = p]
  BY <1>12 DEF FirstMessageOther, FirstMessageLost, SendWelcome, PumpCancelled, PumpStreamEnds, PCs
 <2>2. conn[k].pc \notin {"idle", "gone"} /\ UNCHANGED <<store, cuts, registry, nextSession, cancelled, shutdown>>
  BY <1>12 DEF FirstMessageOther, FirstMessageLost, SendWelcome, PumpCancelled, PumpStreamEnds
 <2>3. ConnTypeOK'
  BY <2>1, <2>2, PcStep
 <2> QED BY <2>2, <2>3, StoreSame, MapSame
<1>13. ASSUME NEW k \in Conns, Unregister(k) PROVE StoreTypeOK' /\ ConnTypeOK' /\ MapTypeOK'
 <2>1. GoneConn \in ConnRecord /\ GoneConn.pc = "gone"
  BY FreshFacts DEF GoneConn, FreshConn
 <2> USE <1>13 DEF Unregister
 <2>2. ConnTypeOK'
  BY <2>1, ConnStep
 <2>3. MapTypeOK'
  BY DEF MapTypeOK
 <2> QED BY <2>2, <2>3, StoreSame
<1>14. CASE Shutdown
 <2>1. MapTypeOK'
  BY <1>14 DEF Shutdown, MapTypeOK
 <2> QED BY <1>14, <2>1, StoreSame, ConnSame DEF Shutdown
<1>15. CASE Restart
 <2>1. GoneConn \in ConnRecord /\ GoneConn.pc = "gone"
  BY FreshFacts DEF GoneConn, FreshConn
 <2> USE <1>15 DEF Restart
 <2>2. ConnTypeOK'
  BY <2>1 DEF ConnTypeOK
 <2>3. MapTypeOK'
  BY DEF MapTypeOK
 <2>4. StoreTypeOK'
  BY DEF StoreTypeOK, store
 <2> QED BY <2>2, <2>3, <2>4
<1>16. CASE UNCHANGED vars
 BY <1>16, StoreSame, ConnSame, MapSame DEF vars, store
<1> QED BY <1>1, <1>2, <1>3, <1>4, <1>5, <1>6, <1>7, <1>8, <1>9, <1>10, <1>11, <1>12, <1>13, <1>14,
  <1>15, <1>16 DEF Next

LEMMA TypeInit == Init => TypeOK
<1> SUFFICES ASSUME Init PROVE TypeOK
 OBVIOUS
<1>1. StoreTypeOK
 BY DEF Init, StoreTypeOK
<1>2. ConnTypeOK
 BY FreshFacts DEF Init, ConnTypeOK, FreshConn
<1>3. MapTypeOK
 BY DEF Init, MapTypeOK
<1> QED BY <1>1, <1>2, <1>3 DEF TypeOK

\* Every reachable state is well typed (clients.rs, token_store.rs,
\* enrollment_store.rs).
THEOREM TypeCorrect == Spec => []TypeOK
  BY TypeInit, TypeStep, PTL DEF Spec

----
(* One live session per client *)

\* Session numbers identify connections: the entry under a connection's client
\* carries its number exactly when it is that connection's entry.
LEMMA CurrentIsOwn ==
  ASSUME TypeOK, SessionInv, NEW k \in Conns, Numbered(k),
         registry[conn[k].client] # NoSession
  PROVE  Current(k) <=> registry[conn[k].client].conn = k
<1>1. conn[k].client \in Clients
 BY DEF TypeOK, ConnTypeOK, Numbered, Serving
<1> DEFINE j == registry[conn[k].client].conn
<1>2. j \in Conns /\ Numbered(j) /\ conn[j].sid = registry[conn[k].client].sid
 BY <1>1 DEF TypeOK, MapTypeOK, Entry, SessionInv, RegistryBacked, Numbered
<1> HIDE DEF j
<1>3. conn[j].sid = conn[k].sid => j = k
 BY <1>2 DEF SessionInv, SessionIds
<1> QED BY <1>2, <1>3 DEF Current, j

\* Steps that touch neither the connections nor the map.
LEMMA SessionSame ==
  SessionInv /\ UNCHANGED sessionVars => SessionInv'
  BY DEF SessionInv, SessionIds, HelloUnread, OneLiveSession, RegistryBacked, HelloIsOwn, Numbered,
   Live, sessionVars

\* A step of one connection that only moves its program counter forward,
\* among the states in which it is or was being served.
LEMMA SessionPcStep ==
  ASSUME TypeOK, SessionInv, NEW k \in Conns, NEW p \in {"greeted", "pump", "closing"},
         conn[k].pc \in Serving, conn' = [conn EXCEPT ![k].pc = p],
         UNCHANGED <<registry, nextSession, cancelled>>
  PROVE  SessionInv'
<1>1. \A x \in Conns : /\ conn'[x].sid = conn[x].sid
                       /\ conn'[x].client = conn[x].client
                       /\ conn'[x].hello = conn[x].hello
                       /\ conn'[x].version = conn[x].version
                       /\ x # k => conn'[x].pc = conn[x].pc
 BY DEF TypeOK, ConnTypeOK, ConnRecord
<1>2. conn'[k].pc = p
 BY DEF TypeOK, ConnTypeOK, ConnRecord
<1> USE <1>1 DEF SessionInv
<1>3. SessionIds'
 BY <1>2 DEF SessionIds, Numbered, Serving
<1>4. HelloUnread'
 BY <1>2 DEF HelloUnread, Serving
<1>5. OneLiveSession'
 BY <1>2 DEF OneLiveSession, Live, Serving
<1>6. RegistryBacked'
 BY <1>2 DEF RegistryBacked, Serving, TypeOK, MapTypeOK, Entry
<1>7. HelloIsOwn'
 BY DEF HelloIsOwn, TypeOK, MapTypeOK, Entry
<1> QED BY <1>3, <1>4, <1>5, <1>6, <1>7

\* The attributes of a hello are written for its own session, or not at all.
LEMMA HelloKeeps ==
  ASSUME TypeOK, SessionInv, NEW k \in Conns, Numbered(k), UNCHANGED <<nextSession, cancelled>>,
         \/ conn[k].pc = "waiting" /\ conn'[k].pc = "named" /\ conn'[k].version = conn[k].version
         \/ conn[k].pc = "named" /\ conn'[k].pc = "greeted",
         \A x \in Conns : /\ conn'[x].sid = conn[x].sid /\ conn'[x].client = conn[x].client
                          /\ x # k => conn'[x] = conn[x],
         \A d \in Clients : registry[d] # NoSession <=> registry'[d] # NoSession,
         \A d \in Clients : registry'[d] # NoSession =>
             /\ registry'[d].conn = registry[d].conn /\ registry'[d].sid = registry[d].sid
             /\ registry[d].conn = k =>
                    registry'[d].caps = conn'[k].hello /\ registry'[d].version = conn'[k].version
             /\ registry[d].conn # k =>
                    registry'[d].caps = registry[d].caps /\ registry'[d].version = registry[d].version
  PROVE  SessionInv'
<1>1. \A d \in Clients : registry[d] # NoSession => registry[d].conn \in Conns
 BY DEF TypeOK, MapTypeOK, Entry
<1>2. SessionIds'
 BY DEF SessionInv, SessionIds, Numbered
<1>3. HelloUnread'
 BY DEF SessionInv, HelloUnread
<1>4. OneLiveSession'
 <2> SUFFICES ASSUME NEW x \in Conns, Live(x)'
              PROVE registry'[conn'[x].client] # NoSession /\ registry'[conn'[x].client].conn = x
  BY DEF OneLiveSession
 <2>1. Live(x) /\ conn'[x].client = conn[x].client
  BY DEF Live, Serving
 <2>2. conn[x].client \in Clients
  BY <2>1 DEF TypeOK, ConnTypeOK, Live, Serving
 <2> QED BY <2>1, <2>2 DEF SessionInv, OneLiveSession
<1>5. RegistryBacked'
 <2>1. \A j \in Conns : conn[j].pc \in Serving \cup {"closing"} => conn'[j].pc \in Serving \cup {"closing"}
  BY DEF Serving
 <2> QED BY <1>1, <2>1 DEF SessionInv, RegistryBacked
<1>6. HelloIsOwn'
 BY <1>1 DEF SessionInv, HelloIsOwn
<1> QED BY <1>2, <1>3, <1>4, <1>5, <1>6 DEF SessionInv

\* The inductive step: every operation keeps session numbers distinct, the map
\* backed, its Hello fields its own and the live session unique (clients.rs,
\* ControlService::channel).
LEMMA SessionStep == TypeOK /\ TypeOK' /\ SessionInv /\ [Next]_vars => SessionInv'
<1> SUFFICES ASSUME TypeOK, TypeOK', SessionInv, [Next]_vars PROVE SessionInv'
 OBVIOUS
<1>1. ASSUME NEW e \in Codes, NEW c \in Clients,
             EnrollNew(e, c) \/ EnrollExisting(e, c) \/ \E t \in Token : Redeem(e, c, t)
      PROVE SessionInv'
 BY <1>1, SessionSame DEF EnrollNew, EnrollExisting, Redeem, sessionVars
<1>2. ASSUME NEW e \in Codes, Expire(e) PROVE SessionInv'
 BY <1>2, SessionSame DEF Expire, sessionVars
<1>3. ASSUME NEW c \in Clients, Revoke(c) \/ DeleteClient(c) PROVE SessionInv'
 BY <1>3, SessionSame DEF Revoke, DeleteClient, sessionVars
<1>4. ASSUME NEW c \in Clients, Disconnect(c) PROVE SessionInv'
 <2>1. cancelled \subseteq cancelled' /\ UNCHANGED <<conn, registry, nextSession>>
  BY <1>4 DEF Disconnect
 <2> QED BY <2>1 DEF SessionInv, SessionIds, HelloUnread, OneLiveSession, RegistryBacked,
   HelloIsOwn, Numbered, Live
<1>5. ASSUME NEW k \in Conns, NEW b \in issued, Authenticate(k, b) PROVE SessionInv'
 <2>1. /\ conn[k].pc = "idle" /\ conn'[k].pc = "authed"
       /\ conn'[k].hello = conn[k].hello /\ conn'[k].version = conn[k].version
       /\ \A x \in Conns \ {k} : conn'[x] = conn[x]
       /\ UNCHANGED <<registry, nextSession, cancelled>>
  BY <1>5 DEF Authenticate, TypeOK, ConnTypeOK, ConnRecord
 <2> USE <2>1 DEF SessionInv
 <2>2. \A c \in Clients : registry[c] # NoSession => registry[c].conn \in Conns \ {k}
  BY DEF RegistryBacked, TypeOK, MapTypeOK, Entry, Serving
 <2>3. SessionIds'
  BY DEF SessionIds, Numbered, Serving
 <2>4. HelloUnread'
  BY DEF HelloUnread
 <2>5. OneLiveSession'
  BY DEF OneLiveSession, Live, Serving
 <2>6. RegistryBacked'
  BY <2>2 DEF RegistryBacked
 <2>7. HelloIsOwn'
  BY <2>2 DEF HelloIsOwn
 <2> QED BY <2>3, <2>4, <2>5, <2>6, <2>7
<1>6. ASSUME NEW k \in Conns, TakeSessionId(k) PROVE SessionInv'
 <2>1. /\ conn[k].pc = "authed" /\ conn'[k].pc = "numbered"
       /\ conn'[k].hello = conn[k].hello /\ conn'[k].version = conn[k].version
       /\ conn'[k].sid = nextSession /\ nextSession' = nextSession + 1
       /\ \A x \in Conns \ {k} : conn'[x] = conn[x]
       /\ UNCHANGED <<registry, cancelled>>
  BY <1>6 DEF TakeSessionId, TypeOK, ConnTypeOK, ConnRecord
 <2> USE <2>1 DEF SessionInv
 <2>2. \A c \in Clients : registry[c] # NoSession => registry[c].conn \in Conns \ {k}
  BY DEF RegistryBacked, TypeOK, MapTypeOK, Entry, Serving
 <2>3. SessionIds'
  <3> USE DEF SessionIds, Numbered
  <3>1. \A x \in Conns : Numbered(x)' => conn'[x].sid < nextSession'
   BY DEF Serving, TypeOK, MapTypeOK, ConnTypeOK, ConnRecord
  <3>2. \A x \in Conns \ {k} : Numbered(x)' => conn'[x].sid # conn'[k].sid
   BY DEF TypeOK, MapTypeOK, ConnTypeOK, ConnRecord
  <3> QED BY <3>1, <3>2
 <2>4. HelloUnread'
  BY DEF HelloUnread
 <2>5. OneLiveSession'
  BY DEF OneLiveSession, Live, Serving
 <2>6. RegistryBacked'
  BY <2>2 DEF RegistryBacked
 <2>7. HelloIsOwn'
  BY <2>2 DEF HelloIsOwn
 <2> QED BY <2>3, <2>4, <2>5, <2>6, <2>7
<1>7. ASSUME NEW k \in Conns, Register(k) PROVE SessionInv'
 <2> DEFINE c == conn[k].client
            entry == [conn |-> k, sid |-> conn[k].sid, caps |-> DefaultCaps, version |-> NoVersion]
 <2>1. /\ conn[k].pc = "numbered" /\ conn'[k].pc = "waiting" /\ c \in Clients
       /\ conn[k].sid \in Nat
  BY <1>7 DEF Register, TypeOK, ConnTypeOK, ConnRecord
 <2>2. \A x \in Conns : /\ conn'[x].sid = conn[x].sid
                        /\ conn'[x].client = conn[x].client
                        /\ conn'[x].hello = conn[x].hello
                        /\ conn'[x].version = conn[x].version
                        /\ x # k => conn'[x].pc = conn[x].pc
  BY <1>7 DEF Register, TypeOK, ConnTypeOK, ConnRecord
 <2>3. entry # NoSession
  BY <2>1, DefaultCapsType, EntryFacts DEF Version
 <2>4. /\ registry'[c] = entry
       /\ \A d \in Clients \ {c} : registry'[d] = registry[d]
       /\ nextSession' = nextSession
  BY <1>7, <2>1 DEF Register, TypeOK, MapTypeOK
 <2>5. /\ cancelled \subseteq cancelled'
       /\ registry[c] # NoSession => registry[c].conn \in cancelled'
  BY <1>7 DEF Register
 <2>6. conn[k].hello = DefaultCaps /\ conn[k].version = NoVersion
  BY <2>1 DEF SessionInv, HelloUnread
 <2>7. entry.conn = k /\ entry.sid = conn[k].sid /\ entry.caps = DefaultCaps /\ entry.version = NoVersion
  OBVIOUS
 <2>8. \A d \in Clients : registry[d] # NoSession => registry[d].conn \in Conns \ {k}
  BY <2>1 DEF SessionInv, RegistryBacked, TypeOK, MapTypeOK, Entry, Serving
 <2> HIDE DEF c, entry
 <2>9. SessionIds'
  BY <2>1, <2>2, <2>4 DEF SessionInv, SessionIds, Numbered, Serving
 <2>10. HelloUnread'
  BY <2>1, <2>2, <2>6 DEF SessionInv, HelloUnread
 <2>11. OneLiveSession'
  <3> SUFFICES ASSUME NEW x \in Conns, Live(x)'
               PROVE registry'[conn'[x].client] # NoSession /\ registry'[conn'[x].client].conn = x
   BY DEF OneLiveSession
  <3>1. CASE x = k
   BY <3>1, <2>2, <2>3, <2>4, <2>7 DEF c
  <3>2. CASE x # k
   <4>1. Live(x) /\ x \notin cancelled'
    BY <3>2, <2>2, <2>5 DEF Live
   <4>2. registry[conn[x].client] # NoSession /\ registry[conn[x].client].conn = x
    BY <4>1 DEF SessionInv, OneLiveSession
   <4>3. conn[x].client \in Clients /\ conn[x].client # c
    BY <4>1, <4>2, <2>5 DEF TypeOK, ConnTypeOK, Live, Serving
   <4> QED BY <4>2, <4>3, <2>2, <2>4
  <3> QED BY <3>1, <3>2
 <2>12. RegistryBacked'
  <3> SUFFICES ASSUME NEW d \in Clients, registry'[d] # NoSession
               PROVE LET j == registry'[d].conn IN
                     /\ conn'[j].pc \in Serving \cup {"closing"}
                     /\ conn'[j].client = d
                     /\ conn'[j].sid = registry'[d].sid
   BY DEF RegistryBacked
  <3>1. CASE d = c
   BY <3>1, <2>1, <2>2, <2>4, <2>7 DEF c, Serving
  <3>2. CASE d # c
   BY <3>2, <2>2, <2>4, <2>8 DEF SessionInv, RegistryBacked
  <3> QED BY <3>1, <3>2
 <2>13. HelloIsOwn'
  <3> SUFFICES ASSUME NEW d \in Clients, registry'[d] # NoSession
               PROVE /\ registry'[d].caps = conn'[registry'[d].conn].hello
                     /\ registry'[d].version = conn'[registry'[d].conn].version
   BY DEF HelloIsOwn
  <3>1. CASE d = c
   BY <3>1, <2>2, <2>4, <2>6, <2>7
  <3>2. CASE d # c
   BY <3>2, <2>2, <2>4, <2>8 DEF SessionInv, HelloIsOwn
  <3> QED BY <3>1, <3>2
 <2> QED BY <2>9, <2>10, <2>11, <2>12, <2>13 DEF SessionInv
<1>8. ASSUME NEW k \in Conns, NEW w \in Hellos, HelloCaps(k, w) PROVE SessionInv'
 <2> DEFINE c == conn[k].client
            h == CapabilitiesFromHello(w)
 <2>1. /\ conn[k].pc = "waiting" /\ conn'[k].pc = "named" /\ c \in Clients
       /\ conn'[k].hello = h /\ conn'[k].version = conn[k].version
       /\ conn'[k].sid = conn[k].sid /\ conn'[k].client = conn[k].client
       /\ \A x \in Conns \ {k} : conn'[x] = conn[x]
       /\ UNCHANGED <<nextSession, cancelled>>
  BY <1>8 DEF HelloCaps, TypeOK, ConnTypeOK, ConnRecord
 <2>2. Numbered(k) /\ (FALSE => h = conn[k].hello)
  BY <2>1 DEF Numbered, Serving, SessionInv, HelloUnread
 <2>3. ASSUME NEW d \in Clients, registry'[d] # NoSession
       PROVE  /\ registry[d] # NoSession
              /\ registry'[d].conn = registry[d].conn
              /\ registry'[d].sid = registry[d].sid
              /\ registry'[d].version = registry[d].version
              /\ registry'[d].caps = IF registry[d].conn = k THEN h ELSE registry[d].caps
  <3>1. CASE registry[d] = NoSession
   BY <1>8, <2>3, <3>1 DEF HelloCaps, Current, TypeOK, MapTypeOK
  <3>2. CASE registry[d] # NoSession /\ registry[d].conn = k
   <4>1. d = c
    BY <3>2 DEF SessionInv, RegistryBacked
   <4>2. Current(k)
    BY <2>2, <3>2, <4>1, CurrentIsOwn
   <4>3. registry[d] \in Entry
    BY <3>2 DEF TypeOK, MapTypeOK
   <4> QED BY <1>8, <2>1, <2>2, <3>2, <4>1, <4>2, <4>3 DEF HelloCaps, TypeOK, MapTypeOK, Entry,
     SessionInv, HelloIsOwn
  <3>3. CASE registry[d] # NoSession /\ registry[d].conn # k
   <4>1. registry' = registry \/ d # c
    BY <1>8, <2>2, <3>3, CurrentIsOwn DEF HelloCaps
   <4>2. registry'[d] = registry[d]
    BY <1>8, <4>1 DEF HelloCaps, TypeOK, MapTypeOK
   <4> QED BY <3>3, <4>2
  <3> QED BY <3>1, <3>2, <3>3
 <2>4. ASSUME NEW d \in Clients, registry[d] # NoSession PROVE registry'[d] # NoSession
  <3>1. registry'[d] \in Entry \cup {NoSession} /\ registry[d] \in Entry
   BY <2>4 DEF TypeOK, MapTypeOK
  <3>2. registry'[d] = registry[d] \/ registry'[d] = [registry[d] EXCEPT !.caps = h]
   BY <1>8, <2>1 DEF HelloCaps, TypeOK, MapTypeOK
  <3>3. h \in SUBSET Protocol
   BY <1>8, CapsType
  <3>4. [registry[d] EXCEPT !.caps = h] \in Entry
   BY <3>1, <3>3 DEF Entry
  <3> QED BY <2>4, <3>2, <3>4
 <2> HIDE DEF c, h
 <2>5. \A d \in Clients : registry[d] # NoSession <=> registry'[d] # NoSession
  BY <2>3, <2>4
 <2>6. \A d \in Clients : registry'[d] # NoSession =>
          /\ registry'[d].conn = registry[d].conn /\ registry'[d].sid = registry[d].sid
          /\ registry[d].conn = k =>
                 registry'[d].caps = conn'[k].hello /\ registry'[d].version = conn'[k].version
          /\ registry[d].conn # k =>
                 registry'[d].caps = registry[d].caps /\ registry'[d].version = registry[d].version
  BY <2>1, <2>3 DEF SessionInv, HelloIsOwn
 <2> QED BY <2>1, <2>2, <2>5, <2>6, HelloKeeps
<1>9. ASSUME NEW k \in Conns, NEW v \in Version, HelloVersion(k, v) PROVE SessionInv'
 <2> DEFINE c == conn[k].client
            h == v
 <2>1. /\ conn[k].pc = "named" /\ conn'[k].pc = "greeted" /\ c \in Clients
       /\ conn'[k].version = h /\ conn'[k].hello = conn[k].hello
       /\ conn'[k].sid = conn[k].sid /\ conn'[k].client = conn[k].client
       /\ \A x \in Conns \ {k} : conn'[x] = conn[x]
       /\ UNCHANGED <<nextSession, cancelled>>
  BY <1>9 DEF HelloVersion, TypeOK, ConnTypeOK, ConnRecord
 <2>2. Numbered(k) /\ (v = NoVersion => h = conn[k].version)
  BY <2>1 DEF Numbered, Serving, SessionInv, HelloUnread
 <2>3. ASSUME NEW d \in Clients, registry'[d] # NoSession
       PROVE  /\ registry[d] # NoSession
              /\ registry'[d].conn = registry[d].conn
              /\ registry'[d].sid = registry[d].sid
              /\ registry'[d].caps = registry[d].caps
              /\ registry'[d].version = IF registry[d].conn = k THEN h ELSE registry[d].version
  <3>1. CASE registry[d] = NoSession
   BY <1>9, <2>3, <3>1 DEF HelloVersion, Current, TypeOK, MapTypeOK
  <3>2. CASE registry[d] # NoSession /\ registry[d].conn = k
   <4>1. d = c
    BY <3>2 DEF SessionInv, RegistryBacked
   <4>2. Current(k)
    BY <2>2, <3>2, <4>1, CurrentIsOwn
   <4>3. registry[d] \in Entry
    BY <3>2 DEF TypeOK, MapTypeOK
   <4> QED BY <1>9, <2>1, <2>2, <3>2, <4>1, <4>2, <4>3 DEF HelloVersion, TypeOK, MapTypeOK, Entry,
     SessionInv, HelloIsOwn
  <3>3. CASE registry[d] # NoSession /\ registry[d].conn # k
   <4>1. registry' = registry \/ d # c
    BY <1>9, <2>2, <3>3, CurrentIsOwn DEF HelloVersion
   <4>2. registry'[d] = registry[d]
    BY <1>9, <4>1 DEF HelloVersion, TypeOK, MapTypeOK
   <4> QED BY <3>3, <4>2
  <3> QED BY <3>1, <3>2, <3>3
 <2>4. ASSUME NEW d \in Clients, registry[d] # NoSession PROVE registry'[d] # NoSession
  <3>1. registry'[d] \in Entry \cup {NoSession} /\ registry[d] \in Entry
   BY <2>4 DEF TypeOK, MapTypeOK
  <3>2. registry'[d] = registry[d] \/ registry'[d] = [registry[d] EXCEPT !.version = h]
   BY <1>9, <2>1 DEF HelloVersion, TypeOK, MapTypeOK
  <3>3. h \in Version
   BY <1>9, CapsType
  <3>4. [registry[d] EXCEPT !.version = h] \in Entry
   BY <3>1, <3>3 DEF Entry
  <3> QED BY <2>4, <3>2, <3>4
 <2> HIDE DEF c, h
 <2>5. \A d \in Clients : registry[d] # NoSession <=> registry'[d] # NoSession
  BY <2>3, <2>4
 <2>6. \A d \in Clients : registry'[d] # NoSession =>
          /\ registry'[d].conn = registry[d].conn /\ registry'[d].sid = registry[d].sid
          /\ registry[d].conn = k =>
                 registry'[d].caps = conn'[k].hello /\ registry'[d].version = conn'[k].version
          /\ registry[d].conn # k =>
                 registry'[d].caps = registry[d].caps /\ registry'[d].version = registry[d].version
  BY <2>1, <2>3 DEF SessionInv, HelloIsOwn
 <2> QED BY <2>1, <2>2, <2>5, <2>6, HelloKeeps
<1>10. ASSUME NEW k \in Conns,
              FirstMessageOther(k) \/ FirstMessageLost(k) \/ SendWelcome(k)
                  \/ PumpCancelled(k) \/ PumpStreamEnds(k)
       PROVE SessionInv'
 <2>1. PICK p \in {"greeted", "pump", "closing"} : conn' = [conn EXCEPT ![k].pc = p]
  BY <1>10 DEF FirstMessageOther, FirstMessageLost, SendWelcome, PumpCancelled, PumpStreamEnds
 <2>2. conn[k].pc \in Serving /\ UNCHANGED <<registry, nextSession, cancelled>>
  BY <1>10 DEF FirstMessageOther, FirstMessageLost, SendWelcome, PumpCancelled, PumpStreamEnds,
   Serving
 <2> QED BY <2>1, <2>2, SessionPcStep
<1>11. ASSUME NEW k \in Conns, Unregister(k) PROVE SessionInv'
 <2> DEFINE c == conn[k].client
 <2>1. /\ conn[k].pc = "closing" /\ conn'[k] = GoneConn /\ c \in Clients
       /\ \A x \in Conns \ {k} : conn'[x] = conn[x]
       /\ UNCHANGED <<nextSession, cancelled>>
  BY <1>11 DEF Unregister, TypeOK, ConnTypeOK, ConnRecord
 <2>2. conn'[k].pc = "gone" /\ Numbered(k)
  BY <2>1 DEF GoneConn, FreshConn, Numbered
 <2>3. ASSUME NEW d \in Clients, registry[d] # NoSession, registry[d].conn = k
       PROVE  registry'[d] = NoSession
  <3>1. d = c
   BY <2>3 DEF SessionInv, RegistryBacked
  <3>2. Current(k)
   BY <2>2, <2>3, <3>1, CurrentIsOwn
  <3> QED BY <1>11, <3>1, <3>2 DEF Unregister, TypeOK, MapTypeOK
 <2>4. ASSUME NEW d \in Clients, registry[d] # NoSession, registry[d].conn # k
       PROVE  registry'[d] = registry[d]
  <3>1. CASE d = c
   BY <1>11, <2>2, <2>4, <3>1, CurrentIsOwn DEF Unregister
  <3>2. CASE d # c
   BY <1>11, <3>2 DEF Unregister, TypeOK, MapTypeOK
  <3> QED BY <3>1, <3>2
 <2>5. ASSUME NEW d \in Clients, registry'[d] # NoSession
       PROVE  registry'[d] = registry[d] /\ registry[d] # NoSession /\ registry[d].conn \in Conns \ {k}
  <3>1. registry[d] # NoSession
   BY <1>11, <2>5 DEF Unregister, TypeOK, MapTypeOK
  <3> QED BY <2>3, <2>4, <2>5, <3>1 DEF TypeOK, MapTypeOK, Entry
 <2> HIDE DEF c
 <2>6. SessionIds'
  BY <2>1, <2>2 DEF SessionInv, SessionIds, Numbered, Serving
 <2>7. HelloUnread'
  BY <2>1, <2>2 DEF SessionInv, HelloUnread
 <2>8. OneLiveSession'
  <3> SUFFICES ASSUME NEW x \in Conns, Live(x)'
               PROVE registry'[conn'[x].client] # NoSession /\ registry'[conn'[x].client].conn = x
   BY DEF OneLiveSession
  <3>1. x # k
   BY <2>2 DEF Live, Serving
  <3>2. Live(x) /\ conn'[x] = conn[x]
   BY <2>1, <3>1 DEF Live
  <3>3. conn[x].client \in Clients
   BY <3>2 DEF TypeOK, ConnTypeOK, Live, Serving
  <3>4. registry[conn[x].client] # NoSession /\ registry[conn[x].client].conn = x
   BY <3>2 DEF SessionInv, OneLiveSession
  <3> QED BY <2>4, <3>1, <3>2, <3>3, <3>4
 <2> USE DEF SessionInv
 <2>9. RegistryBacked'
  BY <2>1, <2>5 DEF RegistryBacked
 <2>10. HelloIsOwn'
  BY <2>1, <2>5 DEF HelloIsOwn
 <2> QED BY <2>6, <2>7, <2>8, <2>9, <2>10
<1>12. CASE Shutdown
 BY <1>12, SessionSame DEF Shutdown, sessionVars
<1>13. CASE Restart
 <2>1. /\ \A x \in Conns : conn'[x].pc \in {"idle", "gone"}
       /\ \A x \in Conns : conn'[x].pc = "idle" => conn'[x] = conn[x]
       /\ \A d \in Clients : registry'[d] = NoSession
  BY <1>13 DEF Restart, GoneConn, FreshConn
 <2>2. SessionIds'
  BY <2>1 DEF SessionIds, Numbered, Serving
 <2>3. HelloUnread'
  BY <2>1 DEF SessionInv, HelloUnread
 <2>4. OneLiveSession'
  BY <2>1 DEF OneLiveSession, Live, Serving
 <2>5. RegistryBacked' /\ HelloIsOwn'
  BY <2>1 DEF RegistryBacked, HelloIsOwn
 <2> QED BY <2>2, <2>3, <2>4, <2>5 DEF SessionInv
<1>14. CASE UNCHANGED vars
 BY <1>14, SessionSame DEF vars, sessionVars
<1> QED BY <1>1, <1>2, <1>3, <1>4, <1>5, <1>6, <1>7, <1>8, <1>9, <1>10, <1>11, <1>12, <1>13,
  <1>14 DEF Next

LEMMA SessionInvariant == Spec => [](TypeOK /\ SessionInv)
<1>1. Init => TypeOK /\ SessionInv
 <2> SUFFICES ASSUME Init PROVE TypeOK /\ SessionInv
  OBVIOUS
 <2>1. TypeOK
  BY TypeInit
 <2>2. SessionInv
  BY DEF Init, SessionInv, SessionIds, HelloUnread, OneLiveSession, RegistryBacked, HelloIsOwn,
   Numbered, Live, Serving, FreshConn
 <2> QED BY <2>1, <2>2
<1>2. TypeOK /\ SessionInv /\ [Next]_vars => (TypeOK /\ SessionInv)'
 BY TypeStep, SessionStep
<1> QED BY <1>1, <1>2, PTL DEF Spec

\* At any time at most one connection of a client is served and not cancelled,
\* and it is the one in the map (ConnectedClients::register, unregister).
THEOREM LiveSessionUnique == Spec => []OneLiveSession
  BY SessionInvariant, PTL DEF SessionInv

\* The map lists only sessions that have not finished (every exit of channel()).
THEOREM MapBacked == Spec => []RegistryBacked
  BY SessionInvariant, PTL DEF SessionInv

\* Capabilities and version in the map belong to the session listed there
\* (set_supported_protocols, set_client_version).
THEOREM HelloOwned == Spec => []HelloIsOwn
  BY SessionInvariant, PTL DEF SessionInv

----
(* Enrollment codes *)

CodeInv == CodeSingleUse /\ SpentCodes /\ OneOpenCode

LEMMA CodeSame == CodeInv /\ UNCHANGED <<codes, issued>> => CodeInv'
  BY DEF CodeInv, CodeSingleUse, SpentCodes, OneOpenCode

\* What create does to each row (ClientEnrollmentStore::create).
LEMMA CreateCodeEffect ==
  ASSUME TypeOK, NEW e \in Codes, NEW c \in Clients, NEW old \in SUBSET Stale,
         codes[e].state = "unused", CreateCode(e, c, old)
  PROVE  /\ codes'[e] = [state |-> "open", client |-> c]
         /\ \A x \in Codes \ {e} :
              \/ codes'[x] = codes[x] /\ ~(codes[x].state = "open" /\ codes[x].client = c)
              \/ codes[x].state = "open" /\ codes'[x].state = "consumed"
              \/ codes[x].state \in {"consumed", "expired"} /\ codes'[x].state = "pruned"
<1>1. e \notin old /\ \A x \in old : codes[x].state \in {"consumed", "expired"}
 BY DEF Stale
<1>2. codes'[e] = [state |-> "open", client |-> c]
 BY <1>1 DEF CreateCode
<1>3. ASSUME NEW x \in Codes \ {e}
      PROVE  \/ codes'[x] = codes[x] /\ ~(codes[x].state = "open" /\ codes[x].client = c)
             \/ codes[x].state = "open" /\ codes'[x].state = "consumed"
             \/ codes[x].state \in {"consumed", "expired"} /\ codes'[x].state = "pruned"
 <2> USE DEF CreateCode
 <2>1. CASE x \in old
  BY <1>1, <2>1
 <2>2. CASE x \notin old /\ codes[x].state = "open" /\ codes[x].client = c
  BY <2>2 DEF TypeOK, StoreTypeOK
 <2>3. CASE x \notin old /\ ~(codes[x].state = "open" /\ codes[x].client = c)
  BY <2>3
 <2> QED BY <2>1, <2>2, <2>3
<1> QED BY <1>2, <1>3

LEMMA CodeStep == TypeOK /\ CodeInv /\ [Next]_vars => CodeInv'
<1> SUFFICES ASSUME TypeOK, CodeInv, [Next]_vars PROVE CodeInv'
 OBVIOUS
<1>0. \A b \in issued : b.code \in Codes
 BY DEF TypeOK, StoreTypeOK, Bundle
<1>1. ASSUME NEW e \in Codes, NEW c \in Clients, EnrollNew(e, c) \/ EnrollExisting(e, c)
      PROVE CodeInv'
 <2>1. PICK old \in SUBSET Stale : CreateCode(e, c, old)
  BY <1>1 DEF EnrollNew, EnrollExisting
 <2>2. codes[e].state = "unused" /\ UNCHANGED issued
  BY <1>1 DEF EnrollNew, EnrollExisting
 <2>3. /\ codes'[e] = [state |-> "open", client |-> c]
       /\ \A x \in Codes \ {e} :
             \/ codes'[x] = codes[x] /\ ~(codes[x].state = "open" /\ codes[x].client = c)
             \/ codes[x].state = "open" /\ codes'[x].state = "consumed"
             \/ codes[x].state \in {"consumed", "expired"} /\ codes'[x].state = "pruned"
  BY <2>1, <2>2, CreateCodeEffect
 <2>4. SpentCodes'
  BY <1>0, <2>2, <2>3 DEF CodeInv, SpentCodes
 <2>5. OneOpenCode'
  BY <2>3 DEF CodeInv, OneOpenCode
 <2> QED BY <2>2, <2>4, <2>5 DEF CodeInv, CodeSingleUse
<1>2. ASSUME NEW e \in Codes, NEW c \in Clients, NEW t \in Token, Redeem(e, c, t) PROVE CodeInv'
 <2>1. /\ codes[e].state = "open" /\ codes'[e].state = "consumed"
       /\ \A x \in Codes \ {e} : codes'[x] = codes[x]
  BY <1>2 DEF Redeem, Redeemable, TypeOK, StoreTypeOK
 <2> USE DEF CodeInv
 <2>2. \A b \in issued : b.code # e
  BY <2>1 DEF SpentCodes
 <2> DEFINE new == [token |-> t, client |-> c, code |-> e]
 <2>3. issued' = issued \cup {new} /\ new.code = e
  BY <1>2 DEF Redeem
 <2>4. CodeSingleUse'
  BY <2>2, <2>3 DEF CodeSingleUse
 <2>5. SpentCodes'
  BY <1>0, <2>1, <2>3 DEF SpentCodes
 <2>6. OneOpenCode'
  BY <2>1 DEF OneOpenCode
 <2> QED BY <2>4, <2>5, <2>6
<1>3. ASSUME NEW e \in Codes, Expire(e) PROVE CodeInv'
 <2>1. /\ codes[e].state = "open" /\ codes'[e].state = "expired" /\ UNCHANGED issued
       /\ \A x \in Codes \ {e} : codes'[x] = codes[x]
  BY <1>3 DEF Expire, TypeOK, StoreTypeOK
 <2> USE <2>1 DEF CodeInv
 <2>2. SpentCodes'
  BY <1>0 DEF SpentCodes
 <2>3. OneOpenCode'
  BY DEF OneOpenCode
 <2> QED BY <2>2, <2>3 DEF CodeSingleUse
<1>4. ASSUME NEW c \in Clients, Revoke(c) \/ DeleteClient(c) \/ Disconnect(c) PROVE CodeInv'
 BY <1>4, CodeSame DEF Revoke, DeleteClient, Disconnect, store
<1>5. ASSUME NEW k \in Conns,
             \/ \E b \in issued : Authenticate(k, b)
             \/ TakeSessionId(k) \/ Register(k)
             \/ \E w \in Hellos : HelloCaps(k, w)
             \/ \E v \in Version : HelloVersion(k, v)
             \/ FirstMessageOther(k) \/ FirstMessageLost(k) \/ SendWelcome(k)
             \/ PumpCancelled(k) \/ PumpStreamEnds(k) \/ Unregister(k)
      PROVE CodeInv'
 <2>1. UNCHANGED store
  BY <1>5 DEF Authenticate, TakeSessionId, Register, HelloCaps, HelloVersion, FirstMessageOther,
   FirstMessageLost, SendWelcome, PumpCancelled, PumpStreamEnds, Unregister
 <2> QED BY <2>1, CodeSame DEF store
<1>6. CASE Shutdown \/ Restart \/ UNCHANGED vars
 BY <1>6, CodeSame DEF Shutdown, Restart, vars, store
<1> QED BY <1>1, <1>2, <1>3, <1>4, <1>5, <1>6 DEF Next

LEMMA CodeInvariant == Spec => []CodeInv
<1>1. Init => CodeInv
 BY DEF Init, CodeInv, CodeSingleUse, SpentCodes, OneOpenCode
<1>2. TypeOK /\ CodeInv /\ [Next]_vars => CodeInv'
 BY CodeStep
<1> QED BY <1>1, <1>2, TypeCorrect, PTL DEF Spec

\* An enrollment code buys at most one credential, for any number of clients,
\* codes and redemptions (ClientEnrollmentStore::redeem).
THEOREM CodesSpentOnce == Spec => []CodeSingleUse
  BY CodeInvariant, PTL DEF CodeInv

\* At most one open code per client (ClientEnrollmentStore::create).
THEOREM OpenCodeUnique == Spec => []OneOpenCode
  BY CodeInvariant, PTL DEF CodeInv

\* The registry's promises together (clients.rs, service.rs channel).
THEOREM SessionsAreSound == Spec => []SessionsSound
  BY TypeCorrect, LiveSessionUnique, MapBacked, HelloOwned, PTL DEF SessionsSound

\* The enrollment store's promises together (redeem, create).
THEOREM CodesAreSound == Spec => []CodesSound
  BY CodesSpentOnce, OpenCodeUnique, PTL DEF CodesSound

----
(* Rotated tokens *)

\* Tokens are numbered in the order of their redemptions, and the row of a client
\* that has one holds the newest token it was ever given (token_store.rs).
MintOrder == IsFiniteSet(issued) /\ \A b \in issued : b.token <= Cardinality(issued)

NewestHeld ==
    \A c \in Clients : Provisioned(c) =>
        \A b \in issued : b.client = c => b.token <= tokens[c].tok

TokenInv == MintOrder /\ NewestHeld

LEMMA TokenSame == TokenInv /\ UNCHANGED <<tokens, issued>> => TokenInv'
  BY DEF TokenInv, MintOrder, NewestHeld, Provisioned

LEMMA TokenStep == TypeOK /\ TokenInv /\ [Next]_vars => TokenInv'
<1> SUFFICES ASSUME TypeOK, TokenInv, [Next]_vars PROVE TokenInv'
 OBVIOUS
<1>0. /\ \A b \in issued : b.token \in Nat
      /\ \A c \in Clients : tokens[c].tok \in Nat
      /\ Cardinality(issued) \in Nat
 <2>1. \A b \in issued : b.token \in Nat
  BY DEF TypeOK, StoreTypeOK, Bundle, Token
 <2>2. \A c \in Clients : tokens[c].tok \in Nat
  BY DEF TypeOK, StoreTypeOK
 <2>3. Cardinality(issued) \in Nat
  BY FS_CardinalityType DEF TokenInv, MintOrder
 <2> QED BY <2>1, <2>2, <2>3
<1>1. ASSUME NEW e \in Codes, NEW c \in Clients, NEW t \in Token, Redeem(e, c, t) PROVE TokenInv'
 <2> DEFINE new == [token |-> t, client |-> c, code |-> e]
 <2>1. issued' = issued \cup {new} /\ new.token = t /\ new.client = c
  BY <1>1 DEF Redeem
 <2>2. t = Cardinality(issued) + 1
  BY <1>1 DEF Redeem, NextToken
 <2>3. \A b \in issued : b.token < t
  BY <1>0, <2>2 DEF TokenInv, MintOrder
 <2>4. new \notin issued
  BY <2>1, <2>2, <2>3, <1>0
 <2>5. IsFiniteSet(issued') /\ Cardinality(issued') = t
  <3>1. IsFiniteSet(issued)
   BY DEF TokenInv, MintOrder
  <3>2. IsFiniteSet(issued \cup {new}) /\ Cardinality(issued \cup {new}) = Cardinality(issued) + 1
   BY <3>1, <2>4, FS_AddElement
  <3> QED BY <3>2, <2>1, <2>2
 <2>6. \A b \in issued' : b.token <= t
  BY <2>1, <2>2, <2>3, <1>0
 <2>7. MintOrder'
  BY <2>5, <2>6 DEF MintOrder
 <2>8. tokens'[c].tok = t /\ \A d \in Clients \ {c} : tokens'[d] = tokens[d]
  BY <1>1 DEF Redeem, TypeOK, StoreTypeOK
 <2>9. NewestHeld'
  <3> SUFFICES ASSUME NEW d \in Clients, Provisioned(d)',
                      NEW b \in issued', b.client = d
               PROVE  b.token <= tokens'[d].tok
   BY DEF NewestHeld
  <3>1. CASE d = c
   BY <3>1, <2>6, <2>8
  <3>2. CASE d # c
   <4>1. b \in issued
    BY <3>2, <2>1
   <4>2. tokens'[d] = tokens[d] /\ Provisioned(d)
    BY <3>2, <2>8 DEF Provisioned
   <4> QED BY <4>1, <4>2 DEF TokenInv, NewestHeld
  <3> QED BY <3>1, <3>2
 <2> QED BY <2>7, <2>9 DEF TokenInv
<1>2. ASSUME NEW c \in Clients, Revoke(c) PROVE TokenInv'
 <2>1. UNCHANGED issued /\ \A d \in Clients : tokens'[d].tok = tokens[d].tok
  BY <1>2 DEF Revoke, TypeOK, StoreTypeOK
 <2> QED BY <2>1 DEF TokenInv, MintOrder, NewestHeld, Provisioned
<1>3. ASSUME NEW c \in Clients, DeleteClient(c) PROVE TokenInv'
 <2>1. /\ UNCHANGED issued
       /\ tokens'[c].tok = 0
       /\ \A d \in Clients \ {c} : tokens'[d] = tokens[d]
  BY <1>3 DEF DeleteClient, TypeOK, StoreTypeOK
 <2> QED BY <2>1 DEF TokenInv, MintOrder, NewestHeld, Provisioned
<1> USE TokenSame
<1>4. ASSUME NEW e \in Codes, NEW c \in Clients, EnrollNew(e, c) \/ EnrollExisting(e, c)
      PROVE TokenInv'
 BY <1>4 DEF EnrollNew, EnrollExisting
<1>5. ASSUME NEW e \in Codes, Expire(e) PROVE TokenInv'
 BY <1>5 DEF Expire
<1>6. ASSUME NEW c \in Clients, Disconnect(c) PROVE TokenInv'
 BY <1>6 DEF Disconnect, store
<1>7. ASSUME NEW k \in Conns,
             \/ \E b \in issued : Authenticate(k, b)
             \/ TakeSessionId(k) \/ Register(k)
             \/ \E w \in Hellos : HelloCaps(k, w)
             \/ \E v \in Version : HelloVersion(k, v)
             \/ FirstMessageOther(k) \/ FirstMessageLost(k) \/ SendWelcome(k)
             \/ PumpCancelled(k) \/ PumpStreamEnds(k) \/ Unregister(k)
      PROVE TokenInv'
 <2>1. UNCHANGED store
  BY <1>7 DEF Authenticate, TakeSessionId, Register, HelloCaps, HelloVersion, FirstMessageOther,
   FirstMessageLost, SendWelcome, PumpCancelled, PumpStreamEnds, Unregister
 <2> QED BY <2>1 DEF store
<1>8. CASE Shutdown \/ Restart \/ UNCHANGED vars
 BY <1>8 DEF Shutdown, Restart, vars, store
<1> QED BY <1>1, <1>2, <1>3, <1>4, <1>5, <1>6, <1>7, <1>8 DEF Next

LEMMA TokenInvariant == Spec => []TokenInv
<1>1. Init => TokenInv
 BY FS_EmptySet DEF Init, TokenInv, MintOrder, NewestHeld
<1>2. TypeOK /\ TokenInv /\ [Next]_vars => TokenInv'
 BY TokenStep
<1> QED BY <1>1, <1>2, TypeCorrect, PTL DEF Spec

NewestOpens ==
    \A k \in Conns : conn[k].pc = "idle" /\ conn'[k].pc = "authed" =>
        \A b \in issued : b.client = conn'[k].client => b.token <= conn'[k].token

\* Only the interceptor takes a call out of "idle", and it accepts what the row
\* holds.
LEMMA OpeningStep == TypeOK /\ TokenInv /\ [Next]_vars => [NewestOpens]_vars
<1> SUFFICES ASSUME TypeOK, TokenInv, Next PROVE NewestOpens
 OBVIOUS
<1> SUFFICES ASSUME NEW k \in Conns, conn[k].pc = "idle", conn'[k].pc = "authed",
                    NEW b \in issued, b.client = conn'[k].client
             PROVE  b.token <= conn'[k].token
 BY DEF NewestOpens
<1>0. conn \in [Conns -> ConnRecord]
 BY DEF TypeOK, ConnTypeOK
<1>1. ASSUME NEW j \in Conns, NEW a \in issued, Authenticate(j, a) PROVE b.token <= conn'[k].token
 <2>1. j = k
  BY <1>0, <1>1 DEF Authenticate
 <2>2. conn'[k].client = a.client /\ conn'[k].token = a.token
  BY <1>0, <1>1, <2>1 DEF Authenticate, ConnRecord
 <2>3. a.client \in Clients /\ a.token \in Token
  BY DEF TypeOK, StoreTypeOK, Bundle
 <2>4. tokens[a.client].tok = a.token /\ Provisioned(a.client)
  BY <1>1, <2>3 DEF Authenticate, Verify, Provisioned, Token
 <2> QED BY <2>2, <2>3, <2>4 DEF TokenInv, NewestHeld
<1>2. ASSUME NEW j \in Conns,
             \/ TakeSessionId(j) \/ Register(j)
             \/ \E w \in Hellos : HelloCaps(j, w)
             \/ \E v \in Version : HelloVersion(j, v)
             \/ FirstMessageOther(j) \/ FirstMessageLost(j) \/ SendWelcome(j)
             \/ PumpCancelled(j) \/ PumpStreamEnds(j) \/ Unregister(j)
      PROVE  FALSE
 <2>1. conn[j].pc # "idle" /\ \A i \in Conns \ {j} : conn'[i] = conn[i]
  BY <1>0, <1>2 DEF TakeSessionId, Register, HelloCaps, HelloVersion, FirstMessageOther,
   FirstMessageLost, SendWelcome, PumpCancelled, PumpStreamEnds, Unregister
 <2> QED BY <2>1
<1>3. ASSUME NEW e \in Codes, NEW c \in Clients,
             EnrollNew(e, c) \/ EnrollExisting(e, c) \/ \E t \in Token : Redeem(e, c, t)
      PROVE  FALSE
 BY <1>3 DEF EnrollNew, EnrollExisting, Redeem
<1>4. ASSUME NEW e \in Codes, Expire(e) PROVE FALSE
 BY <1>4 DEF Expire
<1>5. ASSUME NEW c \in Clients, Revoke(c) \/ DeleteClient(c) \/ Disconnect(c) PROVE FALSE
 BY <1>5 DEF Revoke, DeleteClient, Disconnect
<1>6. CASE Shutdown
 BY <1>6 DEF Shutdown
<1>7. CASE Restart
 <2>1. conn'[k] = conn[k]
  BY <1>7 DEF Restart
 <2> QED BY <2>1
<1> QED BY <1>1, <1>2, <1>3, <1>4, <1>5, <1>6, <1>7 DEF Next

\* A token that a later redemption of the same client replaced never opens a
\* session again, also after the client was deleted and enrolled anew, for any
\* clients, codes and connections (Authenticator::verify, redeem).
THEOREM RotatedRefused == Spec => RotatedTokenRefused
<1>1. TypeOK /\ TokenInv /\ [Next]_vars => [NewestOpens]_vars
 BY OpeningStep
<1>2. Spec => [][NewestOpens]_vars
 BY <1>1, TypeCorrect, TokenInvariant, PTL DEF Spec
<1> QED BY <1>2 DEF RotatedTokenRefused, NewestOpens
=============================================================================
