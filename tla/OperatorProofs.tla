--------------------------- MODULE OperatorProofs ---------------------------
(***************************************************************************)
(* Proofs about the operator side of the server, for every value of the *)
(* constants: the audit log's final drain, identities with their grants *)
(* and rules, password login, the data directory with the processes that *)
(* meet in it, rule requests from the request body to the client, and the *)
(* exit codes of the operator's commands. *)
(***************************************************************************)
EXTENDS Access, WebAuth, DataDirectory, AuditLog, RuleRequests, Commands,
        SequenceTheorems, FiniteSetTheorems, TLAPS

----
(* Audit log *)

AuditTypeOK ==
    /\ recorded \in Nat /\ closing \in Nat
    /\ queue \in Seq(Nat) /\ batch \in Seq(Nat)
    /\ writer \in {"wait", "fill", "drain", "returned", "aborted"}
    /\ cancelled \in BOOLEAN

\* An entry of before the shutdown that waits at position i while the final
\* drain runs: what the drain already took and the i entries up to this one
\* all fitted in the channel at once.
OldFits ==
    writer = "drain" =>
        \A i \in 1..Len(queue) : queue[i] <= closing => Len(batch) + i <= QueueCapacity

DrainInv ==
    /\ AuditTypeOK
    /\ closing <= recorded
    /\ Len(queue) <= QueueCapacity
    /\ writer = "wait" => batch = <<>>
    /\ writer \in {"drain", "returned", "aborted"} => cancelled
    /\ OldFits
    /\ DrainTakesAll

\* The final drain's limit holds a full channel.
LEMMA DrainLimitCovers ==
    DrainLimit \in Nat /\ QueueCapacity <= DrainLimit /\ QueueCapacity \in Nat
<1>1. DrainBatches \in Nat /\ BatchMax \in Nat /\ QueueCapacity \in Nat
      /\ QueueCapacity <= DrainBatches * BatchMax
 BY AuditAssumption
<1> QED BY <1>1 DEF DrainLimit

\* Taking the head moves every other entry one place up.
LEMMA TakingHead ==
    ASSUME NEW q \in Seq(Nat), q # <<>>
    PROVE  /\ Head(q) \in Nat /\ Tail(q) \in Seq(Nat) /\ Len(Tail(q)) = Len(q) - 1
           /\ \A i \in 1..Len(Tail(q)) : Tail(q)[i] = q[i + 1]
           /\ Len(q) \in Nat
  BY HeadTailProperties

LEMMA DrainInit ==
    AuditInit => DrainInv
<1> SUFFICES ASSUME AuditInit PROVE DrainInv
 OBVIOUS
<1>1. <<>> \in Seq(Nat) /\ Len(<<>>) = 0
 BY EmptySeq
<1>2. AuditTypeOK /\ closing <= recorded
 <2>1. queue = <<>> /\ batch = <<>> /\ closing = 0 /\ recorded = 0
  BY DEF AuditInit
 <2>2. queue \in Seq(Nat) /\ batch \in Seq(Nat)
  BY <1>1, <2>1, Zenon
 <2>3. closing \in Nat /\ recorded \in Nat /\ closing <= recorded
  BY <2>1
 <2> QED BY <2>2, <2>3 DEF AuditInit, AuditTypeOK
<1>3. Len(queue) <= QueueCapacity
 BY <1>1, DrainLimitCovers DEF AuditInit
<1> QED BY <1>2, <1>3 DEF AuditInit, DrainInv, OldFits, DrainTakesAll

\* A new entry is younger than the shutdown, and never follows the writer's
\* return.
LEMMA DrainPush ==
    ASSUME DrainInv, PushEntry PROVE DrainInv'
<1>1. /\ recorded' = recorded + 1 /\ recorded \in Nat /\ closing \in Nat /\ closing <= recorded
      /\ UNCHANGED <<batch, writer, cancelled, closing>> /\ queue \in Seq(Nat)
 BY DEF DrainInv, AuditTypeOK, PushEntry
<1>2. CASE queue' = queue
 BY <1>1, <1>2 DEF DrainInv, AuditTypeOK, OldFits, DrainTakesAll, SetOf
<1>3. CASE queue' # queue
 <2>1. queue' = Append(queue, recorded + 1) /\ writer # "returned" /\ Len(queue) # QueueCapacity
  BY <1>3 DEF PushEntry
 <2>2. /\ queue' \in Seq(Nat) /\ Len(queue') = Len(queue) + 1
       /\ \A i \in 1..Len(queue) : queue'[i] = queue[i]
       /\ queue'[Len(queue) + 1] = recorded + 1 /\ Len(queue) \in Nat
  BY <1>1, <2>1, AppendProperties
 <2> USE <2>2
 <2>3. Len(queue') <= QueueCapacity
  BY <2>1, DrainLimitCovers DEF DrainInv
 <2>4. OldFits'
  <3> SUFFICES ASSUME writer = "drain", NEW i \in 1..Len(queue'), queue'[i] <= closing
               PROVE  Len(batch) + i <= QueueCapacity
   BY <1>1 DEF OldFits
  <3>1. i # Len(queue) + 1
   BY <1>1
  <3>2. i \in 1..Len(queue)
   BY <3>1
  <3> QED BY <3>2 DEF DrainInv, OldFits
 <2> QED BY <1>1, <2>1, <2>3, <2>4 DEF DrainInv, AuditTypeOK, DrainTakesAll
<1> QED BY <1>2, <1>3

\* A taken entry leaves the channel for the batch.
LEMMA DrainTake ==
    ASSUME DrainInv, TakeFirst \/ TakeMore \/ DrainOne PROVE DrainInv'
<1>1. /\ queue \in Seq(Nat) /\ queue # <<>> /\ queue' = Tail(queue) /\ batch \in Seq(Nat)
      /\ UNCHANGED <<recorded, cancelled, closing>> /\ closing \in Nat
 BY DEF DrainInv, AuditTypeOK, TakeFirst, TakeMore, DrainOne
<1>2. /\ Head(queue) \in Nat /\ queue' \in Seq(Nat) /\ Len(queue') = Len(queue) - 1
      /\ \A i \in 1..Len(queue') : queue'[i] = queue[i + 1]
      /\ Len(queue) \in Nat
 BY <1>1, TakingHead
<1>3. Len(queue') <= QueueCapacity
 BY <1>2, DrainLimitCovers DEF DrainInv
<1>4. CASE TakeFirst \/ TakeMore
 <2>1. writer' = "fill" /\ batch' \in Seq(Nat)
  <3>1. batch' = <<Head(queue)>> \/ batch' = Append(batch, Head(queue))
   BY <1>4 DEF TakeFirst, TakeMore
  <3>2. <<Head(queue)>> \in Seq(Nat) /\ Append(batch, Head(queue)) \in Seq(Nat)
   BY <1>1, <1>2, AppendProperties
  <3> QED BY <1>4, <3>1, <3>2 DEF TakeFirst, TakeMore
 <2> QED BY <1>1, <1>2, <1>3, <2>1 DEF DrainInv, AuditTypeOK, OldFits, DrainTakesAll
<1>5. CASE DrainOne
 <2>1. writer = "drain" /\ writer' = "drain" /\ batch' = Append(batch, Head(queue))
  BY <1>5 DEF DrainOne
 <2>2. batch' \in Seq(Nat) /\ Len(batch') = Len(batch) + 1 /\ Len(batch) \in Nat
  BY <1>1, <1>2, <2>1, AppendProperties
 <2>3. OldFits'
  <3> SUFFICES ASSUME NEW i \in 1..Len(queue'), queue'[i] <= closing
               PROVE  Len(batch') + i <= QueueCapacity
   BY <1>1 DEF OldFits
  <3>1. i + 1 \in 1..Len(queue) /\ queue[i + 1] <= closing
   BY <1>2
  <3>2. Len(batch) + (i + 1) <= QueueCapacity
   BY <2>1, <3>1 DEF DrainInv, OldFits
  <3> QED BY <2>2, <3>2
 <2> QED BY <1>1, <1>2, <1>3, <2>1, <2>2, <2>3 DEF DrainInv, AuditTypeOK, DrainTakesAll
<1> QED BY <1>4, <1>5

\* The drain returns with an empty channel, or with so many entries that no
\* old one can be left.
LEMMA DrainReturns ==
    ASSUME DrainInv, NEW ok \in BOOLEAN, DrainDone(ok) PROVE DrainInv'
<1>1. /\ writer = "drain" /\ writer' = "returned" /\ batch' = <<>>
      /\ UNCHANGED <<recorded, queue, cancelled, closing>>
 BY DEF DrainDone, Flushed
<1>2. queue \in Seq(Nat) /\ batch \in Seq(Nat) /\ Len(batch) \in Nat /\ Len(queue) \in Nat /\ closing \in Nat
 BY DEF DrainInv, AuditTypeOK
<1>3. ASSUME NEW i \in 1..Len(queue) PROVE queue[i] > closing
 <2>1. CASE queue = <<>>
  BY <2>1
 <2>2. CASE Len(batch) >= DrainLimit
  <3>1. ~(Len(batch) + i <= QueueCapacity)
   BY <1>2, <2>2, DrainLimitCovers
  <3>2. ~(queue[i] <= closing)
   BY <1>1, <3>1 DEF DrainInv, OldFits
  <3>3. queue[i] \in Nat
   BY <1>2
  <3> QED BY <1>2, <3>2, <3>3
 <2> QED BY <2>1, <2>2 DEF DrainDone
<1>4. DrainTakesAll'
 BY <1>1, <1>2, <1>3 DEF DrainTakesAll, SetOf
<1>5. batch' \in Seq(Nat)
 BY <1>1, EmptySeq
<1> QED BY <1>1, <1>4, <1>5 DEF DrainInv, AuditTypeOK, OldFits

LEMMA DrainStep ==
    DrainInv /\ [AuditNext]_auditVars => DrainInv'
<1> SUFFICES ASSUME DrainInv, [AuditNext]_auditVars PROVE DrainInv'
 OBVIOUS
<1>1. ASSUME NEW ok \in BOOLEAN, FlushBatch(ok) PROVE DrainInv'
 <2>1. batch' = <<>> /\ writer' = "wait" /\ UNCHANGED <<recorded, queue, cancelled, closing>>
  BY <1>1 DEF FlushBatch, Flushed
 <2>2. batch' \in Seq(Nat)
  BY <2>1, EmptySeq
 <2> QED BY <2>1, <2>2 DEF DrainInv, AuditTypeOK, OldFits, DrainTakesAll
<1> USE DEF DrainInv
<1>2. CASE CancelWriter
 BY <1>2 DEF CancelWriter, AuditTypeOK, OldFits, DrainTakesAll
<1>3. CASE BeginDrain
 <2>1. /\ batch = <<>> /\ batch' = batch /\ writer' = "drain" /\ cancelled
       /\ UNCHANGED <<recorded, queue, cancelled, closing>>
  BY <1>3 DEF BeginDrain
 <2>2. Len(queue) \in Nat /\ Len(batch) = 0 /\ Len(queue) <= QueueCapacity
  BY <2>1 DEF AuditTypeOK
 <2>3. OldFits'
  BY <2>1, <2>2, DrainLimitCovers DEF OldFits
 <2> QED BY <2>1, <2>3 DEF AuditTypeOK, DrainTakesAll
<1> USE DEF AuditTypeOK, OldFits, DrainTakesAll
<1>4. CASE ProcessExits
 BY <1>4 DEF ProcessExits
<1>5. CASE PruneToMaxRows \/ \E e \in 2..MaxRecorded : PruneByAge(e)
 BY <1>5 DEF PruneToMaxRows, PruneByAge, SetOf
<1>6. CASE UNCHANGED auditVars
 BY <1>6 DEF auditVars, SetOf
<1> QED BY <1>1, <1>2, <1>3, <1>4, <1>5, <1>6, DrainPush, DrainTake, DrainReturns DEF AuditNext

\* For any capacities with four batches at least as large as the channel: when
\* the writer returns by itself, the channel holds nothing recorded before the
\* shutdown (drain_remaining).
THEOREM AuditDrain ==
    AuditSpec => []DrainTakesAll
<1>1. AuditInit => DrainInv
 BY DrainInit
<1>2. DrainInv /\ [AuditNext]_auditVars => DrainInv'
 BY DrainStep
<1>3. DrainInv => DrainTakesAll
 BY DEF DrainInv
<1> QED BY <1>1, <1>2, <1>3, PTL DEF AuditSpec

----
(* Identities, grants and rules: the state's shape *)

HeldGrant == [user : Users, scope : Scopes]
OwnedRule == [owner : Users, scope : Scopes, super : BOOLEAN]
OperatorRole == {"none", "user", "superadmin"}

AskRequest == [op : {"admin", "push"}, actor : Users, as : OperatorRole]
UserRequest == [op : {"delete_user", "drop_rules", "drop_stored"}, user : Users]
RevokeRequest == [op : {"remaining"}, user : Users, last : HeldGrant]
ListRequest == [op : {"owned"}, user : Users, held : SUBSET HeldGrant]
CascadeRequest ==
    [op : {"cascade"}, user : Users, row : OwnedIds \cup {AbsentRule}, todo : SUBSET OwnedIds]
InsertRequest == [op : {"insert"}, owner : Users, as : OperatorRole, scope : Scopes]
PersistRequest == [op : {"persist"}, id : OwnedIds, rule : OwnedRule]
SetupRequest == [op : {"onboard"}, token : Nat]
BareRequest == [op : {"idle", "bootstrap"}]
RequestState ==
    AskRequest \cup UserRequest \cup RevokeRequest \cup ListRequest \cup CascadeRequest
      \cup InsertRequest \cup PersistRequest \cup SetupRequest \cup BareRequest

AccessTypeOK ==
    /\ role \in [Users -> OperatorRole]
    /\ grants \in [Grants -> HeldGrant \cup {NoGrant}]
    /\ rules \in [OwnedIds -> OwnedRule \cup {AbsentRule}]
    /\ storedRules \in [OwnedIds -> OwnedRule \cup {AbsentRule}]
    /\ request \in [HttpRequests -> RequestState]
    /\ setup \in Nat /\ issued \in Nat
    /\ founded \in [1..MaxTokens -> Nat]

\* Tokens: the valid one, and those not issued yet, founded nobody.
TokenInv ==
    /\ setup <= issued
    /\ \A t \in 1..MaxTokens :
          /\ founded[t] <= 1
          /\ t = setup \/ t > issued => founded[t] = 0

\* A plain user's rule that no grant of its owner covers.
Uncovered(i, rule) ==
    /\ rule # AbsentRule /\ ~rule.super /\ i \notin raced
    /\ ~EnforcePush("user", rule.scope, GrantsFor(rule.owner))

\* Request r has still to remove rule i, of this owner and scope, in memory.
WillDrop(r, i, rule) ==
    /\ request[r].op \in {"remaining", "owned", "cascade", "drop_rules"}
    /\ request[r].user = rule.owner
    /\ request[r].op = "owned" => ~EnforcePush("user", rule.scope, request[r].held)
    /\ request[r].op = "cascade" => i \in request[r].todo

\* Every uncovered rule in memory is about to be removed.
MemoryInv ==
    \A i \in OwnedIds : Uncovered(i, rules[i]) => \E r \in HttpRequests : WillDrop(r, i, rules[i])

\* Request r removed rule i of this owner in memory and has still to delete
\* its row.
DeletesRow(r, i, rule) ==
    /\ request[r].op \in {"cascade", "drop_stored"}
    /\ request[r].user = rule.owner
    /\ request[r].op = "cascade" => request[r].row = i

\* A row without a rule in memory is about to be deleted.
RowInv ==
    \A i \in OwnedIds : storedRules[i] # AbsentRule /\ rules[i] = AbsentRule /\ i \notin raced =>
        \E r \in HttpRequests : DeletesRow(r, i, storedRules[i])

\* Memory, table and the push in progress speak of the same rule.
AgreeInv ==
    /\ \A i \in OwnedIds : rules[i] # AbsentRule /\ storedRules[i] # AbsentRule => rules[i] = storedRules[i]
    /\ \A r \in HttpRequests : request[r].op = "persist" =>
          /\ rules[request[r].id] \in {AbsentRule, request[r].rule}

\* A cascade works on rules of one owner.
CascadeInv ==
    \A r \in HttpRequests, i \in OwnedIds :
        request[r].op = "cascade" /\ (i \in request[r].todo \/ i = request[r].row) =>
          /\ rules[i] # AbsentRule => rules[i].owner = request[r].user
          /\ storedRules[i] # AbsentRule => storedRules[i].owner = request[r].user
          /\ \A o \in HttpRequests : request[o].op = "persist" /\ request[o].id = i =>
                request[o].rule.owner = request[r].user

RuleInvs == MemoryInv /\ RowInv /\ AgreeInv /\ CascadeInv
AccessInv == AccessTypeOK /\ TokenInv /\ RuleInvs

----
LEMMA RequestShape ==
    ASSUME AccessTypeOK, NEW r \in HttpRequests
    PROVE  /\ request[r] \in RequestState
           /\ request[r].op \in {"admin", "push"} => request[r] \in AskRequest
           /\ request[r].op \in {"delete_user", "drop_rules", "drop_stored"} => request[r] \in UserRequest
           /\ request[r].op = "remaining" => request[r] \in RevokeRequest
           /\ request[r].op = "owned" => request[r] \in ListRequest
           /\ request[r].op = "cascade" => request[r] \in CascadeRequest
           /\ request[r].op = "insert" => request[r] \in InsertRequest
           /\ request[r].op = "persist" => request[r] \in PersistRequest
           /\ request[r].op = "onboard" => request[r] \in SetupRequest
<1>1. request[r] \in RequestState
 BY DEF AccessTypeOK
<1> QED BY <1>1 DEF RequestState, AskRequest, UserRequest, RevokeRequest, ListRequest,
  CascadeRequest, InsertRequest, PersistRequest, SetupRequest, BareRequest

\* A request's next state; the other requests stay where they are.
LEMMA RequestMoves ==
    ASSUME AccessTypeOK, NEW r \in HttpRequests, NEW next \in RequestState, To(r, next)
    PROVE  /\ request' \in [HttpRequests -> RequestState]
           /\ request'[r] = next
           /\ \A o \in HttpRequests : o # r => request'[o] = request[o]
  BY DEF AccessTypeOK, To

LEMMA IdleShape ==
    NoRequest \in RequestState /\ NoRequest.op = "idle"
  BY DEF NoRequest, RequestState, BareRequest

LEMMA GrantsForType ==
    ASSUME AccessTypeOK, NEW u PROVE GrantsFor(u) \in SUBSET HeldGrant
  BY DEF AccessTypeOK, GrantsFor

LEMMA WithoutRulesShape ==
    ASSUME NEW table \in [OwnedIds -> OwnedRule \cup {AbsentRule}], NEW ids
    PROVE  /\ WithoutRules(table, ids) \in [OwnedIds -> OwnedRule \cup {AbsentRule}]
           /\ \A i \in OwnedIds : WithoutRules(table, ids)[i] = IF i \in ids THEN AbsentRule ELSE table[i]
  BY DEF WithoutRules

----
(* Requests that remove nothing *)

LightOps == {"idle", "admin", "push", "delete_user", "insert", "onboard", "bootstrap"}

\* A request that is not in the middle of a cascade or a push moves on without
\* touching a rule, and no rule loses a grant.
LEMMA LightStep ==
    ASSUME AccessInv, NEW r \in HttpRequests, NEW next \in RequestState, To(r, next),
           request[r].op \in LightOps, next.op \in LightOps,
           UNCHANGED <<rules, storedRules, raced>>,
           \A i, rule : Uncovered(i, rule)' => Uncovered(i, rule)
    PROVE  RuleInvs'
<1>1. /\ request'[r] = next
      /\ \A o \in HttpRequests : o # r => request'[o] = request[o]
 BY RequestMoves DEF AccessInv
<1>2. \A o \in HttpRequests : \A i, rule : WillDrop(o, i, rule) => WillDrop(o, i, rule)'
 BY <1>1 DEF WillDrop, LightOps
<1>3. \A o \in HttpRequests : \A i, rule : DeletesRow(o, i, rule) => DeletesRow(o, i, rule)'
 BY <1>1 DEF DeletesRow, LightOps
<1> USE DEF AccessInv, RuleInvs
<1>4. MemoryInv'
 BY <1>2 DEF MemoryInv
<1>5. RowInv'
 BY <1>3 DEF RowInv
<1>6. AgreeInv'
 BY <1>1 DEF AgreeInv, LightOps
<1>7. CascadeInv'
 BY <1>1 DEF CascadeInv, LightOps
<1> QED BY <1>4, <1>5, <1>6, <1>7

\* What is uncovered depends on the grants and on the races alone.
LEMMA UncoveredSame ==
    ASSUME UNCHANGED <<grants, raced>> PROVE \A i, rule : Uncovered(i, rule)' <=> Uncovered(i, rule)
  BY DEF Uncovered, EnforcePush, GrantsFor, Covers

\* More grants leave less uncovered.
LEMMA UncoveredLess ==
    ASSUME NEW g \in Grants, NEW held, grants[g] = NoGrant, AccessTypeOK,
           grants' = [grants EXCEPT ![g] = held], raced' = raced
    PROVE  \A i, rule : Uncovered(i, rule)' => Uncovered(i, rule)
<1>1. \A h \in Grants : grants[h] # NoGrant => grants'[h] = grants[h]
 BY DEF AccessTypeOK
<1>2. \A u : GrantsFor(u) \subseteq GrantsFor(u)'
 BY <1>1 DEF GrantsFor
<1> QED BY <1>2 DEF Uncovered, EnforcePush

----
(* delete_user and delete_grant *)

\* A request that takes grants of one user away, and rows of that user with
\* them, has still to remove that user's rules in memory.
LEMMA CoverGoes ==
    ASSUME AccessInv, NEW r \in HttpRequests, NEW next \in RequestState, To(r, next),
           request[r].op \in LightOps, NEW u \in Users,
           next.op \in {"remaining", "drop_rules"}, next.user = u,
           UNCHANGED <<rules, raced>>,
           \A i \in OwnedIds : storedRules'[i] \in {AbsentRule, storedRules[i]},
           \A v : v # u => GrantsFor(v)' = GrantsFor(v)
    PROVE  RuleInvs'
<1>1. /\ request'[r] = next
      /\ \A o \in HttpRequests : o # r => request'[o] = request[o]
 BY RequestMoves DEF AccessInv
<1>2. \A i, rule : rule.owner # u => (Uncovered(i, rule)' <=> Uncovered(i, rule))
 BY DEF Uncovered, EnforcePush, Covers
<1>3. \A o \in HttpRequests : \A i, rule : WillDrop(o, i, rule) => WillDrop(o, i, rule)'
 BY <1>1 DEF WillDrop, LightOps
<1>4. \A o \in HttpRequests : \A i, rule : DeletesRow(o, i, rule) => DeletesRow(o, i, rule)'
 BY <1>1 DEF DeletesRow, LightOps
<1>5. MemoryInv'
 <2> SUFFICES ASSUME NEW i \in OwnedIds, NEW rule, rule = rules'[i], Uncovered(i, rule)'
              PROVE  \E o \in HttpRequests : WillDrop(o, i, rule)'
  BY DEF MemoryInv
 <2>1. CASE rule.owner = u
  BY <1>1, <2>1 DEF WillDrop
 <2>2. CASE rule.owner # u
  BY <1>2, <1>3, <2>2 DEF AccessInv, RuleInvs, MemoryInv
 <2> QED BY <2>1, <2>2
<1> USE DEF AccessInv, RuleInvs
<1>6. RowInv'
 BY <1>4 DEF RowInv
<1>7. AgreeInv'
 BY <1>1 DEF AgreeInv
<1>8. CascadeInv'
 BY <1>1 DEF CascadeInv
<1> QED BY <1>5, <1>6, <1>7, <1>8

LEMMA UserGoes ==
    ASSUME AccessInv, NEW r \in HttpRequests, RemoveUser(r) PROVE RuleInvs'
<1> DEFINE u == request[r].user
           next == [op |-> "drop_rules", user |-> u]
<1>1. request[r].op = "delete_user" /\ u \in Users /\ rules' = rules /\ raced' = raced
 BY RequestShape DEF RemoveUser, AccessInv, UserRequest
<1>2. CASE role[u] = "none"
 BY <1>1, <1>2, LightStep, IdleShape, UncoveredSame DEF RemoveUser, Done, LightOps
<1>3. CASE role[u] # "none"
 <2>1. next \in RequestState /\ next.op = "drop_rules" /\ next.user = u
  BY <1>1 DEF RequestState, UserRequest
 <2>2. /\ To(r, next)
       /\ storedRules' = WithoutRules(storedRules, OwnedBy(storedRules, u))
       /\ grants' = [g \in Grants |-> IF grants[g] # NoGrant /\ grants[g].user = u
                                      THEN NoGrant ELSE grants[g]]
  BY <1>3 DEF RemoveUser
 <2> HIDE DEF next, u
 <2>3. \A i \in OwnedIds : storedRules'[i] \in {AbsentRule, storedRules[i]}
  BY <2>2, WithoutRulesShape DEF AccessInv, AccessTypeOK
 <2>4. \A v : v # u => GrantsFor(v)' = GrantsFor(v)
  BY <2>2 DEF GrantsFor
 <2> QED BY <1>1, <2>1, <2>2, <2>3, <2>4, CoverGoes DEF LightOps
<1> QED BY <1>2, <1>3

LEMMA GrantGoes ==
    ASSUME AccessInv, NEW r \in HttpRequests, NEW g \in Grants, RevokeGrant(r, g) PROVE RuleInvs'
<1> DEFINE u == grants[g].user
           next == [op |-> "remaining", user |-> u, last |-> grants[g]]
<1>1. request[r].op = "admin" /\ grants[g] \in HeldGrant /\ u \in Users
 BY DEF RevokeGrant, AccessInv, AccessTypeOK, HeldGrant
<1>2. next \in RequestState /\ next.op = "remaining" /\ next.user = u
 BY <1>1 DEF RequestState, RevokeRequest
<1>3. /\ To(r, next) /\ UNCHANGED <<rules, storedRules, raced>>
      /\ grants' = [grants EXCEPT ![g] = NoGrant]
 BY DEF RevokeGrant
<1>4. \A h \in Grants : grants'[h] = IF h = g THEN NoGrant ELSE grants[h]
 BY <1>3 DEF AccessInv, AccessTypeOK
<1>5. \A v : v # u => GrantsFor(v)' = GrantsFor(v)
 BY <1>4 DEF GrantsFor
<1> HIDE DEF next, u
<1>6. \A i \in OwnedIds : storedRules'[i] \in {AbsentRule, storedRules[i]}
 BY <1>3
<1> QED BY <1>1, <1>2, <1>3, <1>5, <1>6, CoverGoes DEF LightOps

\* The rules in memory go; whatever is stored of that user goes next.
LEMMA UserRulesGo ==
    ASSUME AccessInv, NEW r \in HttpRequests, RemoveOwnedBy(r) PROVE RuleInvs'
<1> DEFINE u == request[r].user
           next == [op |-> "drop_stored", user |-> u]
<1>1. request[r].op = "drop_rules" /\ u \in Users
 BY RequestShape DEF RemoveOwnedBy, AccessInv, UserRequest
<1>2. next \in RequestState /\ next.op = "drop_stored" /\ next.user = u
 BY <1>1 DEF RequestState, UserRequest
<1>3. /\ To(r, next) /\ UNCHANGED <<grants, storedRules, raced>>
      /\ rules' = WithoutRules(rules, OwnedBy(rules, u))
 BY DEF RemoveOwnedBy
<1> HIDE DEF next
<1>4. request'[r] = next /\ \A o \in HttpRequests : o # r => request'[o] = request[o]
 BY <1>2, <1>3, RequestMoves DEF AccessInv
<1>5. \A i \in OwnedIds : /\ rules'[i] = IF i \in OwnedBy(rules, u) THEN AbsentRule ELSE rules[i]
                          /\ rules'[i] # AbsentRule => rules'[i] = rules[i] /\ rules[i].owner # u
 BY <1>3, WithoutRulesShape DEF AccessInv, AccessTypeOK, OwnedBy
<1>6. \A i, rule : Uncovered(i, rule)' <=> Uncovered(i, rule)
 BY <1>3, UncoveredSame
<1>7. \A o \in HttpRequests : \A i, rule : rule.owner # u /\ WillDrop(o, i, rule) => WillDrop(o, i, rule)'
 BY <1>1, <1>4 DEF WillDrop
<1>8. MemoryInv'
 <2> SUFFICES ASSUME NEW i \in OwnedIds, NEW rule, rule = rules'[i], Uncovered(i, rule)'
              PROVE  \E o \in HttpRequests : WillDrop(o, i, rule)'
  BY DEF MemoryInv
 <2>1. rule = rules[i] /\ rule.owner # u
  BY <1>5 DEF Uncovered
 <2> QED BY <1>6, <1>7, <2>1 DEF AccessInv, RuleInvs, MemoryInv
<1>9. RowInv'
 <2> SUFFICES ASSUME NEW i \in OwnedIds, NEW rule, rule = storedRules'[i], rule # AbsentRule,
                     rules'[i] = AbsentRule, i \notin raced'
              PROVE  \E o \in HttpRequests : DeletesRow(o, i, rule)'
  BY DEF RowInv
 <2>1. CASE rules[i] = AbsentRule
  <3>1. PICK o \in HttpRequests : DeletesRow(o, i, rule)
   BY <1>3, <2>1 DEF AccessInv, RuleInvs, RowInv
  <3> QED BY <1>1, <1>4, <3>1 DEF DeletesRow
 <2>2. CASE rules[i] # AbsentRule
  <3>1. rules[i] = rule /\ rule.owner = u
   BY <1>3, <1>5, <2>2 DEF AccessInv, RuleInvs, AgreeInv, OwnedBy
  <3> QED BY <1>2, <1>4, <3>1 DEF DeletesRow
 <2> QED BY <2>1, <2>2
<1>10. AgreeInv'
 BY <1>2, <1>3, <1>4, <1>5, RequestShape DEF AccessInv, RuleInvs, AgreeInv, PersistRequest
<1>11. CascadeInv'
 BY <1>2, <1>3, <1>4, <1>5 DEF AccessInv, RuleInvs, CascadeInv
<1> QED BY <1>8, <1>9, <1>10, <1>11 DEF RuleInvs

LEMMA UserStoredGo ==
    ASSUME AccessInv, NEW r \in HttpRequests, DeleteStoredOwnedBy(r) PROVE RuleInvs'
<1> DEFINE u == request[r].user
<1>1. request[r].op = "drop_stored" /\ u \in Users
 BY RequestShape DEF DeleteStoredOwnedBy, AccessInv, UserRequest
<1>2. /\ To(r, NoRequest) /\ UNCHANGED <<grants, rules, raced>>
      /\ storedRules' = WithoutRules(storedRules, OwnedBy(storedRules, u))
 BY DEF DeleteStoredOwnedBy, Done
<1>3. request'[r].op = "idle" /\ \A o \in HttpRequests : o # r => request'[o] = request[o]
 BY <1>2, RequestMoves, IdleShape DEF AccessInv
<1>4. \A i \in OwnedIds : storedRules'[i] # AbsentRule => storedRules'[i] = storedRules[i] /\ storedRules[i].owner # u
 BY <1>2, WithoutRulesShape DEF AccessInv, AccessTypeOK, OwnedBy
<1>5. \A i, rule : Uncovered(i, rule)' <=> Uncovered(i, rule)
 BY <1>2, UncoveredSame
<1>6. \A o \in HttpRequests : \A i, rule : WillDrop(o, i, rule) => WillDrop(o, i, rule)'
 BY <1>1, <1>3 DEF WillDrop
<1>7. MemoryInv'
 BY <1>2, <1>5, <1>6 DEF AccessInv, RuleInvs, MemoryInv
<1>8. RowInv'
 <2> SUFFICES ASSUME NEW i \in OwnedIds, NEW rule, rule = storedRules'[i], rule # AbsentRule,
                     rules'[i] = AbsentRule, i \notin raced'
              PROVE  \E o \in HttpRequests : DeletesRow(o, i, rule)'
  BY DEF RowInv
 <2>1. rule = storedRules[i] /\ rule.owner # u
  BY <1>4
 <2>2. PICK o \in HttpRequests : DeletesRow(o, i, rule)
  BY <1>2, <2>1 DEF AccessInv, RuleInvs, RowInv
 <2>3. o # r
  BY <1>1, <2>1, <2>2 DEF DeletesRow
 <2> QED BY <1>3, <2>2, <2>3 DEF DeletesRow
<1>9. AgreeInv'
 BY <1>2, <1>3, <1>4 DEF AccessInv, RuleInvs, AgreeInv
<1>10. CascadeInv'
 BY <1>2, <1>3, <1>4 DEF AccessInv, RuleInvs, CascadeInv
<1> QED BY <1>7, <1>8, <1>9, <1>10 DEF RuleInvs

\* The grants that remain are read: a rule they leave uncovered is one the
\* request will list.
LEMMA RemainingRead ==
    ASSUME AccessInv, NEW r \in HttpRequests, ReadRemaining(r) PROVE RuleInvs'
<1> DEFINE u == request[r].user
           next == [op |-> "owned", user |-> u, held |-> GrantsFor(u)]
<1>1. request[r].op = "remaining" /\ u \in Users
 BY RequestShape DEF ReadRemaining, AccessInv, RevokeRequest
<1>2. next \in RequestState /\ next.op = "owned" /\ next.user = u /\ next.held = GrantsFor(u)
 BY <1>1, GrantsForType DEF RequestState, ListRequest, AccessInv
<1>3. To(r, next) /\ UNCHANGED <<grants, rules, storedRules, raced>>
 BY DEF ReadRemaining, Remaining, tables
<1> HIDE DEF next
<1>4. request'[r] = next /\ \A o \in HttpRequests : o # r => request'[o] = request[o]
 BY <1>2, <1>3, RequestMoves DEF AccessInv
<1>5. \A i, rule : Uncovered(i, rule)' <=> Uncovered(i, rule)
 BY <1>3, UncoveredSame
<1>6. \A o \in HttpRequests : \A i, rule :
          WillDrop(o, i, rule) /\ Uncovered(i, rule) => WillDrop(o, i, rule)'
 BY <1>1, <1>2, <1>4 DEF WillDrop, Uncovered
<1>7. \A o \in HttpRequests : \A i, rule : DeletesRow(o, i, rule) => DeletesRow(o, i, rule)'
 BY <1>1, <1>4 DEF DeletesRow
<1> USE <1>3 DEF AccessInv, RuleInvs
<1>8. MemoryInv'
 BY <1>5, <1>6 DEF MemoryInv
<1>9. RowInv'
 BY <1>7 DEF RowInv
<1>10. AgreeInv'
 BY <1>2, <1>4 DEF AgreeInv
<1>11. CascadeInv'
 BY <1>2, <1>4 DEF CascadeInv
<1> QED BY <1>8, <1>9, <1>10, <1>11

\* The owner's uncovered rules are listed; all they hold is of that owner.
LEMMA OwnedListed ==
    ASSUME AccessInv, NEW r \in HttpRequests, ListOwnedBy(r) PROVE RuleInvs'
<1> DEFINE u == request[r].user
           todo == {i \in OwnedBy(rules, u) : ~EnforcePush("user", rules[i].scope, request[r].held)}
           next == [op |-> "cascade", user |-> u, row |-> AbsentRule, todo |-> todo]
<1>1. request[r].op = "owned" /\ u \in Users
 BY RequestShape DEF ListOwnedBy, AccessInv, ListRequest
<1>2. /\ next \in RequestState /\ next.op = "cascade" /\ next.user = u /\ next.row = AbsentRule
      /\ next.todo = todo
 BY <1>1 DEF RequestState, CascadeRequest, OwnedBy
<1>3. To(r, next) /\ UNCHANGED <<grants, rules, storedRules, raced>>
 BY DEF ListOwnedBy, tables
<1> HIDE DEF next
<1>4. request'[r] = next /\ \A o \in HttpRequests : o # r => request'[o] = request[o]
 BY <1>2, <1>3, RequestMoves DEF AccessInv
<1>5. \A i, rule : Uncovered(i, rule)' <=> Uncovered(i, rule)
 BY <1>3, UncoveredSame
<1>6. \A o \in HttpRequests, i \in OwnedIds :
          rules[i] # AbsentRule /\ WillDrop(o, i, rules[i]) => WillDrop(o, i, rules[i])'
 BY <1>1, <1>2, <1>3, <1>4 DEF WillDrop, OwnedBy
<1>7. \A o \in HttpRequests : \A i, rule : DeletesRow(o, i, rule) => DeletesRow(o, i, rule)'
 BY <1>1, <1>4 DEF DeletesRow
<1>8. MemoryInv'
 BY <1>3, <1>5, <1>6 DEF AccessInv, RuleInvs, MemoryInv, Uncovered
<1>9. RowInv'
 BY <1>3, <1>7 DEF AccessInv, RuleInvs, RowInv
<1>10. AgreeInv'
 BY <1>2, <1>3, <1>4 DEF AccessInv, RuleInvs, AgreeInv
<1>11. CascadeInv'
 <2> SUFFICES ASSUME NEW o \in HttpRequests, NEW i \in OwnedIds, request'[o].op = "cascade",
                     i \in request'[o].todo \/ i = request'[o].row
              PROVE  /\ rules[i] # AbsentRule => rules[i].owner = request'[o].user
                     /\ storedRules[i] # AbsentRule => storedRules[i].owner = request'[o].user
                     /\ \A p \in HttpRequests : request'[p].op = "persist" /\ request'[p].id = i =>
                           request'[p].rule.owner = request'[o].user
  BY <1>3 DEF CascadeInv
 <2>1. \A p \in HttpRequests : request'[p].op = "persist" => p # r /\ request'[p] = request[p]
  BY <1>2, <1>4
 <2>2. CASE o = r
  <3>1. i \in todo
   BY <1>2, <1>4, <2>2, AccessAssumption
  <3>2. rules[i] # AbsentRule /\ rules[i].owner = u
   BY <3>1 DEF OwnedBy
  <3> HIDE DEF todo
  <3> QED BY <1>2, <1>4, <2>1, <2>2, <3>2 DEF AccessInv, RuleInvs, AgreeInv
 <2>3. CASE o # r
  BY <1>4, <2>1, <2>3 DEF AccessInv, RuleInvs, CascadeInv
 <2> QED BY <2>2, <2>3
<1> QED BY <1>8, <1>9, <1>10, <1>11 DEF RuleInvs

\* One listed rule leaves memory; its row is next.
LEMMA RuleDropped ==
    ASSUME AccessInv, NEW r \in HttpRequests, CascadeMemory(r) PROVE RuleInvs'
<1>1. /\ request[r].op = "cascade" /\ request[r].row = AbsentRule /\ request[r] \in CascadeRequest
      /\ UNCHANGED <<grants, storedRules, raced>>
 BY RequestShape DEF CascadeMemory, AccessInv
<1>2. \A i, rule : Uncovered(i, rule)' <=> Uncovered(i, rule)
 BY <1>1, UncoveredSame
<1>3. CASE request[r].todo = {}
 <2>1. To(r, NoRequest) /\ rules' = rules
  BY <1>3 DEF CascadeMemory, Done
 <2>2. request'[r].op = "idle" /\ \A o \in HttpRequests : o # r => request'[o] = request[o]
  BY <2>1, RequestMoves, IdleShape DEF AccessInv
 <2> USE <1>1
 <2>3. \A o \in HttpRequests : \A i, rule : WillDrop(o, i, rule) => WillDrop(o, i, rule)'
  BY <1>3, <2>2 DEF WillDrop
 <2>4. \A o \in HttpRequests, i \in OwnedIds : \A rule : DeletesRow(o, i, rule) => DeletesRow(o, i, rule)'
  BY <2>2, AccessAssumption DEF DeletesRow
 <2> USE <2>1 DEF AccessInv, RuleInvs
 <2>5. MemoryInv'
  BY <1>2, <2>3 DEF MemoryInv
 <2>6. RowInv'
  BY <2>4 DEF RowInv
 <2>7. AgreeInv'
  BY <2>2 DEF AgreeInv
 <2>8. CascadeInv'
  BY <2>2 DEF CascadeInv
 <2> QED BY <2>5, <2>6, <2>7, <2>8
<1>4. CASE request[r].todo # {}
 <2>1. PICK i \in request[r].todo :
         /\ rules' = WithoutRules(rules, {i})
         /\ To(r, [request[r] EXCEPT !.todo = @ \ {i}, !.row = i])
  BY <1>4 DEF CascadeMemory
 <2> DEFINE next == [request[r] EXCEPT !.todo = @ \ {i}, !.row = i]
 <2>2. /\ i \in OwnedIds /\ next \in RequestState /\ next.op = "cascade" /\ next.user = request[r].user
       /\ next.row = i /\ next.todo = request[r].todo \ {i}
  BY <1>1 DEF RequestState, CascadeRequest
 <2>3. To(r, next)
  BY <2>1
 <2> HIDE DEF next
 <2>4. request'[r] = next /\ \A o \in HttpRequests : o # r => request'[o] = request[o]
  BY <2>2, <2>3, RequestMoves DEF AccessInv
 <2>5. \A j \in OwnedIds : rules'[j] = IF j = i THEN AbsentRule ELSE rules[j]
  BY <2>1, WithoutRulesShape DEF AccessInv, AccessTypeOK
 <2>6. \A o \in HttpRequests : \A j, rule : j # i /\ WillDrop(o, j, rule) => WillDrop(o, j, rule)'
  BY <1>1, <2>2, <2>4 DEF WillDrop
 <2>7. \A o \in HttpRequests, j \in OwnedIds : \A rule : DeletesRow(o, j, rule) => DeletesRow(o, j, rule)'
  BY <1>1, <2>4, AccessAssumption DEF DeletesRow
 <2>8. MemoryInv'
  <3> SUFFICES ASSUME NEW j \in OwnedIds, NEW rule, rule = rules'[j], Uncovered(j, rule)'
               PROVE  \E o \in HttpRequests : WillDrop(o, j, rule)'
   BY DEF MemoryInv
  <3>1. j # i /\ rule = rules[j]
   BY <2>5 DEF Uncovered
  <3> QED BY <1>2, <2>6, <3>1 DEF AccessInv, RuleInvs, MemoryInv
 <2>9. RowInv'
  <3> SUFFICES ASSUME NEW j \in OwnedIds, NEW rule, rule = storedRules'[j], rule # AbsentRule,
                      rules'[j] = AbsentRule, j \notin raced'
               PROVE  \E o \in HttpRequests : DeletesRow(o, j, rule)'
   BY DEF RowInv
  <3>1. CASE j = i
   <4>1. rule.owner = request[r].user
    BY <1>1, <2>2, <3>1 DEF AccessInv, RuleInvs, CascadeInv
   <4> QED BY <2>2, <2>4, <3>1, <4>1 DEF DeletesRow
  <3>2. CASE j # i
   BY <1>1, <2>5, <2>7, <3>2 DEF AccessInv, RuleInvs, RowInv
  <3> QED BY <3>1, <3>2
 <2>10. AgreeInv'
  BY <1>1, <2>2, <2>4, <2>5, RequestShape DEF AccessInv, RuleInvs, AgreeInv, PersistRequest
 <2>11. CascadeInv'
  <3> SUFFICES ASSUME NEW o \in HttpRequests, NEW j \in OwnedIds, request'[o].op = "cascade",
                      j \in request'[o].todo \/ j = request'[o].row
               PROVE  /\ rules'[j] # AbsentRule => rules'[j].owner = request'[o].user
                      /\ storedRules[j] # AbsentRule => storedRules[j].owner = request'[o].user
                      /\ \A p \in HttpRequests : request'[p].op = "persist" /\ request'[p].id = j =>
                            request'[p].rule.owner = request'[o].user
   BY <1>1 DEF CascadeInv
  <3>1. \A p \in HttpRequests : request'[p].op = "persist" => request'[p] = request[p]
   BY <2>2, <2>4
  <3>2. /\ request[o].op = "cascade" /\ request[o].user = request'[o].user
        /\ j \in request[o].todo \/ j = request[o].row
   BY <1>1, <2>2, <2>4
  <3> QED BY <2>5, <3>1, <3>2 DEF AccessInv, RuleInvs, CascadeInv
 <2> QED BY <2>8, <2>9, <2>10, <2>11 DEF RuleInvs
<1> QED BY <1>3, <1>4

LEMMA RowDeleted ==
    ASSUME AccessInv, NEW r \in HttpRequests, CascadeStored(r) PROVE RuleInvs'
<1> DEFINE i == request[r].row
           next == [request[r] EXCEPT !.row = AbsentRule]
<1>1. /\ request[r].op = "cascade" /\ i # AbsentRule /\ request[r] \in CascadeRequest
      /\ UNCHANGED <<grants, rules, raced>> /\ storedRules' = WithoutRules(storedRules, {i})
 BY RequestShape DEF CascadeStored, AccessInv
<1>2. /\ i \in OwnedIds /\ next \in RequestState /\ next.op = "cascade" /\ next.user = request[r].user
      /\ next.row = AbsentRule /\ next.todo = request[r].todo
 BY <1>1 DEF RequestState, CascadeRequest
<1>3. To(r, next)
 BY DEF CascadeStored
<1> HIDE DEF next
<1>4. request'[r] = next /\ \A o \in HttpRequests : o # r => request'[o] = request[o]
 BY <1>2, <1>3, RequestMoves DEF AccessInv
<1>5. \A j \in OwnedIds : storedRules'[j] = IF j = i THEN AbsentRule ELSE storedRules[j]
 BY <1>1, WithoutRulesShape DEF AccessInv, AccessTypeOK
<1>6. \A j, rule : Uncovered(j, rule)' <=> Uncovered(j, rule)
 BY <1>1, UncoveredSame
<1>7. \A o \in HttpRequests : \A j, rule : WillDrop(o, j, rule) => WillDrop(o, j, rule)'
 BY <1>1, <1>2, <1>4 DEF WillDrop
<1>8. \A o \in HttpRequests : \A j, rule : j # i /\ DeletesRow(o, j, rule) => DeletesRow(o, j, rule)'
 BY <1>1, <1>2, <1>4 DEF DeletesRow
<1>9. MemoryInv'
 BY <1>1, <1>6, <1>7 DEF AccessInv, RuleInvs, MemoryInv
<1>10. RowInv'
 <2> SUFFICES ASSUME NEW j \in OwnedIds, NEW rule, rule = storedRules'[j], rule # AbsentRule,
                     rules'[j] = AbsentRule, j \notin raced'
              PROVE  \E o \in HttpRequests : DeletesRow(o, j, rule)'
  BY DEF RowInv
 <2>1. j # i /\ rule = storedRules[j]
  BY <1>5
 <2> QED BY <1>1, <1>8, <2>1 DEF AccessInv, RuleInvs, RowInv
<1>11. AgreeInv'
 BY <1>1, <1>2, <1>4, <1>5 DEF AccessInv, RuleInvs, AgreeInv
<1>12. CascadeInv'
 <2> SUFFICES ASSUME NEW o \in HttpRequests, NEW j \in OwnedIds, request'[o].op = "cascade",
                     j \in request'[o].todo \/ j = request'[o].row
              PROVE  /\ rules[j] # AbsentRule => rules[j].owner = request'[o].user
                     /\ storedRules'[j] # AbsentRule => storedRules'[j].owner = request'[o].user
                     /\ \A p \in HttpRequests : request'[p].op = "persist" /\ request'[p].id = j =>
                           request'[p].rule.owner = request'[o].user
  BY <1>1 DEF CascadeInv
 <2>1. \A p \in HttpRequests : request'[p].op = "persist" => request'[p] = request[p]
  BY <1>2, <1>4
 <2>2. /\ request[o].op = "cascade" /\ request[o].user = request'[o].user
       /\ j \in request[o].todo \/ j = request[o].row
  BY <1>1, <1>2, <1>4, AccessAssumption
 <2> QED BY <1>5, <2>1, <2>2 DEF AccessInv, RuleInvs, CascadeInv
<1> QED BY <1>9, <1>10, <1>11, <1>12 DEF RuleInvs

----
(* Pushes and restarts *)

\* A rule inserted without cover is a race by definition; a covered one owes
\* nothing.
LEMMA RuleInserted ==
    ASSUME AccessInv, NEW r \in HttpRequests, NEW i \in OwnedIds, OwnedInsert(r, i) PROVE RuleInvs'
<1> DEFINE q == request[r]
           new == [owner |-> q.owner, scope |-> q.scope, super |-> q.as = "superadmin"]
           next == [op |-> "persist", id |-> i, rule |-> new]
<1>1. q.op = "insert" /\ q \in InsertRequest
 BY RequestShape DEF OwnedInsert, AccessInv
<1>2. new \in OwnedRule /\ new.owner = q.owner /\ new.scope = q.scope /\ (new.super <=> q.as = "superadmin")
 BY <1>1 DEF InsertRequest, OwnedRule
<1>3. /\ To(r, next) /\ UNCHANGED <<grants, storedRules>> /\ ~InUse(i)
      /\ rules' = [rules EXCEPT ![i] = new]
      /\ raced' = IF EnforcePush(q.as, q.scope, GrantsFor(q.owner)) THEN raced \ {i} ELSE raced \cup {i}
 BY DEF OwnedInsert
<1> HIDE DEF new
<1>4. next \in RequestState /\ next.op = "persist" /\ next.id = i /\ next.rule = new
 BY <1>2 DEF RequestState, PersistRequest
<1> HIDE DEF next
<1>5. request'[r] = next /\ \A o \in HttpRequests : o # r => request'[o] = request[o]
 BY <1>3, <1>4, RequestMoves DEF AccessInv
<1>6. \A j \in OwnedIds : rules'[j] = IF j = i THEN new ELSE rules[j]
 BY <1>3 DEF AccessInv, AccessTypeOK
<1>7. /\ rules[i] = AbsentRule /\ storedRules[i] = AbsentRule
      /\ \A o \in HttpRequests :
            /\ ~(request[o].op = "persist" /\ request[o].id = i)
            /\ request[o].op = "cascade" => i \notin request[o].todo /\ i # request[o].row
 BY <1>3 DEF InUse
<1>8. \A j : j # i => (j \in raced' <=> j \in raced)
 BY <1>3
<1>9. \A j, rule : j # i => (Uncovered(j, rule)' <=> Uncovered(j, rule))
 BY <1>3, <1>8 DEF Uncovered, EnforcePush, GrantsFor, Covers
<1>10. \A o \in HttpRequests : \A j, rule : WillDrop(o, j, rule) => WillDrop(o, j, rule)'
 BY <1>1, <1>5 DEF WillDrop
<1>11. \A o \in HttpRequests : \A j, rule : DeletesRow(o, j, rule) => DeletesRow(o, j, rule)'
 BY <1>1, <1>5 DEF DeletesRow
<1>12. ASSUME NEW rule, rule = new PROVE ~Uncovered(i, rule)'
 <2>1. CASE EnforcePush(q.as, q.scope, GrantsFor(q.owner))
  <3>1. new.super \/ EnforcePush("user", new.scope, GrantsFor(new.owner))
   BY <1>2, <2>1 DEF EnforcePush
  <3>2. GrantsFor(rule.owner)' = GrantsFor(rule.owner)
   BY <1>3 DEF GrantsFor
  <3> QED BY <1>12, <3>1, <3>2 DEF Uncovered, EnforcePush
 <2>2. CASE ~EnforcePush(q.as, q.scope, GrantsFor(q.owner))
  BY <1>3, <2>2 DEF Uncovered
 <2> QED BY <2>1, <2>2
<1>13. MemoryInv'
 <2> SUFFICES ASSUME NEW j \in OwnedIds, NEW rule, rule = rules'[j], Uncovered(j, rule)'
              PROVE  \E o \in HttpRequests : WillDrop(o, j, rule)'
  BY DEF MemoryInv
 <2>1. j # i /\ rule = rules[j]
  BY <1>6, <1>12
 <2> QED BY <1>9, <1>10, <2>1 DEF AccessInv, RuleInvs, MemoryInv
<1>14. RowInv'
 <2> SUFFICES ASSUME NEW j \in OwnedIds, NEW rule, rule = storedRules'[j], rule # AbsentRule,
                     rules'[j] = AbsentRule, j \notin raced'
              PROVE  \E o \in HttpRequests : DeletesRow(o, j, rule)'
  BY DEF RowInv
 <2>1. j # i /\ rule = storedRules[j] /\ rules[j] = AbsentRule /\ j \notin raced
  BY <1>3, <1>6, <1>7, <1>8
 <2> QED BY <1>11, <2>1 DEF AccessInv, RuleInvs, RowInv
<1>15. AgreeInv'
 <2>1. \A j \in OwnedIds : rules'[j] # AbsentRule /\ storedRules'[j] # AbsentRule => rules'[j] = storedRules'[j]
  BY <1>3, <1>6, <1>7 DEF AccessInv, RuleInvs, AgreeInv
 <2>2. ASSUME NEW o \in HttpRequests, request'[o].op = "persist"
       PROVE  rules'[request'[o].id] \in {AbsentRule, request'[o].rule}
  <3>1. CASE o = r
   BY <1>4, <1>5, <1>6, <3>1
  <3>2. CASE o # r
   <4>1. request'[o] = request[o] /\ request[o].id # i /\ request[o].id \in OwnedIds
    BY <1>5, <1>7, <2>2, <3>2, RequestShape DEF AccessInv, PersistRequest
   <4> QED BY <1>6, <2>2, <4>1 DEF AccessInv, RuleInvs, AgreeInv
  <3> QED BY <3>1, <3>2
 <2> QED BY <2>1, <2>2 DEF AgreeInv
<1>16. CascadeInv'
 <2> SUFFICES ASSUME NEW o \in HttpRequests, NEW j \in OwnedIds, request'[o].op = "cascade",
                     j \in request'[o].todo \/ j = request'[o].row
              PROVE  /\ rules'[j] # AbsentRule => rules'[j].owner = request'[o].user
                     /\ storedRules[j] # AbsentRule => storedRules[j].owner = request'[o].user
                     /\ \A p \in HttpRequests : request'[p].op = "persist" /\ request'[p].id = j =>
                           request'[p].rule.owner = request'[o].user
  BY <1>3 DEF CascadeInv
 <2>1. request'[o] = request[o] /\ j # i
  BY <1>4, <1>5, <1>7
 <2>2. \A p \in HttpRequests : request'[p].op = "persist" /\ request'[p].id = j => request'[p] = request[p]
  BY <1>4, <1>5, <2>1
 <2> QED BY <1>6, <2>1, <2>2 DEF AccessInv, RuleInvs, CascadeInv
<1> QED BY <1>13, <1>14, <1>15, <1>16 DEF RuleInvs

LEMMA RulePersisted ==
    ASSUME AccessInv, NEW r \in HttpRequests, OwnedPersist(r) PROVE RuleInvs'
<1> DEFINE i == request[r].id
           new == request[r].rule
<1>1. request[r].op = "persist" /\ i \in OwnedIds /\ new \in OwnedRule
 BY RequestShape DEF OwnedPersist, AccessInv, PersistRequest
<1>2. /\ To(r, NoRequest) /\ UNCHANGED <<grants, rules>>
      /\ raced' = IF rules[i] = AbsentRule THEN raced \cup {i} ELSE raced
      /\ storedRules' = storedRules \/ storedRules' = [storedRules EXCEPT ![i] = new]
 BY DEF OwnedPersist, Done
<1>3. request'[r].op = "idle" /\ \A o \in HttpRequests : o # r => request'[o] = request[o]
 BY <1>2, RequestMoves, IdleShape DEF AccessInv
<1>4. \A j \in OwnedIds : /\ storedRules'[j] = storedRules[j] \/ (j = i /\ storedRules'[j] = new)
 BY <1>1, <1>2 DEF AccessInv, AccessTypeOK
<1>5. \A j, rule : Uncovered(j, rule)' => Uncovered(j, rule)
 BY <1>2 DEF Uncovered, EnforcePush, GrantsFor, Covers
<1>6. \A o \in HttpRequests : \A j, rule : WillDrop(o, j, rule) => WillDrop(o, j, rule)'
 BY <1>1, <1>3 DEF WillDrop
<1>7. \A o \in HttpRequests : \A j, rule : DeletesRow(o, j, rule) => DeletesRow(o, j, rule)'
 BY <1>1, <1>3 DEF DeletesRow
<1>8. rules[i] \in {AbsentRule, new}
 BY <1>1 DEF AccessInv, RuleInvs, AgreeInv
<1>9. \A o \in HttpRequests : request[o].op = "cascade" /\ (i \in request[o].todo \/ i = request[o].row) =>
          new.owner = request[o].user
 BY <1>1 DEF AccessInv, RuleInvs, CascadeInv
<1> HIDE DEF i, new
<1>10. MemoryInv'
 BY <1>2, <1>5, <1>6 DEF AccessInv, RuleInvs, MemoryInv
<1>11. RowInv'
 <2> SUFFICES ASSUME NEW j \in OwnedIds, NEW rule, rule = storedRules'[j], rule # AbsentRule,
                     rules'[j] = AbsentRule, j \notin raced'
              PROVE  \E o \in HttpRequests : DeletesRow(o, j, rule)'
  BY DEF RowInv
 <2>1. j # i /\ rule = storedRules[j] /\ rules[j] = AbsentRule /\ j \notin raced
  BY <1>2, <1>4
 <2> QED BY <1>7, <2>1 DEF AccessInv, RuleInvs, RowInv
<1>12. AgreeInv'
 <2>1. \A j \in OwnedIds : rules'[j] # AbsentRule /\ storedRules'[j] # AbsentRule => rules'[j] = storedRules'[j]
  BY <1>2, <1>4, <1>8 DEF AccessInv, RuleInvs, AgreeInv
 <2>2. \A o \in HttpRequests : request'[o].op = "persist" =>
           rules'[request'[o].id] \in {AbsentRule, request'[o].rule}
  BY <1>2, <1>3 DEF AccessInv, RuleInvs, AgreeInv
 <2> QED BY <2>1, <2>2 DEF AgreeInv
<1>13. CascadeInv'
 <2> SUFFICES ASSUME NEW o \in HttpRequests, NEW j \in OwnedIds, request'[o].op = "cascade",
                     j \in request'[o].todo \/ j = request'[o].row
              PROVE  /\ rules[j] # AbsentRule => rules[j].owner = request'[o].user
                     /\ storedRules'[j] # AbsentRule => storedRules'[j].owner = request'[o].user
                     /\ \A p \in HttpRequests : request'[p].op = "persist" /\ request'[p].id = j =>
                           request'[p].rule.owner = request'[o].user
  BY <1>2 DEF CascadeInv
 <2>1. request'[o] = request[o]
  BY <1>3
 <2>2. \A p \in HttpRequests : request'[p].op = "persist" => request'[p] = request[p]
  BY <1>3
 <2>3. storedRules'[j] # AbsentRule => storedRules'[j].owner = request[o].user
  BY <1>4, <1>9, <2>1 DEF AccessInv, RuleInvs, CascadeInv
 <2> QED BY <2>1, <2>2, <2>3 DEF AccessInv, RuleInvs, CascadeInv
<1> QED BY <1>10, <1>11, <1>12, <1>13 DEF RuleInvs

\* A restart loses the cascades; what they still owed is a race.
LEMMA RulesReload ==
    ASSUME AccessInv, AccessRestart PROVE RuleInvs'
<1>1. /\ \A r \in HttpRequests : request'[r].op = "idle"
      /\ UNCHANGED <<grants, storedRules>> /\ rules' = storedRules
      /\ raced' = raced \cup {i \in OwnedIds :
                      storedRules[i] # AbsentRule /\ Interrupted(storedRules[i].owner)}
 BY IdleShape DEF AccessRestart
<1>2. MemoryInv'
 <2> SUFFICES ASSUME NEW i \in OwnedIds, NEW rule, rule = rules'[i], Uncovered(i, rule)' PROVE FALSE
  BY DEF MemoryInv
 <2>1. rule = storedRules[i] /\ rule # AbsentRule /\ i \notin raced'
  BY <1>1 DEF Uncovered
 <2>2. Uncovered(i, rule)
  BY <1>1 DEF Uncovered, EnforcePush, GrantsFor, Covers
 <2>3. Interrupted(rule.owner)
  <3>1. CASE rules[i] # AbsentRule
   <4>1. PICK r \in HttpRequests : WillDrop(r, i, rule)
    BY <2>1, <2>2, <3>1 DEF AccessInv, RuleInvs, AgreeInv, MemoryInv
   <4> QED BY <4>1 DEF WillDrop, Interrupted
  <3>2. CASE rules[i] = AbsentRule
   <4>1. PICK r \in HttpRequests : DeletesRow(r, i, rule)
    BY <1>1, <2>1, <3>2 DEF AccessInv, RuleInvs, RowInv
   <4> QED BY <4>1 DEF DeletesRow, Interrupted
  <3> QED BY <3>1, <3>2
 <2> QED BY <1>1, <2>1, <2>3
<1>3. RowInv' /\ AgreeInv' /\ CascadeInv'
 BY <1>1 DEF RowInv, AgreeInv, CascadeInv
<1> QED BY <1>2, <1>3 DEF RuleInvs

----
(* Every step of a request *)

\* Requests that touch no rule and take no grant away.
LEMMA QuietSteps ==
    ASSUME AccessInv, NEW r \in HttpRequests,
           \/ \E a \in Users, op \in {"admin", "push"} :
                 Authenticate(r, a, op) /\ UNCHANGED <<tables, onboarding, raced, ruled>>
           \/ \E u \in Users, as \in {"user", "superadmin"} : PostUser(r, u, as)
           \/ \E g \in Grants, u \in Users, s \in Scopes : PostGrant(r, g, u, s)
           \/ Refuse(r)
           \/ \E u \in Users : DeleteUserCheck(r, u)
           \/ \E s \in Scopes : OwnedCheck(r, s)
           \/ OnboardCheck(r)
           \/ \E u \in Users : OnboardFirst(r, u)
           \/ BootstrapCheck(r) \/ BootstrapPair(r)
    PROVE  RuleInvs'
<1> SUFFICES /\ \E next \in RequestState : To(r, next) /\ next.op \in LightOps
             /\ request[r].op \in LightOps
             /\ UNCHANGED <<rules, storedRules, raced>>
             /\ \A i, rule : Uncovered(i, rule)' => Uncovered(i, rule)
 BY LightStep
<1>0. NoRequest \in RequestState /\ NoRequest.op \in LightOps
 BY IdleShape DEF LightOps
<1>1. ASSUME NEW a \in Users, NEW op \in {"admin", "push"}, Authenticate(r, a, op),
             UNCHANGED <<tables, onboarding, raced, ruled>>
      PROVE  /\ \E next \in RequestState : To(r, next) /\ next.op \in LightOps
             /\ request[r].op \in LightOps
             /\ UNCHANGED <<grants, rules, storedRules, raced>>
 <2> DEFINE next == [op |-> op, actor |-> a, as |-> role[a]]
 <2>1. next \in RequestState /\ next.op \in LightOps
  BY DEF RequestState, AskRequest, LightOps, AccessInv, AccessTypeOK
 <2> QED BY <1>0, <1>1, <2>1 DEF Authenticate, tables
<1>2. ASSUME NEW u \in Users, NEW as, PostUser(r, u, as)
      PROVE  /\ \E next \in RequestState : To(r, next) /\ next.op \in LightOps
             /\ request[r].op \in LightOps
             /\ UNCHANGED <<grants, rules, storedRules, raced>>
 BY <1>0, <1>2 DEF PostUser, Done, LightOps
<1>3. ASSUME NEW g \in Grants, NEW u \in Users, NEW s \in Scopes, PostGrant(r, g, u, s)
      PROVE  /\ \E next \in RequestState : To(r, next) /\ next.op \in LightOps
             /\ request[r].op \in LightOps
             /\ UNCHANGED <<rules, storedRules, raced>>
             /\ \A i, rule : Uncovered(i, rule)' => Uncovered(i, rule)
 <2>1. \A i, rule : Uncovered(i, rule)' => Uncovered(i, rule)
  BY <1>3, UncoveredLess DEF PostGrant, AccessInv
 <2> QED BY <1>0, <1>3, <2>1 DEF PostGrant, Done, LightOps
<1>4. ASSUME Refuse(r)
      PROVE  /\ \E next \in RequestState : To(r, next) /\ next.op \in LightOps
             /\ request[r].op \in LightOps
             /\ UNCHANGED <<grants, rules, storedRules, raced>>
 BY <1>0, <1>4 DEF Refuse, Done, LightOps, tables
<1>5. ASSUME NEW u \in Users, DeleteUserCheck(r, u)
      PROVE  /\ \E next \in RequestState : To(r, next) /\ next.op \in LightOps
             /\ request[r].op \in LightOps
             /\ UNCHANGED <<grants, rules, storedRules, raced>>
 <2> DEFINE next == [op |-> "delete_user", user |-> u]
 <2>1. next \in RequestState /\ next.op \in LightOps
  BY DEF RequestState, UserRequest, LightOps
 <2> QED BY <1>5, <2>1 DEF DeleteUserCheck, LightOps, tables
<1>6. ASSUME NEW s \in Scopes, OwnedCheck(r, s)
      PROVE  /\ \E next \in RequestState : To(r, next) /\ next.op \in LightOps
             /\ request[r].op \in LightOps
             /\ UNCHANGED <<grants, rules, storedRules, raced>>
 <2> DEFINE next == [op |-> "insert", owner |-> request[r].actor, as |-> request[r].as, scope |-> s]
 <2>1. request[r].op = "push" /\ request[r] \in AskRequest
  BY <1>6, RequestShape DEF OwnedCheck, AccessInv
 <2>2. next \in RequestState /\ next.op \in LightOps
  BY <2>1 DEF RequestState, InsertRequest, AskRequest, LightOps
 <2>3. UNCHANGED <<grants, rules, storedRules, raced>> /\ (To(r, next) \/ To(r, NoRequest))
  BY <1>6 DEF OwnedCheck, Done, tables
 <2> HIDE DEF next
 <2> QED BY <1>0, <2>1, <2>2, <2>3 DEF LightOps
<1>7. ASSUME OnboardCheck(r)
      PROVE  /\ \E next \in RequestState : To(r, next) /\ next.op \in LightOps
             /\ request[r].op \in LightOps
             /\ UNCHANGED <<grants, rules, storedRules, raced>>
 <2> DEFINE next == [op |-> "onboard", token |-> setup]
 <2>1. next \in RequestState /\ next.op \in LightOps
  BY DEF RequestState, SetupRequest, LightOps, AccessInv, AccessTypeOK
 <2> QED BY <1>0, <1>7, <2>1 DEF OnboardCheck, tables
<1>8. ASSUME NEW u \in Users, OnboardFirst(r, u)
      PROVE  /\ \E next \in RequestState : To(r, next) /\ next.op \in LightOps
             /\ request[r].op \in LightOps
             /\ UNCHANGED <<grants, rules, storedRules, raced>>
 BY <1>0, <1>8 DEF OnboardFirst, Done, LightOps
<1>9. ASSUME BootstrapCheck(r)
      PROVE  /\ \E next \in RequestState : To(r, next) /\ next.op \in LightOps
             /\ request[r].op \in LightOps
             /\ UNCHANGED <<grants, rules, storedRules, raced>>
 <2> DEFINE next == [op |-> "bootstrap"]
 <2>1. next \in RequestState /\ next.op \in LightOps
  BY DEF RequestState, BareRequest, LightOps
 <2> QED BY <1>0, <1>9, <2>1 DEF BootstrapCheck, tables
<1>10. ASSUME BootstrapPair(r)
       PROVE  /\ \E next \in RequestState : To(r, next) /\ next.op \in LightOps
              /\ request[r].op \in LightOps
              /\ UNCHANGED <<grants, rules, storedRules, raced>>
 BY <1>0, <1>10 DEF BootstrapPair, Done, LightOps
<1>11. UNCHANGED <<grants, raced>> => \A i, rule : Uncovered(i, rule)' => Uncovered(i, rule)
 BY UncoveredSame
<1> QED BY <1>1, <1>2, <1>3, <1>4, <1>5, <1>6, <1>7, <1>8, <1>9, <1>10, <1>11

LEMMA StepRules ==
    ASSUME AccessInv, NEW r \in HttpRequests, AccessStep(r) PROVE RuleInvs'
  BY QuietSteps, UserGoes, UserRulesGo, UserStoredGo, GrantGoes, RemainingRead, OwnedListed,
   RuleDropped, RowDeleted, RuleInserted, RulePersisted DEF AccessStep

----
(* Types *)

\* The request that moved is again a well-formed one.
LEMMA StepRequest ==
    ASSUME AccessTypeOK, NEW r \in HttpRequests, AccessStep(r)
    PROVE  request' \in [HttpRequests -> RequestState]
<1> SUFFICES \E next \in RequestState : To(r, next)
 BY RequestMoves
<1> USE DEF RequestState
<1>0. NoRequest \in RequestState
 BY IdleShape
<1>1. ASSUME NEW a \in Users, NEW op \in {"admin", "push"}, Authenticate(r, a, op)
      PROVE  \E next \in RequestState : To(r, next)
 <2>1. [op |-> op, actor |-> a, as |-> role[a]] \in AskRequest
  BY DEF AskRequest, AccessTypeOK
 <2> QED BY <1>1, <2>1 DEF Authenticate
<1>2. ASSUME \/ \E u \in Users, as \in {"user", "superadmin"} : PostUser(r, u, as)
             \/ \E g \in Grants, u \in Users, s \in Scopes : PostGrant(r, g, u, s)
             \/ Refuse(r) \/ DeleteStoredOwnedBy(r) \/ OwnedPersist(r) \/ BootstrapPair(r)
             \/ \E u \in Users : OnboardFirst(r, u)
      PROVE  \E next \in RequestState : To(r, next)
 BY <1>0, <1>2 DEF PostUser, PostGrant, Refuse, DeleteStoredOwnedBy, OwnedPersist, BootstrapPair,
  OnboardFirst, Done
<1>3. ASSUME NEW u \in Users, DeleteUserCheck(r, u) PROVE \E next \in RequestState : To(r, next)
 <2>1. [op |-> "delete_user", user |-> u] \in UserRequest
  BY DEF UserRequest
 <2> QED BY <1>3, <2>1 DEF DeleteUserCheck
<1>4. ASSUME RemoveUser(r) \/ RemoveOwnedBy(r) PROVE \E next \in RequestState : To(r, next)
 <2>1. request[r] \in UserRequest
  BY <1>4, RequestShape DEF RemoveUser, RemoveOwnedBy
 <2>2. /\ [op |-> "drop_rules", user |-> request[r].user] \in UserRequest
       /\ [op |-> "drop_stored", user |-> request[r].user] \in UserRequest
  BY <2>1 DEF UserRequest
 <2> QED BY <1>0, <1>4, <2>2 DEF RemoveUser, RemoveOwnedBy, Done
<1>5. ASSUME NEW g \in Grants, RevokeGrant(r, g) PROVE \E next \in RequestState : To(r, next)
 <2>1. grants[g] \in HeldGrant
  BY <1>5 DEF RevokeGrant, AccessTypeOK
 <2>2. [op |-> "remaining", user |-> grants[g].user, last |-> grants[g]] \in RevokeRequest
  BY <2>1 DEF RevokeRequest, HeldGrant
 <2> QED BY <1>5, <2>2 DEF RevokeGrant
<1>6. ASSUME ReadRemaining(r) PROVE \E next \in RequestState : To(r, next)
 <2>1. request[r].user \in Users
  BY <1>6, RequestShape DEF ReadRemaining, RevokeRequest
 <2>2. [op |-> "owned", user |-> request[r].user, held |-> Remaining(r)] \in ListRequest
  BY <2>1, GrantsForType DEF ListRequest, Remaining
 <2> QED BY <1>6, <2>2 DEF ReadRemaining
<1>7. ASSUME ListOwnedBy(r) PROVE \E next \in RequestState : To(r, next)
 <2> DEFINE todo == {i \in OwnedBy(rules, request[r].user) :
                 ~EnforcePush("user", rules[i].scope, request[r].held)}
 <2>1. request[r].user \in Users
  BY <1>7, RequestShape DEF ListOwnedBy, ListRequest
 <2>2. todo \in SUBSET OwnedIds
  BY DEF OwnedBy
 <2>3. [op |-> "cascade", user |-> request[r].user, row |-> AbsentRule, todo |-> todo] \in CascadeRequest
  BY <2>1, <2>2 DEF CascadeRequest
 <2> QED BY <1>7, <2>3 DEF ListOwnedBy
<1>8. ASSUME CascadeMemory(r) PROVE \E next \in RequestState : To(r, next)
 <2>1. request[r] \in CascadeRequest
  BY <1>8, RequestShape DEF CascadeMemory
 <2>2. CASE request[r].todo = {}
  BY <1>0, <1>8, <2>2 DEF CascadeMemory, Done
 <2>3. CASE request[r].todo # {}
  <3>1. PICK i \in request[r].todo : To(r, [request[r] EXCEPT !.todo = @ \ {i}, !.row = i])
   BY <1>8, <2>3 DEF CascadeMemory
  <3>2. [request[r] EXCEPT !.todo = @ \ {i}, !.row = i] \in CascadeRequest
   BY <2>1, <3>1 DEF CascadeRequest
  <3> QED BY <3>1, <3>2
 <2> QED BY <2>2, <2>3
<1>9. ASSUME CascadeStored(r) PROVE \E next \in RequestState : To(r, next)
 <2>1. request[r] \in CascadeRequest
  BY <1>9, RequestShape DEF CascadeStored
 <2>2. [request[r] EXCEPT !.row = AbsentRule] \in CascadeRequest
  BY <2>1 DEF CascadeRequest
 <2> QED BY <1>9, <2>2 DEF CascadeStored
<1>10. ASSUME NEW s \in Scopes, OwnedCheck(r, s) PROVE \E next \in RequestState : To(r, next)
 <2>1. request[r] \in AskRequest
  BY <1>10, RequestShape DEF OwnedCheck
 <2>2. [op |-> "insert", owner |-> request[r].actor, as |-> request[r].as, scope |-> s] \in InsertRequest
  BY <2>1 DEF InsertRequest, AskRequest
 <2> QED BY <1>0, <1>10, <2>2 DEF OwnedCheck, Done
<1>11. ASSUME NEW i \in OwnedIds, OwnedInsert(r, i) PROVE \E next \in RequestState : To(r, next)
 <2> DEFINE new == [owner |-> request[r].owner, scope |-> request[r].scope,
                    super |-> request[r].as = "superadmin"]
 <2>1. new \in OwnedRule
  BY <1>11, RequestShape DEF OwnedInsert, InsertRequest, OwnedRule
 <2>2. To(r, [op |-> "persist", id |-> i, rule |-> new])
  BY <1>11 DEF OwnedInsert
 <2> HIDE DEF new
 <2>3. [op |-> "persist", id |-> i, rule |-> new] \in PersistRequest
  BY <2>1 DEF PersistRequest
 <2> QED BY <2>2, <2>3
<1>12. ASSUME OnboardCheck(r) PROVE \E next \in RequestState : To(r, next)
 <2>1. [op |-> "onboard", token |-> setup] \in SetupRequest
  BY DEF SetupRequest, AccessTypeOK
 <2> QED BY <1>12, <2>1 DEF OnboardCheck
<1>13. ASSUME BootstrapCheck(r) PROVE \E next \in RequestState : To(r, next)
 <2>1. [op |-> "bootstrap"] \in BareRequest
  BY DEF BareRequest
 <2> QED BY <1>13, <2>1 DEF BootstrapCheck
<1> QED BY <1>1, <1>2, <1>3, <1>4, <1>5, <1>6, <1>7, <1>8, <1>9, <1>10, <1>11, <1>12, <1>13
  DEF AccessStep

LEMMA StepTables ==
    ASSUME AccessTypeOK, NEW r \in HttpRequests, AccessStep(r)
    PROVE  /\ role' \in [Users -> OperatorRole]
           /\ grants' \in [Grants -> HeldGrant \cup {NoGrant}]
           /\ rules' \in [OwnedIds -> OwnedRule \cup {AbsentRule}]
           /\ storedRules' \in [OwnedIds -> OwnedRule \cup {AbsentRule}]
<1> DEFINE Kept == /\ role' \in [Users -> OperatorRole]
                   /\ grants' \in [Grants -> HeldGrant \cup {NoGrant}]
                   /\ rules' \in [OwnedIds -> OwnedRule \cup {AbsentRule}]
                   /\ storedRules' \in [OwnedIds -> OwnedRule \cup {AbsentRule}]
<1>0. \A table \in [OwnedIds -> OwnedRule \cup {AbsentRule}] : \A ids :
          WithoutRules(table, ids) \in [OwnedIds -> OwnedRule \cup {AbsentRule}]
 BY WithoutRulesShape
<1>1. ASSUME UNCHANGED tables PROVE Kept
 BY <1>1 DEF tables, AccessTypeOK
<1>2. ASSUME NEW u \in Users, NEW as \in {"user", "superadmin"}, PostUser(r, u, as) PROVE Kept
 BY <1>2 DEF PostUser, AccessTypeOK, OperatorRole
<1>3. ASSUME NEW g \in Grants, NEW u \in Users, NEW s \in Scopes, PostGrant(r, g, u, s) PROVE Kept
 <2>1. [user |-> u, scope |-> s] \in HeldGrant
  BY DEF HeldGrant
 <2> QED BY <1>3, <2>1 DEF PostGrant, AccessTypeOK
<1>4. ASSUME RemoveUser(r) PROVE Kept
 BY <1>0, <1>4 DEF RemoveUser, AccessTypeOK, OperatorRole
<1>5. ASSUME RemoveOwnedBy(r) PROVE Kept
 BY <1>0, <1>5 DEF RemoveOwnedBy, AccessTypeOK
<1>6. ASSUME DeleteStoredOwnedBy(r) PROVE Kept
 BY <1>0, <1>6 DEF DeleteStoredOwnedBy, AccessTypeOK
<1>7. ASSUME NEW g \in Grants, RevokeGrant(r, g) PROVE Kept
 BY <1>7 DEF RevokeGrant, AccessTypeOK
<1>8. ASSUME CascadeMemory(r) PROVE Kept
 <2>1. UNCHANGED <<role, grants, storedRules>> /\ (rules' = rules \/ \E ids : rules' = WithoutRules(rules, ids))
  BY <1>8 DEF CascadeMemory
 <2> QED BY <1>0, <2>1 DEF AccessTypeOK
<1>9. ASSUME CascadeStored(r) PROVE Kept
 BY <1>0, <1>9 DEF CascadeStored, AccessTypeOK
<1>10. ASSUME NEW i \in OwnedIds, OwnedInsert(r, i) PROVE Kept
 <2> DEFINE new == [owner |-> request[r].owner, scope |-> request[r].scope,
                    super |-> request[r].as = "superadmin"]
 <2>1. new \in OwnedRule
  BY <1>10, RequestShape DEF OwnedInsert, InsertRequest, OwnedRule
 <2>2. rules' = [rules EXCEPT ![i] = new] /\ UNCHANGED <<role, grants, storedRules>>
  BY <1>10 DEF OwnedInsert
 <2> HIDE DEF new
 <2> QED BY <2>1, <2>2 DEF AccessTypeOK
<1>11. ASSUME OwnedPersist(r) PROVE Kept
 <2>1. request[r].id \in OwnedIds /\ request[r].rule \in OwnedRule
  BY <1>11, RequestShape DEF OwnedPersist, PersistRequest
 <2> QED BY <1>11, <2>1 DEF OwnedPersist, AccessTypeOK
<1>12. ASSUME NEW u \in Users, OnboardFirst(r, u) PROVE Kept
 BY <1>12 DEF OnboardFirst, AccessTypeOK, OperatorRole
<1>13. ASSUME BootstrapPair(r) PROVE Kept
 BY <1>13, AccessAssumption DEF BootstrapPair, AccessTypeOK, OperatorRole
<1>14. ASSUME Refuse(r) \/ ReadRemaining(r) \/ ListOwnedBy(r) \/ OnboardCheck(r) \/ BootstrapCheck(r)
              \/ (\E u \in Users : DeleteUserCheck(r, u)) \/ (\E s \in Scopes : OwnedCheck(r, s))
       PROVE  UNCHANGED tables
 BY <1>14 DEF Refuse, ReadRemaining, ListOwnedBy, OnboardCheck, BootstrapCheck, DeleteUserCheck,
  OwnedCheck
<1> HIDE DEF Kept
<1>15. Kept
 BY <1>1, <1>2, <1>3, <1>4, <1>5, <1>6, <1>7, <1>8, <1>9, <1>10, <1>11, <1>12, <1>13, <1>14
  DEF AccessStep
<1> QED BY <1>15 DEF Kept

\* Tokens: a token founds somebody only while it is the valid one, and is
\* valid no more afterwards.
TokenType == setup \in Nat /\ issued \in Nat /\ founded \in [1..MaxTokens -> Nat]

LEMMA CountOne ==
    ASSUME NEW S, NEW count \in [S -> Nat], NEW k
    PROVE  /\ [count EXCEPT ![k] = @ + 1] \in [S -> Nat]
           /\ \A t \in S : [count EXCEPT ![k] = @ + 1][t] = IF t = k THEN count[t] + 1 ELSE count[t]
<1>1. CASE k \in S
 BY <1>1
<1>2. CASE k \notin S
 <2>1. [count EXCEPT ![k] = @ + 1] = count
  BY <1>2
 <2> QED BY <1>2, <2>1
<1> QED BY <1>1, <1>2

LEMMA StepTokens ==
    ASSUME AccessInv, NEW r \in HttpRequests, AccessStep(r) PROVE TokenType' /\ TokenInv'
<1>1. CASE UNCHANGED onboarding
 BY <1>1 DEF onboarding, AccessInv, AccessTypeOK, TokenInv, TokenType
<1>2. CASE \E u \in Users : OnboardFirst(r, u)
 <2>1. request[r].op = "onboard" /\ issued' = issued
  BY <1>2 DEF OnboardFirst
 <2>2. request[r].token \in Nat
  BY <2>1, RequestShape DEF AccessInv, SetupRequest
 <2>3. CASE UNCHANGED <<founded, setup>>
  BY <2>1, <2>3 DEF AccessInv, AccessTypeOK, TokenInv, TokenType
 <2>4. CASE /\ setup = request[r].token /\ setup' = 0
            /\ founded' = [founded EXCEPT ![request[r].token] = @ + 1]
  <3>1. setup \in Nat /\ issued \in Nat /\ founded \in [1..MaxTokens -> Nat] /\ MaxTokens \in Nat
   BY AccessAssumption DEF AccessInv, AccessTypeOK
  <3>2. founded' = [founded EXCEPT ![setup] = @ + 1]
   BY <2>4
  <3>3. TokenInv
   BY DEF AccessInv
  <3>4. /\ founded' \in [1..MaxTokens -> Nat]
        /\ \A t \in 1..MaxTokens : founded'[t] = IF t = setup THEN founded[t] + 1 ELSE founded[t]
   BY <3>1, <3>2, CountOne
  <3>5. \A t \in 1..MaxTokens : founded[t] \in Nat
   BY <3>1
  <3>6. \A t \in 1..MaxTokens : founded'[t] <= 1 /\ (t = 0 \/ t > issued => founded'[t] = 0)
   BY <3>1, <3>3, <3>4, <3>5 DEF TokenInv
  <3> QED BY <2>1, <2>4, <3>1, <3>4, <3>6 DEF TokenInv, TokenType
 <2> QED BY <1>2, <2>3, <2>4 DEF OnboardFirst, Onboardable
<1>3. UNCHANGED onboarding \/ \E u \in Users : OnboardFirst(r, u)
 BY DEF AccessStep, onboarding, Authenticate, PostUser, PostGrant, Refuse, DeleteUserCheck,
  RemoveUser, RemoveOwnedBy, DeleteStoredOwnedBy, RevokeGrant, ReadRemaining, ListOwnedBy,
  CascadeMemory, CascadeStored, OwnedCheck, OwnedInsert, OwnedPersist, OnboardCheck,
  BootstrapCheck, BootstrapPair
<1> QED BY <1>1, <1>2, <1>3

LEMMA RestartKeeps ==
    ASSUME AccessInv, AccessRestart PROVE AccessTypeOK' /\ TokenInv'
<1>1. TokenInv /\ setup \in Nat /\ issued \in Nat /\ founded \in [1..MaxTokens -> Nat] /\ MaxTokens \in Nat
 BY AccessAssumption DEF AccessInv, AccessTypeOK
<1>2. /\ founded' = founded
      /\ \/ issued < MaxTokens /\ setup' = issued + 1 /\ issued' = issued + 1
         \/ UNCHANGED <<setup, issued>>
 BY DEF AccessRestart
<1>3. TokenInv' /\ setup' \in Nat /\ issued' \in Nat /\ founded' \in [1..MaxTokens -> Nat]
 BY <1>1, <1>2 DEF TokenInv
<1> USE DEF AccessRestart
<1>4. role' \in [Users -> OperatorRole]
 BY AccessAssumption DEF AccessInv, AccessTypeOK, OperatorRole
<1>5. request' \in [HttpRequests -> RequestState]
 BY IdleShape
<1>6. UNCHANGED <<grants, storedRules>> /\ rules' = storedRules
 OBVIOUS
<1> QED BY <1>3, <1>4, <1>5, <1>6 DEF AccessInv, AccessTypeOK

----
LEMMA AccessInitially ==
    ASSUME AccessInit PROVE AccessInv
<1> USE DEF AccessInit
<1>1. AccessTypeOK
 BY IdleShape DEF AccessTypeOK, OperatorRole
<1>2. TokenInv
 BY AccessAssumption DEF TokenInv
<1>3. RuleInvs
 BY IdleShape DEF RuleInvs, MemoryInv, RowInv, AgreeInv, CascadeInv, Uncovered
<1> QED BY <1>1, <1>2, <1>3 DEF AccessInv

LEMMA AccessPreserved ==
    ASSUME AccessInv, [AccessNext]_accessVars PROVE AccessInv'
<1>1. CASE \E r \in HttpRequests : AccessStep(r)
 <2>1. PICK r \in HttpRequests : AccessStep(r)
  BY <1>1
 <2>2. RuleInvs' /\ TokenType' /\ TokenInv'
  BY <2>1, StepRules, StepTokens
 <2>3. AccessTypeOK'
  BY <2>1, <2>2, StepRequest, StepTables DEF AccessInv, AccessTypeOK, TokenType
 <2> QED BY <2>2, <2>3 DEF AccessInv
<1>2. CASE AccessRestart
 BY <1>2, RestartKeeps, RulesReload DEF AccessInv
<1>3. CASE UNCHANGED accessVars
 <2> USE <1>3 DEF accessVars
 <2>1. /\ AccessTypeOK' <=> AccessTypeOK
       /\ TokenInv' <=> TokenInv
  BY DEF AccessTypeOK, TokenInv
 <2>2. /\ MemoryInv' <=> MemoryInv
       /\ RowInv' <=> RowInv
  BY DEF MemoryInv, RowInv, Uncovered, EnforcePush, GrantsFor, Covers, WillDrop, DeletesRow
 <2>3. /\ AgreeInv' <=> AgreeInv
       /\ CascadeInv' <=> CascadeInv
  BY DEF AgreeInv, CascadeInv
 <2> QED BY <2>1, <2>2, <2>3 DEF AccessInv, RuleInvs
<1> QED BY <1>1, <1>2, <1>3 DEF AccessNext

LEMMA AccessImplied ==
    ASSUME AccessInv PROVE AccessSound
<1>1. TokenFoundsOnce
 BY DEF AccessInv, TokenInv, TokenFoundsOnce
<1>2. RulesStayGranted
 <2> SUFFICES ASSUME AccessSettled, NEW i \in OwnedIds, Uncovered(i, rules[i]) PROVE FALSE
  BY DEF RulesStayGranted, Uncovered
 <2>1. PICK r \in HttpRequests : WillDrop(r, i, rules[i])
  BY DEF AccessInv, RuleInvs, MemoryInv
 <2> QED BY <2>1, IdleShape DEF AccessSettled, WillDrop
<1> QED BY <1>1, <1>2 DEF AccessSound

\* For every set of users, grants, scopes, rules and concurrent requests: once
\* no request is in progress, a plain user's rule in memory is covered by one
\* of its owner's grants unless a named race or a restart overtook the cascade
\* (delete_user, delete_grant, push_rule), and no setup token founds two
\* superadmins (onboard_first_superadmin).
THEOREM AccessCorrect == AccessSpec => []AccessSound
<1>1. AccessInit => AccessInv
 BY AccessInitially
<1>2. AccessInv /\ [AccessNext]_accessVars => AccessInv'
 BY AccessPreserved
<1>3. AccessInv => AccessSound
 BY AccessImplied
<1> QED BY <1>1, <1>2, <1>3, PTL DEF AccessSpec

----
(* Password login: the state's shape *)

PasswordRow == [version : Nat, change : BOOLEAN]
SessionRow == [user : Accounts, created : Nat, seen : Nat, revoked : BOOLEAN, rests : Nat, late : BOOLEAN]
AttemptRow == [failures : Nat, last : Nat, until : Nat]
TimedLogin == [at : {"verify", "fail", "clear"}, user : Accounts, now : Nat]
CreatingLogin == [at : {"create"}, user : Accounts, now : Nat, seen : Nat]
LoginState == [at : {"idle"}] \cup TimedLogin \cup CreatingLogin

WebAuthTypeOK ==
    /\ hour \in Nat /\ hour <= MaxHour
    /\ password \in [Accounts -> PasswordRow]
    /\ session \in [Cookies -> SessionRow \cup {NoSession}]
    /\ attempts \in [Accounts -> AttemptRow]
    /\ login \in [Logins -> LoginState]
    /\ selfChange \in Accounts \cup {NoSession}
    /\ evicted \in [Accounts -> Nat]

\* A login in progress arrived at most a hash ago.
Recent(q, now) == q.now <= now /\ now <= q.now + HashTime
LoginsRecent == \A l \in Logins : login[l].at # "idle" => Recent(login[l], hour)

\* A lock was set by a failure at the limit, and ends within the longest
\* lockout of that failure.
LockWellFormed(d) ==
    d.until # Never => d.failures >= LockAfter /\ d.last <= MaxHour /\ d.until <= d.last + MaxLockout
LocksWellFormed == \A u \in Accounts : LockWellFormed(attempts[u])

\* No password is newer than the one in force.
EvictedKnown == \A u \in Accounts : evicted[u] <= password[u].version

WebAuthInv == WebAuthTypeOK /\ LoginsRecent /\ LocksWellFormed /\ EvictedKnown /\ ResetEvicts

----
LEMMA WebAuthConstants ==
    /\ LockAfter \in Nat /\ Window \in Nat /\ Lockout \in Nat /\ MaxLockout \in Nat /\ HashTime \in Nat
    /\ MaxHour \in Nat /\ LockAfter > 0 /\ Lockout > 0
    /\ HashTime < Lockout /\ Lockout <= MaxLockout /\ MaxLockout <= Window
    /\ Never \in Nat /\ Never > MaxHour + MaxLockout
  BY WebAuthAssumption DEF Never

LEMMA LoginShape ==
    ASSUME WebAuthTypeOK, NEW l \in Logins
    PROVE  /\ login[l].at # "idle" => login[l].user \in Accounts /\ login[l].now \in Nat
           /\ login[l].at = "create" => login[l].seen \in Nat
<1>1. login[l] \in LoginState
 BY DEF WebAuthTypeOK
<1> QED BY <1>1 DEF LoginState, TimedLogin, CreatingLogin

\* The doubling table has no zero.
LEMMA ShiftedOne ==
    ASSUME NEW s \in 0..10 PROVE Shifted[s + 1] \in {1, 2, 4, 8, 16, 32, 64, 128, 256, 512, 1024}
<1>1. s \in {0, 1, 2, 3, 4, 5, 6, 7, 8, 9, 10}
 OBVIOUS
<1> QED BY <1>1 DEF Shifted

\* A lockout is never shorter than the first and never longer than the longest.
LEMMA LockoutBounds ==
    ASSUME NEW failures \in Nat, failures >= LockAfter
    PROVE  /\ LockoutFor(failures) \in Nat
           /\ Lockout <= LockoutFor(failures) /\ LockoutFor(failures) <= MaxLockout
<1> DEFINE s == Lesser(failures - LockAfter, 10)
           f == Shifted[s + 1]
<1>1. s \in 0..10
 BY WebAuthConstants DEF Lesser
<1>2. f \in {1, 2, 4, 8, 16, 32, 64, 128, 256, 512, 1024}
 BY <1>1, ShiftedOne
<1>3. LockoutFor(failures) = Lesser(Lockout * f, MaxLockout)
 BY DEF LockoutFor
<1> HIDE DEF f
<1>4. Lockout * f \in Nat /\ Lockout <= Lockout * f
 BY <1>2, WebAuthConstants
<1> QED BY <1>3, <1>4, WebAuthConstants DEF Lesser

\* What a failure leaves behind is well formed.
LEMMA FailureRecorded ==
    ASSUME NEW d \in AttemptRow, NEW now \in Nat, now <= MaxHour
    PROVE  RecordFailure(d, now) \in AttemptRow /\ LockWellFormed(RecordFailure(d, now))
<1> DEFINE n == FailuresAt(d, now)
           e == RecordFailure(d, now)
<1>1. n \in Nat
 BY DEF FailuresAt, AttemptRow
<1>2. /\ e.failures = n /\ e.last = now
      /\ e.until = IF n < LockAfter THEN Never ELSE now + LockoutFor(n)
      /\ e = [failures |-> e.failures, last |-> e.last, until |-> e.until]
 BY DEF RecordFailure
<1> HIDE DEF n, e
<1>3. CASE n < LockAfter
 <2>1. e.until = Never
  BY <1>2, <1>3
 <2>2. e \in AttemptRow
  BY <1>1, <1>2, <2>1, WebAuthConstants DEF AttemptRow
 <2> QED BY <2>1, <2>2 DEF LockWellFormed, e
<1>4. CASE ~(n < LockAfter)
 <2>1. n >= LockAfter /\ LockoutFor(n) \in Nat /\ LockoutFor(n) <= MaxLockout
  BY <1>1, <1>4, LockoutBounds, WebAuthConstants
 <2>2. e.until = now + LockoutFor(n)
  BY <1>2, <1>4
 <2>3. e.until \in Nat /\ e.until <= now + MaxLockout
  BY <2>1, <2>2, WebAuthConstants
 <2>4. e \in AttemptRow
  BY <1>1, <1>2, <2>3 DEF AttemptRow
 <2>5. LockWellFormed(e)
  BY <1>2, <2>1, <2>3 DEF LockWellFormed
 <2> QED BY <2>4, <2>5 DEF e
<1> QED BY <1>3, <1>4

\* A failure that was let in before the lock, and is recorded with the time it
\* arrived, extends the lock or leaves it, and never lifts it.
LEMMA LockKept ==
    ASSUME NEW d \in AttemptRow, NEW now \in Nat, NEW then \in Nat, LockWellFormed(d),
           IsLocked(d, now), then <= now, now <= then + HashTime, now <= MaxHour
    PROVE  IsLocked(RecordFailure(d, then), now)
<1> DEFINE n == FailuresAt(d, then)
           e == RecordFailure(d, then)
<1>1. d.failures \in Nat /\ d.last \in Nat /\ d.until \in Nat
 BY DEF AttemptRow
<1>2. /\ d.until # Never /\ d.until > now
      /\ d.failures >= LockAfter /\ d.last <= MaxHour /\ d.until <= d.last + MaxLockout
 BY DEF IsLocked, LockWellFormed
<1>3. ~Afresh(d, then)
 <2>1. d.until > then
  BY <1>1, <1>2
 <2>2. d.last + Window > then
  BY <1>1, <1>2, <2>1, WebAuthConstants
 <2> QED BY <1>1, <2>1, <2>2, WebAuthConstants DEF Afresh
<1>4. n \in Nat /\ n >= LockAfter
 BY <1>1, <1>2, <1>3, WebAuthConstants DEF FailuresAt
<1>5. LockoutFor(n) \in Nat /\ Lockout <= LockoutFor(n) /\ LockoutFor(n) <= MaxLockout
 BY <1>4, LockoutBounds
<1>6. e.until = IF n < LockAfter THEN Never ELSE then + LockoutFor(n)
 BY DEF RecordFailure
<1>7. e.until = then + LockoutFor(n)
 BY <1>4, <1>6, WebAuthConstants
<1> HIDE DEF e, n
<1>8. e.until > now /\ e.until # Never
 BY <1>5, <1>7, WebAuthConstants
<1> QED BY <1>8 DEF IsLocked, e

----
\* What a step leaves alone it leaves right.
LEMMA WebAuthKept ==
    ASSUME WebAuthInv
    PROVE  /\ UNCHANGED <<login, hour>> => LoginsRecent'
           /\ UNCHANGED attempts => LocksWellFormed'
           /\ UNCHANGED <<password, evicted>> => EvictedKnown'
           /\ UNCHANGED <<session, evicted>> => ResetEvicts'
  BY DEF WebAuthInv, LoginsRecent, Recent, LocksWellFormed, LockWellFormed, EvictedKnown,
   ResetEvicts, Open

\* One login moves, keeping the time at which it arrived, or goes.
LEMMA LoginMoves ==
    ASSUME WebAuthInv, NEW l \in Logins, NEW next \in LoginState, hour' = hour,
           login' = [login EXCEPT ![l] = next],
           next.at # "idle" => Recent(next, hour)
    PROVE  login' \in [Logins -> LoginState] /\ LoginsRecent'
<1>1. /\ login' \in [Logins -> LoginState]
      /\ login'[l] = next /\ \A o \in Logins : o # l => login'[o] = login[o]
 BY DEF WebAuthInv, WebAuthTypeOK
<1> QED BY <1>1 DEF WebAuthInv, LoginsRecent, Recent

\* A session that is used or revoked rests on the password it rested on.
LEMMA SessionTouched ==
    ASSUME WebAuthInv, NEW k \in Cookies, Open(k), NEW row \in SessionRow, UNCHANGED evicted,
           session' = [session EXCEPT ![k] = row],
           row.user = session[k].user /\ row.rests = session[k].rests /\ row.late = session[k].late
    PROVE  session' \in [Cookies -> SessionRow \cup {NoSession}] /\ ResetEvicts'
<1>1. /\ session' \in [Cookies -> SessionRow \cup {NoSession}]
      /\ session'[k] = row /\ \A o \in Cookies : o # k => session'[o] = session[o]
 BY DEF WebAuthInv, WebAuthTypeOK
<1> QED BY <1>1 DEF WebAuthInv, ResetEvicts, Open

LEMMA IdleLogin ==
    NoLogin \in LoginState /\ NoLogin.at = "idle"
  BY DEF NoLogin, LoginState

LEMMA WebAuthStep ==
    ASSUME WebAuthInv, WebAuthNext PROVE WebAuthInv'
<1> USE DEF WebAuthInv
<1>1. ASSUME NEW l \in Logins, NEW u \in Accounts, LoginArrives(l, u) PROVE WebAuthInv'
 <2> DEFINE next == [at |-> "verify", user |-> u, now |-> hour]
 <2>1. next \in LoginState /\ Recent(next, hour)
  BY WebAuthConstants DEF LoginState, TimedLogin, Recent, WebAuthTypeOK
 <2>2. /\ UNCHANGED <<hour, password, session, attempts, selfChange, evicted>>
       /\ login' = login \/ login' = [login EXCEPT ![l] = next]
  BY <1>1 DEF LoginArrives
 <2> HIDE DEF next
 <2>3. login' \in [Logins -> LoginState] /\ LoginsRecent'
  BY <2>1, <2>2, LoginMoves, WebAuthKept DEF WebAuthTypeOK
 <2>4. WebAuthTypeOK'
  BY <2>2, <2>3 DEF WebAuthTypeOK
 <2> QED BY <2>2, <2>3, <2>4, WebAuthKept
<1>2. ASSUME NEW l \in Logins, VerifyRight(l) PROVE WebAuthInv'
 <2> DEFINE next == [at |-> "create", user |-> login[l].user, now |-> login[l].now,
                     seen |-> password[login[l].user].version]
 <2>1. login[l].at = "verify" /\ login' = [login EXCEPT ![l] = next]
       /\ UNCHANGED <<hour, password, session, attempts, selfChange, evicted>>
  BY <1>2 DEF VerifyRight
 <2>2. login[l].user \in Accounts /\ login[l].now \in Nat /\ Recent(login[l], hour)
  BY <2>1, LoginShape DEF LoginsRecent
 <2>3. next \in LoginState /\ Recent(next, hour)
  BY <2>2 DEF LoginState, CreatingLogin, Recent, WebAuthTypeOK, PasswordRow
 <2> HIDE DEF next
 <2>4. login' \in [Logins -> LoginState] /\ LoginsRecent'
  BY <2>1, <2>3, LoginMoves
 <2>5. WebAuthTypeOK'
  BY <2>1, <2>4 DEF WebAuthTypeOK
 <2> QED BY <2>1, <2>4, <2>5, WebAuthKept
<1>3. ASSUME NEW l \in Logins, VerifyWrong(l) PROVE WebAuthInv'
 <2> DEFINE next == [at |-> "fail", user |-> login[l].user, now |-> login[l].now]
 <2>1. login[l].at = "verify" /\ login' = [login EXCEPT ![l] = next]
       /\ UNCHANGED <<hour, password, session, attempts, selfChange, evicted>>
  BY <1>3 DEF VerifyWrong
 <2>2. login[l].user \in Accounts /\ login[l].now \in Nat /\ Recent(login[l], hour)
  BY <2>1, LoginShape DEF LoginsRecent
 <2>3. next \in LoginState /\ Recent(next, hour)
  BY <2>2 DEF LoginState, TimedLogin, Recent
 <2> HIDE DEF next
 <2>4. login' \in [Logins -> LoginState] /\ LoginsRecent'
  BY <2>1, <2>3, LoginMoves
 <2>5. WebAuthTypeOK'
  BY <2>1, <2>4 DEF WebAuthTypeOK
 <2> QED BY <2>1, <2>4, <2>5, WebAuthKept
<1>4. ASSUME NEW l \in Logins, NEW k \in Cookies, CreateSession(l, k) PROVE WebAuthInv'
 <2> DEFINE q == login[l]
            next == [at |-> "clear", user |-> q.user, now |-> q.now]
            row == [user |-> q.user, created |-> q.now, seen |-> q.now, revoked |-> FALSE,
                    rests |-> q.seen, late |-> q.seen # password[q.user].version]
 <2>1. /\ q.at = "create" /\ login' = [login EXCEPT ![l] = next]
       /\ session' = [session EXCEPT ![k] = row]
       /\ UNCHANGED <<hour, password, attempts, selfChange, evicted>>
  BY <1>4 DEF CreateSession
 <2>2. q.user \in Accounts /\ q.now \in Nat /\ q.seen \in Nat /\ Recent(q, hour)
  BY <2>1, LoginShape DEF LoginsRecent
 <2>3. next \in LoginState /\ Recent(next, hour)
  BY <2>2 DEF LoginState, TimedLogin, Recent
 <2>4. row \in SessionRow /\ row.user = q.user
       /\ (row.late \/ row.rests = password[q.user].version)
  BY <2>2 DEF SessionRow
 <2> HIDE DEF next, row
 <2>5. login' \in [Logins -> LoginState] /\ LoginsRecent'
  BY <2>1, <2>3, LoginMoves
 <2>6. /\ session' \in [Cookies -> SessionRow \cup {NoSession}]
       /\ session'[k] = row /\ \A o \in Cookies : o # k => session'[o] = session[o]
  BY <2>1, <2>4 DEF WebAuthTypeOK
 <2>7. WebAuthTypeOK'
  BY <2>1, <2>5, <2>6 DEF WebAuthTypeOK
 <2>8. evicted[q.user] <= password[q.user].version
  BY <2>2 DEF EvictedKnown
 <2>9. password[q.user].version \in Nat /\ evicted[q.user] \in Nat
  BY <2>2 DEF WebAuthTypeOK, PasswordRow
 <2>10. row.late \/ row.rests >= evicted[row.user]
  BY <2>4, <2>8, <2>9
 <2>11. ResetEvicts'
  BY <2>1, <2>6, <2>10 DEF ResetEvicts, Open
 <2> QED BY <2>1, <2>5, <2>7, <2>11, WebAuthKept
<1>5. ASSUME NEW l \in Logins, NEW row \in AttemptRow, login[l].at # "idle", LockWellFormed(row),
             attempts' = [attempts EXCEPT ![login[l].user] = row],
             login' = [login EXCEPT ![l] = NoLogin],
             UNCHANGED <<hour, password, session, selfChange, evicted>>
      PROVE  WebAuthInv'
 <2> USE <1>5
 <2>1. login' \in [Logins -> LoginState] /\ LoginsRecent'
  BY LoginMoves, IdleLogin
 <2>2. /\ attempts' \in [Accounts -> AttemptRow]
       /\ \A u \in Accounts : attempts'[u] = row \/ attempts'[u] = attempts[u]
  BY LoginShape DEF WebAuthTypeOK
 <2>3. LocksWellFormed'
  BY <2>2 DEF LocksWellFormed, LockWellFormed
 <2>4. WebAuthTypeOK'
  BY <2>1, <2>2 DEF WebAuthTypeOK
 <2> QED BY <2>1, <2>3, <2>4, WebAuthKept
<1>6. ASSUME NEW l \in Logins, ClearAttempts(l) PROVE WebAuthInv'
 <2>1. ThrottleDefault \in AttemptRow /\ LockWellFormed(ThrottleDefault)
  BY WebAuthConstants DEF ThrottleDefault, AttemptRow, LockWellFormed
 <2> QED BY <1>5, <1>6, <2>1 DEF ClearAttempts
<1>7. ASSUME NEW l \in Logins, RecordAttempt(l) PROVE WebAuthInv'
 <2>1. login[l].at = "fail"
  BY <1>7 DEF RecordAttempt
 <2>2. login[l].user \in Accounts /\ login[l].now \in Nat /\ Recent(login[l], hour)
  BY <2>1, LoginShape DEF LoginsRecent
 <2>3. attempts[login[l].user] \in AttemptRow /\ hour \in Nat /\ hour <= MaxHour
  BY <2>2 DEF WebAuthTypeOK
 <2>4. login[l].now <= MaxHour
  BY <2>2, <2>3, WebAuthConstants DEF Recent
 <2> DEFINE row == RecordFailure(attempts[login[l].user], login[l].now)
 <2>5. row \in AttemptRow /\ LockWellFormed(row)
  BY <2>2, <2>3, <2>4, FailureRecorded
 <2> QED BY <1>5, <1>7, <2>1, <2>5 DEF RecordAttempt
<1>8. ASSUME NEW k \in Cookies, Open(k), session' = [session EXCEPT ![k] = Touched(session[k], hour)],
             selfChange' \in {selfChange, session[k].user},
             UNCHANGED <<hour, password, attempts, login, evicted>>
      PROVE  WebAuthInv'
 <2> DEFINE row == Touched(session[k], hour)
 <2> USE <1>8
 <2>1. session[k] \in SessionRow
  BY DEF Open, WebAuthTypeOK
 <2>2. /\ row \in SessionRow /\ row.user = session[k].user /\ row.rests = session[k].rests
       /\ row.late = session[k].late
  BY <2>1 DEF Touched, SessionRow, WebAuthTypeOK
 <2> HIDE DEF row
 <2>3. session' = [session EXCEPT ![k] = row]
  BY DEF row
 <2>4. session' \in [Cookies -> SessionRow \cup {NoSession}] /\ ResetEvicts'
  BY <2>2, <2>3, SessionTouched
 <2>5. selfChange' \in Accounts \cup {NoSession}
  BY <2>1 DEF WebAuthTypeOK, SessionRow
 <2>6. WebAuthTypeOK'
  BY <2>4, <2>5 DEF WebAuthTypeOK
 <2> QED BY <2>4, <2>6, WebAuthKept
<1>9. ASSUME NEW k \in Cookies, UseSession(k) \/ SelfVerify(k) PROVE WebAuthInv'
 BY <1>8, <1>9 DEF UseSession, SelfVerify
<1>10. ASSUME NEW k \in Cookies, Logout(k) PROVE WebAuthInv'
 <2> DEFINE row == [Touched(session[k], hour) EXCEPT !.revoked = TRUE]
 <2>1. Open(k) /\ UNCHANGED <<hour, password, attempts, login, selfChange, evicted>>
  BY <1>10 DEF Logout
 <2>2. session[k] \in SessionRow
  BY <2>1 DEF Open, WebAuthTypeOK
 <2>3. /\ row \in SessionRow /\ row.user = session[k].user /\ row.rests = session[k].rests
       /\ row.late = session[k].late
  BY <2>2 DEF Touched, SessionRow, WebAuthTypeOK
 <2> HIDE DEF row
 <2>4. session' = [session EXCEPT ![k] = row]
  BY <1>10 DEF Logout, row
 <2>5. session' \in [Cookies -> SessionRow \cup {NoSession}] /\ ResetEvicts'
  BY <2>1, <2>3, <2>4, SessionTouched
 <2>6. WebAuthTypeOK'
  BY <2>1, <2>5 DEF WebAuthTypeOK
 <2> QED BY <2>1, <2>5, <2>6, WebAuthKept
<1>11. ASSUME NEW u \in Accounts, NEW must \in BOOLEAN, AdminReset(u, must) PROVE WebAuthInv'
 <2>1. /\ password' = [password EXCEPT ![u] = [version |-> password[u].version + 1, change |-> must]]
       /\ session' = RevokeAll(u)
       /\ evicted' = [evicted EXCEPT ![u] = password[u].version + 1]
       /\ UNCHANGED <<hour, attempts, login, selfChange>>
  BY <1>11 DEF AdminReset
 <2>2. \A v \in Accounts : password[v].version \in Nat /\ evicted[v] \in Nat
  BY DEF WebAuthTypeOK, PasswordRow
 <2>3. /\ password' \in [Accounts -> PasswordRow]
       /\ \A v \in Accounts : password'[v].version = IF v = u THEN password[u].version + 1
                                                     ELSE password[v].version
  BY <2>1, <2>2 DEF WebAuthTypeOK, PasswordRow
 <2>4. /\ evicted' \in [Accounts -> Nat]
       /\ \A v \in Accounts : evicted'[v] = IF v = u THEN password[u].version + 1 ELSE evicted[v]
  BY <2>1, <2>2 DEF WebAuthTypeOK
 <2>5. \A k \in Cookies : session[k] # NoSession => session[k] \in SessionRow
  BY DEF WebAuthTypeOK
 <2>6. \A k \in Cookies : session'[k] = IF session[k] # NoSession /\ session[k].user = u
                                        THEN [session[k] EXCEPT !.revoked = TRUE] ELSE session[k]
  BY <2>1 DEF RevokeAll
 <2>7. \A s \in SessionRow : [s EXCEPT !.revoked = TRUE] \in SessionRow /\ [s EXCEPT !.revoked = TRUE].revoked
  BY DEF SessionRow
 <2>8. session' \in [Cookies -> SessionRow \cup {NoSession}]
  BY <2>1, <2>5, <2>7 DEF RevokeAll, WebAuthTypeOK
 <2>9. \A k \in Cookies : session'[k] # NoSession /\ ~session'[k].revoked =>
           session'[k] = session[k] /\ session[k] # NoSession /\ session[k].user # u
             /\ session[k].user \in Accounts
  BY <2>5, <2>6, <2>7 DEF SessionRow
 <2>10. ResetEvicts'
  BY <2>4, <2>9 DEF ResetEvicts, Open
 <2>11. EvictedKnown'
  BY <2>2, <2>3, <2>4 DEF EvictedKnown
 <2>12. WebAuthTypeOK'
  BY <2>1, <2>3, <2>4, <2>8 DEF WebAuthTypeOK
 <2> QED BY <2>1, <2>10, <2>11, <2>12, WebAuthKept
<1>12. ASSUME SelfStore PROVE WebAuthInv'
 <2> DEFINE u == selfChange
 <2>1. /\ u \in Accounts /\ selfChange' = NoSession
       /\ password' = [password EXCEPT ![u] = [version |-> password[u].version + 1, change |-> FALSE]]
       /\ UNCHANGED <<hour, session, attempts, login, evicted>>
  BY <1>12 DEF SelfStore, WebAuthTypeOK
 <2>2. \A v \in Accounts : password[v].version \in Nat /\ evicted[v] \in Nat
  BY DEF WebAuthTypeOK, PasswordRow
 <2> HIDE DEF u
 <2>3. /\ password' \in [Accounts -> PasswordRow]
       /\ \A v \in Accounts : password'[v].version = IF v = u THEN password[u].version + 1
                                                     ELSE password[v].version
  BY <2>1, <2>2 DEF WebAuthTypeOK, PasswordRow
 <2>4. EvictedKnown'
  BY <2>1, <2>2, <2>3 DEF EvictedKnown
 <2>5. WebAuthTypeOK'
  BY <2>1, <2>3 DEF WebAuthTypeOK
 <2> QED BY <2>1, <2>4, <2>5, WebAuthKept
<1>13. ASSUME AnHourPasses PROVE WebAuthInv'
 <2>1. /\ UNCHANGED <<password, session, attempts, login, selfChange, evicted>>
       /\ hour < MaxHour /\ hour' = hour + 1
       /\ \A l \in Logins : login[l] # NoLogin => hour < login[l].now + HashTime
  BY <1>13 DEF AnHourPasses
 <2> USE <2>1
 <2>2. WebAuthTypeOK'
  BY WebAuthConstants DEF WebAuthTypeOK
 <2>3. LoginsRecent'
  <3> SUFFICES ASSUME NEW l \in Logins, login[l].at # "idle"
               PROVE  login[l].now <= hour' /\ hour' <= login[l].now + HashTime
   BY DEF LoginsRecent, Recent
  <3>1. hour < login[l].now + HashTime
   BY IdleLogin
  <3>2. login[l].now \in Nat /\ login[l].now <= hour /\ hour \in Nat
   BY LoginShape DEF LoginsRecent, Recent, WebAuthTypeOK
  <3> QED BY <3>1, <3>2, WebAuthConstants
 <2> QED BY <2>2, <2>3, WebAuthKept
<1> QED BY <1>1, <1>2, <1>3, <1>4, <1>6, <1>7, <1>9, <1>10, <1>11, <1>12, <1>13 DEF WebAuthNext

\* One step never lifts a lock, except for a login that had the right password.
LEMMA LockStep ==
    ASSUME WebAuthInv, WebAuthNext, NEW u \in Accounts, IsLocked(attempts[u], hour), hour' = hour,
           \A l \in Logins : ~(login[l].at = "clear" /\ login[l].user = u)
    PROVE  IsLocked(attempts'[u], hour)
<1>1. ASSUME NEW l \in Logins, RecordAttempt(l) PROVE IsLocked(attempts'[u], hour)
 <2>1. /\ login[l].at = "fail"
       /\ attempts' = [attempts EXCEPT ![login[l].user] =
                           RecordFailure(attempts[login[l].user], login[l].now)]
  BY <1>1 DEF RecordAttempt
 <2>2. /\ attempts[u] \in AttemptRow /\ hour \in Nat /\ hour <= MaxHour /\ LockWellFormed(attempts[u])
       /\ login[l].now \in Nat /\ login[l].now <= hour /\ hour <= login[l].now + HashTime
  BY <2>1, LoginShape DEF WebAuthInv, WebAuthTypeOK, LocksWellFormed, LoginsRecent, Recent
 <2>3. IsLocked(RecordFailure(attempts[u], login[l].now), hour)
  BY <2>2, LockKept
 <2>4. attempts'[u] = attempts[u] \/ attempts'[u] = RecordFailure(attempts[u], login[l].now)
  BY <2>1 DEF WebAuthInv, WebAuthTypeOK
 <2> QED BY <2>3, <2>4
<1>2. ASSUME NEW l \in Logins, ClearAttempts(l) PROVE IsLocked(attempts'[u], hour)
 <2>1. attempts'[u] = attempts[u]
  BY <1>2 DEF ClearAttempts, WebAuthInv, WebAuthTypeOK
 <2> QED BY <2>1
<1>3. attempts' = attempts \/ \E l \in Logins : RecordAttempt(l) \/ ClearAttempts(l)
 BY DEF WebAuthNext, LoginArrives, VerifyRight, VerifyWrong, CreateSession, UseSession, Logout,
  SelfVerify, AdminReset, SelfStore, AnHourPasses
<1> QED BY <1>1, <1>2, <1>3

LEMMA WebAuthInitially ==
    ASSUME WebAuthInit PROVE WebAuthInv
<1>1. ThrottleDefault \in AttemptRow /\ LockWellFormed(ThrottleDefault)
 BY WebAuthConstants DEF ThrottleDefault, AttemptRow, LockWellFormed
<1> USE DEF WebAuthInit
<1>2. WebAuthTypeOK
 BY <1>1, IdleLogin, WebAuthConstants DEF WebAuthTypeOK, PasswordRow
<1>3. LoginsRecent /\ LocksWellFormed
 BY <1>1, IdleLogin DEF LoginsRecent, LocksWellFormed
<1>4. EvictedKnown /\ ResetEvicts
 BY DEF EvictedKnown, ResetEvicts, Open
<1> QED BY <1>2, <1>3, <1>4 DEF WebAuthInv

\* For every number of accounts, logins and sessions and every length of the
\* timeouts the code's constants allow: a session that survives a password
\* reset was being created by a login that had already compared the old
\* password (reset_password_state, create_web_session), and no failure of a
\* login that was let in earlier lifts a lock (ThrottleDecision::record_failure).
THEOREM WebAuthCorrect == WebAuthSpec => WebAuthSound
<1>1. WebAuthInit => WebAuthInv
 BY WebAuthInitially
<1>2. WebAuthInv /\ [WebAuthNext]_webAuthVars => WebAuthInv'
 <2>1. WebAuthInv /\ UNCHANGED webAuthVars => WebAuthInv'
  BY WebAuthKept DEF webAuthVars, WebAuthInv, WebAuthTypeOK
 <2> QED BY <2>1, WebAuthStep
<1>3. WebAuthInv /\ [WebAuthNext]_webAuthVars =>
          [\A u \in Accounts : IsLocked(attempts[u], hour) /\ hour' = hour =>
              \/ IsLocked(attempts'[u], hour)
              \/ \E l \in Logins : login[l].at = "clear" /\ login[l].user = u]_webAuthVars
 BY LockStep
<1>4. WebAuthInv => ResetEvicts
 BY DEF WebAuthInv
<1> QED BY <1>1, <1>2, <1>3, <1>4, PTL DEF WebAuthSpec, WebAuthSound, LockHolds

----
(* The data directory: the state's shape *)

FileState == [sqlite : BOOLEAN, schema : Nat, rows : SUBSET Int]
CommandName == {"none", "serve", "bootstrap", "offline", "restore", "force", "reset"}
ProcStage == {"off", "check", "sidecars", "unlink", "copy", "lock", "rollback", "flock", "schema",
              "tls", "cert", "key", "marker", "up"}
ProcState == [cmd : CommandName, at : ProcStage, version : Nat, host : Hosts \cup {NoHost}, lock : Nat,
              db : Nat, pair : Nat, control : BOOLEAN, artefact : FileState, alone : BOOLEAN]

DirTypeOK ==
    /\ dbName \in Nat /\ inodes \in Nat /\ dbName <= inodes /\ inodes <= MaxInodes
    /\ lockName \in Nat
    /\ disk \in [1..MaxInodes -> FileState]
    /\ tls \in [cert : Nat, key : Nat, marker : Hosts \cup {NoHost, "absent"}] /\ pairs \in Nat
    /\ proc \in [Procs -> ProcState]
    /\ wrote \in Nat
    /\ kept \in SUBSET Int /\ meddled \in BOOLEAN /\ torn \in BOOLEAN

\* What a process has open at each stage.
Shaped(s) ==
    /\ s.at \in {"off", "check", "sidecars", "unlink", "copy", "lock", "rollback"} => s.lock = 0 /\ s.db = 0
    /\ s.at \in {"flock", "schema"} => s.lock # 0 /\ s.db = 0
    /\ s.at \in {"tls", "cert", "key", "marker"} =>
          \/ s.cmd = "serve" /\ s.lock # 0
          \/ s.cmd = "offline" /\ s.lock = 0 /\ s.db = 0
    /\ s.at = "tls" /\ s.cmd = "offline" => s.host = NoHost
    /\ s.at = "up" => s.lock # 0
AllShaped == \A p \in Procs : Shaped(proc[p])

\* A command that is marked alone is; its target is gone when it copies.
AloneInv == \A p \in Procs : proc[p].at # "off" /\ proc[p].alone => \A q \in Procs : q # p => proc[q].at = "off"
CopyInv == \A p \in Procs : proc[p].at = "copy" /\ proc[p].alone => dbName = 0

\* The flock: one sentinel, one holder.
HoldsLock(s) == s.lock # 0 /\ s.at \notin {"off", "flock"}
OneSentinel == \A p \in Procs : proc[p].lock \in {0, lockName}
OneHolder == \A p, q \in Procs : HoldsLock(proc[p]) /\ HoldsLock(proc[q]) => p = q
OpenCurrent == \A p \in Procs : proc[p].db # 0 =>
    proc[p].db = dbName /\ disk[dbName].schema = proc[p].version
FilesInv == ~meddled => OneSentinel /\ OneHolder /\ OpenCurrent /\ NothingLost

\* The TLS pair while one process at a time writes it.
WritesPair(s) == s.at \in {"cert", "key", "marker"}
OneWriter == \A p, q \in Procs : WritesPair(proc[p]) /\ WritesPair(proc[q]) => p = q
WholePair == (\A p \in Procs : ~WritesPair(proc[p])) => tls.cert = tls.key
HalfPair == \A p \in Procs :
    /\ proc[p].at = "cert" => tls.cert = tls.key /\ (proc[p].cmd = "offline" => tls.key = 0)
    /\ proc[p].at = "key" => tls.cert = proc[p].pair /\ (proc[p].cmd = "offline" => tls.key = 0)
    /\ proc[p].at = "marker" => tls.cert = proc[p].pair /\ tls.key = proc[p].pair
PairInv == ~torn => OneWriter /\ WholePair /\ HalfPair

ControlInv == ~meddled /\ ~torn => ControlServed

DirInv == DirTypeOK /\ AllShaped /\ AloneInv /\ CopyInv /\ FilesInv /\ PairInv /\ ControlInv

----
LEMMA EmptyFile == Empty \in FileState /\ Empty.sqlite /\ Empty.schema = 0 /\ Empty.rows = {}
  BY DEF Empty, FileState

LEMMA OffShape ==
    /\ Off \in ProcState /\ Shaped(Off)
    /\ Off.at = "off" /\ Off.lock = 0 /\ Off.db = 0 /\ Off.pair = 0 /\ ~Off.control /\ ~Off.alone
  BY EmptyFile DEF Off, ProcState, Shaped, CommandName, ProcStage

LEMMA OpenHolds ==
    ASSUME NEW s \in ProcState, Shaped(s), s.db # 0
    PROVE  HoldsLock(s) /\ s.at \in {"tls", "cert", "key", "marker", "up"}
<1>1. s.at \in ProcStage
 BY DEF ProcState
<1> QED BY <1>1, OffShape DEF Shaped, HoldsLock, ProcStage

LEMMA ProcMoves ==
    ASSUME DirTypeOK, AllShaped, NEW p \in Procs, NEW next \in ProcState, Shaped(next), Becomes(p, next)
    PROVE  /\ proc' \in [Procs -> ProcState]
           /\ proc'[p] = next /\ \A q \in Procs : q # p => proc'[q] = proc[q]
           /\ AllShaped'
<1>1. /\ proc' \in [Procs -> ProcState]
      /\ proc'[p] = next /\ \A q \in Procs : q # p => proc'[q] = proc[q]
 BY DEF DirTypeOK, Becomes
<1> QED BY <1>1 DEF AllShaped

\* A step of one process that does not become alone and does not end up
\* copying over a database.
LEMMA AloneKept ==
    ASSUME DirInv, NEW p \in Procs, NEW next, proc[p].at # "off",
           proc'[p] = next, \A q \in Procs : q # p => proc'[q] = proc[q],
           next.at # "off" => next.alone = proc[p].alone,
           next.at = "copy" /\ next.alone => dbName' = 0
    PROVE  AloneInv' /\ CopyInv'
<1>1. ASSUME NEW q \in Procs, proc'[q].at # "off", proc'[q].alone
      PROVE  (\A o \in Procs : o # q => proc'[o].at = "off") /\ (proc'[q].at = "copy" => dbName' = 0)
 <2>1. CASE q = p
  BY <1>1, <2>1 DEF DirInv, AloneInv
 <2>2. CASE q # p
  <3>1. proc[q].at # "off" /\ proc[q].alone
   BY <1>1, <2>2
  <3>2. proc[p].at = "off"
   BY <2>2, <3>1 DEF DirInv, AloneInv
  <3> QED BY <3>2, OffShape
 <2> QED BY <2>1, <2>2
<1> QED BY <1>1 DEF AloneInv, CopyInv

----
(* Files *)

\* A process in state n has no more open than it had in state s.
Fewer(n, s) ==
    /\ n.lock \in {0, s.lock} /\ n.db \in {0, s.db}
    /\ n.db # 0 => n.version = s.version
    /\ HoldsLock(n) => HoldsLock(s)

LEMMA FilesKept ==
    ASSUME DirInv, UNCHANGED <<fileVars, kept, meddled>>,
           \A q \in Procs : Fewer(proc'[q], proc[q])
    PROVE  FilesInv'
<1> SUFFICES ASSUME ~meddled PROVE OneSentinel' /\ OneHolder' /\ OpenCurrent' /\ NothingLost'
 BY DEF FilesInv
<1>1. OneSentinel /\ OneHolder /\ OpenCurrent /\ NothingLost
 BY DEF DirInv, FilesInv
<1>2. OneSentinel'
 BY <1>1 DEF OneSentinel, Fewer, fileVars
<1>3. OneHolder'
 BY <1>1 DEF OneHolder, Fewer
<1>4. OpenCurrent'
 BY <1>1 DEF OpenCurrent, Fewer, fileVars
<1>5. NothingLost'
 BY <1>1 DEF NothingLost, fileVars
<1> QED BY <1>2, <1>3, <1>4, <1>5

\* restore and reset: what they do to the files they do alone, or it counts.
LEMMA FilesMeddled ==
    ASSUME DirInv, NEW p \in Procs, proc[p].at # "off", Meddles(p), NEW next, proc'[p] = next,
           \A q \in Procs : q # p => proc'[q] = proc[q], next.lock = 0, next.db = 0,
           ~meddled /\ proc[p].alone => NothingLost'
    PROVE  FilesInv'
<1> SUFFICES ASSUME ~meddled' PROVE OneSentinel' /\ OneHolder' /\ OpenCurrent' /\ NothingLost'
 BY DEF FilesInv
<1>1. ~meddled /\ proc[p].alone
 BY DEF Meddles, DirInv, DirTypeOK
<1>2. \A q \in Procs : q # p => proc'[q] = proc[q] /\ proc[q].at = "off"
 BY <1>1 DEF DirInv, AloneInv
<1>3. \A q \in Procs : proc'[q].lock = 0 /\ proc'[q].db = 0
 BY <1>2 DEF DirInv, AllShaped, Shaped
<1> QED BY <1>1, <1>3 DEF OneSentinel, OneHolder, HoldsLock, OpenCurrent

----
(* The TLS pair *)

SameWriter(n, s) ==
    /\ WritesPair(n) <=> WritesPair(s)
    /\ WritesPair(s) => n.at = s.at /\ n.pair = s.pair /\ n.cmd = s.cmd

LEMMA PairKept ==
    ASSUME DirInv, UNCHANGED <<tls, torn>>, \A q \in Procs : SameWriter(proc'[q], proc[q])
    PROVE  PairInv'
<1> SUFFICES ASSUME ~torn PROVE OneWriter' /\ WholePair' /\ HalfPair'
 BY DEF PairInv
<1>1. OneWriter /\ WholePair /\ HalfPair
 BY DEF DirInv, PairInv
<1>2. OneWriter' /\ WholePair'
 BY <1>1 DEF OneWriter, WholePair, SameWriter
<1>3. HalfPair'
 BY <1>1 DEF HalfPair, SameWriter, WritesPair
<1> QED BY <1>2, <1>3

\* A server that is up keeps the control plane it has.
LEMMA ControlKept ==
    ASSUME DirInv, meddled => meddled', torn => torn',
           \A q \in Procs : proc'[q].at = "up" /\ proc'[q].cmd = "serve" =>
              proc'[q].control \/ (proc[q].at = "up" /\ proc[q].cmd = "serve" /\ (proc[q].control => proc'[q].control))
    PROVE  ControlInv'
  BY DEF DirInv, ControlInv, ControlServed, Up

----
(* One lemma per action *)

LEMMA LaunchOk ==
    ASSUME DirInv, NEW p \in Procs, NEW cmd \in CommandName, NEW version \in Nat,
           NEW host \in Hosts \cup {NoHost}, NEW artefact \in FileState, cmd = "offline" => host = NoHost,
           Launch(p, cmd, version, host, artefact)
    PROVE  DirInv'
<1> DEFINE at == CASE cmd \in {"serve", "bootstrap"} -> "lock" [] cmd = "offline" -> "tls" [] OTHER -> "check"
           first == [Off EXCEPT !.cmd = cmd, !.version = version, !.host = host, !.artefact = artefact,
                                !.alone = (Others(p) = {}), !.at = at]
<1>1. /\ UNCHANGED <<fileVars, tlsVars, wrote, kept, meddled, torn>> /\ proc[p] = Off
      /\ proc' = [q \in Procs |-> IF q = p THEN first ELSE [proc[q] EXCEPT !.alone = FALSE]]
 BY DEF Launch
<1>2. at \in {"lock", "tls", "check"} /\ (at = "tls" => cmd = "offline")
 OBVIOUS
<1> HIDE DEF at
<1>3. /\ first \in ProcState /\ first.at = at /\ first.cmd = cmd /\ first.lock = 0 /\ first.db = 0
      /\ first.alone = (Others(p) = {}) /\ first.host = host
 BY <1>2, OffShape DEF ProcState, ProcStage, Off
<1>4. Shaped(first)
 BY <1>2, <1>3 DEF Shaped
<1> HIDE DEF first
<1>5. \A q \in Procs : proc[q] \in ProcState /\ Shaped(proc[q])
 BY DEF DirInv, DirTypeOK, AllShaped
<1>6. ASSUME NEW s \in ProcState, NEW n, n = [s EXCEPT !.alone = FALSE]
      PROVE  /\ n \in ProcState /\ n.at = s.at /\ n.cmd = s.cmd /\ n.lock = s.lock /\ n.db = s.db
             /\ n.pair = s.pair /\ n.control = s.control /\ n.version = s.version /\ ~n.alone
             /\ n.host = s.host
 BY <1>6 DEF ProcState
<1>7. \A q \in Procs : q # p =>
          /\ proc'[q] \in ProcState /\ proc'[q].at = proc[q].at /\ proc'[q].cmd = proc[q].cmd
          /\ proc'[q].lock = proc[q].lock /\ proc'[q].db = proc[q].db /\ proc'[q].pair = proc[q].pair
          /\ proc'[q].control = proc[q].control /\ proc'[q].version = proc[q].version
          /\ ~proc'[q].alone /\ proc'[q].host = proc[q].host
 BY <1>1, <1>5, <1>6
<1>8. proc'[p] = first
 BY <1>1
<1>9. proc' \in [Procs -> ProcState]
 BY <1>1, <1>3, <1>5, <1>6
<1>10. AllShaped'
 BY <1>4, <1>5, <1>7, <1>8 DEF AllShaped, Shaped
<1>11. DirTypeOK'
 BY <1>1, <1>9 DEF DirInv, DirTypeOK, fileVars, tlsVars
<1>12. AloneInv' /\ CopyInv'
 <2>1. first.alone => \A q \in Procs : q # p => proc'[q].at = "off"
  BY <1>3, <1>7 DEF Others
 <2>2. first.at # "copy"
  BY <1>2, <1>3
 <2> QED BY <1>7, <1>8, <2>1, <2>2 DEF AloneInv, CopyInv
<1> USE <1>1
<1>13. FilesInv'
 <2>1. \A q \in Procs : Fewer(proc'[q], proc[q])
  BY <1>3, <1>7, <1>8, OffShape DEF Fewer, HoldsLock
 <2> QED BY <2>1, FilesKept
<1>14. PairInv'
 <2>1. \A q \in Procs : SameWriter(proc'[q], proc[q])
  BY <1>2, <1>3, <1>7, <1>8, OffShape DEF SameWriter, WritesPair
 <2> QED BY <2>1, PairKept DEF tlsVars
<1>15. ControlInv'
 BY <1>2, <1>3, <1>7, <1>8, ControlKept
<1> QED BY <1>10, <1>11, <1>12, <1>13, <1>14, <1>15 DEF DirInv

LEMMA Unmoved ==
    ASSUME NEW s PROVE Fewer(s, s) /\ SameWriter(s, s)
  BY DEF Fewer, SameWriter

LEMMA ProcTyped ==
    ASSUME DirInv, NEW p \in Procs
    PROVE  /\ proc[p] \in ProcState /\ Shaped(proc[p])
           /\ proc[p].lock \in Nat /\ proc[p].db \in Nat /\ proc[p].pair \in Nat /\ proc[p].version \in Nat
           /\ proc[p].artefact \in FileState /\ proc[p].at \in ProcStage /\ proc[p].cmd \in CommandName
           /\ proc[p].host \in Hosts \cup {NoHost}
<1>1. proc[p] \in ProcState /\ Shaped(proc[p])
 BY DEF DirInv, DirTypeOK, AllShaped
<1> QED BY <1>1 DEF ProcState

\* A step that touches neither the files nor the TLS pair.
LEMMA QuietStep ==
    ASSUME DirInv, NEW p \in Procs, NEW next \in ProcState, Shaped(next), Becomes(p, next),
           proc[p].at # "off", UNCHANGED <<fileVars, tlsVars, wrote, kept, meddled, torn>>,
           next.at # "off" => next.alone = proc[p].alone,
           next.at = "copy" /\ next.alone => dbName = 0,
           Fewer(next, proc[p]), SameWriter(next, proc[p]),
           ~meddled /\ ~torn /\ next.at = "up" /\ next.cmd = "serve" => next.control
    PROVE  DirInv'
<1>1. /\ proc' \in [Procs -> ProcState] /\ AllShaped'
      /\ proc'[p] = next /\ \A q \in Procs : q # p => proc'[q] = proc[q]
 BY ProcMoves DEF DirInv
<1>2. DirTypeOK'
 BY <1>1 DEF DirInv, DirTypeOK, fileVars, tlsVars
<1>3. AloneInv' /\ CopyInv'
 <2>1. next.at = "copy" /\ next.alone => dbName' = 0
  BY DEF fileVars
 <2> QED BY <1>1, <2>1, AloneKept
<1>4. FilesInv'
 <2>1. \A q \in Procs : Fewer(proc'[q], proc[q])
  BY <1>1, Unmoved
 <2> QED BY <2>1, FilesKept
<1>5. PairInv'
 <2>1. \A q \in Procs : SameWriter(proc'[q], proc[q])
  BY <1>1, Unmoved
 <2> QED BY <2>1, PairKept DEF tlsVars
<1>6. ControlInv'
 BY <1>1 DEF DirInv, ControlInv, ControlServed, Up
<1> QED BY <1>1, <1>2, <1>3, <1>4, <1>5, <1>6 DEF DirInv

LEMMA EndsOk ==
    ASSUME DirInv, NEW p \in Procs, Ends(p) PROVE DirInv'
<1>1. /\ proc[p].at # "off" /\ Becomes(p, Off) /\ torn' = (torn \/ Generating(p))
      /\ UNCHANGED <<fileVars, tlsVars, wrote, kept, meddled>>
 BY DEF Ends, boundVars
<1>2. Fewer(Off, proc[p])
 BY OffShape DEF Fewer, HoldsLock
<1> USE <1>1
<1>3. CASE ~Generating(p)
 <2>1. SameWriter(Off, proc[p]) /\ torn' = torn
  BY <1>3, OffShape DEF SameWriter, WritesPair, Generating, DirInv, DirTypeOK
 <2> QED BY <1>2, <2>1, QuietStep, OffShape
<1>4. CASE Generating(p)
 <2>1. torn'
  BY <1>4
 <2>2. /\ proc' \in [Procs -> ProcState] /\ AllShaped'
       /\ proc'[p] = Off /\ \A q \in Procs : q # p => proc'[q] = proc[q]
  BY ProcMoves, OffShape DEF DirInv
 <2>3. DirTypeOK'
  BY <2>1, <2>2 DEF DirInv, DirTypeOK, fileVars, tlsVars
 <2>4. AloneInv' /\ CopyInv'
  BY <2>2, AloneKept, OffShape
 <2>5. \A q \in Procs : Fewer(proc'[q], proc[q])
  BY <1>2, <2>2, Unmoved
 <2>6. FilesInv'
  BY <2>5, FilesKept
 <2> QED BY <2>1, <2>2, <2>3, <2>4, <2>6 DEF DirInv, PairInv, ControlInv
<1> QED BY <1>3, <1>4

LEMMA ChecksOk ==
    ASSUME DirInv, NEW p \in Procs, RestoreCheck(p) \/ ResetCheck(p) PROVE DirInv'
<1>1. /\ proc[p].at = "check" /\ UNCHANGED <<fileVars, tlsVars, wrote, kept, meddled, torn>>
      /\ \/ Becomes(p, Off)
         \/ \E at \in {"sidecars", "copy", "unlink"} :
              Becomes(p, [proc[p] EXCEPT !.at = at]) /\ (at = "copy" => dbName = 0)
 <2>1. CASE RestoreCheck(p)
  <3> USE <2>1 DEF RestoreCheck
  <3>1. proc[p].cmd \in {"restore", "force"}
   OBVIOUS
  <3>2. CASE proc[p].cmd = "force"
   BY <3>2 DEF boundVars
  <3>3. CASE proc[p].cmd = "restore"
   BY <3>3 DEF boundVars
  <3> QED BY <3>1, <3>2, <3>3
 <2>2. CASE ResetCheck(p)
  BY <2>2 DEF ResetCheck, boundVars
 <2> QED BY <2>1, <2>2
<1> USE <1>1
<1>2. CASE Becomes(p, Off)
 <2>1. Fewer(Off, proc[p]) /\ SameWriter(Off, proc[p])
  BY OffShape DEF Fewer, HoldsLock, SameWriter, WritesPair
 <2> QED BY <1>2, <2>1, QuietStep, OffShape
<1>3. ASSUME NEW at \in {"sidecars", "copy", "unlink"}, Becomes(p, [proc[p] EXCEPT !.at = at]),
             at = "copy" => dbName = 0
      PROVE  DirInv'
 <2> DEFINE next == [proc[p] EXCEPT !.at = at]
 <2>1. /\ next \in ProcState /\ next.at = at /\ next.cmd = proc[p].cmd /\ next.lock = proc[p].lock
       /\ next.db = proc[p].db /\ next.version = proc[p].version /\ next.alone = proc[p].alone
  BY ProcTyped DEF ProcState, ProcStage
 <2>2. Becomes(p, next)
  BY <1>3
 <2> HIDE DEF next
 <2>3. proc[p].lock = 0 /\ proc[p].db = 0
  BY ProcTyped DEF Shaped
 <2>4. Shaped(next) /\ Fewer(next, proc[p]) /\ SameWriter(next, proc[p])
  BY <2>1, <2>3 DEF Shaped, Fewer, HoldsLock, SameWriter, WritesPair
 <2> QED BY <1>3, <2>1, <2>2, <2>4, QuietStep
<1> QED BY <1>2, <1>3

LEMMA SentinelOk ==
    ASSUME DirInv, NEW p \in Procs, OpenSentinel(p) PROVE DirInv'
<1> DEFINE next == [proc[p] EXCEPT !.at = "flock", !.lock = lockName']
<1>1. /\ proc[p].at = "lock" /\ Becomes(p, next)
      /\ UNCHANGED <<dbName, disk, tlsVars, wrote, kept, meddled, torn>>
      /\ \/ lockName = 0 /\ inodes < MaxInodes /\ inodes' = inodes + 1 /\ lockName' = inodes + 1
         \/ lockName # 0 /\ UNCHANGED <<inodes, lockName>>
 BY DEF OpenSentinel, boundVars
<1>2. /\ lockName' \in Nat /\ lockName' # 0 /\ inodes' \in Nat /\ inodes' <= MaxInodes /\ dbName <= inodes'
 BY <1>1, DirectoryAssumption DEF DirInv, DirTypeOK
<1>3. /\ next \in ProcState /\ next.at = "flock" /\ next.lock = lockName' /\ next.db = proc[p].db
      /\ next.alone = proc[p].alone /\ next.cmd = proc[p].cmd
 BY <1>2, ProcTyped DEF ProcState, ProcStage
<1>4. proc[p].lock = 0 /\ proc[p].db = 0
 BY <1>1, ProcTyped DEF Shaped
<1> HIDE DEF next
<1>5. Shaped(next)
 BY <1>2, <1>3, <1>4 DEF Shaped
<1>6. /\ proc' \in [Procs -> ProcState] /\ AllShaped'
      /\ proc'[p] = next /\ \A q \in Procs : q # p => proc'[q] = proc[q]
 BY <1>1, <1>3, <1>5, ProcMoves DEF DirInv
<1>7. DirTypeOK'
 BY <1>1, <1>2, <1>6 DEF DirInv, DirTypeOK, tlsVars
<1>8. AloneInv' /\ CopyInv'
 BY <1>1, <1>3, <1>6, AloneKept
<1>9. FilesInv'
 <2> SUFFICES ASSUME ~meddled PROVE OneSentinel' /\ OneHolder' /\ OpenCurrent' /\ NothingLost'
  BY <1>1 DEF FilesInv
 <2>1. OneSentinel /\ OneHolder /\ OpenCurrent /\ NothingLost
  BY DEF DirInv, FilesInv
 <2> USE <1>3, <1>6, <2>1
 <2>2. OneSentinel'
  BY <1>1 DEF OneSentinel
 <2>3. OneHolder'
  BY DEF OneHolder, HoldsLock
 <2>4. OpenCurrent' /\ NothingLost'
  BY <1>1, <1>4 DEF OpenCurrent, NothingLost
 <2> QED BY <2>2, <2>3, <2>4
<1> USE <1>1, <1>6
<1>10. PairInv'
 <2>1. \A q \in Procs : SameWriter(proc'[q], proc[q])
  BY <1>3, Unmoved DEF SameWriter, WritesPair
 <2> QED BY <2>1, PairKept DEF tlsVars
<1>11. ControlInv'
 BY <1>3, ControlKept
<1> QED BY <1>7, <1>8, <1>9, <1>10, <1>11 DEF DirInv

\* What a refused opener turns into.
LEMMA RefusedShape ==
    ASSUME DirInv, NEW p \in Procs, proc[p].at \in {"flock", "schema"}
    PROVE  /\ Refused(p) \in ProcState /\ Shaped(Refused(p))
           /\ Refused(p).at \in {"off", "rollback"} /\ Refused(p).lock = 0 /\ Refused(p).db = 0
           /\ Refused(p).at # "off" => Refused(p).alone = proc[p].alone
           /\ Fewer(Refused(p), proc[p]) /\ SameWriter(Refused(p), proc[p])
<1> DEFINE next == [proc[p] EXCEPT !.at = "rollback", !.lock = 0]
<1>1. proc[p].db = 0
 BY ProcTyped DEF Shaped
<1>2. /\ next \in ProcState /\ next.at = "rollback" /\ next.lock = 0 /\ next.db = 0
      /\ next.alone = proc[p].alone
 BY <1>1, ProcTyped DEF ProcState, ProcStage
<1>3. Refused(p) = next \/ Refused(p) = Off
 BY DEF Refused
<1> HIDE DEF next
<1>4. Shaped(next) /\ Fewer(next, proc[p]) /\ SameWriter(next, proc[p])
 BY <1>2 DEF Shaped, Fewer, HoldsLock, SameWriter, WritesPair
<1>5. Fewer(Off, proc[p]) /\ SameWriter(Off, proc[p])
 BY OffShape DEF Fewer, HoldsLock, SameWriter, WritesPair
<1> QED BY <1>2, <1>3, <1>4, <1>5, OffShape

LEMMA AcquireOk ==
    ASSUME DirInv, NEW p \in Procs, AcquireExclusiveLock(p) PROVE DirInv'
<1>1. /\ proc[p].at = "flock" /\ UNCHANGED <<fileVars, tlsVars, wrote, kept, meddled, torn>>
      /\ Becomes(p, IF LockFree(proc[p].lock) THEN [proc[p] EXCEPT !.at = "schema"] ELSE Refused(p))
 BY DEF AcquireExclusiveLock, boundVars
<1>2. CASE ~LockFree(proc[p].lock)
 BY <1>1, <1>2, RefusedShape, QuietStep
<1>3. CASE LockFree(proc[p].lock)
 <2> DEFINE next == [proc[p] EXCEPT !.at = "schema"]
 <2>1. Becomes(p, next)
  BY <1>1, <1>3
 <2>2. /\ next \in ProcState /\ next.at = "schema" /\ next.lock = proc[p].lock /\ next.db = proc[p].db
       /\ next.alone = proc[p].alone
  BY ProcTyped DEF ProcState, ProcStage
 <2>3. proc[p].lock # 0 /\ proc[p].db = 0
  BY <1>1, ProcTyped DEF Shaped
 <2> HIDE DEF next
 <2>4. Shaped(next)
  BY <2>2, <2>3 DEF Shaped
 <2>5. /\ proc' \in [Procs -> ProcState] /\ AllShaped'
       /\ proc'[p] = next /\ \A q \in Procs : q # p => proc'[q] = proc[q]
  BY <2>1, <2>2, <2>4, ProcMoves DEF DirInv
 <2>6. DirTypeOK'
  BY <1>1, <2>5 DEF DirInv, DirTypeOK, fileVars, tlsVars
 <2>7. AloneInv' /\ CopyInv'
  BY <1>1, <2>2, <2>5, AloneKept
 <2>8. FilesInv'
  <3> SUFFICES ASSUME ~meddled PROVE OneSentinel' /\ OneHolder' /\ OpenCurrent' /\ NothingLost'
   BY <1>1 DEF FilesInv
  <3>1. OneSentinel /\ OneHolder /\ OpenCurrent /\ NothingLost
   BY DEF DirInv, FilesInv
  <3>2. OneSentinel'
   BY <1>1, <2>2, <2>5, <3>1 DEF OneSentinel, fileVars
  <3>3. \A q \in Procs : q # p => ~HoldsLock(proc[q])
   BY <1>3, <2>3, <3>1 DEF LockFree, Locked, HoldsLock, OneSentinel
  <3>4. OneHolder'
   BY <2>5, <3>3 DEF OneHolder
  <3>5. OpenCurrent' /\ NothingLost'
   BY <1>1, <2>2, <2>3, <2>5, <3>1 DEF OpenCurrent, NothingLost, fileVars
  <3> QED BY <3>2, <3>4, <3>5
 <2> USE <1>1, <2>5
 <2>9. PairInv'
  <3>1. \A q \in Procs : SameWriter(proc'[q], proc[q])
   BY <2>2, Unmoved DEF SameWriter, WritesPair
  <3> QED BY <3>1, PairKept DEF tlsVars
 <2>10. ControlInv'
  BY <2>2, ControlKept
 <2> QED BY <2>6, <2>7, <2>8, <2>9, <2>10 DEF DirInv
<1> QED BY <1>2, <1>3

LEMMA DatabaseOk ==
    ASSUME DirInv, NEW p \in Procs, OpenDatabase(p) PROVE DirInv'
<1> DEFINE i == IF dbName = 0 THEN inodes + 1 ELSE dbName
           was == IF dbName = 0 THEN Empty ELSE disk[dbName]
           opens == was.sqlite /\ was.schema <= proc[p].version
<1>1. /\ proc[p].at = "schema" /\ i <= MaxInodes /\ dbName' = i
      /\ inodes' = IF dbName = 0 THEN i ELSE inodes
      /\ disk' = IF opens THEN [disk EXCEPT ![i] = [was EXCEPT !.schema = proc[p].version]] ELSE disk
      /\ Becomes(p, IF opens THEN TakesStore(p, i) ELSE Refused(p))
      /\ UNCHANGED <<lockName, tlsVars, wrote, kept, meddled, torn>>
 BY DEF OpenDatabase, boundVars
<1>2. dbName \in Nat /\ inodes \in Nat /\ dbName <= inodes /\ inodes <= MaxInodes /\ MaxInodes \in Nat
 BY DirectoryAssumption DEF DirInv, DirTypeOK
<1>3. i \in 1..MaxInodes /\ inodes' \in Nat /\ dbName' <= inodes' /\ inodes' <= MaxInodes /\ dbName' \in Nat
 BY <1>1, <1>2
<1>4. was \in FileState /\ proc[p].version \in Nat
 <2>1. dbName # 0 => dbName \in 1..MaxInodes
  BY <1>2
 <2>2. disk \in [1..MaxInodes -> FileState]
  BY DEF DirInv, DirTypeOK
 <2>3. dbName # 0 => disk[dbName] \in FileState
  BY <2>1, <2>2
 <2> QED BY <2>3, EmptyFile, ProcTyped
<1>5. proc[p].lock # 0 /\ proc[p].db = 0
 BY <1>1, ProcTyped DEF Shaped
<1>6. dbName = 0 => opens
 BY <1>4, EmptyFile
<1>7. dbName # 0 => i = dbName /\ was = disk[dbName] /\ inodes' = inodes
 BY <1>1
<1>8. dbName = 0 => was.rows = {}
 BY EmptyFile
<1> HIDE DEF i, was
<1>9. CASE ~opens
 <2>1. dbName # 0 /\ UNCHANGED <<fileVars, tlsVars, wrote, kept, meddled, torn>> /\ Becomes(p, Refused(p))
  BY <1>1, <1>6, <1>7, <1>9 DEF fileVars
 <2> QED BY <1>1, <2>1, RefusedShape, QuietStep
<1>10. CASE opens
 <2> DEFINE new == [was EXCEPT !.schema = proc[p].version]
            next == TakesStore(p, i)
            open == [proc[p] EXCEPT !.at = AfterOpen(proc[p].cmd), !.db = i]
 <2>1. disk' = [disk EXCEPT ![i] = new] /\ Becomes(p, next)
  BY <1>1, <1>10
 <2>2. new \in FileState /\ new.schema = proc[p].version /\ new.rows = was.rows
  BY <1>4 DEF FileState
 <2> HIDE DEF new, opens
 <2>3. disk' \in [1..MaxInodes -> FileState] /\ disk'[i] = new
  BY <1>3, <2>1, <2>2 DEF DirInv, DirTypeOK
 <2>4. /\ AfterOpen(proc[p].cmd) \in {"tls", "up", "off"}
       /\ AfterOpen(proc[p].cmd) = "tls" => proc[p].cmd = "serve"
  BY DEF AfterOpen
 <2>5. next = Off \/ (next = open /\ AfterOpen(proc[p].cmd) # "off")
  BY DEF TakesStore
 <2>6. proc[p].cmd = "serve" => AfterOpen(proc[p].cmd) = "tls"
  BY DEF AfterOpen
 <2>7. /\ open \in ProcState /\ open.at = AfterOpen(proc[p].cmd) /\ open.db = i /\ open.lock = proc[p].lock
       /\ open.alone = proc[p].alone /\ open.version = proc[p].version /\ open.cmd = proc[p].cmd
  <3> DEFINE q == proc[p]
             at == AfterOpen(proc[p].cmd)
  <3>1. i \in Nat /\ at \in ProcStage /\ q \in ProcState
   BY <1>2, <1>3, <2>4, ProcTyped DEF ProcStage
  <3>2. open = [q EXCEPT !.at = at, !.db = i]
   OBVIOUS
  <3> HIDE DEF q, at, open
  <3>3. /\ open \in ProcState /\ open.at = at /\ open.db = i /\ open.lock = q.lock
        /\ open.alone = q.alone /\ open.version = q.version /\ open.cmd = q.cmd
   BY <3>1, <3>2 DEF ProcState
  <3> QED BY <3>3 DEF q, at
 <2> HIDE DEF open, next
 <2>8. AfterOpen(proc[p].cmd) # "off" => Shaped(open)
  BY <1>5, <2>4, <2>7 DEF Shaped
 <2>9. /\ next \in ProcState /\ Shaped(next) /\ next.at \in {"tls", "up", "off"}
       /\ next.lock \in {0, proc[p].lock}
       /\ next.db # 0 => next.db = i /\ next.version = proc[p].version
       /\ next.at # "off" => next.alone = proc[p].alone
       /\ ~(next.at = "up" /\ next.cmd = "serve")
  BY <2>4, <2>5, <2>6, <2>7, <2>8, OffShape
 <2>10. /\ proc' \in [Procs -> ProcState] /\ AllShaped'
        /\ proc'[p] = next /\ \A q \in Procs : q # p => proc'[q] = proc[q]
  BY <2>1, <2>9, ProcMoves DEF DirInv
 <2>11. DirTypeOK'
  BY <1>1, <1>3, <2>3, <2>10 DEF DirInv, DirTypeOK, tlsVars
 <2>12. AloneInv' /\ CopyInv'
  BY <1>1, <2>9, <2>10, AloneKept
 <2>13. FilesInv'
  <3> SUFFICES ASSUME ~meddled PROVE OneSentinel' /\ OneHolder' /\ OpenCurrent' /\ NothingLost'
   BY <1>1 DEF FilesInv
  <3>1. OneSentinel /\ OneHolder /\ OpenCurrent /\ NothingLost
   BY DEF DirInv, FilesInv
  <3>2. OneSentinel'
   BY <1>1, <2>9, <2>10, <3>1 DEF OneSentinel
  <3>3. HoldsLock(proc[p])
   BY <1>1, <1>5 DEF HoldsLock
  <3>4. OneHolder'
   BY <2>10, <3>1, <3>3 DEF OneHolder
  <3>5. \A q \in Procs : q # p => proc'[q].db = 0
   BY <2>10, <3>1, <3>3, ProcTyped, OpenHolds DEF OneHolder
  <3>6. OpenCurrent'
   BY <1>1, <2>2, <2>3, <2>9, <2>10, <3>5 DEF OpenCurrent
  <3>7. kept = {} \/ kept \subseteq was.rows
   BY <1>7, <3>1 DEF NothingLost
  <3>8. NothingLost'
   BY <1>1, <1>3, <2>2, <2>3, <3>7 DEF NothingLost
  <3> QED BY <3>2, <3>4, <3>6, <3>8
 <2> USE <1>1, <2>10
 <2>14. PairInv'
  <3>1. \A q \in Procs : SameWriter(proc'[q], proc[q])
   BY <2>9, Unmoved DEF SameWriter, WritesPair
  <3> QED BY <3>1, PairKept DEF tlsVars
 <2>15. ControlInv'
  BY <2>9, ControlKept
 <2> QED BY <2>11, <2>12, <2>13, <2>14, <2>15 DEF DirInv
<1> QED BY <1>9, <1>10

LEMMA CommitsOk ==
    ASSUME DirInv, NEW p \in Procs, Commits(p) PROVE DirInv'
<1> DEFINE i == proc[p].db
           new == [disk[i] EXCEPT !.rows = disk[i].rows \cup {wrote + 1}]
<1>1. /\ i # 0 /\ wrote' = wrote + 1 /\ disk' = [disk EXCEPT ![i] = new] /\ kept' = kept \cup {wrote + 1}
      /\ UNCHANGED <<dbName, lockName, inodes, tlsVars, proc, meddled, torn>>
 BY DEF Commits
<1>2. \A s \in FileState : LET n == [s EXCEPT !.rows = s.rows \cup {wrote + 1}]
                          IN n \in FileState /\ n.schema = s.schema /\ n.rows = s.rows \cup {wrote + 1}
 BY DEF FileState, DirInv, DirTypeOK
<1>3. i \in 1..MaxInodes => disk[i] \in FileState
 BY DEF DirInv, DirTypeOK
<1>4. i \in 1..MaxInodes => new \in FileState /\ new.schema = disk[i].schema /\ new.rows = disk[i].rows \cup {wrote + 1}
 BY <1>2, <1>3
<1> HIDE DEF new
<1> USE <1>1
<1>5. disk' \in [1..MaxInodes -> FileState]
 BY <1>4 DEF DirInv, DirTypeOK
<1>6. DirTypeOK'
 BY <1>5 DEF DirInv, DirTypeOK, tlsVars
<1>7. AllShaped' /\ AloneInv' /\ CopyInv'
 BY DEF DirInv, AllShaped, AloneInv, CopyInv
<1>8. FilesInv'
 <2> SUFFICES ASSUME ~meddled PROVE OneSentinel' /\ OneHolder' /\ OpenCurrent' /\ NothingLost'
  BY DEF FilesInv
 <2>1. OneSentinel /\ OneHolder /\ OpenCurrent /\ NothingLost
  BY DEF DirInv, FilesInv
 <2>2. i = dbName /\ dbName \in 1..MaxInodes
  BY <2>1, DirectoryAssumption DEF OpenCurrent, DirInv, DirTypeOK
 <2>3. disk'[dbName] = new
  BY <2>2 DEF DirInv, DirTypeOK
 <2>4. OneSentinel' /\ OneHolder'
  BY <2>1 DEF OneSentinel, OneHolder
 <2>5. OpenCurrent'
  BY <1>4, <2>1, <2>2, <2>3 DEF OpenCurrent
 <2>6. NothingLost'
  BY <1>4, <2>1, <2>2, <2>3 DEF NothingLost
 <2> QED BY <2>4, <2>5, <2>6
<1>9. PairInv'
 BY PairKept, Unmoved DEF tlsVars
<1>10. ControlInv'
 BY ControlKept
<1> QED BY <1>6, <1>7, <1>8, <1>9, <1>10 DEF DirInv

\* A step of the TLS code: the files are as they were.
LEMMA TlsStep ==
    ASSUME DirInv, NEW p \in Procs, NEW next \in ProcState, Shaped(next), Becomes(p, next),
           proc[p].at # "off", next.at \notin {"off", "copy"}, next.alone = proc[p].alone,
           Fewer(next, proc[p]), UNCHANGED <<fileVars, wrote, kept, meddled>>,
           tls' \in [cert : Nat, key : Nat, marker : Hosts \cup {NoHost, "absent"}], pairs' \in Nat,
           torn' \in BOOLEAN, torn => torn', PairInv',
           ~meddled /\ ~torn' /\ next.at = "up" /\ next.cmd = "serve" => next.control
    PROVE  DirInv'
<1>1. /\ proc' \in [Procs -> ProcState] /\ AllShaped'
      /\ proc'[p] = next /\ \A q \in Procs : q # p => proc'[q] = proc[q]
 BY ProcMoves DEF DirInv
<1> USE <1>1
<1>2. DirTypeOK'
 BY DEF DirInv, DirTypeOK, fileVars
<1>3. AloneInv' /\ CopyInv'
 BY AloneKept
<1>4. FilesInv'
 <2>1. \A q \in Procs : Fewer(proc'[q], proc[q])
  BY Unmoved
 <2> QED BY <2>1, FilesKept
<1>5. ControlInv'
 BY DEF DirInv, ControlInv, ControlServed, Up
<1> QED BY <1>2, <1>3, <1>4, <1>5 DEF DirInv

LEMMA TlsTyped ==
    ASSUME DirInv
    PROVE  /\ tls.cert \in Nat /\ tls.key \in Nat /\ pairs \in Nat
           /\ tls \in [cert : Nat, key : Nat, marker : Hosts \cup {NoHost, "absent"}]
  BY DEF DirInv, DirTypeOK

\* Only a whole pair is loaded by a server: no other server is at work, and an
\* offline command writes a pair only where there is none.
LEMMA LoadOk ==
    ASSUME DirInv, NEW p \in Procs, LoadPair(p) PROVE DirInv'
<1> DEFINE next == Material(p, tls.cert, tls.key)
<1>1. /\ proc[p].at = "tls" /\ Loads(p) /\ Becomes(p, next)
      /\ UNCHANGED <<fileVars, tlsVars, wrote, kept, meddled, torn>>
 BY DEF LoadPair, boundVars
<1>2. AfterTls(proc[p].cmd) = IF proc[p].cmd = "serve" THEN "up" ELSE "lock"
 BY DEF AfterTls
<1>3. /\ next \in ProcState /\ next.at = AfterTls(proc[p].cmd) /\ next.lock = proc[p].lock
      /\ next.db = proc[p].db /\ next.alone = proc[p].alone /\ next.version = proc[p].version
      /\ next.cmd = proc[p].cmd /\ (next.control <=> tls.cert = tls.key)
 <2> DEFINE q == proc[p]
            at == AfterTls(proc[p].cmd)
            b == tls.cert = tls.key
            c == tls.cert
 <2>1. at \in ProcStage /\ q \in ProcState /\ c \in Nat /\ b \in BOOLEAN
  BY <1>2, ProcTyped, TlsTyped DEF ProcStage
 <2>2. next = [q EXCEPT !.at = at, !.pair = c, !.control = b]
  BY DEF Material
 <2> HIDE DEF q, at, b, c, next
 <2>3. /\ next \in ProcState /\ next.at = at /\ next.db = q.db /\ next.lock = q.lock
       /\ next.alone = q.alone /\ next.version = q.version /\ next.cmd = q.cmd /\ next.control = b
  BY <2>1, <2>2 DEF ProcState
 <2> QED BY <2>3 DEF q, at, b
<1> HIDE DEF next
<1>4. \/ proc[p].cmd = "serve" /\ proc[p].lock # 0
      \/ proc[p].cmd = "offline" /\ proc[p].lock = 0 /\ proc[p].db = 0
 BY <1>1, ProcTyped DEF Shaped
<1>5. Shaped(next) /\ Fewer(next, proc[p]) /\ SameWriter(next, proc[p])
 BY <1>1, <1>2, <1>3, <1>4 DEF Shaped, Fewer, HoldsLock, SameWriter, WritesPair
<1>6. ASSUME ~meddled, ~torn, proc[p].cmd = "serve" PROVE tls.cert = tls.key
 <2>1. OneHolder /\ OneWriter /\ WholePair /\ HalfPair
  BY <1>6 DEF DirInv, FilesInv, PairInv
 <2>2. CASE \A q \in Procs : ~WritesPair(proc[q])
  BY <2>1, <2>2 DEF WholePair
 <2>3. ASSUME NEW q \in Procs, WritesPair(proc[q]) PROVE tls.cert = tls.key
  <3>1. proc[q].at \in {"cert", "key", "marker"}
   BY <2>3 DEF WritesPair
  <3>2. q # p /\ HoldsLock(proc[p])
   BY <1>1, <1>4, <1>6, <3>1 DEF HoldsLock
  <3>3. proc[q].cmd = "offline"
   BY <2>1, <3>1, <3>2, ProcTyped DEF Shaped, HoldsLock, OneHolder
  <3>4. tls.key # 0
   BY <1>1 DEF Loads
  <3> QED BY <2>1, <3>1, <3>3, <3>4 DEF HalfPair
 <2> QED BY <2>2, <2>3
<1> QED BY <1>1, <1>2, <1>3, <1>5, <1>6, QuietStep

LEMMA GenerateOk ==
    ASSUME DirInv, NEW p \in Procs, GeneratePair(p) PROVE DirInv'
<1> DEFINE next == [proc[p] EXCEPT !.at = "cert", !.pair = pairs + 1]
<1>1. /\ proc[p].at = "tls" /\ ~Loads(p) /\ Becomes(p, next) /\ pairs' = pairs + 1
      /\ torn' = (torn \/ \E q \in Procs : WritesPair(proc[q]))
      /\ UNCHANGED <<fileVars, tls, wrote, kept, meddled>>
 BY DEF GeneratePair, boundVars, Generating, WritesPair
<1>2. pairs + 1 \in Nat
 BY TlsTyped
<1>3. /\ next \in ProcState /\ next.at = "cert" /\ next.lock = proc[p].lock /\ next.db = proc[p].db
      /\ next.alone = proc[p].alone /\ next.version = proc[p].version /\ next.cmd = proc[p].cmd
 BY <1>2, ProcTyped DEF ProcState, ProcStage
<1> HIDE DEF next
<1>4. Shaped(next) /\ Fewer(next, proc[p])
 BY <1>1, <1>3, ProcTyped DEF Shaped, Fewer, HoldsLock
<1>5. /\ proc'[p] = next /\ \A q \in Procs : q # p => proc'[q] = proc[q]
 BY <1>1, <1>3, <1>4, ProcMoves DEF DirInv
<1>6. PairInv'
 <2> SUFFICES ASSUME ~torn' PROVE OneWriter' /\ WholePair' /\ HalfPair'
  BY DEF PairInv
 <2>1. ~torn /\ \A q \in Procs : ~WritesPair(proc[q])
  BY <1>1
 <2>2. tls.cert = tls.key
  BY <2>1 DEF DirInv, PairInv, WholePair
 <2>3. proc[p].cmd = "offline" => tls.key = 0
  <3>1. ASSUME proc[p].cmd = "offline", tls.key # 0 PROVE FALSE
   <4>1. proc[p].host # NoHost /\ tls.marker \notin {"absent", proc[p].host}
    BY <1>1, <2>2, <3>1 DEF Loads
   <4> QED BY <1>1, <3>1, <4>1, ProcTyped DEF Shaped
  <3> QED BY <3>1
 <2>4. OneWriter'
  BY <1>5, <2>1 DEF OneWriter
 <2>5. WholePair' /\ HalfPair'
  BY <1>1, <1>3, <1>5, <2>1, <2>2, <2>3 DEF WholePair, HalfPair, WritesPair
 <2> QED BY <2>4, <2>5
<1>7. torn' \in BOOLEAN /\ (torn => torn')
 BY <1>1 DEF DirInv, DirTypeOK
<1> QED BY <1>1, <1>2, <1>3, <1>4, <1>6, <1>7, TlsStep, TlsTyped

\* The writer of the pair moves on: nobody else is writing, or it is torn.
LEMMA WriteCertOk ==
    ASSUME DirInv, NEW p \in Procs, WriteCert(p) PROVE DirInv'
<1> DEFINE next == [proc[p] EXCEPT !.at = "key"]
<1>1. /\ proc[p].at = "cert" /\ Becomes(p, next) /\ tls' = [tls EXCEPT !.cert = proc[p].pair]
      /\ UNCHANGED <<fileVars, pairs, wrote, kept, meddled, torn>>
 BY DEF WriteCert, Goes, boundVars
<1>2. /\ next \in ProcState /\ next.at = "key" /\ next.lock = proc[p].lock /\ next.db = proc[p].db
      /\ next.alone = proc[p].alone /\ next.version = proc[p].version /\ next.cmd = proc[p].cmd
      /\ next.pair = proc[p].pair
 BY ProcTyped DEF ProcState, ProcStage
<1>3. /\ tls' \in [cert : Nat, key : Nat, marker : Hosts \cup {NoHost, "absent"}]
      /\ tls'.cert = proc[p].pair /\ tls'.key = tls.key
 BY <1>1, ProcTyped, TlsTyped
<1> HIDE DEF next
<1>4. Shaped(next) /\ Fewer(next, proc[p])
 BY <1>1, <1>2, ProcTyped DEF Shaped, Fewer, HoldsLock
<1>5. /\ proc'[p] = next /\ \A q \in Procs : q # p => proc'[q] = proc[q]
 BY <1>1, <1>2, <1>4, ProcMoves DEF DirInv
<1>6. PairInv'
 <2> SUFFICES ASSUME ~torn PROVE OneWriter' /\ WholePair' /\ HalfPair'
  BY <1>1 DEF PairInv
 <2>1. OneWriter /\ HalfPair /\ WritesPair(proc[p]) /\ WritesPair(next)
  BY <1>1, <1>2 DEF DirInv, PairInv, WritesPair
 <2>2. \A q \in Procs : q # p => ~WritesPair(proc[q])
  BY <2>1 DEF OneWriter
 <2>3. proc[p].cmd = "offline" => tls.key = 0
  BY <1>1, <2>1 DEF HalfPair
 <2>4. OneWriter' /\ WholePair'
  BY <1>5, <2>1, <2>2 DEF OneWriter, WholePair
 <2>5. HalfPair'
  BY <1>2, <1>3, <1>5, <2>2, <2>3 DEF HalfPair, WritesPair
 <2> QED BY <2>4, <2>5
<1> QED BY <1>1, <1>2, <1>3, <1>4, <1>6, TlsStep, TlsTyped DEF DirInv, DirTypeOK

LEMMA WriteKeyOk ==
    ASSUME DirInv, NEW p \in Procs, WriteKey(p) PROVE DirInv'
<1> DEFINE next == [proc[p] EXCEPT !.at = "marker"]
<1>1. /\ proc[p].at = "key" /\ Becomes(p, next) /\ tls' = [tls EXCEPT !.key = proc[p].pair]
      /\ UNCHANGED <<fileVars, pairs, wrote, kept, meddled, torn>>
 BY DEF WriteKey, Goes, boundVars
<1>2. /\ next \in ProcState /\ next.at = "marker" /\ next.lock = proc[p].lock /\ next.db = proc[p].db
      /\ next.alone = proc[p].alone /\ next.version = proc[p].version /\ next.cmd = proc[p].cmd
      /\ next.pair = proc[p].pair
 BY ProcTyped DEF ProcState, ProcStage
<1>3. /\ tls' \in [cert : Nat, key : Nat, marker : Hosts \cup {NoHost, "absent"}]
      /\ tls'.cert = tls.cert /\ tls'.key = proc[p].pair
 BY <1>1, ProcTyped, TlsTyped
<1> HIDE DEF next
<1>4. Shaped(next) /\ Fewer(next, proc[p])
 BY <1>1, <1>2, ProcTyped DEF Shaped, Fewer, HoldsLock
<1>5. /\ proc'[p] = next /\ \A q \in Procs : q # p => proc'[q] = proc[q]
 BY <1>1, <1>2, <1>4, ProcMoves DEF DirInv
<1>6. PairInv'
 <2> SUFFICES ASSUME ~torn PROVE OneWriter' /\ WholePair' /\ HalfPair'
  BY <1>1 DEF PairInv
 <2>1. OneWriter /\ HalfPair /\ WritesPair(proc[p]) /\ WritesPair(next)
  BY <1>1, <1>2 DEF DirInv, PairInv, WritesPair
 <2>2. \A q \in Procs : q # p => ~WritesPair(proc[q])
  BY <2>1 DEF OneWriter
 <2>3. tls.cert = proc[p].pair
  BY <1>1, <2>1 DEF HalfPair
 <2>4. OneWriter' /\ WholePair'
  BY <1>5, <2>1, <2>2 DEF OneWriter, WholePair
 <2>5. HalfPair'
  BY <1>2, <1>3, <1>5, <2>2, <2>3 DEF HalfPair, WritesPair
 <2> QED BY <2>4, <2>5
<1> QED BY <1>1, <1>2, <1>3, <1>4, <1>6, TlsStep, TlsTyped DEF DirInv, DirTypeOK

LEMMA WriteMarkerOk ==
    ASSUME DirInv, NEW p \in Procs, WriteMarker(p) PROVE DirInv'
<1> DEFINE q == proc[p]
           at == AfterTls(q.cmd)
           next == Material(p, q.pair, q.pair)
<1>1. /\ q.at = "marker" /\ Becomes(p, next) /\ tls' = [tls EXCEPT !.marker = q.host]
      /\ UNCHANGED <<fileVars, pairs, wrote, kept, meddled, torn>>
 BY DEF WriteMarker, boundVars
<1>2. at = IF q.cmd = "serve" THEN "up" ELSE "lock"
 BY DEF AfterTls
<1>3. /\ tls' \in [cert : Nat, key : Nat, marker : Hosts \cup {NoHost, "absent"}]
      /\ tls'.cert = tls.cert /\ tls'.key = tls.key
 BY <1>1, ProcTyped, TlsTyped
<1>4. next = [q EXCEPT !.at = at, !.pair = q.pair, !.control = TRUE]
 BY DEF Material
<1>5. q \in ProcState /\ at \in ProcStage /\ Shaped(q)
 BY <1>2, ProcTyped DEF ProcStage
<1> HIDE DEF q, at, next
<1>6. /\ next \in ProcState /\ next.at = at /\ next.lock = q.lock /\ next.db = q.db
      /\ next.alone = q.alone /\ next.version = q.version /\ next.cmd = q.cmd /\ next.control
 BY <1>4, <1>5 DEF ProcState
<1> USE <1>1
<1>7. Shaped(next) /\ Fewer(next, q)
 BY <1>2, <1>5, <1>6 DEF Shaped, Fewer, HoldsLock
<1>8. /\ proc'[p] = next /\ \A o \in Procs : o # p => proc'[o] = proc[o]
 BY <1>6, <1>7, ProcMoves DEF DirInv
<1>9. PairInv'
 <2> SUFFICES ASSUME ~torn PROVE OneWriter' /\ WholePair' /\ HalfPair'
  BY DEF PairInv
 <2>1. OneWriter /\ HalfPair /\ WritesPair(q) /\ ~WritesPair(next)
  BY <1>2, <1>6 DEF DirInv, PairInv, WritesPair
 <2>2. \A o \in Procs : o # p => ~WritesPair(proc[o])
  BY <2>1 DEF OneWriter, q
 <2>3. tls.cert = tls.key
  BY <2>1 DEF HalfPair, q
 <2>4. \A o \in Procs : ~WritesPair(proc'[o])
  BY <1>8, <2>1, <2>2
 <2> QED BY <1>3, <2>3, <2>4 DEF OneWriter, WholePair, HalfPair, WritesPair
<1>10. q.at # "off" /\ next.at \notin {"off", "copy"}
 BY <1>2, <1>6
<1> QED BY <1>3, <1>6, <1>7, <1>9, <1>10, TlsStep, TlsTyped DEF DirInv, DirTypeOK, q

----
(* restore and reset on the files *)

LEMMA MeddlingStep ==
    ASSUME DirInv, NEW p \in Procs, NEW next \in ProcState, Shaped(next), Becomes(p, next),
           proc[p].at # "off", Meddles(p), UNCHANGED <<tlsVars, torn>>, wrote' = wrote,
           next.lock = 0, next.db = 0, next.at # "off" => next.alone = proc[p].alone,
           next.at = "copy" /\ next.alone => dbName' = 0,
           ~WritesPair(next), ~WritesPair(proc[p]), next.at # "up",
           dbName' \in Nat, inodes' \in Nat, dbName' <= inodes', inodes' <= MaxInodes, lockName' \in Nat,
           disk' \in [1..MaxInodes -> FileState], kept' \in SUBSET Int,
           ~meddled /\ proc[p].alone => NothingLost'
    PROVE  DirInv'
<1>1. /\ proc' \in [Procs -> ProcState] /\ AllShaped'
      /\ proc'[p] = next /\ \A q \in Procs : q # p => proc'[q] = proc[q]
 BY ProcMoves DEF DirInv
<1>2. meddled' \in BOOLEAN /\ (meddled => meddled')
 BY DEF Meddles, DirInv, DirTypeOK
<1> USE <1>1
<1>3. DirTypeOK'
 BY <1>2 DEF DirInv, DirTypeOK, tlsVars
<1>4. AloneInv' /\ CopyInv'
 BY AloneKept
<1>5. FilesInv'
 BY FilesMeddled
<1>6. PairInv'
 <2>1. \A q \in Procs : SameWriter(proc'[q], proc[q])
  BY Unmoved DEF SameWriter
 <2> QED BY <2>1, PairKept DEF tlsVars
<1>7. ControlInv'
 BY <1>2, ControlKept
<1> QED BY <1>3, <1>4, <1>5, <1>6, <1>7 DEF DirInv

LEMMA SidecarsOk ==
    ASSUME DirInv, NEW p \in Procs, RemoveSidecars(p) PROVE DirInv'
<1> DEFINE next == IF proc[p].cmd = "force" THEN [proc[p] EXCEPT !.at = "unlink"] ELSE Off
<1>1. /\ proc[p].at = "sidecars" /\ lockName' = 0 /\ Becomes(p, next) /\ Meddles(p)
      /\ UNCHANGED <<dbName, disk, inodes, tlsVars, wrote, kept, torn>>
 BY DEF RemoveSidecars, boundVars
<1>2. proc[p].lock = 0 /\ proc[p].db = 0
 BY <1>1, ProcTyped DEF Shaped
<1>3. /\ next \in ProcState /\ next.at \in {"unlink", "off"} /\ next.lock = 0 /\ next.db = 0
      /\ next.at # "off" => next.alone = proc[p].alone
 BY <1>2, ProcTyped, OffShape DEF ProcState, ProcStage
<1> HIDE DEF next
<1>4. Shaped(next) /\ ~WritesPair(next) /\ ~WritesPair(proc[p])
 BY <1>1, <1>3 DEF Shaped, WritesPair
<1>5. ~meddled => NothingLost'
 BY <1>1 DEF DirInv, FilesInv, NothingLost
<1> QED BY <1>1, <1>3, <1>4, <1>5, MeddlingStep DEF DirInv, DirTypeOK

LEMMA TargetOk ==
    ASSUME DirInv, NEW p \in Procs, RemoveTarget(p) PROVE DirInv'
<1> DEFINE at == IF proc[p].cmd = "force" THEN "copy" ELSE "sidecars"
           next == [proc[p] EXCEPT !.at = at]
<1>1. /\ proc[p].at = "unlink" /\ dbName' = 0 /\ kept' = {} /\ Becomes(p, next) /\ Meddles(p)
      /\ UNCHANGED <<lockName, disk, inodes, tlsVars, wrote, torn>>
 BY DEF RemoveTarget, Goes, boundVars
<1> USE <1>1
<1>2. proc[p].lock = 0 /\ proc[p].db = 0
 BY ProcTyped DEF Shaped
<1>3. at \in {"copy", "sidecars"}
 OBVIOUS
<1> HIDE DEF at
<1>4. /\ next \in ProcState /\ next.at = at /\ next.lock = 0 /\ next.db = 0
      /\ next.alone = proc[p].alone
 BY <1>2, <1>3, ProcTyped DEF ProcState, ProcStage
<1> HIDE DEF next
<1>5. Shaped(next) /\ ~WritesPair(next) /\ ~WritesPair(proc[p])
 BY <1>3, <1>4 DEF Shaped, WritesPair
<1>6. NothingLost'
 BY DEF NothingLost
<1>7. dbName' \in Nat /\ dbName' <= inodes' /\ next.at # "up" /\ proc[p].at # "off"
 BY <1>3, <1>4 DEF DirInv, DirTypeOK
<1> QED BY <1>4, <1>5, <1>6, <1>7, MeddlingStep DEF DirInv, DirTypeOK

\* An alone restore copies into an empty directory, so nothing is overwritten.
LEMMA CopyOk ==
    ASSUME DirInv, NEW p \in Procs, CopyIn(p) PROVE DirInv'
<1> DEFINE i == IF dbName = 0 THEN inodes + 1 ELSE dbName
           next == [proc[p] EXCEPT !.at = "lock"]
           new == proc[p].artefact
<1>1. /\ proc[p].at = "copy" /\ i <= MaxInodes /\ dbName' = i
      /\ inodes' = IF dbName = 0 THEN i ELSE inodes
      /\ disk' = [disk EXCEPT ![i] = new] /\ kept' = kept \cup new.rows
      /\ Becomes(p, next) /\ Meddles(p)
      /\ UNCHANGED <<lockName, tlsVars, wrote, torn>>
 BY DEF CopyIn, Goes, boundVars
<1>2. dbName \in Nat /\ inodes \in Nat /\ dbName <= inodes /\ inodes <= MaxInodes /\ MaxInodes \in Nat
 BY DirectoryAssumption DEF DirInv, DirTypeOK
<1> USE <1>1
<1>3. i \in 1..MaxInodes /\ inodes' \in Nat /\ dbName' <= inodes' /\ inodes' <= MaxInodes /\ dbName' \in Nat
 BY <1>2
<1>4. new \in FileState /\ new.rows \in SUBSET Int
 BY ProcTyped DEF FileState
<1>5. proc[p].lock = 0 /\ proc[p].db = 0
 BY ProcTyped DEF Shaped
<1>6. /\ next \in ProcState /\ next.at = "lock" /\ next.lock = 0 /\ next.db = 0
      /\ next.alone = proc[p].alone
 BY <1>5, ProcTyped DEF ProcState, ProcStage
<1> HIDE DEF next, i, new
<1>7. Shaped(next) /\ ~WritesPair(next) /\ ~WritesPair(proc[p])
 BY <1>6 DEF Shaped, WritesPair
<1>8. disk' \in [1..MaxInodes -> FileState] /\ disk'[i] = new /\ kept' \in SUBSET Int
 BY <1>3, <1>4 DEF DirInv, DirTypeOK
<1>9. ASSUME ~meddled, proc[p].alone PROVE NothingLost'
 <2>1. dbName = 0
  BY <1>9 DEF DirInv, CopyInv
 <2>2. kept = {}
  BY <1>9, <2>1 DEF DirInv, FilesInv, NothingLost
 <2> QED BY <1>3, <1>8, <2>2 DEF NothingLost
<1>10. proc[p].at # "off" /\ lockName' \in Nat
 BY DEF DirInv, DirTypeOK
<1> QED BY <1>3, <1>6, <1>7, <1>8, <1>9, <1>10, MeddlingStep

LEMMA RollbackOk ==
    ASSUME DirInv, NEW p \in Procs, Rollback(p) PROVE DirInv'
<1>1. /\ proc[p].at = "rollback" /\ dbName' = 0 /\ kept' = {} /\ Becomes(p, Off) /\ Meddles(p)
      /\ UNCHANGED <<lockName, disk, inodes, tlsVars, wrote, torn>>
 BY DEF Rollback, boundVars
<1> USE <1>1, OffShape
<1>2. NothingLost' /\ ~WritesPair(Off) /\ ~WritesPair(proc[p])
 BY DEF NothingLost, WritesPair
<1>3. dbName' \in Nat /\ dbName' <= inodes' /\ proc[p].at # "off" /\ Off.at = "off"
 BY DEF DirInv, DirTypeOK
<1> QED BY <1>2, <1>3, MeddlingStep DEF DirInv, DirTypeOK

----
LEMMA CommandedOk ==
    ASSUME DirInv, NEW p \in Procs, Commanded(p) PROVE DirInv'
<1>1. Versions \subseteq Nat /\ Artefacts \subseteq FileState /\ 0 \in Nat /\ Empty \in FileState
 BY DirectoryAssumption, EmptyFile DEF FileState
<1>2. PICK cmd \in CommandName, version \in Nat, host \in Hosts \cup {NoHost}, artefact \in FileState :
          (cmd = "offline" => host = NoHost) /\ Launch(p, cmd, version, host, artefact)
 <2> USE <1>1 DEF CommandName
 <2>1. CASE \E v \in Versions, h \in Hosts \cup {NoHost} : Launch(p, "serve", v, h, Empty)
  BY <2>1
 <2>2. CASE \E v \in Versions : \E cmd \in Commands \cap {"bootstrap", "offline"} : Launch(p, cmd, v, NoHost, Empty)
  BY <2>2
 <2>3. CASE Launch(p, "reset", 0, NoHost, Empty)
  BY <2>3
 <2>4. CASE \E v \in Versions, a \in Artefacts : \E cmd \in Commands \cap {"restore", "force"} :
               Launch(p, cmd, v, NoHost, a)
  BY <2>4
 <2> QED BY <2>1, <2>2, <2>3, <2>4 DEF Commanded
<1> QED BY <1>2, LaunchOk

LEMMA DirPreserved ==
    ASSUME DirInv, [DirNext]_dirVars PROVE DirInv'
<1>1. CASE DirNext
 BY <1>1, CommandedOk, EndsOk, ChecksOk, SentinelOk, AcquireOk, DatabaseOk, CommitsOk, LoadOk,
  GenerateOk, WriteCertOk, WriteKeyOk, WriteMarkerOk, SidecarsOk, TargetOk, CopyOk, RollbackOk
  DEF DirNext, DirStep
<1>2. CASE UNCHANGED dirVars
 <2>1. UNCHANGED <<dbName, lockName, disk, inodes, tls, pairs, proc, wrote, kept, meddled, torn>>
  BY <1>2 DEF dirVars, fileVars, tlsVars, boundVars
 <2>2. DirTypeOK' /\ AllShaped' /\ AloneInv' /\ CopyInv'
  BY <2>1 DEF DirInv, DirTypeOK, AllShaped, AloneInv, CopyInv
 <2>3. FilesInv'
  BY <2>1, FilesKept, Unmoved DEF fileVars
 <2>4. PairInv' /\ ControlInv'
  BY <2>1, PairKept, ControlKept, Unmoved
 <2> QED BY <2>2, <2>3, <2>4 DEF DirInv
<1> QED BY <1>1, <1>2

LEMMA DirInitially ==
    ASSUME DirInit PROVE DirInv
<1> USE DEF DirInit
<1>1. \A p \in Procs : proc[p] = Off
 OBVIOUS
<1>2. DirTypeOK
 <2>1. dbName \in Nat /\ inodes \in Nat /\ dbName <= inodes /\ inodes <= MaxInodes /\ lockName \in Nat
  BY DirectoryAssumption
 <2>2. disk \in [1..MaxInodes -> FileState] /\ proc \in [Procs -> ProcState]
  BY OffShape, EmptyFile
 <2>3. /\ tls \in [cert : Nat, key : Nat, marker : Hosts \cup {NoHost, "absent"}]
       /\ pairs \in Nat /\ wrote \in Nat
  OBVIOUS
 <2>4. kept \in SUBSET Int /\ meddled \in BOOLEAN /\ torn \in BOOLEAN
  OBVIOUS
 <2> QED BY <2>1, <2>2, <2>3, <2>4 DEF DirTypeOK
<1> USE <1>1, OffShape
<1>3. AllShaped /\ AloneInv /\ CopyInv
 BY DEF AllShaped, AloneInv, CopyInv
<1>4. FilesInv
 BY DEF FilesInv, OneSentinel, OneHolder, HoldsLock, OpenCurrent, NothingLost
<1>5. PairInv /\ ControlInv
 BY DEF PairInv, OneWriter, WholePair, HalfPair, WritesPair, ControlInv, ControlServed, Up
<1> QED BY <1>2, <1>3, <1>4, <1>5 DEF DirInv

LEMMA DirImplied ==
    ASSUME DirInv PROVE DirectorySound
<1> SUFFICES ASSUME ~meddled PROVE OneOwner /\ NothingLost /\ (~torn => ControlServed)
 BY DEF DirectorySound
<1>1. OneHolder /\ OpenCurrent /\ NothingLost
 BY DEF DirInv, FilesInv
<1>2. OneOwner
 <2>1. \A p, q \in Procs : proc[p].db # 0 /\ proc[q].db # 0 => q = p
  BY <1>1, ProcTyped, OpenHolds DEF OneHolder
 <2> QED BY <1>1, <2>1 DEF OneOwner, OpenCurrent
<1> QED BY <1>1, <1>2 DEF DirInv, ControlInv

\* For any number of processes, versions, hosts and backups, and wherever a
\* process dies: while restore and reset have the directory to themselves, one
\* process has the store open, it is the one state.db names, migrated to that
\* process's schema, no committed row is lost, and a server that is up has its
\* control plane unless a TLS pair was torn (Store::open, restore, reset,
\* ServerTlsMaterial::load_or_generate).
THEOREM DirectoryCorrect == DirSpec => []DirectorySound
<1>1. DirInit => DirInv
 BY DirInitially
<1>2. DirInv /\ [DirNext]_dirVars => DirInv'
 BY DirPreserved
<1>3. DirInv => DirectorySound
 BY DirImplied
<1> QED BY <1>1, <1>2, <1>3, PTL DEF DirSpec

----
(* Rule requests: the state's shape *)

RequestTypeOK ==
    /\ book \in [Ids -> Rules \cup {Absent}]
    /\ ruleRows \in [Ids -> Rules \cup {Absent}]
    /\ newId \in Nat \ {0}
    /\ peer.session \in Nat /\ peer.up \in BOOLEAN
    /\ peer = [session |-> peer.session, up |-> peer.up, version |-> peer.version, udp |-> peer.udp]
    /\ checked = Idle \/ /\ checked[1] \in Rules /\ checked[1].state = "Pending"
                         /\ checked[2] \in Nat /\ checked[3] \in BOOLEAN
    /\ checked /= Idle => newId <= MaxIds
    /\ sent \in [Ids -> Frames \cup {Absent}]

\* What the gates promise about a rule: PROXY and limits always, several
\* targets and SNI if they saw a version.
Promise(rule, version, known) ==
    /\ UsesProxy(rule) => AtLeast(version, 10)
    /\ rule.limit /= Absent => AtLeast(version, 11)
    /\ known /\ rule.sni /= Absent => AtLeast(version, 9)
    /\ known /\ Len(rule.targets) >= 2 => AtLeast(version, 7)

\* A push on its way: while the session its gates looked at is up, they still
\* hold.
CheckedHolds ==
    checked /= Idle /\ checked[2] = peer.session /\ peer.up =>
        Promise(checked[1], peer.version, checked[3])

\* Sessions are numbered upwards; a version belongs to a session that is up.
SessionOrder ==
    /\ checked /= Idle => checked[2] <= peer.session
    /\ ~peer.up => peer.version = Absent /\ sent = Nothing

\* A rule that was sent is there, and the promise stands.
SentHolds ==
    \A id \in Ids : sent[id] /= Absent =>
        /\ book[id] /= Absent
        /\ sent[id].gate = peer.session => Promise(book[id], peer.version, sent[id].known)

RequestInv ==
    RequestTypeOK /\ CheckedHolds /\ SessionOrder /\ SentHolds /\ RestartKeepsRules

----
(* Facts about rules *)

LEMMA RequestableTyped ==
    ASSUME NEW b \in Bodies, Valid(b) PROVE RuleOf(b) \in Rules /\ RuleOf(b).state = "Pending"
<1> DEFINE r == RuleOf(b)
<1>1. r \in Requestable
 BY DEF Requestable
<1>2. r = [listen |-> r.listen, proto |-> r.proto, sni |-> r.sni, limit |-> r.limit,
           interval |-> r.interval, targetPorts |-> r.targetPorts, targets |-> r.targets,
           host |-> r.host, state |-> r.state]
 BY DEF RuleOf
<1>3. r.limit = b.limit /\ r.state = "Pending"
 BY DEF RuleOf
<1> HIDE DEF r
<1>4. /\ r.listen \in {q.listen : q \in Requestable} /\ r.proto \in {q.proto : q \in Requestable}
      /\ r.sni \in {q.sni : q \in Requestable} /\ r.interval \in {q.interval : q \in Requestable}
      /\ r.targetPorts \in {q.targetPorts : q \in Requestable}
      /\ r.targets \in {q.targets : q \in Requestable} /\ r.host \in {q.host : q \in Requestable}
 BY <1>1
<1>5. r.limit \in {c.limit : c \in Bodies} \cup {Absent}
 BY <1>3
<1>6. r \in Rules
 BY <1>2, <1>3, <1>4, <1>5 DEF Rules
<1> QED BY <1>3, <1>6 DEF r

\* An ack or a replay changes the state of a rule and nothing else, ...
LEMMA WithState ==
    ASSUME NEW r \in Rules, NEW s \in {"Pending", "Active", "Failed"}
    PROVE  LET q == [r EXCEPT !.state = s] IN
           /\ q \in Rules /\ q.state = s /\ q.limit = r.limit /\ q.sni = r.sni
           /\ q.targets = r.targets
  BY DEF Rules

\* ... a PUT its limit.
LEMMA WithLimit ==
    ASSUME NEW r \in Rules, NEW l \in {b.limit : b \in Bodies} \cup {Absent}
    PROVE  LET q == [r EXCEPT !.limit = l] IN
           /\ q \in Rules /\ q.limit = l /\ q.state = r.state
           /\ \A m : [q EXCEPT !.limit = m] = [r EXCEPT !.limit = m]
  BY DEF Rules

\* What SQLite keeps of a rule is a rule, and is kept as it is.
LEMMA RowKept ==
    ASSUME NEW r \in Rules PROVE RowOf(r) \in Rules /\ RowOf(RowOf(r)) = RowOf(r)
<1> DEFINE Cap(l) == IF l /= Absent /\ l.rate = Absent /\ l.burst = Absent THEN Absent ELSE l
           q == [r EXCEPT !.limit = Cap(r.limit)]
<1>1. \A l : Cap(l) \in {l, Absent} /\ Cap(Cap(l)) = Cap(l)
 OBVIOUS
<1>2. RowOf(r) = q /\ RowOf(q) = [q EXCEPT !.limit = Cap(q.limit)]
 BY DEF RowOf
<1> HIDE DEF Cap
<1>3. r.limit \in {b.limit : b \in Bodies} \cup {Absent}
 BY DEF Rules
<1>4. q \in Rules /\ q.limit = Cap(r.limit)
      /\ \A m : [q EXCEPT !.limit = m] = [r EXCEPT !.limit = m]
 <2> DEFINE l == Cap(r.limit)
 <2>1. l \in {b.limit : b \in Bodies} \cup {Absent}
  BY <1>1, <1>3
 <2>2. q = [r EXCEPT !.limit = l]
  OBVIOUS
 <2> HIDE DEF l, q
 <2>3. q \in Rules /\ q.limit = l /\ \A m : [q EXCEPT !.limit = m] = [r EXCEPT !.limit = m]
  BY <2>1, <2>2, WithLimit
 <2> QED BY <2>3, Zenon DEF l
<1>5. Cap(q.limit) = Cap(r.limit)
 BY <1>1, <1>4
<1>6. [q EXCEPT !.limit = Cap(q.limit)] = q
 BY <1>4, <1>5
<1> QED BY <1>2, <1>4, <1>6

\* The gates give what is promised.
LEMMA GatesPromise ==
    ASSUME NEW rule, NEW version, NEW udp
    PROVE  /\ PushGate(rule, version) => Promise(rule, version, version /= Absent)
           /\ ReplayGate(rule, version, udp) => Promise(rule, version, TRUE)
  BY DEF PushGate, ReplayGate, Promise

\* Promises look at targets, limit and pattern only, and what no version at all
\* fulfils every version does.
LEMMA PromiseKept ==
    ASSUME NEW r, NEW q, NEW version, NEW known,
           q.targets = r.targets, q.limit = r.limit, q.sni = r.sni,
           Promise(r, version, known)
    PROVE  Promise(q, version, known)
  BY DEF Promise, UsesProxy

LEMMA PromiseUnseen ==
    ASSUME NEW r, NEW version, NEW known, Promise(r, Absent, known) PROVE Promise(r, version, known)
  BY DEF Promise, AtLeast

----
(* The conflict check *)

\* On the settled rules of the ports a candidate asks for, the check of
\* push_range_with_targets and the table say the same.
LEMMA WalkIsTable ==
    ASSUME NEW new, Rivals(new) /= {} PROVE Conflicts(new) <=> ~Table(new) \/ FallbackRow(new)
<1> DEFINE riv == Rivals(new)
           group == {r \in riv : SingleTcp(r)}
           fall == HasFallback(new.listen.lo)
<1>1. Table(new) <=>
        IF ~SingleTcp(new) \/ group /= riv THEN riv = {}
        ELSE \/ group = {}
             \/ /\ {r.sni : r \in group} \ {Absent} /= {} /\ new.sni \notin {r.sni : r \in group}
                /\ new.sni = Absent => ~fall
 BY DEF Table
<1>2. FallbackRow(new) <=> new.sni /= Absent /\ \E r \in riv : r.sni = Absent
 BY DEF FallbackRow
<1>3. Conflicts(new) <=> \E old \in riv : Blocks(old, new)
 BY DEF Conflicts
<1>4. \A old : Blocks(old, new) <=>
        \/ ~(SingleTcp(old) /\ SingleTcp(new))
        \/ old.sni = Absent
        \/ new.sni = Absent /\ fall
        \/ new.sni /= Absent /\ old.sni = new.sni
 BY DEF Blocks
<1> HIDE DEF riv, fall
<1>5. riv /= {}
 BY DEF riv
<1>6. CASE ~SingleTcp(new) \/ group /= riv
 <2>1. \E old \in riv : ~(SingleTcp(old) /\ SingleTcp(new))
  BY <1>5, <1>6
 <2>2. Conflicts(new)
  BY <1>3, <1>4, <2>1
 <2>3. ~Table(new)
  BY <1>1, <1>5, <1>6, Zenon
 <2> QED BY <2>2, <2>3
<1>7. CASE SingleTcp(new) /\ group = riv
 <2>1. \A old \in riv : SingleTcp(old)
  BY <1>7
 <2>2. Table(new) <=> /\ (\E r \in riv : r.sni /= Absent) /\ ~\E r \in riv : r.sni = new.sni
                      /\ new.sni = Absent => ~fall
  <3>1. Table(new) <=> \/ riv = {}
                       \/ /\ {r.sni : r \in riv} \ {Absent} /= {} /\ new.sni \notin {r.sni : r \in riv}
                          /\ new.sni = Absent => ~fall
   BY <1>1, <1>7, Zenon
  <3>2. {r.sni : r \in riv} \ {Absent} /= {} <=> \E r \in riv : r.sni /= Absent
   OBVIOUS
  <3>3. new.sni \notin {r.sni : r \in riv} <=> ~\E r \in riv : r.sni = new.sni
   OBVIOUS
  <3> QED BY <1>5, <3>1, <3>2, <3>3, Zenon
 <2>3. CASE new.sni = Absent
  <3>1. Conflicts(new) <=> (\E r \in riv : r.sni = Absent) \/ fall
   BY <1>3, <1>4, <1>5, <1>7, <2>1, <2>3, Zenon
  <3>2. ~FallbackRow(new)
   BY <1>2, <2>3
  <3>3. Table(new) <=> (\E r \in riv : r.sni /= Absent) /\ ~(\E r \in riv : r.sni = Absent) /\ ~fall
   BY <2>2, <2>3, Zenon
  <3> QED BY <1>5, <3>1, <3>2, <3>3, Zenon
 <2>4. CASE new.sni /= Absent
  <3>1. Conflicts(new) <=> \E r \in riv : r.sni = Absent \/ r.sni = new.sni
   BY <1>3, <1>4, <1>7, <2>1, <2>4, Zenon
  <3>2. FallbackRow(new) <=> \E r \in riv : r.sni = Absent
   BY <1>2, <2>4, Zenon
  <3> QED BY <1>5, <2>2, <2>4, <3>1, <3>2, Zenon
 <2> QED BY <2>3, <2>4
<1> QED BY <1>6, <1>7

LEMMA MatrixAlways == MatrixExact
<1> SUFFICES ASSUME NEW new
             PROVE  /\ ~Table(new) => Conflicts(new)
                    /\ Table(new) /\ ~FallbackRow(new) => ~Conflicts(new)
 BY DEF MatrixExact
<1>1. CASE Rivals(new) = {}
 BY <1>1 DEF Conflicts, Table
<1>2. CASE Rivals(new) /= {}
 BY <1>2, WalkIsTable
<1> QED BY <1>1, <1>2

----
(* The steps *)

LEMMA RequestInitial == RequestInit => RequestInv
<1> SUFFICES ASSUME RequestInit PROVE RequestInv
 OBVIOUS
<1> USE DEF RequestInit
<1>1. \A id \in Ids : book[id] = Absent /\ ruleRows[id] = Absent /\ sent[id] = Absent
 BY DEF Nothing
<1>2. peer.session = 0 /\ peer.up = FALSE /\ peer.version = Absent /\ checked = Idle
 OBVIOUS
<1>3. RequestTypeOK
 BY <1>2 DEF RequestTypeOK, Nothing
<1> QED BY <1>1, <1>2, <1>3 DEF RequestInv, CheckedHolds, SessionOrder, SentHolds, RestartKeepsRules

\* The session ends or another one begins: nothing was sent in it yet, and a
\* push on its way was gated by an earlier one.
LEMMA SessionTurns ==
    ASSUME RequestInv, Attach \/ Detach PROVE RequestInv'
<1>1. /\ UNCHANGED <<book, ruleRows, newId, checked>> /\ sent' = Nothing
 BY DEF Attach, Detach
<1>2. /\ peer'.session \in Nat /\ peer'.up \in BOOLEAN /\ peer'.version = Absent
      /\ peer' = [session |-> peer'.session, up |-> peer'.up, version |-> peer'.version, udp |-> peer'.udp]
      /\ \/ peer'.session = peer.session + 1
         \/ peer'.session = peer.session /\ ~peer'.up
 <2> DEFINE n == peer.session
 <2>1. n \in Nat /\ peer = [session |-> n, up |-> peer.up, version |-> peer.version, udp |-> peer.udp]
  BY DEF RequestInv, RequestTypeOK
 <2>2. CASE peer' = [session |-> n + 1, up |-> TRUE, version |-> Absent, udp |-> FALSE]
  <3> HIDE DEF n
  <3>1. n + 1 \in Nat
   BY <2>1
  <3> QED BY <2>2, <3>1 DEF n
 <2>3. CASE peer' = Down
  <3>1. peer' = [session |-> n, up |-> FALSE, version |-> Absent, udp |-> FALSE]
   BY <2>1, <2>3 DEF Down
  <3> HIDE DEF n
  <3> QED BY <2>1, <3>1 DEF n
 <2> QED BY <2>2, <2>3 DEF Attach, Detach
<1>3. RequestTypeOK'
 BY <1>1, <1>2 DEF RequestInv, RequestTypeOK, Nothing
<1>4. CheckedHolds' /\ SessionOrder'
 <2>1. checked /= Idle => checked[2] \in Nat /\ checked[2] <= peer.session
  BY DEF RequestInv, RequestTypeOK, SessionOrder
 <2>2. peer.session \in Nat
  BY DEF RequestInv, RequestTypeOK
 <2>3. checked /= Idle => checked[2] <= peer'.session /\ (checked[2] = peer'.session => ~peer'.up)
  BY <1>2, <2>1, <2>2
 <2> QED BY <1>1, <1>2, <2>3 DEF CheckedHolds, SessionOrder
<1>5. SentHolds'
 BY <1>1 DEF SentHolds, Nothing
<1>6. RestartKeepsRules'
 BY <1>1 DEF RequestInv, RestartKeepsRules
<1> QED BY <1>3, <1>4, <1>5, <1>6 DEF RequestInv

\* A replayed rule changes its state only, and goes out under its gate.
LEMMA Replays ==
    ASSUME NEW r \in Rules \cup {Absent}, NEW version, NEW udp
    PROVE  LET q == ReplayOutcome(r, version, udp) IN
           /\ q \in Rules \cup {Absent}
           /\ q = Absent <=> r = Absent
           /\ r /= Absent => q.targets = r.targets /\ q.limit = r.limit /\ q.sni = r.sni
           /\ q /= r /\ q.state = "Pending" => Promise(q, version, TRUE)
<1> DEFINE q == ReplayOutcome(r, version, udp)
<1>0. Absent \notin Rules
 BY AbsentAssumption
<1>1. CASE r = Absent \/ r.state /= "Active"
 BY <1>1 DEF ReplayOutcome
<1>2. CASE r /= Absent /\ r.state = "Active"
 <2> DEFINE s == IF ReplayGate(r, version, udp) THEN "Pending" ELSE "Failed"
 <2>1. q = [r EXCEPT !.state = s] /\ r \in Rules
  BY <1>2 DEF ReplayOutcome
 <2>2. s \in {"Pending", "Active", "Failed"} /\ (s = "Pending" => ReplayGate(r, version, udp))
  OBVIOUS
 <2> HIDE DEF s, q
 <2>3. q \in Rules /\ q.state = s /\ q.limit = r.limit /\ q.sni = r.sni /\ q.targets = r.targets
  BY <2>1, <2>2, WithState
 <2>4. q.state = "Pending" => Promise(q, version, TRUE)
  BY <2>2, <2>3, GatesPromise, PromiseKept
 <2> QED BY <1>0, <1>2, <2>1, <2>3, <2>4 DEF q
<1> QED BY <1>1, <1>2

LEMMA Greets ==
    ASSUME RequestInv, NEW version, NEW udp, SayHello(version, udp) PROVE RequestInv'
<1> DEFINE out(i) == ReplayOutcome(book[i], version, udp)
<1>0. RequestTypeOK /\ peer.up /\ peer.version = Absent
 BY DEF RequestInv, SayHello
<1>1. /\ UNCHANGED <<newId, checked>>
      /\ peer' = [peer EXCEPT !.version = version, !.udp = udp]
      /\ book' = [i \in Ids |-> out(i)]
      /\ ruleRows' = [i \in Ids |-> IF book'[i] /= book[i] THEN RowOf(book'[i]) ELSE ruleRows[i]]
      /\ sent' = [i \in Ids |->
            IF book'[i] /= book[i] /\ book'[i].state = "Pending"
            THEN Frame(peer.session, TRUE) ELSE sent[i]]
 BY DEF SayHello
<1>2. /\ peer'.session = peer.session /\ peer'.up = peer.up /\ peer'.version = version
      /\ peer' = [session |-> peer'.session, up |-> peer'.up, version |-> peer'.version, udp |-> peer'.udp]
 BY <1>0, <1>1 DEF RequestTypeOK
<1>3. \A i \in Ids :
        /\ book'[i] \in Rules \cup {Absent}
        /\ book'[i] = Absent <=> book[i] = Absent
        /\ book[i] /= Absent =>
             book'[i].targets = book[i].targets /\ book'[i].limit = book[i].limit /\ book'[i].sni = book[i].sni
        /\ book'[i] /= book[i] /\ book'[i].state = "Pending" => Promise(book'[i], version, TRUE)
 <2> SUFFICES ASSUME NEW i \in Ids
              PROVE  /\ out(i) \in Rules \cup {Absent}
                     /\ out(i) = Absent <=> book[i] = Absent
                     /\ book[i] /= Absent =>
                          out(i).targets = book[i].targets /\ out(i).limit = book[i].limit /\ out(i).sni = book[i].sni
                     /\ out(i) /= book[i] /\ out(i).state = "Pending" => Promise(out(i), version, TRUE)
  BY <1>1
 <2>1. book[i] \in Rules \cup {Absent}
  BY <1>0 DEF RequestTypeOK
 <2> QED BY <2>1, Replays
<1> HIDE DEF out
<1>4. \A i \in Ids :
        sent'[i] = IF book'[i] /= book[i] /\ book'[i].state = "Pending"
                   THEN [gate |-> peer.session, known |-> TRUE] ELSE sent[i]
 BY <1>1 DEF Frame
<1>5. [gate |-> peer.session, known |-> TRUE] \in Frames /\ Absent \notin Frames
 BY <1>0, AbsentAssumption DEF Frames, RequestTypeOK
<1>6. RequestTypeOK'
 <2>1. book' \in [Ids -> Rules \cup {Absent}]
  BY <1>1, <1>3
 <2>2. ruleRows' \in [Ids -> Rules \cup {Absent}]
  <3> SUFFICES ASSUME NEW i \in Ids
               PROVE  (IF book'[i] /= book[i] THEN RowOf(book'[i]) ELSE ruleRows[i]) \in Rules \cup {Absent}
   BY <1>1
  <3>1. CASE book'[i] = book[i]
   BY <1>0, <3>1 DEF RequestTypeOK
  <3>2. CASE book'[i] /= book[i]
   BY <1>3, <3>2, RowKept
  <3> QED BY <3>1, <3>2
 <2>3. sent' \in [Ids -> Frames \cup {Absent}]
  <3>1. \A i \in Ids : sent'[i] \in Frames \cup {Absent}
   BY <1>0, <1>4, <1>5 DEF RequestTypeOK
  <3>2. sent' = [i \in Ids |-> sent'[i]]
   BY <1>1
  <3> QED BY <3>1, <3>2
 <2> QED BY <1>0, <1>1, <1>2, <2>1, <2>2, <2>3 DEF RequestTypeOK
<1>7. CheckedHolds'
 <2> SUFFICES ASSUME checked /= Idle, checked[2] = peer.session
              PROVE  Promise(checked[1], version, checked[3])
  BY <1>1, <1>2 DEF CheckedHolds
 <2>1. Promise(checked[1], Absent, checked[3])
  BY <1>0 DEF RequestInv, CheckedHolds
 <2> QED BY <2>1, PromiseUnseen
<1>8. SessionOrder'
 BY <1>0, <1>1, <1>2 DEF RequestInv, SessionOrder
<1>9. SentHolds'
 <2> SUFFICES ASSUME NEW i \in Ids, sent'[i] /= Absent
              PROVE  /\ book'[i] /= Absent
                     /\ sent'[i].gate = peer.session => Promise(book'[i], version, sent'[i].known)
  BY <1>2 DEF SentHolds
 <2>1. CASE book'[i] /= book[i] /\ book'[i].state = "Pending"
  <3>1. book'[i] /= Absent
   BY <1>3, <2>1
  <3>2. sent'[i] = [gate |-> peer.session, known |-> TRUE]
   BY <1>4, <2>1
  <3>3. sent'[i].known = TRUE
   BY <3>2
  <3>4. Promise(book'[i], version, TRUE)
   BY <1>3, <2>1
  <3> QED BY <3>1, <3>3, <3>4
 <2>2. CASE ~(book'[i] /= book[i] /\ book'[i].state = "Pending")
  <3>1. sent'[i] = sent[i]
   BY <1>4, <2>2
  <3>2. /\ book[i] /= Absent
        /\ sent[i].gate = peer.session => Promise(book[i], Absent, sent[i].known)
   BY <1>0, <3>1 DEF RequestInv, SentHolds
  <3>3. sent[i].gate = peer.session => Promise(book[i], version, sent[i].known)
   BY <3>2, PromiseUnseen
  <3>4. sent[i].gate = peer.session => Promise(book'[i], version, sent[i].known)
   BY <1>3, <3>2, <3>3, PromiseKept
  <3> QED BY <1>3, <3>1, <3>2, <3>4
 <2> QED BY <2>1, <2>2
<1>10. RestartKeepsRules'
 BY <1>1, <1>3 DEF RequestInv, RestartKeepsRules
<1> QED BY <1>6, <1>7, <1>8, <1>9, <1>10 DEF RequestInv

LEMMA Posts ==
    ASSUME RequestInv, NEW b \in Bodies, Post(b) PROVE RequestInv'
<1> DEFINE r == RuleOf(b)
           known == peer.version /= Absent
<1>0. RequestTypeOK
 BY DEF RequestInv
<1>1. /\ UNCHANGED <<book, ruleRows, newId, peer, sent>> /\ newId <= MaxIds
      /\ checked' = <<r, peer.session, known>> /\ PushGate(r, peer.version)
 BY DEF Post
<1>2. r \in Rules /\ r.state = "Pending" /\ known \in BOOLEAN
 BY RequestableTyped DEF Post
<1> USE <1>1
<1>3. Promise(r, peer.version, known)
 BY GatesPromise
<1> HIDE DEF r, known
<1>4. checked'[1] = r /\ checked'[2] = peer.session /\ checked'[3] = known
 OBVIOUS
<1>5. RequestTypeOK'
 BY <1>0, <1>2, <1>4 DEF RequestTypeOK
<1>6. peer.session <= peer.session
 BY <1>0 DEF RequestTypeOK
<1>7. CheckedHolds' /\ SessionOrder'
 BY <1>3, <1>4, <1>6 DEF RequestInv, CheckedHolds, SessionOrder
<1> QED BY <1>5, <1>7 DEF RequestInv, SentHolds, RestartKeepsRules

\* A rule is put in place, in memory and in the table.
LEMMA Saved ==
    ASSUME RequestTypeOK, RestartKeepsRules, NEW id \in Ids, NEW r \in Rules, Save(id, r)
    PROVE  /\ book' \in [Ids -> Rules \cup {Absent}] /\ ruleRows' \in [Ids -> Rules \cup {Absent}]
           /\ book'[id] = r /\ r /= Absent /\ \A i \in Ids \ {id} : book'[i] = book[i]
           /\ RestartKeepsRules'
<1>1. book' = [book EXCEPT ![id] = r] /\ ruleRows' = [ruleRows EXCEPT ![id] = RowOf(r)]
 BY DEF Save
<1>2. RowOf(r) \in Rules /\ r /= Absent
 BY RowKept, AbsentAssumption
<1>3. /\ book' \in [Ids -> Rules \cup {Absent}] /\ ruleRows' \in [Ids -> Rules \cup {Absent}]
      /\ book'[id] = r /\ ruleRows'[id] = RowOf(r)
      /\ \A i \in Ids \ {id} : book'[i] = book[i] /\ ruleRows'[i] = ruleRows[i]
 BY <1>1, <1>2 DEF RequestTypeOK
<1>4. RestartKeepsRules'
 <2> SUFFICES ASSUME NEW i \in Ids
              PROVE  ruleRows'[i] = IF book'[i] = Absent THEN Absent ELSE RowOf(book'[i])
  BY DEF RestartKeepsRules
 <2>1. CASE i = id
  BY <1>2, <1>3, <2>1
 <2>2. CASE i /= id
  BY <1>3, <2>2 DEF RestartKeepsRules
 <2> QED BY <2>1, <2>2
<1> QED BY <1>2, <1>3, <1>4

\* One entry of `sent`, and the rule it stands for, change.
LEMMA SentChanges ==
    ASSUME RequestInv, UNCHANGED peer, NEW id \in Ids, NEW fr \in Frames \cup {Absent},
           sent' = [sent EXCEPT ![id] = fr],
           \A i \in Ids \ {id} : book'[i] = book[i],
           fr /= Absent =>
             /\ book'[id] /= Absent
             /\ fr.gate = peer.session => Promise(book'[id], peer.version, fr.known)
    PROVE  sent' \in [Ids -> Frames \cup {Absent}] /\ SentHolds'
<1>1. sent \in [Ids -> Frames \cup {Absent}]
 BY DEF RequestInv, RequestTypeOK
<1>2. sent' \in [Ids -> Frames \cup {Absent}] /\ sent'[id] = fr
      /\ \A i \in Ids \ {id} : sent'[i] = sent[i]
 BY <1>1
<1> QED BY <1>2 DEF RequestInv, SentHolds

\* A frame of Push: the promise of the gate, if the session is still the same.
LEMMA Pushes ==
    ASSUME RequestInv, Push PROVE RequestInv'
<1> DEFINE rule == checked[1]
           fr == [gate |-> checked[2], known |-> checked[3]]
<1>0. RequestTypeOK /\ checked /= Idle /\ checked' = Idle /\ UNCHANGED peer
 BY DEF RequestInv, Push
<1> USE <1>0
<1>1. CASE UNCHANGED <<book, ruleRows, newId, sent>>
 <2>1. RequestTypeOK'
  BY <1>1 DEF RequestTypeOK
 <2> QED BY <1>1, <2>1 DEF RequestInv, CheckedHolds, SessionOrder, SentHolds, RestartKeepsRules
<1>2. CASE /\ peer.up /\ newId' = newId + 1 /\ Save(newId, rule)
           /\ sent' = [sent EXCEPT ![newId] = fr]
 <2>1. rule \in Rules /\ newId \in Ids /\ checked[2] \in Nat /\ checked[3] \in BOOLEAN
  BY RequestAssumption DEF RequestTypeOK, Ids
 <2>2. fr \in Frames /\ fr.gate = checked[2] /\ fr.known = checked[3]
  BY <2>1 DEF Frames
 <2> HIDE DEF fr
 <2> USE <1>2
 <2>3. /\ book' \in [Ids -> Rules \cup {Absent}] /\ ruleRows' \in [Ids -> Rules \cup {Absent}]
       /\ book'[newId] = rule /\ rule /= Absent /\ \A i \in Ids \ {newId} : book'[i] = book[i]
       /\ RestartKeepsRules'
  BY <2>1, Saved DEF RequestInv
 <2>4. fr.gate = peer.session => Promise(book'[newId], peer.version, fr.known)
  BY <2>2, <2>3 DEF RequestInv, CheckedHolds
 <2>5. sent' \in [Ids -> Frames \cup {Absent}] /\ SentHolds'
  BY <2>1, <2>2, <2>3, <2>4, SentChanges
 <2>6. newId + 1 \in Nat \ {0}
  BY DEF RequestTypeOK
 <2>7. RequestTypeOK'
  BY <2>3, <2>5, <2>6 DEF RequestTypeOK
 <2>8. CheckedHolds' /\ SessionOrder'
  BY DEF RequestInv, CheckedHolds, SessionOrder
 <2> QED BY <2>3, <2>5, <2>7, <2>8 DEF RequestInv
<1> QED BY <1>1, <1>2 DEF Push, Frame

LEMMA Acks ==
    ASSUME RequestInv, NEW id \in Ids, Ack(id) PROVE RequestInv'
<1>0. RequestTypeOK /\ peer.up /\ book[id] \in Rules /\ sent[id] /= Absent
      /\ UNCHANGED <<newId, peer, checked, sent>>
 BY DEF RequestInv, RequestTypeOK, Ack
<1>1. PICK state \in {"Active", "Failed"} : Save(id, [book[id] EXCEPT !.state = state])
 BY DEF Ack
<1> DEFINE r == [book[id] EXCEPT !.state = state]
<1>2. r \in Rules /\ r.limit = book[id].limit /\ r.sni = book[id].sni /\ r.targets = book[id].targets
 <2> DEFINE old == book[id]
 <2>1. old \in Rules /\ state \in {"Pending", "Active", "Failed"} /\ r = [old EXCEPT !.state = state]
  BY <1>0
 <2> HIDE DEF old, r
 <2>2. r \in Rules /\ r.limit = old.limit /\ r.sni = old.sni /\ r.targets = old.targets
  BY <2>1, WithState
 <2> QED BY <2>2 DEF old
<1> HIDE DEF r
<1>3. /\ book' \in [Ids -> Rules \cup {Absent}] /\ ruleRows' \in [Ids -> Rules \cup {Absent}]
      /\ book'[id] = r /\ r /= Absent /\ \A i \in Ids \ {id} : book'[i] = book[i]
      /\ RestartKeepsRules'
 BY <1>0, <1>1, <1>2, Saved DEF RequestInv, r
<1>4. SentHolds'
 <2> SUFFICES ASSUME NEW i \in Ids, sent[i] /= Absent
              PROVE  /\ book'[i] /= Absent
                     /\ sent[i].gate = peer.session => Promise(book'[i], peer.version, sent[i].known)
  BY <1>0 DEF SentHolds
 <2>1. book[i] /= Absent /\ (sent[i].gate = peer.session => Promise(book[i], peer.version, sent[i].known))
  BY DEF RequestInv, SentHolds
 <2>2. CASE i = id
  BY <1>2, <1>3, <2>1, <2>2, PromiseKept
 <2>3. CASE i /= id
  BY <1>3, <2>1, <2>3
 <2> QED BY <2>2, <2>3
<1>5. RequestTypeOK'
 BY <1>0, <1>3 DEF RequestTypeOK
<1> QED BY <1>0, <1>3, <1>4, <1>5 DEF RequestInv, CheckedHolds, SessionOrder

LEMMA Puts ==
    ASSUME RequestInv, NEW id \in Ids, NEW b \in Bodies, Put(id, b) PROVE RequestInv'
<1> DEFINE r == [book[id] EXCEPT !.limit = b.limit]
           fr == [gate |-> -1, known |-> FALSE]
<1>0. RequestTypeOK /\ peer.up /\ book[id] \in Rules
      /\ UNCHANGED <<newId, peer, checked>> /\ Save(id, r) /\ sent' = [sent EXCEPT ![id] = fr]
 BY DEF RequestInv, RequestTypeOK, Put, Frame, Ungated
<1>1. r \in Rules
 BY <1>0, WithLimit
<1>2. fr \in Frames /\ fr.gate = -1
 BY DEF Frames
<1> HIDE DEF r, fr
<1> USE <1>0
<1>3. /\ book' \in [Ids -> Rules \cup {Absent}] /\ ruleRows' \in [Ids -> Rules \cup {Absent}]
      /\ book'[id] = r /\ r /= Absent /\ \A i \in Ids \ {id} : book'[i] = book[i]
      /\ RestartKeepsRules'
 BY <1>1, Saved DEF RequestInv
<1>4. peer.session \in Nat
 BY DEF RequestTypeOK
<1>5. fr.gate /= peer.session
 BY <1>2, <1>4
<1>6. sent' \in [Ids -> Frames \cup {Absent}] /\ SentHolds'
 BY <1>2, <1>3, <1>5, SentChanges
<1>7. RequestTypeOK'
 BY <1>3, <1>6 DEF RequestTypeOK
<1>8. CheckedHolds' /\ SessionOrder'
 BY DEF RequestInv, CheckedHolds, SessionOrder
<1> QED BY <1>3, <1>6, <1>7, <1>8 DEF RequestInv

LEMMA Deletes ==
    ASSUME RequestInv, NEW id \in Ids, DeleteRequest(id) PROVE RequestInv'
<1>0. RequestTypeOK /\ UNCHANGED <<newId, peer, checked>>
      /\ book' = [book EXCEPT ![id] = Absent] /\ ruleRows' = [ruleRows EXCEPT ![id] = Absent]
      /\ sent' = [sent EXCEPT ![id] = Absent]
 BY DEF RequestInv, DeleteRequest
<1> USE <1>0
<1>1. /\ book' \in [Ids -> Rules \cup {Absent}] /\ ruleRows' \in [Ids -> Rules \cup {Absent}]
      /\ book'[id] = Absent /\ ruleRows'[id] = Absent
      /\ \A i \in Ids \ {id} : book'[i] = book[i] /\ ruleRows'[i] = ruleRows[i]
 BY DEF RequestTypeOK
<1>2. sent' \in [Ids -> Frames \cup {Absent}] /\ SentHolds'
 BY <1>1, SentChanges
<1>3. RestartKeepsRules'
 BY <1>1 DEF RequestInv, RestartKeepsRules
<1>4. RequestTypeOK'
 BY <1>1, <1>2 DEF RequestTypeOK
<1> USE DEF RequestInv
<1>5. CheckedHolds'
 BY DEF CheckedHolds
<1>6. SessionOrder'
 <2>1. sent = Nothing => sent' = Nothing
  BY DEF Nothing
 <2> QED BY <2>1 DEF SessionOrder
<1> QED BY <1>2, <1>3, <1>4, <1>5, <1>6

LEMMA Reboots ==
    ASSUME RequestInv, Reboot PROVE RequestInv'
<1>0. RequestTypeOK /\ book' = ruleRows /\ ruleRows' = ruleRows /\ checked' = Idle
      /\ sent' = Nothing /\ peer' = Down
 BY DEF RequestInv, Reboot, Hydrated
<1>1. /\ peer'.session \in Nat /\ peer'.up = FALSE /\ peer'.version = Absent
      /\ peer' = [session |-> peer'.session, up |-> peer'.up, version |-> peer'.version, udp |-> peer'.udp]
 <2> DEFINE n == peer.session
 <2>1. n \in Nat /\ peer = [session |-> n, up |-> peer.up, version |-> peer.version, udp |-> peer.udp]
  BY <1>0 DEF RequestTypeOK
 <2>2. peer' = [session |-> n, up |-> FALSE, version |-> Absent, udp |-> FALSE]
  BY <1>0, <2>1 DEF Down
 <2> HIDE DEF n
 <2> QED BY <2>1, <2>2
<1>2. newId' \in Nat \ {0}
 <2> DEFINE below == {i \in Ids : \E j \in Stored(ruleRows) : i <= j}
 <2>1. IsFiniteSet(Ids)
  BY RequestAssumption, FS_Interval DEF Ids
 <2>2. below \subseteq Ids
  OBVIOUS
 <2>3. IsFiniteSet(below)
  BY <2>1, <2>2, FS_Subset
 <2>4. Cardinality(below) \in Nat
  BY <2>3, FS_CardinalityType
 <2>5. newId' = 1 + Cardinality(below)
  BY DEF Reboot
 <2> HIDE DEF below
 <2> QED BY <2>4, <2>5
<1>3. RestartKeepsRules'
 <2> SUFFICES ASSUME NEW i \in Ids
              PROVE  ruleRows[i] = IF ruleRows[i] = Absent THEN Absent ELSE RowOf(ruleRows[i])
  BY <1>0 DEF RestartKeepsRules
 <2>1. ruleRows[i] = IF book[i] = Absent THEN Absent ELSE RowOf(book[i])
  BY DEF RequestInv, RestartKeepsRules
 <2>2. CASE book[i] = Absent
  BY <2>1, <2>2
 <2>3. CASE book[i] /= Absent
  <3>1. book[i] \in Rules
   BY <1>0, <2>3 DEF RequestTypeOK
  <3>2. ruleRows[i] = RowOf(book[i]) /\ RowOf(RowOf(book[i])) = RowOf(book[i])
   BY <2>1, <2>3, <3>1, RowKept
  <3>3. ruleRows[i] = RowOf(ruleRows[i])
   BY <3>2
  <3> QED BY <3>3
 <2> QED BY <2>2, <2>3
<1>4. RequestTypeOK'
 BY <1>0, <1>1, <1>2 DEF RequestTypeOK, Nothing
<1>5. CheckedHolds' /\ SessionOrder' /\ SentHolds'
 BY <1>0, <1>1 DEF CheckedHolds, SessionOrder, SentHolds, Nothing
<1> QED BY <1>3, <1>4, <1>5 DEF RequestInv

----
\* Whatever bodies operators send and whatever versions connect, for any number
\* of rules and sessions: what is sent under the gate of its own session can be
\* decoded there (http.rs, service.rs replay_gate_reason), the conflict check of
\* push_range_with_targets decides as the documented table with its one stricter
\* row, and a restart brings back every rule (rule_store.rs).
THEOREM RequestsCorrect == RequestSpec => []RequestsSound
<1>1. RequestInit => RequestInv
 BY RequestInitial
<1>2. RequestInv /\ [RequestNext]_requestVars => RequestInv'
 <2> SUFFICES ASSUME RequestInv, [RequestNext]_requestVars PROVE RequestInv'
  OBVIOUS
 <2>1. CASE UNCHANGED requestVars
  BY <2>1 DEF requestVars, RequestInv, RequestTypeOK, CheckedHolds, SessionOrder, SentHolds,
   RestartKeepsRules
 <2>2. CASE Attach \/ Detach
  BY <2>2, SessionTurns
 <2>3. CASE Push
  BY <2>3, Pushes
 <2>4. CASE Reboot
  BY <2>4, Reboots
 <2>5. CASE \E h \in Hellos : SayHello(h.version, h.udp)
  BY <2>5, Greets
 <2>6. CASE \E b \in Bodies : Post(b)
  BY <2>6, Posts
 <2>7. CASE \E id \in Ids : Ack(id) \/ DeleteRequest(id) \/ \E b \in Bodies : Put(id, b)
  BY <2>7, Acks, Deletes, Puts
 <2> QED BY <2>1, <2>2, <2>3, <2>4, <2>5, <2>6, <2>7 DEF RequestNext
<1>3. RequestInv => RequestsSound
 <2> SUFFICES ASSUME RequestInv PROVE SentIsUnderstood
  BY MatrixAlways DEF RequestsSound, RequestInv
 <2> QED BY DEF RequestInv, SentHolds, SentIsUnderstood, Promise
<1> QED BY <1>1, <1>2, <1>3, PTL DEF RequestSpec

----
(* Operator commands: the state's shape *)

Typables == RuleCommands \cup IdentityCommands \cup CapCommands \cup OfflineCommands
Verdicts == Errors \cup {"ok"}
ShellState ==
    [cmd : Typables \cup {"none"}, at : {"idle", "typed", "waits", "done"},
     arg : BoardIds \cup {0, 1}, exit : Int]
HandlerState ==
    [at : {"none", "lookup", "listed", "gate", "send", "wait", "answer", "over"},
     verdict : Verdicts \cup {"none"}, rule : BoardIds \cup {0}]
BoardState == {"free", "Pending", "Active", "Failed", "gone"}

CommandTypeOK ==
    /\ serving \in BOOLEAN
    /\ shell \in [Shells -> ShellState]
    /\ handler \in [Shells -> HandlerState]
    /\ board \in [BoardIds -> BoardState]
    /\ committed \subseteq Shells

\* What a shell sh that exits with x says, its handler being h, com whether it
\* changed the store and b the board.  An answer that makes the shell exit so
\* must have been preceded by what it tells.
Told(sh, h, com, b, x) ==
    /\ x = 0 /\ sh.cmd = "push" => h.rule /= 0 /\ b[h.rule] \notin {"Pending", "free"}
    /\ x = 0 /\ sh.cmd = "remove" => b[sh.arg] = "gone"
    /\ x = 0 /\ sh.cmd \in {"identity", "set", "delete"} \cup OfflineCommands => com
    /\ x \in (2 .. 5) \cup {8} => ~com /\ (h.rule /= 0 => b[h.rule] = "gone")
    /\ x = 7 => h.rule /= 0
    /\ x = 6 /\ sh.cmd \in RuleCommands => h.rule /= 0

AnswerExit(cmd, v) == IF v = "ok" THEN 0 ELSE ExitOf(cmd, v)
AtWork == {"lookup", "gate", "send", "wait"}

\* A shell and its handler, by where they are: nothing was done before the
\* handler is past its gates; a rule of its own is in the server's memory; an
\* answer can be told, and an exit code other than 1 was.
ShellOK(sh, h, com, b) ==
    /\ sh.at /= "done" => sh.exit = -1
    /\ sh.at \in {"idle", "typed"} => h.at \in {"none", "over"} /\ h.rule = 0 /\ ~com
    /\ sh.at /= "idle" => sh.cmd \in Typables
    /\ sh.cmd = "remove" => sh.arg \in BoardIds
    /\ h.rule /= 0 => sh.cmd = "push" /\ b[h.rule] /= "free"
    /\ h.at /= "none" => sh.at /= "idle"
    /\ h.at \in {"send", "wait"} => h.rule /= 0 /\ ~com
    /\ h.at \in {"lookup", "listed", "gate"} => h.rule = 0 /\ ~com
    /\ h.at \in {"lookup", "listed"} => sh.cmd \in CapCommands
    /\ h.at = "answer" => h.verdict \in Verdicts /\ Told(sh, h, com, b, AnswerExit(sh.cmd, h.verdict))
    /\ sh.exit > 1 \/ sh.exit = 0 => h.at \notin AtWork /\ Told(sh, h, com, b, sh.exit)

CommandInv ==
    /\ CommandTypeOK
    /\ \A s \in Shells : ShellOK(shell[s], handler[s], s \in committed, board)

----
(* Operator commands: the board and the other shells *)

\* A rule that is gone stays gone, one that was put in stays in or is gone,
\* and one that is up is never waited for again.
BoardOnward(b, c) ==
    \A r \in BoardIds : /\ b[r] = "gone" => c[r] = "gone"
                        /\ b[r] /= "free" => c[r] /= "free"
                        /\ b[r] \notin {"Pending", "free"} => c[r] \notin {"Pending", "free"}

LEMMA BoardStays == ASSUME NEW b PROVE BoardOnward(b, b)
BY DEF BoardOnward

\* What a shell told stays true.
LEMMA ToldOnward ==
    ASSUME NEW sh, NEW h, NEW com, NEW b, NEW c, NEW x,
           h.rule \in BoardIds \cup {0}, sh.cmd = "remove" => sh.arg \in BoardIds,
           BoardOnward(b, c), Told(sh, h, com, b, x)
    PROVE  Told(sh, h, com, c, x)
BY SMT DEF Told, BoardOnward

LEMMA ShellOnward ==
    ASSUME NEW sh \in ShellState, NEW h \in HandlerState, NEW com, NEW b, NEW c,
           BoardOnward(b, c), ShellOK(sh, h, com, b)
    PROVE  ShellOK(sh, h, com, c)
<1>1. h.rule \in BoardIds \cup {0}
 BY DEF HandlerState
<1> USE DEF ShellOK
<1>2. sh.cmd = "remove" => sh.arg \in BoardIds
 OBVIOUS
<1>3. h.at = "answer" => Told(sh, h, com, c, AnswerExit(sh.cmd, h.verdict))
 BY <1>1, <1>2, ToldOnward
<1>4. sh.exit > 1 \/ sh.exit = 0 => Told(sh, h, com, c, sh.exit)
 BY <1>1, <1>2, ToldOnward
<1>5. h.rule /= 0 => c[h.rule] /= "free"
 BY <1>1 DEF BoardOnward
<1> QED BY <1>3, <1>4, <1>5

\* A step of one shell or its handler: the others keep what holds of them.
LEMMA OneShell ==
    ASSUME CommandInv, NEW s \in Shells, NEW sh \in ShellState, NEW h \in HandlerState,
           serving' \in BOOLEAN,
           shell' = [shell EXCEPT ![s] = sh], handler' = [handler EXCEPT ![s] = h],
           committed' = committed \/ committed' = committed \cup {s},
           board' \in [BoardIds -> BoardState], BoardOnward(board, board'),
           ShellOK(sh, h, s \in committed', board')
    PROVE  CommandInv'
<1>1. CommandTypeOK'
 BY DEF CommandInv, CommandTypeOK
<1>2. ASSUME NEW t \in Shells PROVE ShellOK(shell'[t], handler'[t], t \in committed', board')
 <2>1. CASE t = s
  <3>1. shell'[t] = sh /\ handler'[t] = h
   BY <2>1 DEF CommandInv, CommandTypeOK
  <3> QED BY <2>1, <3>1
 <2>2. CASE t /= s
  <3>1. shell'[t] = shell[t] /\ handler'[t] = handler[t] /\ ((t \in committed') = (t \in committed))
   BY <2>2 DEF CommandInv, CommandTypeOK
  <3>2. shell[t] \in ShellState /\ handler[t] \in HandlerState
   BY DEF CommandInv, CommandTypeOK
  <3>3. ShellOK(shell[t], handler[t], t \in committed, board)
   BY DEF CommandInv
  <3>4. ShellOK(shell[t], handler[t], t \in committed, board')
   BY <3>2, <3>3, ShellOnward
  <3> QED BY <3>1, <3>4
 <2> QED BY <2>1, <2>2
<1> QED BY <1>1, <1>2 DEF CommandInv

LEMMA ShellNow ==
    ASSUME CommandInv, NEW s \in Shells
    PROVE  /\ shell \in [Shells -> ShellState] /\ handler \in [Shells -> HandlerState]
           /\ shell[s] \in ShellState /\ handler[s] \in HandlerState
           /\ ShellOK(shell[s], handler[s], s \in committed, board)
           /\ serving \in BOOLEAN /\ board \in [BoardIds -> BoardState]
BY DEF CommandInv, CommandTypeOK

\* Other shells and handlers are where they were, and the board moved on.
LEMMA BoardStep ==
    ASSUME CommandInv, serving' \in BOOLEAN, shell' = shell, handler' = handler,
           committed' = committed, board' \in [BoardIds -> BoardState], BoardOnward(board, board')
    PROVE  CommandInv'
<1>1. CommandTypeOK'
 BY DEF CommandInv, CommandTypeOK
<1>2. ASSUME NEW t \in Shells PROVE ShellOK(shell'[t], handler'[t], t \in committed', board')
 <2>1. shell[t] \in ShellState /\ handler[t] \in HandlerState
       /\ ShellOK(shell[t], handler[t], t \in committed, board)
  BY ShellNow
 <2>2. ShellOK(shell[t], handler[t], t \in committed, board')
  BY <2>1, ShellOnward
 <2> QED BY <2>2
<1> QED BY <1>1, <1>2 DEF CommandInv

\* A record's field changed in place is the record with the field changed.
LEMMA ShellPlace ==
    ASSUME NEW f \in [Shells -> ShellState], NEW s \in Shells, NEW code \in Int
    PROVE  \E sh \in ShellState :
             /\ [f EXCEPT ![s].at = "done", ![s].exit = code] = [f EXCEPT ![s] = sh]
             /\ sh.cmd = f[s].cmd /\ sh.arg = f[s].arg /\ sh.at = "done" /\ sh.exit = code
<1> DEFINE sh == [f[s] EXCEPT !.at = "done", !.exit = code]
<1>1. [f EXCEPT ![s].at = "done", ![s].exit = code] = [f EXCEPT ![s] = sh]
 OBVIOUS
<1>2. f[s] \in ShellState
 OBVIOUS
<1>3. sh \in ShellState /\ sh.cmd = f[s].cmd /\ sh.arg = f[s].arg /\ sh.at = "done" /\ sh.exit = code
 BY <1>2 DEF ShellState
<1> HIDE DEF sh
<1> QED BY <1>1, <1>3

LEMMA ExitForm ==
    ASSUME CommandInv, NEW s \in Shells, NEW code \in Int, Exits(s, code)
    PROVE  \E sh \in ShellState :
             /\ shell' = [shell EXCEPT ![s] = sh]
             /\ sh.cmd = shell[s].cmd /\ sh.arg = shell[s].arg /\ sh.at = "done" /\ sh.exit = code
<1>1. shell \in [Shells -> ShellState]
 BY ShellNow
<1>2. PICK sh \in ShellState :
             /\ [shell EXCEPT ![s].at = "done", ![s].exit = code] = [shell EXCEPT ![s] = sh]
             /\ sh.cmd = shell[s].cmd /\ sh.arg = shell[s].arg /\ sh.at = "done" /\ sh.exit = code
 BY <1>1, ShellPlace, Zenon
<1>3. shell' = [shell EXCEPT ![s] = sh]
 BY <1>2, Zenon DEF Exits
<1> QED BY <1>2, <1>3, Zenon

LEMMA OverForm ==
    ASSUME CommandInv, NEW s \in Shells
    PROVE  /\ Over(s) \in HandlerState
           /\ Over(s).at = "over" /\ Over(s).rule = handler[s].rule
<1>1. handler[s] \in HandlerState
 BY ShellNow
<1> QED BY <1>1 DEF Over, HandlerState

LEMMA AnswerForm ==
    ASSUME CommandInv, NEW s \in Shells, NEW v \in Verdicts, Answers(s, v)
    PROVE  \E h \in HandlerState :
             /\ handler' = [handler EXCEPT ![s] = h]
             /\ h.rule = handler[s].rule
             /\ \/ shell[s].at = "waits" /\ h.at = "answer" /\ h.verdict = v
                \/ shell[s].at /= "waits" /\ h.at = "over"
<1>1. CASE shell[s].at = "waits"
 <2>1. handler' = [handler EXCEPT ![s].at = "answer", ![s].verdict = v]
  BY <1>1 DEF Answers
 <2> DEFINE h == [handler[s] EXCEPT !.at = "answer", !.verdict = v]
 <2>2. handler \in [Shells -> HandlerState] /\ handler[s] \in HandlerState
  BY ShellNow
 <2>3. handler' = [handler EXCEPT ![s] = h]
  BY <2>1, <2>2
 <2>4. h \in HandlerState /\ h.at = "answer" /\ h.verdict = v /\ h.rule = handler[s].rule
  BY <2>2 DEF HandlerState
 <2> HIDE DEF h
 <2> QED BY <1>1, <2>3, <2>4
<1>2. CASE shell[s].at /= "waits"
 <2>1. handler' = [handler EXCEPT ![s] = Over(s)]
  BY <1>2 DEF Answers, Ended
 <2> QED BY <1>2, <2>1, OverForm
<1> QED BY <1>1, <1>2

----
(* Operator commands: the tables *)

LEMMA ErrorsFail == \A e \in Errors : HttpStatus(e) \notin 200 .. 299 /\ e /= "ok"
BY DEF ExitCode, Errors, HttpStatus, RbacStatus

LEMMA ExitsAreCodes ==
    ASSUME NEW cmd \in Typables, NEW e \in Errors PROVE ExitOf(cmd, e) \in 1 .. 8
BY DEF Typables, ExitOf, RuleCommands, IdentityCommands, CapCommands, OfflineCommands, RuleExit,
       IdentityExit, OwnerExit, PasswordExit, Errors, ExitCode

\* A handler that refuses at its gates answers with no code that speaks of a
\* rule left behind.
LEMMA RefusalExits ==
    ASSUME NEW cmd \in Typables, NEW e \in RefusalsOf[cmd]
    PROVE  /\ e \in Errors /\ e /= "ok"
           /\ ExitOf(cmd, e) /= 0 /\ ExitOf(cmd, e) /= 7
           /\ cmd \in RuleCommands => ExitOf(cmd, e) /= 6
BY DEF Typables, ExitOf, RuleCommands, IdentityCommands, CapCommands, OfflineCommands, RuleExit,
       IdentityExit, OwnerExit, PasswordExit, Errors, ExitCode, RefusalsOf, Gatekeepers

LEMMA LookupExits ==
    ASSUME NEW cmd \in CapCommands, NEW e \in Gatekeepers
    PROVE  e \in Errors /\ e /= "ok" /\ ExitOf(cmd, e) = 1
BY DEF ExitOf, RuleCommands, IdentityCommands, CapCommands, OwnerExit, Errors, ExitCode, Gatekeepers

LEMMA PushExits ==
    /\ ExitOf("push", "busy") = 5 /\ ExitOf("push", "offline") = 4
    /\ ExitOf("push", "activation") = 6 /\ ExitOf("push", "ack") = 7
    /\ ExitOf("push", "noRule") = 8 /\ ExitOf("remove", "noRule") = 8
    /\ {"busy", "offline", "activation", "ack", "noRule"} \subseteq Errors
    /\ "ok" \notin Errors
<1>1. \A e \in {"busy", "offline", "activation", "ack", "noRule"} :
        RuleExit(e) = ExitCode[e] /\ ExitOf("push", e) = RuleExit(e) /\ ExitOf("remove", e) = RuleExit(e)
 BY DEF ExitOf, RuleCommands, IdentityCommands, CapCommands, RuleExit
<1>2. /\ ExitCode["busy"] = 5 /\ ExitCode["offline"] = 4 /\ ExitCode["activation"] = 6
      /\ ExitCode["ack"] = 7 /\ ExitCode["noRule"] = 8
 BY DEF ExitCode
<1>3. /\ {"busy", "offline", "activation", "ack", "noRule"} \subseteq Errors
      /\ "ok" \notin Errors
 BY DEF ExitCode, Errors
<1> QED BY <1>1, <1>2, <1>3

LEMMA LocalExits ==
    ASSUME NEW cmd \in Typables, NEW code \in LocalRefusals[cmd] PROVE code \in 2 .. 5
BY DEF Typables, RuleCommands, IdentityCommands, CapCommands, OfflineCommands, LocalRefusals

----
(* Operator commands: an answer, an exit *)

\* A handler answers with what it may say: the answer waits for the shell, or
\* the shell has left.
LEMMA AnswerStep ==
    ASSUME CommandInv, NEW s \in Shells, NEW v \in Verdicts, Answers(s, v),
           handler[s].at \in AtWork, shell' = shell, serving' = serving,
           committed' = committed \/ committed' = committed \cup {s},
           board' \in [BoardIds -> BoardState], BoardOnward(board, board'),
           Told(shell[s], handler[s], s \in committed', board', AnswerExit(shell[s].cmd, v))
    PROVE  CommandInv'
<1>1. /\ shell \in [Shells -> ShellState] /\ serving \in BOOLEAN
      /\ shell[s] \in ShellState /\ handler[s] \in HandlerState
      /\ ShellOK(shell[s], handler[s], s \in committed, board)
 BY ShellNow
<1>2. PICK h \in HandlerState :
             /\ handler' = [handler EXCEPT ![s] = h]
             /\ h.rule = handler[s].rule
             /\ \/ shell[s].at = "waits" /\ h.at = "answer" /\ h.verdict = v
                \/ shell[s].at /= "waits" /\ h.at = "over"
 BY AnswerForm
<1> USE <1>1
<1>3. shell' = [shell EXCEPT ![s] = shell[s]]
 OBVIOUS
<1>4. handler[s].rule \in BoardIds \cup {0}
 BY DEF HandlerState
<1>5. handler[s].rule /= 0 => board'[handler[s].rule] /= "free"
 BY <1>4 DEF ShellOK, BoardOnward
<1>6. Told(shell[s], h, s \in committed', board', AnswerExit(shell[s].cmd, v))
 BY <1>2 DEF Told
<1>7. shell[s].at \notin {"idle", "typed"} /\ ~(shell[s].exit > 1 \/ shell[s].exit = 0)
 BY DEF ShellOK, AtWork
<1>8. ShellOK(shell[s], h, s \in committed', board')
 BY <1>2, <1>5, <1>6, <1>7 DEF ShellOK, AtWork
<1> QED BY <1>2, <1>3, <1>8, OneShell

\* A shell exits: with 1, or with what it may tell.
LEMMA ExitStep ==
    ASSUME CommandInv, NEW s \in Shells, NEW code \in Int, Exits(s, code), NEW h \in HandlerState,
           shell[s].at /= "idle",
           handler' = [handler EXCEPT ![s] = h], h.rule = handler[s].rule,
           h.at \in {"none", "over"},
           serving' = serving, board' = board,
           committed' = committed \/ committed' = committed \cup {s},
           Told(shell[s], handler[s], s \in committed', board, code)
    PROVE  CommandInv'
<1>1. /\ serving \in BOOLEAN /\ board \in [BoardIds -> BoardState]
      /\ shell[s] \in ShellState /\ handler[s] \in HandlerState
      /\ ShellOK(shell[s], handler[s], s \in committed, board)
 BY ShellNow
<1>2. PICK sh \in ShellState :
             /\ shell' = [shell EXCEPT ![s] = sh]
             /\ sh.cmd = shell[s].cmd /\ sh.arg = shell[s].arg /\ sh.at = "done" /\ sh.exit = code
 BY ExitForm
<1>3. Told(sh, h, s \in committed', board, code)
 BY <1>2 DEF Told
<1>4. ShellOK(sh, h, s \in committed', board')
 BY <1>1, <1>2, <1>3 DEF ShellOK, AtWork
<1>5. BoardOnward(board, board')
 BY BoardStays
<1> QED BY <1>1, <1>2, <1>4, <1>5, OneShell

----
(* Operator commands: the steps of a shell *)

LEMMA TypedStep ==
    ASSUME CommandInv, NEW s \in Shells, NEW cmd \in Typables, NEW arg \in BoardIds \cup {0, 1},
           cmd = "remove" => arg \in BoardIds, Typed(s, cmd, arg)
    PROVE  CommandInv'
<1> DEFINE sh == [IdleShell EXCEPT !.cmd = cmd, !.at = "typed", !.arg = arg]
<1>1. /\ serving \in BOOLEAN /\ board \in [BoardIds -> BoardState]
      /\ handler \in [Shells -> HandlerState] /\ handler[s] \in HandlerState
      /\ ShellOK(shell[s], handler[s], s \in committed, board)
 BY ShellNow
<1>2. sh \in ShellState /\ sh.cmd = cmd /\ sh.at = "typed" /\ sh.arg = arg /\ sh.exit = -1
 <2>1. IdleShell \in ShellState /\ IdleShell.exit = -1
  BY DEF IdleShell, ShellState
 <2> QED BY <2>1 DEF ShellState
<1>3. /\ shell[s].at = "idle" /\ shell' = [shell EXCEPT ![s] = sh]
      /\ serving' = serving /\ handler' = handler /\ board' = board /\ committed' = committed
 BY DEF Typed
<1> USE <1>1, <1>3
<1>4. handler' = [handler EXCEPT ![s] = handler[s]]
 OBVIOUS
<1> HIDE DEF sh
<1>5. ShellOK(sh, handler[s], s \in committed', board')
 BY <1>2 DEF ShellOK, AtWork
<1>6. BoardOnward(board, board')
 BY BoardStays
<1> QED BY <1>2, <1>4, <1>5, <1>6, OneShell

LEMMA TypingStep ==
    ASSUME CommandInv, NEW s \in Shells, Typing(s) PROVE CommandInv'
<1>1. CASE \E cmd \in {"push", "read", "identity", "enrollment", "password"} : Typed(s, cmd, 0)
 <2>1. PICK cmd \in {"push", "read", "identity", "enrollment", "password"} : Typed(s, cmd, 0)
  BY <1>1
 <2>2. cmd \in Typables /\ cmd /= "remove"
  BY DEF Typables, RuleCommands, IdentityCommands, OfflineCommands
 <2>3. 0 \in BoardIds \cup {0, 1}
  OBVIOUS
 <2> QED BY <2>1, <2>2, <2>3, TypedStep
<1>2. CASE \E r \in BoardIds : Typed(s, "remove", r)
 <2>1. "remove" \in Typables
  BY DEF Typables, RuleCommands
 <2> QED BY <1>2, <2>1, TypedStep
<1>3. CASE \E cmd \in CapCommands, named \in {0, 1} : Typed(s, cmd, named)
 <2>1. \A cmd \in CapCommands : cmd \in Typables /\ cmd /= "remove"
  BY DEF Typables, CapCommands
 <2> QED BY <1>3, <2>1, TypedStep
<1> QED BY <1>1, <1>2, <1>3 DEF Typing

LEMMA RefusesStep ==
    ASSUME CommandInv, NEW s \in Shells, Refuses(s) PROVE CommandInv'
<1>1. /\ handler \in [Shells -> HandlerState] /\ handler[s] \in HandlerState
      /\ ShellOK(shell[s], handler[s], s \in committed, board)
 BY ShellNow
<1>2. /\ shell[s].at = "typed" /\ serving' = serving /\ handler' = handler /\ board' = board
      /\ committed' = committed
 BY DEF Refuses
<1>3. PICK code \in LocalRefusals[shell[s].cmd] : Exits(s, code)
 BY DEF Refuses
<1>4. shell[s].cmd \in Typables /\ handler[s].at \in {"none", "over"} /\ handler[s].rule = 0 /\ s \notin committed
 BY <1>1, <1>2 DEF ShellOK
<1>5. code \in 2 .. 5
 BY <1>4, LocalExits
<1>6. Told(shell[s], handler[s], s \in committed', board, code)
 BY <1>2, <1>4, <1>5 DEF Told
<1>7. handler' = [handler EXCEPT ![s] = handler[s]] /\ code \in Int /\ shell[s].at /= "idle"
 BY <1>1, <1>2, <1>5
<1> QED BY <1>1, <1>2, <1>3, <1>4, <1>6, <1>7, ExitStep

LEMMA SendsStep ==
    ASSUME CommandInv, NEW s \in Shells, Sends(s) PROVE CommandInv'
<1>1. /\ handler \in [Shells -> HandlerState] /\ handler[s] \in HandlerState
      /\ shell \in [Shells -> ShellState] /\ shell[s] \in ShellState
      /\ serving \in BOOLEAN /\ board \in [BoardIds -> BoardState]
      /\ ShellOK(shell[s], handler[s], s \in committed, board)
 BY ShellNow
<1>2. /\ shell[s].at = "typed" /\ serving' = serving /\ board' = board /\ committed' = committed
 BY DEF Sends
<1>3. shell[s].cmd \in Typables /\ handler[s].at \in {"none", "over"} /\ handler[s].rule = 0 /\ s \notin committed
 BY <1>1, <1>2 DEF ShellOK
<1>4. CASE ~serving
 <2>1. Exits(s, 1) /\ handler' = handler
  BY <1>4 DEF Sends
 <2>2. Told(shell[s], handler[s], s \in committed', board, 1)
  BY DEF Told
 <2>3. handler' = [handler EXCEPT ![s] = handler[s]] /\ 1 \in Int /\ shell[s].at /= "idle"
  BY <1>1, <1>2, <2>1
 <2> QED BY <1>1, <1>2, <1>3, <2>1, <2>2, <2>3, ExitStep
<1>5. CASE serving
 <2> DEFINE sh == [shell[s] EXCEPT !.at = "waits"]
            h == [NoHandler EXCEPT !.at = IF Looks(s) THEN "lookup" ELSE "gate"]
 <2>1. shell' = [shell EXCEPT ![s] = sh]
  BY <1>1, <1>5 DEF Sends
 <2>2. handler' = [handler EXCEPT ![s] = h]
  BY <1>5 DEF Sends
 <2>3. /\ sh \in ShellState /\ sh.at = "waits" /\ sh.cmd = shell[s].cmd /\ sh.arg = shell[s].arg
       /\ sh.exit = shell[s].exit
  BY <1>1 DEF ShellState
 <2>4. h \in HandlerState /\ h.rule = 0 /\ h.at = IF Looks(s) THEN "lookup" ELSE "gate"
  BY DEF HandlerState, NoHandler
 <2>5. h.at \in {"lookup", "gate"} /\ (h.at = "lookup" => shell[s].cmd \in CapCommands)
  BY <2>4 DEF Looks
 <2> HIDE DEF sh, h
 <2>6. ShellOK(sh, h, s \in committed', board')
  BY <1>1, <1>2, <1>3, <2>3, <2>4, <2>5 DEF ShellOK
 <2>7. BoardOnward(board, board')
  BY <1>2, BoardStays
 <2> QED BY <1>1, <1>2, <2>1, <2>2, <2>3, <2>4, <2>6, <2>7, OneShell
<1> QED BY <1>4, <1>5

LEMMA GivesUpStep ==
    ASSUME CommandInv, NEW s \in Shells, GivesUp(s) PROVE CommandInv'
<1>1. handler \in [Shells -> HandlerState] /\ handler[s] \in HandlerState
 BY ShellNow
<1>2. /\ shell[s].at /= "idle" /\ Exits(s, 1) /\ serving' = serving /\ board' = board
      /\ committed' = committed /\ 1 \in Int
 BY DEF GivesUp
<1>3. Told(shell[s], handler[s], s \in committed', board, 1)
 BY DEF Told
<1>4. CASE Working(s)
 <2>1. handler' = [handler EXCEPT ![s] = handler[s]] /\ handler[s].at \in AtWork
  BY <1>1, <1>4 DEF GivesUp, Working, AtWork
 <2>2. PICK sh \in ShellState :
              /\ shell' = [shell EXCEPT ![s] = sh]
              /\ sh.cmd = shell[s].cmd /\ sh.arg = shell[s].arg /\ sh.at = "done" /\ sh.exit = 1
  BY <1>2, ExitForm
 <2>3. ShellOK(sh, handler[s], s \in committed', board')
  BY <1>2, <2>1, <2>2, ShellNow DEF ShellOK, AtWork
 <2>4. BoardOnward(board, board') /\ serving \in BOOLEAN /\ board \in [BoardIds -> BoardState]
  BY <1>2, BoardStays, ShellNow
 <2> QED BY <1>1, <1>2, <2>1, <2>2, <2>3, <2>4, OneShell
<1>5. CASE ~Working(s)
 <2>1. handler' = [handler EXCEPT ![s] = Over(s)]
  BY <1>5 DEF GivesUp, Ended
 <2> QED BY <1>2, <1>3, <2>1, OverForm, ExitStep
<1> QED BY <1>4, <1>5

LEMMA ReadsStep ==
    ASSUME CommandInv, NEW s \in Shells, Reads(s) PROVE CommandInv'
<1> DEFINE v == handler[s].verdict
           code == IF CodeStatus(v) \in 200 .. 299 THEN 0 ELSE ExitOf(shell[s].cmd, v)
<1>1. ShellOK(shell[s], handler[s], s \in committed, board)
 BY ShellNow
<1>2. /\ shell[s].at = "waits" /\ handler[s].at = "answer"
      /\ serving' = serving /\ board' = board /\ committed' = committed
      /\ Exits(s, code) /\ handler' = [handler EXCEPT ![s] = Over(s)]
 BY DEF Reads, Ended
<1>3. v \in Verdicts /\ shell[s].cmd \in Typables
      /\ Told(shell[s], handler[s], s \in committed, board, AnswerExit(shell[s].cmd, v))
 BY <1>1, <1>2 DEF ShellOK
<1>4. code = AnswerExit(shell[s].cmd, v) /\ code \in Int
 <2>1. CASE v = "ok"
  BY <2>1 DEF CodeStatus, AnswerExit
 <2>2. CASE v /= "ok"
  <3>1. v \in Errors
   BY <1>3, <2>2 DEF Verdicts
  <3>2. CodeStatus(v) \notin 200 .. 299
   BY <2>2, <3>1, ErrorsFail DEF CodeStatus
  <3>3. ExitOf(shell[s].cmd, v) \in Int
   BY <1>3, <3>1, ExitsAreCodes
  <3> QED BY <2>2, <3>2, <3>3 DEF AnswerExit
 <2> QED BY <2>1, <2>2
<1>5. Told(shell[s], handler[s], s \in committed', board, code)
 BY <1>2, <1>3, <1>4
<1> HIDE DEF code
<1>6. shell[s].at /= "idle"
 BY <1>2
<1> QED BY <1>2, <1>4, <1>5, <1>6, OverForm, ExitStep

LEMMA ResolvesStep ==
    ASSUME CommandInv, NEW s \in Shells, Resolves(s) PROVE CommandInv'
<1>1. /\ shell \in [Shells -> ShellState] /\ shell[s] \in ShellState
      /\ serving \in BOOLEAN /\ board \in [BoardIds -> BoardState]
      /\ ShellOK(shell[s], handler[s], s \in committed, board)
 BY ShellNow
<1>2. /\ shell[s].at = "waits" /\ handler[s].at = "listed" /\ shell[s].at /= "idle"
      /\ serving' = serving /\ board' = board /\ committed' = committed
      /\ handler' = [handler EXCEPT ![s] = Over(s)]
 BY DEF Resolves, Ended
<1>3. /\ shell[s].cmd \in CapCommands /\ handler[s].rule = 0 /\ s \notin committed /\ shell[s].exit = -1
      /\ shell[s].cmd \in Typables
 BY <1>1, <1>2 DEF ShellOK
<1>4. CASE \E code \in {3, 8} : Exits(s, code)
 <2>1. PICK code \in {3, 8} : Exits(s, code)
  BY <1>4
 <2>2. Told(shell[s], handler[s], s \in committed', board, code) /\ code \in Int
  BY <1>2, <1>3 DEF Told
 <2> QED BY <1>2, <2>1, <2>2, OverForm, ExitStep
<1>5. CASE shell' = [shell EXCEPT ![s].at = "typed", ![s].arg = 0]
 <2> DEFINE sh == [shell[s] EXCEPT !.at = "typed", !.arg = 0]
 <2>1. shell' = [shell EXCEPT ![s] = sh]
  BY <1>1, <1>5
 <2>2. sh \in ShellState /\ sh.at = "typed" /\ sh.cmd = shell[s].cmd /\ sh.exit = shell[s].exit
  BY <1>1 DEF ShellState
 <2> HIDE DEF sh
 <2>3. Over(s) \in HandlerState /\ Over(s).at = "over" /\ Over(s).rule = 0
  BY <1>3, OverForm
 <2>4. shell[s].cmd /= "remove"
  BY <1>3 DEF CapCommands
 <2>5. ShellOK(sh, Over(s), s \in committed', board')
  BY <1>2, <1>3, <2>2, <2>3, <2>4 DEF ShellOK
 <2>6. BoardOnward(board, board')
  BY <1>2, BoardStays
 <2> QED BY <1>1, <1>2, <2>1, <2>2, <2>3, <2>5, <2>6, OneShell
<1> QED BY <1>4, <1>5 DEF Resolves

LEMMA OfflineStep ==
    ASSUME CommandInv, NEW s \in Shells, Offline(s) PROVE CommandInv'
<1>1. /\ handler \in [Shells -> HandlerState] /\ handler[s] \in HandlerState
      /\ ShellOK(shell[s], handler[s], s \in committed, board)
 BY ShellNow
<1>2. /\ shell[s].at = "typed" /\ shell[s].at /= "idle" /\ shell[s].cmd \in OfflineCommands
      /\ serving' = serving /\ handler' = handler /\ board' = board
 BY DEF Offline
<1>3. /\ shell[s].cmd \in Typables /\ handler[s].at \in {"none", "over"}
      /\ handler[s].rule = 0 /\ s \notin committed
 BY <1>1, <1>2 DEF ShellOK
<1>4. handler' = [handler EXCEPT ![s] = handler[s]]
 BY <1>1, <1>2
<1>5. shell[s].cmd \notin RuleCommands
 BY <1>2 DEF OfflineCommands, RuleCommands
<1>6. CASE Exits(s, 1) /\ committed' = committed
 <2>1. Told(shell[s], handler[s], s \in committed', board, 1) /\ 1 \in Int
  BY DEF Told
 <2> QED BY <1>1, <1>2, <1>3, <1>4, <1>6, <2>1, ExitStep
<1>7. CASE /\ \E e \in RefusalsOf[shell[s].cmd] : Exits(s, ExitOf(shell[s].cmd, e))
           /\ committed' = committed
 <2>1. PICK e \in RefusalsOf[shell[s].cmd] : Exits(s, ExitOf(shell[s].cmd, e))
  BY <1>7
 <2> DEFINE code == ExitOf(shell[s].cmd, e)
 <2>2. e \in Errors /\ code /= 0 /\ code /= 7
  BY <1>3, RefusalExits
 <2>3. code \in Int
  BY <1>3, <2>2, ExitsAreCodes
 <2>4. Exits(s, code)
  BY <2>1
 <2> HIDE DEF code
 <2>5. Told(shell[s], handler[s], s \in committed', board, code)
  BY <1>3, <1>5, <1>7, <2>2 DEF Told
 <2> QED BY <1>1, <1>2, <1>3, <1>4, <1>7, <2>3, <2>4, <2>5, ExitStep
<1>8. CASE Exits(s, 0) /\ committed' = committed \cup {s}
 <2>1. s \in committed' /\ 0 \in Int
  BY <1>8
 <2>2. shell[s].cmd \notin {"push", "remove"}
  BY <1>5 DEF RuleCommands
 <2>3. Told(shell[s], handler[s], s \in committed', board, 0)
  BY <2>1, <2>2 DEF Told
 <2> QED BY <1>1, <1>2, <1>3, <1>4, <1>8, <2>1, <2>3, ExitStep
<1> QED BY <1>6, <1>7, <1>8 DEF Offline

----
(* Operator commands: the steps of a handler *)

\* An answer that leaves the board alone.
LEMMA PlainAnswer ==
    ASSUME CommandInv, NEW s \in Shells, NEW v \in Verdicts, Answers(s, v),
           handler[s].at \in AtWork, shell' = shell, serving' = serving, board' = board,
           committed' = committed \/ committed' = committed \cup {s},
           Told(shell[s], handler[s], s \in committed', board, AnswerExit(shell[s].cmd, v))
    PROVE  CommandInv'
<1>1. board' \in [BoardIds -> BoardState]
 BY ShellNow
<1>2. BoardOnward(board, board')
 BY BoardStays
<1> QED BY <1>1, <1>2, AnswerStep

LEMMA EndedStep ==
    ASSUME CommandInv, NEW s \in Shells, shell[s].at = "done", Working(s), Ended(s),
           UNCHANGED <<serving, shell, board, committed>>
    PROVE  CommandInv'
<1>1. /\ shell \in [Shells -> ShellState] /\ shell[s] \in ShellState
      /\ serving \in BOOLEAN /\ board \in [BoardIds -> BoardState]
      /\ ShellOK(shell[s], handler[s], s \in committed, board)
 BY ShellNow
<1>2. Over(s) \in HandlerState /\ Over(s).at = "over" /\ Over(s).rule = handler[s].rule
 BY OverForm
<1>3. handler[s].at \in AtWork
 BY DEF Working, AtWork
<1>4. ShellOK(shell[s], Over(s), s \in committed, board)
 BY <1>1, <1>2, <1>3 DEF ShellOK, AtWork
<1>5. shell' = [shell EXCEPT ![s] = shell[s]] /\ handler' = [handler EXCEPT ![s] = Over(s)]
 BY <1>1 DEF Ended
<1> QED BY <1>1, <1>2, <1>4, <1>5, BoardStays, OneShell

\* A handler goes on to the place it waits at next.
LEMMA GoesOn ==
    ASSUME CommandInv, NEW s \in Shells, NEW at \in {"listed", "wait"},
           handler' = [handler EXCEPT ![s].at = at],
           UNCHANGED <<serving, shell, board, committed>>,
           \/ handler[s].at = "lookup" /\ at = "listed"
           \/ handler[s].at = "send" /\ at = "wait"
    PROVE  CommandInv'
<1> DEFINE h == [handler[s] EXCEPT !.at = at]
<1>1. /\ shell \in [Shells -> ShellState] /\ shell[s] \in ShellState
      /\ handler \in [Shells -> HandlerState] /\ handler[s] \in HandlerState
      /\ serving \in BOOLEAN /\ board \in [BoardIds -> BoardState]
      /\ ShellOK(shell[s], handler[s], s \in committed, board)
 BY ShellNow
<1>2. handler' = [handler EXCEPT ![s] = h]
 BY <1>1
<1>3. h \in HandlerState /\ h.at = at /\ h.rule = handler[s].rule
 BY <1>1 DEF HandlerState
<1> HIDE DEF h
<1>4. ShellOK(shell[s], h, s \in committed, board)
 BY <1>1, <1>3 DEF ShellOK, AtWork
<1>5. /\ shell' = [shell EXCEPT ![s] = shell[s]] /\ committed' = committed
      /\ serving' \in BOOLEAN /\ board' \in [BoardIds -> BoardState] /\ BoardOnward(board, board')
      /\ ShellOK(shell[s], h, s \in committed', board')
 BY <1>1, <1>4, BoardStays
<1>6. shell[s] \in ShellState /\ h \in HandlerState
 BY <1>1, <1>3
<1> QED BY <1>2, <1>5, <1>6, OneShell, Zenon

LEMMA ListsStep ==
    ASSUME CommandInv, NEW s \in Shells, Lists(s) PROVE CommandInv'
<1>1. /\ handler[s].at = "lookup" /\ UNCHANGED <<serving, shell, board, committed>>
 BY DEF Lists
<1>2. CASE handler' = [handler EXCEPT ![s].at = "listed"]
 BY <1>1, <1>2, GoesOn
<1>3. CASE \E e \in Gatekeepers : Answers(s, e)
 <2>1. PICK e \in Gatekeepers : Answers(s, e)
  BY <1>3
 <2>2. shell[s].cmd \in CapCommands
  BY <1>1, ShellNow DEF ShellOK
 <2>3. e \in Verdicts /\ AnswerExit(shell[s].cmd, e) = 1
  BY <2>2, LookupExits DEF Verdicts, AnswerExit
 <2>4. Told(shell[s], handler[s], s \in committed', board, 1)
  BY DEF Told
 <2>5. Told(shell[s], handler[s], s \in committed', board, AnswerExit(shell[s].cmd, e))
  BY <2>3, <2>4
 <2>6. handler[s].at \in AtWork
  BY <1>1 DEF AtWork
 <2> QED BY <1>1, <2>1, <2>3, <2>5, <2>6, PlainAnswer
<1> QED BY <1>2, <1>3 DEF Lists

\* At the gates nothing was done and the command is one.
LEMMA AtGate ==
    ASSUME CommandInv, NEW s \in Shells, handler[s].at = "gate"
    PROVE  /\ handler[s].rule = 0 /\ s \notin committed /\ handler[s].at \in AtWork
           /\ shell[s].cmd \in Typables
<1>1. ShellOK(shell[s], handler[s], s \in committed, board)
 BY ShellNow
<1> QED BY <1>1 DEF ShellOK, AtWork

\* With a rule on its way the command is a push and did nothing else.
LEMMA AtSend ==
    ASSUME CommandInv, NEW s \in Shells, handler[s].at \in {"send", "wait"}
    PROVE  /\ handler[s].rule \in BoardIds /\ handler[s].rule /= 0 /\ s \notin committed
           /\ handler[s].at \in AtWork /\ shell[s].cmd = "push" /\ board[handler[s].rule] /= "free"
<1>1. ShellOK(shell[s], handler[s], s \in committed, board) /\ handler[s] \in HandlerState
 BY ShellNow
<1>2. handler[s].rule \in BoardIds \cup {0}
 BY <1>1 DEF HandlerState
<1> QED BY <1>1, <1>2 DEF ShellOK, AtWork

LEMMA RefusingStep ==
    ASSUME CommandInv, NEW s \in Shells, Refusing(s) PROVE CommandInv'
<1>1. /\ handler[s].at = "gate" /\ UNCHANGED <<serving, shell, board, committed>>
 BY DEF Refusing
<1>2. PICK e \in RefusalsOf[shell[s].cmd] : Answers(s, e)
 BY DEF Refusing
<1>3. handler[s].rule = 0 /\ s \notin committed' /\ handler[s].at \in AtWork /\ shell[s].cmd \in Typables
 BY <1>1, AtGate
<1> DEFINE code == ExitOf(shell[s].cmd, e)
<1>4. /\ e \in Errors /\ e /= "ok" /\ code /= 0 /\ code /= 7
      /\ shell[s].cmd \in RuleCommands => code /= 6
 BY <1>3, RefusalExits
<1>5. e \in Verdicts /\ AnswerExit(shell[s].cmd, e) = code
 BY <1>4 DEF Verdicts, AnswerExit
<1> HIDE DEF code
<1>6. Told(shell[s], handler[s], s \in committed', board, code)
 BY <1>3, <1>4 DEF Told
<1> QED BY <1>1, <1>2, <1>3, <1>5, <1>6, PlainAnswer

LEMMA InsertsStep ==
    ASSUME CommandInv, NEW s \in Shells, Inserts(s) PROVE CommandInv'
<1>1. /\ shell \in [Shells -> ShellState] /\ shell[s] \in ShellState
      /\ handler \in [Shells -> HandlerState] /\ handler[s] \in HandlerState
      /\ serving \in BOOLEAN /\ board \in [BoardIds -> BoardState]
      /\ ShellOK(shell[s], handler[s], s \in committed, board)
 BY ShellNow
<1>2. /\ handler[s].at = "gate" /\ shell[s].cmd = "push" /\ UNCHANGED <<serving, shell, committed>>
 BY DEF Inserts
<1>3. handler[s].rule = 0 /\ s \notin committed /\ handler[s].at \in AtWork
 BY <1>2, AtGate
<1>4. CASE Answers(s, "busy") /\ board' = board
 <2>1. "busy" \in Verdicts /\ AnswerExit(shell[s].cmd, "busy") = 5
  BY <1>2, PushExits DEF Verdicts, AnswerExit
 <2>2. Told(shell[s], handler[s], s \in committed', board, 5)
  BY <1>2, <1>3 DEF Told
 <2> QED BY <1>2, <1>3, <1>4, <2>1, <2>2, PlainAnswer
<1> USE <1>1
<1>5. CASE \E r \in BoardIds :
              /\ board[r] = "free" /\ \A q \in BoardIds : board[q] = "free" => r <= q
              /\ board' = [board EXCEPT ![r] = "Pending"]
              /\ handler' = [handler EXCEPT ![s].rule = r, ![s].at = "send"]
 <2>1. PICK r \in BoardIds :
             /\ board[r] = "free"
             /\ board' = [board EXCEPT ![r] = "Pending"]
             /\ handler' = [handler EXCEPT ![s].rule = r, ![s].at = "send"]
  BY <1>5
 <2> DEFINE h == [handler[s] EXCEPT !.rule = r, !.at = "send"]
 <2>2. handler' = [handler EXCEPT ![s] = h]
  BY <2>1
 <2>3. h \in HandlerState /\ h.at = "send" /\ h.rule = r
  BY DEF HandlerState
 <2>4. r /= 0
  BY CommandAssumption DEF BoardIds
 <2> HIDE DEF h
 <2>5. board' \in [BoardIds -> BoardState] /\ board'[r] = "Pending"
  BY <2>1 DEF BoardState
 <2>6. BoardOnward(board, board')
  BY <2>1 DEF BoardOnward
 <2>7. shell[s].at \notin {"idle", "typed"} /\ ~(shell[s].exit > 1 \/ shell[s].exit = 0)
  BY <1>3 DEF ShellOK, AtWork
 <2>8. ShellOK(shell[s], h, s \in committed', board')
  BY <1>2, <1>3, <2>3, <2>4, <2>5, <2>7 DEF ShellOK
 <2>9. shell' = [shell EXCEPT ![s] = shell[s]]
  BY <1>2
 <2> QED BY <1>2, <2>2, <2>3, <2>5, <2>6, <2>8, <2>9, OneShell
<1> QED BY <1>4, <1>5 DEF Inserts

LEMMA PersistFailsStep ==
    ASSUME CommandInv, NEW s \in Shells, PersistFails(s) PROVE CommandInv'
<1>1. /\ handler[s].at = "send" /\ UNCHANGED <<serving, shell, board, committed>> /\ Answers(s, "activation")
 BY DEF PersistFails
<1>2. shell[s].cmd = "push" /\ handler[s].rule /= 0 /\ handler[s].at \in AtWork
 BY <1>1, AtSend
<1>3. "activation" \in Verdicts /\ AnswerExit(shell[s].cmd, "activation") = 6
 BY <1>2, PushExits DEF Verdicts, AnswerExit
<1>4. Told(shell[s], handler[s], s \in committed', board, 6)
 BY <1>2 DEF Told
<1> QED BY <1>1, <1>2, <1>3, <1>4, PlainAnswer

LEMMA TakesBackStep ==
    ASSUME CommandInv, NEW s \in Shells, TakesBack(s) PROVE CommandInv'
<1>1. /\ handler[s].at = "send" /\ UNCHANGED <<serving, shell, committed>> /\ Answers(s, "offline")
      /\ board' = [board EXCEPT ![handler[s].rule] = "gone"]
 BY DEF TakesBack
<1>2. /\ shell[s].cmd = "push" /\ handler[s].rule \in BoardIds /\ s \notin committed'
      /\ handler[s].at \in AtWork
 BY <1>1, AtSend
<1>3. "offline" \in Verdicts /\ AnswerExit(shell[s].cmd, "offline") = 4
 BY <1>2, PushExits DEF Verdicts, AnswerExit
<1>4. /\ board' \in [BoardIds -> BoardState] /\ board'[handler[s].rule] = "gone"
      /\ BoardOnward(board, board')
 BY <1>1, <1>2, ShellNow DEF BoardState, BoardOnward
<1>5. Told(shell[s], handler[s], s \in committed', board', 4)
 BY <1>2, <1>4 DEF Told
<1> QED BY <1>1, <1>2, <1>3, <1>4, <1>5, AnswerStep

LEMMA AckedStep ==
    ASSUME CommandInv, NEW s \in Shells, Acked(s) PROVE CommandInv'
<1> DEFINE r == handler[s].rule
<1>1. /\ handler[s].at = "wait" /\ UNCHANGED <<serving, shell, committed>>
      /\ board \in [BoardIds -> BoardState]
 BY ShellNow DEF Acked
<1>2. /\ shell[s].cmd = "push" /\ r \in BoardIds /\ r /= 0 /\ s \notin committed'
      /\ handler[s].at \in AtWork /\ board[r] /= "free"
 BY <1>1, AtSend
<1>3. /\ {"ok", "activation", "noRule", "ack"} \subseteq Verdicts
      /\ AnswerExit("push", "ok") = 0 /\ AnswerExit("push", "activation") = 6
      /\ AnswerExit("push", "noRule") = 8 /\ AnswerExit("push", "ack") = 7
 BY PushExits DEF Verdicts, AnswerExit
<1> USE <1>2
<1>4. Told(shell[s], handler[s], s \in committed', board', 6) /\ Told(shell[s], handler[s], s \in committed', board', 7)
 BY DEF Told
<1>5. CASE r \in Present /\ board' = [board EXCEPT ![r] = "Active"] /\ Answers(s, "ok")
 <2>1. board' \in [BoardIds -> BoardState] /\ board'[r] = "Active" /\ BoardOnward(board, board')
  BY <1>1, <1>5 DEF BoardState, BoardOnward, Present
 <2>2. Told(shell[s], handler[s], s \in committed', board', 0)
  BY <2>1 DEF Told, OfflineCommands
 <2> QED BY <1>1, <1>3, <1>5, <2>1, <2>2, AnswerStep
<1>6. CASE r \in Present /\ board' = [board EXCEPT ![r] = "Failed"] /\ Answers(s, "activation")
 <2>1. board' \in [BoardIds -> BoardState] /\ BoardOnward(board, board')
  BY <1>1, <1>6 DEF BoardState, BoardOnward, Present
 <2> QED BY <1>1, <1>3, <1>4, <1>6, <2>1, AnswerStep
<1>7. CASE r \notin Present /\ board' = board /\ \E e \in {"noRule", "activation"} : Answers(s, e)
 <2>1. board[r] = "gone"
  BY <1>1, <1>7 DEF Present, BoardState
 <2>2. Told(shell[s], handler[s], s \in committed', board, 8)
  BY <2>1 DEF Told
 <2>3. CASE Answers(s, "noRule")
  BY <1>1, <1>3, <1>7, <2>2, <2>3, PlainAnswer
 <2>4. CASE Answers(s, "activation")
  BY <1>1, <1>3, <1>4, <1>7, <2>4, PlainAnswer
 <2> QED BY <1>7, <2>3, <2>4
<1>8. CASE board' = board /\ \E e \in {"ack", "activation"} : Answers(s, e)
 <2>1. CASE Answers(s, "ack")
  BY <1>1, <1>3, <1>4, <1>8, <2>1, PlainAnswer
 <2>2. CASE Answers(s, "activation")
  BY <1>1, <1>3, <1>4, <1>8, <2>2, PlainAnswer
 <2> QED BY <1>8, <2>1, <2>2
<1> QED BY <1>5, <1>6, <1>7, <1>8 DEF Acked

LEMMA RemovesStep ==
    ASSUME CommandInv, NEW s \in Shells, Removes(s) PROVE CommandInv'
<1> DEFINE r == shell[s].arg
<1>1. /\ handler[s].at = "gate" /\ shell[s].cmd = "remove" /\ UNCHANGED <<serving, shell, committed>>
 BY DEF Removes
<1>2. handler[s].rule = 0 /\ s \notin committed' /\ handler[s].at \in AtWork
 BY <1>1, AtGate
<1>3. r \in BoardIds /\ board \in [BoardIds -> BoardState]
 BY <1>1, ShellNow DEF ShellOK
<1>4. /\ {"ok", "noRule"} \subseteq Verdicts
      /\ AnswerExit("remove", "ok") = 0 /\ AnswerExit("remove", "noRule") = 8
 BY PushExits DEF Verdicts, AnswerExit
<1>5. CASE board' = [board EXCEPT ![r] = "gone"] /\ Answers(s, "ok")
 <2>1. board' \in [BoardIds -> BoardState] /\ board'[r] = "gone" /\ BoardOnward(board, board')
  BY <1>3, <1>5 DEF BoardState, BoardOnward
 <2>2. Told(shell[s], handler[s], s \in committed', board', 0)
  BY <1>1, <2>1 DEF Told, OfflineCommands
 <2> QED BY <1>1, <1>2, <1>4, <1>5, <2>1, <2>2, AnswerStep
<1>6. CASE board' = board /\ Answers(s, "noRule")
 <2>1. Told(shell[s], handler[s], s \in committed', board, 8)
  BY <1>2 DEF Told
 <2> QED BY <1>1, <1>2, <1>4, <1>6, <2>1, PlainAnswer
<1> QED BY <1>5, <1>6 DEF Removes

\* A handler that is through with a command other than a push or a removal.
LEMMA DoneStep ==
    ASSUME CommandInv, NEW s \in Shells, handler[s].at = "gate", Answers(s, "ok"),
           UNCHANGED <<serving, shell, board>>,
           \/ shell[s].cmd \in {"read", "get"} /\ committed' = committed
           \/ shell[s].cmd \in {"identity", "set", "delete"} /\ committed' = committed \cup {s}
    PROVE  CommandInv'
<1>1. handler[s].at \in AtWork
 BY AtGate
<1>2. "ok" \in Verdicts /\ AnswerExit(shell[s].cmd, "ok") = 0
 BY DEF Verdicts, AnswerExit
<1>3. Told(shell[s], handler[s], s \in committed', board, 0)
 BY DEF Told, OfflineCommands
<1> QED BY <1>1, <1>2, <1>3, PlainAnswer

LEMMA StopsStep ==
    ASSUME CommandInv, StopsServing PROVE CommandInv'
<1>1. /\ handler' = [s \in Shells |-> IF Working(s) THEN Over(s) ELSE handler[s]]
      /\ serving' = FALSE /\ UNCHANGED <<shell, board, committed>>
 BY DEF StopsServing
<1>2. ASSUME NEW t \in Shells
      PROVE  handler'[t] \in HandlerState /\ ShellOK(shell[t], handler'[t], t \in committed, board)
 <2>1. /\ handler[t] \in HandlerState /\ ShellOK(shell[t], handler[t], t \in committed, board)
  BY ShellNow
 <2>2. CASE ~Working(t)
  BY <1>1, <2>1, <2>2
 <2>3. CASE Working(t)
  <3>1. handler'[t] = Over(t)
   BY <1>1, <2>3
  <3>2. Over(t) \in HandlerState /\ Over(t).at = "over" /\ Over(t).rule = handler[t].rule
   BY OverForm
  <3>3. handler[t].at \in AtWork
   BY <2>3 DEF Working, AtWork
  <3>4. ShellOK(shell[t], Over(t), t \in committed, board)
   BY <2>1, <3>2, <3>3 DEF ShellOK, AtWork
  <3> QED BY <3>1, <3>2, <3>4
 <2> QED BY <2>2, <2>3
<1>3. handler' \in [Shells -> HandlerState]
 BY <1>1, <1>2
<1>4. CommandTypeOK'
 BY <1>1, <1>3 DEF CommandInv, CommandTypeOK
<1> QED BY <1>1, <1>2, <1>4 DEF CommandInv

----
(* Operator commands: the theorem *)

LEMMA CommandsStart == CommandsInit => CommandInv
<1> SUFFICES ASSUME CommandsInit PROVE CommandInv
 OBVIOUS
<1>1. IdleShell \in ShellState /\ IdleShell.at = "idle" /\ IdleShell.exit = -1 /\ IdleShell.cmd = "none"
 BY DEF IdleShell, ShellState
<1>2. NoHandler \in HandlerState /\ NoHandler.at = "none" /\ NoHandler.rule = 0
 BY DEF NoHandler, HandlerState
<1>3. CommandTypeOK
 BY <1>1, <1>2 DEF CommandsInit, CommandTypeOK, BoardState
<1>4. ASSUME NEW s \in Shells PROVE ShellOK(shell[s], handler[s], s \in committed, board)
 <2>1. shell[s] = IdleShell /\ handler[s] = NoHandler /\ s \notin committed
  BY DEF CommandsInit
 <2>2. ShellOK(IdleShell, NoHandler, FALSE, board)
  BY <1>1, <1>2 DEF ShellOK, AtWork
 <2>3. (s \in committed) = FALSE
  BY <2>1
 <2> QED BY <2>1, <2>2, <2>3
<1> QED BY <1>3, <1>4 DEF CommandInv

LEMMA ShellSteps == ASSUME CommandInv, NEW s \in Shells, Run(s) PROVE CommandInv'
BY TypingStep, RefusesStep, SendsStep, GivesUpStep, ReadsStep, ResolvesStep, OfflineStep DEF Run

LEMMA HandlerSteps == ASSUME CommandInv, NEW s \in Shells, Handle(s) PROVE CommandInv'
<1>1. CASE Delivered(s)
 BY <1>1, GoesOn DEF Delivered
<1>2. CASE Shows(s)
 BY <1>2, DoneStep DEF Shows
<1>3. CASE CommitsIdentity(s)
 BY <1>3, DoneStep DEF CommitsIdentity
<1>4. CASE CapsOwner(s)
 BY <1>4, DoneStep DEF CapsOwner
<1>5. CASE Dropped(s)
 BY <1>5, EndedStep DEF Dropped
<1> QED BY <1>1, <1>2, <1>3, <1>4, <1>5, ListsStep, RefusingStep, InsertsStep, PersistFailsStep,
  TakesBackStep, AckedStep, RemovesStep DEF Handle

LEMMA ReportedStep == ASSUME CommandInv, NEW r \in BoardIds, Reported(r) PROVE CommandInv'
<1>1. PICK state \in {"Active", "Failed"} : board' = [board EXCEPT ![r] = state]
 BY DEF Reported
<1>2. r \in Present /\ UNCHANGED <<serving, shell, handler, committed>>
 BY DEF Reported
<1>3. serving \in BOOLEAN /\ board \in [BoardIds -> BoardState]
 BY DEF CommandInv, CommandTypeOK
<1>4. board' \in [BoardIds -> BoardState] /\ BoardOnward(board, board')
 BY <1>1, <1>2, <1>3 DEF BoardState, BoardOnward, Present
<1> QED BY <1>2, <1>3, <1>4, BoardStep

LEMMA CommandsKeep == CommandInv /\ [CommandsNext]_commandVars => CommandInv'
<1> SUFFICES ASSUME CommandInv, [CommandsNext]_commandVars PROVE CommandInv'
 OBVIOUS
<1>1. CASE UNCHANGED commandVars
 <2>1. serving' \in BOOLEAN /\ board' \in [BoardIds -> BoardState] /\ BoardOnward(board, board')
  BY <1>1, BoardStays DEF CommandInv, CommandTypeOK, commandVars
 <2> QED BY <1>1, <2>1, BoardStep DEF commandVars
<1>2. CASE CommandsNext
 BY <1>2, ShellSteps, HandlerSteps, ReportedStep, StopsStep DEF CommandsNext
<1> QED BY <1>1, <1>2

LEMMA CommandsTell == CommandInv => CommandsSound
<1> SUFFICES ASSUME CommandInv PROVE CommandsSound
 OBVIOUS
<1>1. ASSUME NEW s \in Shells, shell[s].exit > 1 \/ shell[s].exit = 0
      PROVE  ~Working(s) /\ Told(shell[s], handler[s], s \in committed, board, shell[s].exit)
 BY <1>1, ShellNow DEF ShellOK, Working, AtWork
<1> QED BY <1>1 DEF CommandsSound, Told

\* Whatever the shells run and whenever they give up or the server stops, an
\* exit code other than 1 is the last word on the command: 0 and 8 tell what is
\* there, 2 to 5 that nothing was left behind, 6 and 7 that a rule was.
THEOREM CommandsCorrect == CommandsSpec => []CommandsSound
<1>1. CommandsSpec => []CommandInv
 BY CommandsStart, CommandsKeep, PTL DEF CommandsSpec
<1> QED BY <1>1, CommandsTell, PTL
=============================================================================
