------------------------------- MODULE Access -------------------------------
(***************************************************************************)
(* Operator identities, grants and the rules they own: the HTTP handlers    *)
(* of operator/users.rs and operator/grants.rs, the grant check of the push *)
(* handlers, onboarding and bootstrap, over the transactions of             *)
(* store/operator_store.rs.                                                 *)
(*                                                                          *)
(* Every transaction is one step; a handler is a sequence of them, and the  *)
(* handlers of concurrent requests interleave between any two.  A request   *)
(* carries the identity the authentication layer read when it arrived.      *)
(* `rules` is the in-memory rule table, `storedRules` its table in SQLite,  *)
(* whose owner column cascades when the user goes.                          *)
(***************************************************************************)
EXTENDS Naturals, FiniteSets

CONSTANTS
    Users,        \* user ids, the reserved ones included
    Founder,      \* the user that exists when the server first starts
    HttpRequests,     \* HTTP requests that can be in progress together
    Grants,       \* grant ids
    OwnedIds,      \* rule ids
    Scopes,       \* [lo, hi] ranges of (client, protocol) x port
    MaxTokens,    \* bound on setup tokens issued
    NoGrant, AbsentRule

ASSUME AccessAssumption ==
    /\ Founder \in Users
    /\ Scopes \subseteq [lo : Nat, hi : Nat]
    /\ MaxTokens \in Nat
    /\ AbsentRule \notin OwnedIds

VARIABLES
    role,         \* users table: "none" when there is no row
    grants,       \* grants table: [user, scope] or NoGrant
    rules,        \* RuleStore in memory: [owner, scope, super] or NoRule
    storedRules,  \* rules table: the same
    setup,        \* onboarding_setup: the number of the valid token, 0 for none
    issued,       \* setup tokens issued so far
    request,      \* the requests in progress
    founded,      \* (history) token -> superadmins it created
    raced,        \* (history) rules a revocation overtook, see RulesStayGranted
    ruled         \* (history) whether a superadmin has existed

accessVars == <<role, grants, rules, storedRules, setup, issued, request,
                founded, raced, ruled>>
tables == <<role, grants, rules, storedRules>>
onboarding == <<setup, issued, founded>>

NoRequest == [op |-> "idle"]

Superadmins == {u \in Users : role[u] = "superadmin"}
has_any_superadmin == Superadmins # {}

(* enforce_push for a caller of role `as`: client, protocol and port range  *)
(* are one scope, and one grant must cover all of it.                       *)
Covers(g, scope) == g.scope.lo <= scope.lo /\ scope.hi <= g.scope.hi
EnforcePush(as, scope, held) ==
    as = "superadmin" \/ \E g \in held : Covers(g, scope)

GrantsFor(u) == {grants[g] : g \in {h \in Grants :
                    grants[h] # NoGrant /\ grants[h].user = u}}
OwnedBy(table, u) == {i \in OwnedIds : table[i] # AbsentRule /\ table[i].owner = u}
WithoutRules(table, ids) == [i \in OwnedIds |-> IF i \in ids THEN AbsentRule ELSE table[i]]

To(r, state) == request' = [request EXCEPT ![r] = state]
Done(r) == To(r, NoRequest)
HistoryOf(roles) == ruled' = (ruled \/ \E u \in Users : roles[u] = "superadmin")

-----------------------------------------------------------------------------
\* verify: the credential's user; credentials leave with their user.
Verify(actor) == role[actor] # "none"

(* auth_middleware: refused while there is no superadmin; otherwise the     *)
(* session or bearer token names a user, whose role is read now and kept.   *)
Authenticate(r, actor, op) ==
    /\ request[r] = NoRequest
    /\ has_any_superadmin
    /\ Verify(actor)
    /\ To(r, [op |-> op, actor |-> actor, as |-> role[actor]])

(* require_role: the handlers below that change identities *)
AsSuperadmin(r) == request[r].as = "superadmin"

-----------------------------------------------------------------------------
(* post_users, post_grants: one transaction each *)
PostUser(r, u, as) ==
    /\ request[r].op = "admin" /\ AsSuperadmin(r)
    /\ role[u] = "none"
    /\ role' = [role EXCEPT ![u] = as]
    /\ HistoryOf(role')
    /\ Done(r)
    /\ UNCHANGED <<grants, rules, storedRules, onboarding, raced>>

PostGrant(r, g, u, scope) ==
    /\ request[r].op = "admin" /\ AsSuperadmin(r)
    /\ grants[g] = NoGrant
    /\ role[u] # "none"
    /\ grants' = [grants EXCEPT ![g] = [user |-> u, scope |-> scope]]
    /\ Done(r)
    /\ UNCHANGED <<role, rules, storedRules, onboarding, raced, ruled>>

(* require_role, a failed lookup or an error of the store: nothing happens *)
Refuse(r) ==
    /\ request[r].op = "admin"
    /\ Done(r)
    /\ UNCHANGED <<tables, onboarding, raced, ruled>>

-----------------------------------------------------------------------------
(* delete_user.  Refused for the caller's own id and for the last           *)
(* superadmin; then three steps: the row with its sessions, credentials,    *)
(* grants and stored rules; the rules in memory; the stored rules again.    *)
DeleteUserCheck(r, u) ==
    /\ request[r].op = "admin" /\ AsSuperadmin(r)
    /\ u # request[r].actor
    /\ ~(role[u] = "superadmin" /\ Cardinality(Superadmins) <= 1)
    /\ To(r, [op |-> "delete_user", user |-> u])
    /\ UNCHANGED <<tables, onboarding, raced, ruled>>

RemoveUser(r) ==
    LET u == request[r].user IN
    /\ request[r].op = "delete_user"
    /\ IF role[u] = "none"
       THEN Done(r) /\ UNCHANGED <<role, grants, storedRules>>
       ELSE /\ role' = [role EXCEPT ![u] = "none"]
            /\ grants' = [g \in Grants |->
                    IF grants[g] # NoGrant /\ grants[g].user = u
                    THEN NoGrant ELSE grants[g]]
            /\ storedRules' = WithoutRules(storedRules, OwnedBy(storedRules, u))
            /\ To(r, [op |-> "drop_rules", user |-> u])
    /\ UNCHANGED <<rules, onboarding, raced, ruled>>

(* rules.remove_owned_by *)
RemoveOwnedBy(r) ==
    LET u == request[r].user IN
    /\ request[r].op = "drop_rules"
    /\ rules' = WithoutRules(rules, OwnedBy(rules, u))
    /\ To(r, [op |-> "drop_stored", user |-> u])
    /\ UNCHANGED <<role, grants, storedRules, onboarding, raced, ruled>>

(* rule_store.delete_rules_owned_by: every stored row of that owner *)
DeleteStoredOwnedBy(r) ==
    /\ request[r].op = "drop_stored"
    /\ storedRules' = WithoutRules(storedRules, OwnedBy(storedRules, request[r].user))
    /\ Done(r)
    /\ UNCHANGED <<role, grants, rules, onboarding, raced, ruled>>

-----------------------------------------------------------------------------
(* delete_grant.  The revocation is a transaction; the owner's remaining    *)
(* grants, then the owner's rules, are read after it; every rule the        *)
(* remaining grants do not cover is removed, whatever the owner's role.     *)
RevokeGrant(r, g) ==
    /\ request[r].op = "admin" /\ AsSuperadmin(r)
    /\ grants[g] # NoGrant
    /\ grants' = [grants EXCEPT ![g] = NoGrant]
    /\ To(r, [op |-> "remaining", user |-> grants[g].user, last |-> grants[g]])
    /\ UNCHANGED <<role, rules, storedRules, onboarding, raced, ruled>>

(* Slip: the grants are those read before the revocation. *)
RemainingBefore(r) == GrantsFor(request[r].user) \cup {request[r].last}
Remaining(r) == GrantsFor(request[r].user)

ReadRemaining(r) ==
    /\ request[r].op = "remaining"
    /\ To(r, [op |-> "owned", user |-> request[r].user, held |-> Remaining(r)])
    /\ UNCHANGED <<tables, onboarding, raced, ruled>>

ListOwnedBy(r) ==
    /\ request[r].op = "owned"
    /\ To(r, [op |-> "cascade", user |-> request[r].user, row |-> AbsentRule,
              todo |-> {i \in OwnedBy(rules, request[r].user) :
                    ~EnforcePush("user", rules[i].scope, request[r].held)}])
    /\ UNCHANGED <<tables, onboarding, raced, ruled>>

(* for each: rules.remove (a rule already gone is skipped), then           *)
(* rule_store.delete_rule                                                   *)
CascadeMemory(r) ==
    /\ request[r].op = "cascade" /\ request[r].row = AbsentRule
    /\ IF request[r].todo = {}
       THEN Done(r) /\ UNCHANGED rules
       ELSE \E i \in request[r].todo :
            /\ rules' = WithoutRules(rules, {i})
            /\ To(r, [request[r] EXCEPT !.todo = @ \ {i}, !.row = i])
    /\ UNCHANGED <<role, grants, storedRules, onboarding, raced, ruled>>

CascadeStored(r) ==
    /\ request[r].op = "cascade" /\ request[r].row # AbsentRule
    /\ storedRules' = WithoutRules(storedRules, {request[r].row})
    /\ To(r, [request[r] EXCEPT !.row = AbsentRule])
    /\ UNCHANGED <<role, grants, rules, onboarding, raced, ruled>>

-----------------------------------------------------------------------------
(* push_rule, seen by the owner: the grants are read and checked, then the  *)
(* rule is inserted in memory, then stored, where the owner must still      *)
(* exist; a failed insert leaves the rule in memory.                        *)
OwnedCheck(r, scope) ==
    LET q == request[r] IN
    /\ q.op = "push"
    /\ IF EnforcePush(q.as, scope, GrantsFor(q.actor))
       THEN To(r, [op |-> "insert", owner |-> q.actor, as |-> q.as, scope |-> scope])
       ELSE Done(r)
    /\ UNCHANGED <<tables, onboarding, raced, ruled>>

InUse(i) ==
    \/ rules[i] # AbsentRule \/ storedRules[i] # AbsentRule
    \/ \E o \in HttpRequests :
        \/ request[o].op = "persist" /\ request[o].id = i
        \/ request[o].op = "cascade" /\ i \in request[o].todo \cup {request[o].row}

OwnedInsert(r, i) ==
    LET q == request[r]
        rule == [owner |-> q.owner, scope |-> q.scope, super |-> q.as = "superadmin"] IN
    /\ q.op = "insert"
    /\ ~InUse(i)
    /\ rules' = [rules EXCEPT ![i] = rule]
    /\ raced' = IF EnforcePush(q.as, q.scope, GrantsFor(q.owner))
                THEN raced \ {i} ELSE raced \cup {i}
    /\ To(r, [op |-> "persist", id |-> i, rule |-> rule])
    /\ UNCHANGED <<role, grants, storedRules, onboarding, ruled>>

OwnedPersist(r) ==
    LET q == request[r] IN
    /\ q.op = "persist"
    /\ storedRules' = IF role[q.rule.owner] # "none"
                      THEN [storedRules EXCEPT ![q.id] = q.rule] ELSE storedRules
    /\ raced' = IF rules[q.id] = AbsentRule THEN raced \cup {q.id} ELSE raced
    /\ Done(r)
    /\ UNCHANGED <<role, grants, rules, onboarding, ruled>>

-----------------------------------------------------------------------------
(* post_auth_onboarding: no superadmin and a valid token, checked before    *)
(* the password is hashed, and both checked again by the transaction.       *)
OnboardCheck(r) ==
    /\ request[r] = NoRequest
    /\ ~has_any_superadmin
    /\ setup # 0
    /\ To(r, [op |-> "onboard", token |-> setup])
    /\ UNCHANGED <<tables, onboarding, raced, ruled>>

Onboardable(r, u) ==
    ~has_any_superadmin /\ setup = request[r].token /\ role[u] = "none"

OnboardFirst(r, u) ==
    /\ request[r].op = "onboard"
    /\ IF Onboardable(r, u)
       THEN /\ role' = [role EXCEPT ![u] = "superadmin"]
            /\ founded' = [founded EXCEPT ![request[r].token] = @ + 1]
            /\ setup' = 0
       ELSE UNCHANGED <<role, founded, setup>>
    /\ HistoryOf(role')
    /\ Done(r)
    /\ UNCHANGED <<grants, rules, storedRules, issued, raced>>

(* bootstrap-superadmin: a separate process; check, then bootstrap_pair *)
BootstrapCheck(r) ==
    /\ request[r] = NoRequest
    /\ ~has_any_superadmin
    /\ To(r, [op |-> "bootstrap"])
    /\ UNCHANGED <<tables, onboarding, raced, ruled>>

BootstrapPair(r) ==
    /\ request[r].op = "bootstrap"
    /\ role' = IF role[Founder] = "none"
               THEN [role EXCEPT ![Founder] = "superadmin"] ELSE role
    /\ HistoryOf(role')
    /\ Done(r)
    /\ UNCHANGED <<grants, rules, storedRules, onboarding, raced>>

(* serve.rs at start: requests in progress are lost, the rules are those    *)
(* stored, and without a superadmin either the operator_token of the        *)
(* configuration founds one or a new setup token replaces the old one.      *)
Interrupted(u) == \E r \in HttpRequests :
    /\ request[r].op \in {"remaining", "owned", "cascade", "drop_rules", "drop_stored"}
    /\ request[r].user = u

AccessRestart ==
    /\ \E r \in HttpRequests : request[r] # NoRequest
    /\ request' = [r \in HttpRequests |-> NoRequest]
    /\ rules' = storedRules
    /\ raced' = raced \cup {i \in OwnedIds :
                    storedRules[i] # AbsentRule /\ Interrupted(storedRules[i].owner)}
    /\ \/ /\ ~has_any_superadmin /\ issued < MaxTokens
          /\ setup' = issued + 1 /\ issued' = issued + 1
          /\ UNCHANGED role
       \/ /\ ~has_any_superadmin /\ role[Founder] = "none"
          /\ role' = [role EXCEPT ![Founder] = "superadmin"]
          /\ UNCHANGED <<setup, issued>>
       \/ has_any_superadmin /\ UNCHANGED <<role, setup, issued>>
    /\ HistoryOf(role')
    /\ UNCHANGED <<grants, storedRules, founded>>

-----------------------------------------------------------------------------
AccessInit ==
    /\ role = [u \in Users |-> "none"]
    /\ grants = [g \in Grants |-> NoGrant]
    /\ rules = [i \in OwnedIds |-> AbsentRule]
    /\ storedRules = [i \in OwnedIds |-> AbsentRule]
    /\ setup = 1 /\ issued = 1
    /\ request = [r \in HttpRequests |-> NoRequest]
    /\ founded = [t \in 1..MaxTokens |-> 0]
    /\ raced = {} /\ ruled = FALSE

AccessStep(r) ==
    \/ \E a \in Users : Authenticate(r, a, "admin")
                        /\ UNCHANGED <<tables, onboarding, raced, ruled>>
    \/ \E a \in Users : Authenticate(r, a, "push")
                        /\ UNCHANGED <<tables, onboarding, raced, ruled>>
    \/ \E u \in Users, as \in {"user", "superadmin"} : PostUser(r, u, as)
    \/ \E g \in Grants, u \in Users, s \in Scopes : PostGrant(r, g, u, s)
    \/ Refuse(r)
    \/ \E u \in Users : DeleteUserCheck(r, u)
    \/ RemoveUser(r) \/ RemoveOwnedBy(r) \/ DeleteStoredOwnedBy(r)
    \/ \E g \in Grants : RevokeGrant(r, g)
    \/ ReadRemaining(r) \/ ListOwnedBy(r) \/ CascadeMemory(r) \/ CascadeStored(r)
    \/ \E s \in Scopes : OwnedCheck(r, s)
    \/ \E i \in OwnedIds : OwnedInsert(r, i)
    \/ OwnedPersist(r)
    \/ OnboardCheck(r)
    \/ \E u \in Users : OnboardFirst(r, u)
    \/ BootstrapCheck(r) \/ BootstrapPair(r)

AccessNext == (\E r \in HttpRequests : AccessStep(r)) \/ AccessRestart

AccessSpec == AccessInit /\ [][AccessNext]_accessVars

-----------------------------------------------------------------------------
AccessSettled == \A r \in HttpRequests : request[r] = NoRequest

(* Whenever no request is in progress, every rule a plain user's request    *)
(* put in memory is covered by one of its owner's grants, unless the        *)
(* revocation overtook the steps of the push that made it (check, insert,   *)
(* store) or was itself cut short by a restart: the cascades of delete_user *)
(* and delete_grant leave nothing else behind.                              *)
RulesStayGranted ==
    AccessSettled => \A i \in OwnedIds :
        rules[i] # AbsentRule =>
            \/ rules[i].super
            \/ i \in raced
            \/ EnforcePush("user", rules[i].scope, GrantsFor(rules[i].owner))

(* A setup token founds at most one superadmin, however many onboarding     *)
(* requests hold it (post_auth_onboarding checks it before the slow hash,   *)
(* onboard_first_superadmin again inside the transaction).                  *)
TokenFoundsOnce == \A t \in 1..MaxTokens : founded[t] <= 1

(* Once a superadmin exists there is always one: delete_user refuses the    *)
(* removal of the last.                                                     *)
SuperadminStays == ruled => has_any_superadmin

\* A rule outlives its grant only in a race that is known, and a setup token
\* founds one superadmin (delete_grant, onboard_first_superadmin).
AccessSound == RulesStayGranted /\ TokenFoundsOnce
=============================================================================
