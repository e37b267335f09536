--------------------------- MODULE MCAccounting ---------------------------
(* Instances of what is recorded, counted and limited for TLC.  The
   components share no variable, so exploring each one alone (`part` says
   which) reaches every state its properties can tell apart. *)
EXTENDS RuleControl, RuleStats, QuotaAccounting, TrafficHistory,
        BillingPeriod, QuotaHandle, Throttle, Admission, AuditQuery,
        ClientAdmin

\* Only the rule's own bucket.
OneLayer == <<"rule">>

\* Clients and names are interchangeable, so the rule there is at first may be
\* any client's.  The other components are explored beside one roster.
SomeClient == CHOOSE d \in Fleet : TRUE
SomeLabel == CHOOSE m \in Labels : TRUE
FirstRule == table[1] = [client |-> SomeClient, name |-> SomeLabel]
OneRoster ==
    /\ roster = [d \in Fleet |-> RowOf(SomeLabel, FALSE)]
    /\ codes = {[client |-> SomeClient, name |-> SomeLabel, address |-> Nobody]}

VARIABLE part   \* the component that takes steps

accountVars == <<part, vars, ruleStatsVars, accountingVars, historyVars,
    billingVars, quotaVars, throttleVars, admissionVars, auditQueryVars, adminVars>>

AccountsInit ==
    /\ part \in {"rules", "stats", "quota", "history", "billing", "handle", "throttle", "admission", "pages", "roster"}
    /\ Init
    /\ RuleStatsInit
    /\ AccountingInit /\ (part # "quota" => quotaRow = NoRow)
    /\ HistoryInit
    /\ BillingInit
    /\ QuotaInit /\ (part # "handle" => remaining = 0)
    /\ ThrottleInit
    /\ AdmissionInit
    /\ AuditQueryInit
    /\ AdminInit /\ FirstRule /\ (part # "roster" => OneRoster)

AccountsNext ==
    \/ /\ part = "rules" /\ Next
       /\ UNCHANGED <<part, ruleStatsVars, accountingVars, historyVars,
                      billingVars, quotaVars, throttleVars, admissionVars, auditQueryVars, adminVars>>
    \/ /\ part = "stats" /\ RuleStatsNext
       /\ UNCHANGED <<part, vars, accountingVars, historyVars,
                      billingVars, quotaVars, throttleVars, admissionVars, auditQueryVars, adminVars>>
    \/ /\ part = "quota" /\ AccountingNext
       /\ UNCHANGED <<part, vars, ruleStatsVars, historyVars,
                      billingVars, quotaVars, throttleVars, admissionVars, auditQueryVars, adminVars>>
    \/ /\ part = "history" /\ HistoryNext
       /\ UNCHANGED <<part, vars, ruleStatsVars, accountingVars,
                      billingVars, quotaVars, throttleVars, admissionVars, auditQueryVars, adminVars>>
    \/ /\ part = "billing" /\ BillingNext
       /\ UNCHANGED <<part, vars, ruleStatsVars, accountingVars,
                      historyVars, quotaVars, throttleVars, admissionVars, auditQueryVars, adminVars>>
    \/ /\ part = "handle" /\ QuotaNext
       /\ UNCHANGED <<part, vars, ruleStatsVars, accountingVars,
                      historyVars, billingVars, throttleVars, admissionVars, auditQueryVars, adminVars>>
    \/ /\ part = "throttle" /\ ThrottleNext
       /\ UNCHANGED <<part, vars, ruleStatsVars, accountingVars,
                      historyVars, billingVars, quotaVars, admissionVars, auditQueryVars, adminVars>>
    \/ /\ part = "admission" /\ AdmissionNext
       /\ UNCHANGED <<part, vars, ruleStatsVars, accountingVars,
                      historyVars, billingVars, quotaVars, throttleVars, auditQueryVars, adminVars>>
    \/ /\ part = "pages" /\ AuditQueryNext
       /\ UNCHANGED <<part, vars, ruleStatsVars, accountingVars,
                      historyVars, billingVars, quotaVars, throttleVars, admissionVars, adminVars>>
    \/ /\ part = "roster" /\ AdminNext
       /\ UNCHANGED <<part, vars, ruleStatsVars, accountingVars,
                      historyVars, billingVars, quotaVars, throttleVars, admissionVars, auditQueryVars>>

AccountsSpec == AccountsInit /\ [][AccountsNext]_accountVars
=============================================================================
