----------------------------- MODULE QuotaBudget -----------------------------
(***************************************************************************)
(* What the byte budget of a (user, client) pair promises, whoever draws   *)
(* from it and however the draws overlap: a byte is granted out of what is *)
(* left, it is granted once, and only an installation brings new bytes.    *)
(* QuotaHandle implements it with two atomics and no lock.                 *)
(***************************************************************************)
EXTENDS Integers

CONSTANTS DrawSizes,    \* bytes one draw may ask for
          Budgets   \* bytes one installation may bring

VARIABLES left,       \* bytes that may still be granted
          spent,      \* bytes granted and not given back
          lost,       \* bytes dropped by a draw that straddled the end, or replaced
          installed   \* bytes ever installed

budgetVars == <<left, spent, lost, installed>>

Draw(n) ==
    /\ n <= left
    /\ left' = left - n
    /\ spent' = spent + n
    /\ UNCHANGED <<lost, installed>>

\* A draw of more than is left gets nothing and takes the rest away.
Forfeit ==
    /\ left > 0
    /\ left' = 0
    /\ lost' = lost + left
    /\ UNCHANGED <<spent, installed>>

\* What was drawn may come back, also after another budget was installed: left
\* is then more than that budget.
GiveBack(n) ==
    /\ n <= spent
    /\ left' = left + n
    /\ spent' = spent - n
    /\ UNCHANGED <<lost, installed>>

Install(b) ==
    /\ left' = b
    /\ lost' = lost + left
    /\ installed' = installed + b
    /\ UNCHANGED spent

BudgetInit ==
    /\ left \in Budgets
    /\ installed = left
    /\ spent = 0
    /\ lost = 0

BudgetNext ==
    \/ \E n \in DrawSizes : Draw(n) \/ GiveBack(n)
    \/ Forfeit
    \/ \E b \in Budgets : Install(b)

BudgetSpec == BudgetInit /\ [][BudgetNext]_budgetVars
=============================================================================
