-------------------------- MODULE AccountingProofs --------------------------
(***************************************************************************)
(* What is proved of the accounting: the budget a quota handle grants, the *)
(* charging of what was sent, the rate a throttle holds, the connections *)
(* admitted under a ceiling, the pages of the audit table, the counters of *)
(* the rules and the display names on the roster of clients. *)
(***************************************************************************)
EXTENDS QuotaHandle, QuotaAccounting, Throttle, Admission, AuditQuery, RuleStats, ClientAdmin,
        SequenceTheorems, FiniteSetTheorems, WellFoundedInduction, TLAPS

----
(* Sums as cardinalities *)

\* f[u] units for every u, told apart: the sum of f is how many there are.
Units(S, f) == {p \in S \X Nat : 1 <= p[2] /\ p[2] <= f[p[1]]}

\* The units of one element.
LEMMA UnitsOfOne ==
    ASSUME NEW u, NEW n \in Nat
    PROVE  /\ IsFiniteSet({u} \X (1..n))
           /\ Cardinality({u} \X (1..n)) = n
<1>1. IsFiniteSet({u}) /\ Cardinality({u}) = 1
 BY FS_Singleton
<1>2. IsFiniteSet(1..n) /\ Cardinality(1..n) = n
 BY FS_Interval
<1>3. /\ IsFiniteSet({u} \X (1..n))
      /\ Cardinality({u} \X (1..n)) = Cardinality({u}) * Cardinality(1..n)
 <2> DEFINE A == {u}  B == 1..n
 <2>1. IsFiniteSet(A) /\ IsFiniteSet(B)
  BY <1>1, <1>2
 <2> HIDE DEF A, B
 <2>2. IsFiniteSet(A \X B) /\ Cardinality(A \X B) = Cardinality(A) * Cardinality(B)
  BY <2>1, FS_Product
 <2> QED BY <2>2 DEF A, B
<1>4. Cardinality({u}) * Cardinality(1..n) = n
 BY <1>1, <1>2
<1> QED BY <1>3, <1>4

\* Changing one summand changes the sum by the difference.
LEMMA UnitsStep ==
    ASSUME NEW S, NEW f, NEW g, NEW u, f \in [S -> Nat], u \in S,
           IsFiniteSet(Units(S, f)),
           g \in [S -> Nat], \A v \in S : v # u => g[v] = f[v]
    PROVE  /\ g \in [S -> Nat]
           /\ IsFiniteSet(Units(S, g))
           /\ Cardinality(Units(S, f)) \in Nat
           /\ Cardinality(Units(S, g)) = Cardinality(Units(S, f)) - f[u] + g[u]
<1> DEFINE n == g[u]
<1>0. n \in Nat
 OBVIOUS
<1> HIDE DEF n
<1> DEFINE old == {u} \X (1..f[u])
           new == {u} \X (1..n)
           rest == Units(S, f) \ old
<1>1. IsFiniteSet(old) /\ Cardinality(old) = f[u] /\ IsFiniteSet(new) /\ Cardinality(new) = n
 <2>1. f[u] \in Nat
  OBVIOUS
 <2> HIDE DEF old, new
 <2>2. IsFiniteSet(old) /\ Cardinality(old) = f[u]
  BY <2>1, UnitsOfOne DEF old
 <2>3. IsFiniteSet(new) /\ Cardinality(new) = n
  BY <1>0, UnitsOfOne DEF new
 <2> QED BY <2>2, <2>3
<1>2. old \subseteq Units(S, f)
 <2>1. SUFFICES ASSUME NEW p \in old PROVE p \in Units(S, f)
  OBVIOUS
 <2>2. p \in {u} \X (1..f[u])
  OBVIOUS
 <2> QED BY <2>2 DEF Units
<1>3. Units(S, g) = rest \cup new
 <2>1. ASSUME NEW p \in Units(S, g) PROVE p \in rest \cup new
  <3>1. p \in S \X Nat /\ 1 <= p[2] /\ p[2] <= g[p[1]]
   BY <2>1 DEF Units
  <3>2. CASE p[1] = u
   BY <3>1, <3>2 DEF n
  <3>3. CASE p[1] # u
   BY <3>1, <3>3 DEF Units
  <3> QED BY <3>2, <3>3
 <2>2. ASSUME NEW p \in rest PROVE p \in Units(S, g)
  <3>1. p \in S \X Nat /\ 1 <= p[2] /\ p[2] <= f[p[1]] /\ p \notin old
   BY <2>2 DEF Units
  <3>2. p[1] # u
   BY <3>1
  <3> QED BY <3>1, <3>2 DEF Units
 <2>3. ASSUME NEW p \in new PROVE p \in Units(S, g)
  BY <1>0, <2>3 DEF Units, n
 <2> QED BY <2>1, <2>2, <2>3
<1>4. rest \cap new = {}
 <2>1. SUFFICES ASSUME NEW p \in new, p \in Units(S, f), p \notin old PROVE FALSE
  OBVIOUS
 <2>2. p \in {u} \X (1..n)
  OBVIOUS
 <2>3. p[1] = u /\ 1 <= p[2] /\ p[2] <= f[p[1]] /\ p = <<p[1], p[2]>> /\ p[2] \in Nat
  BY <2>1, <2>2 DEF Units
 <2>4. p \in {u} \X (1..f[u])
  BY <2>3
 <2> QED BY <2>1, <2>4
<1>5. /\ IsFiniteSet(rest)
      /\ Cardinality(rest) = Cardinality(Units(S, f)) - Cardinality(old)
 <2>1. Units(S, f) \cap old = old
  BY <1>2
 <2> HIDE DEF old
 <2> QED BY <2>1, FS_Difference
<1>6. Cardinality(Units(S, f)) \in Nat /\ Cardinality(rest) \in Nat
 BY <1>5, FS_CardinalityType
<1>7. IsFiniteSet(rest \cup new) /\ Cardinality(rest \cup new) = Cardinality(rest) + n
 <2>1. Cardinality(rest \cap new) = 0
  BY <1>4, FS_EmptySet
 <2> HIDE DEF rest, new
 <2>2. /\ IsFiniteSet(rest \cup new)
       /\ Cardinality(rest \cup new) = Cardinality(rest) + Cardinality(new) - Cardinality(rest \cap new)
  BY <1>1, <1>5, FS_Union
 <2> QED BY <1>0, <1>1, <1>6, <2>1, <2>2
<1> HIDE DEF old, new, rest
<1> QED BY <1>0, <1>1, <1>3, <1>5, <1>6, <1>7 DEF n

\* A summand is at most the sum.
LEMMA UnitsBound ==
    ASSUME NEW S, NEW f \in [S -> Nat], NEW u \in S, IsFiniteSet(Units(S, f))
    PROVE  f[u] <= Cardinality(Units(S, f))
<1>1. f[u] \in Nat
 OBVIOUS
<1>2. IsFiniteSet({u} \X (1..f[u])) /\ Cardinality({u} \X (1..f[u])) = f[u]
 BY <1>1, UnitsOfOne
<1>3. {u} \X (1..f[u]) \subseteq Units(S, f)
 <2>1. SUFFICES ASSUME NEW p \in {u} \X (1..f[u]) PROVE p \in Units(S, f)
  OBVIOUS
 <2> QED BY DEF Units
<1> QED BY <1>2, <1>3, FS_Subset

\* Nothing but zeros.
LEMMA UnitsZero ==
    ASSUME NEW S
    PROVE  /\ Units(S, [u \in S |-> 0]) = {}
           /\ IsFiniteSet(Units(S, [u \in S |-> 0]))
           /\ Cardinality(Units(S, [u \in S |-> 0])) = 0
<1>1. Units(S, [u \in S |-> 0]) = {}
 BY DEF Units
<1> QED BY <1>1, FS_EmptySet

----
(* The client's budget: QuotaHandle implements QuotaBudget *)

\* Where a data path may be, and where it has bytes in hand.
CopyPlaces == {"top", "read", "flag", "load", "cas", "mark", "write", "closed"}
SendPlaces == {"idle", "flag", "load", "cas", "mark", "queued", "restore", "clear", "single"}
HandPlaces == {"flag", "load", "cas", "mark", "write", "queued", "restore", "clear", "single"}

PathState == [pc : CopyPlaces \cup SendPlaces, n : Nat, cur : Nat,
              granted : BOOLEAN, prepaid : BOOLEAN]

\* A copy loop never owes; a path that draws asks for a chunk's size.
PathFits(u, r) ==
    /\ r \in PathState
    /\ r.pc \in HandPlaces => r.n \in DrawSizes
    /\ u \in TcpCopies => r.prepaid /\ r.pc \in CopyPlaces
    /\ u \notin TcpCopies => r.pc \in SendPlaces

\* The bytes a path was granted and has neither delivered nor given back.
InHand(r) ==
    IF \/ r.pc \in {"write", "queued", "restore"}
       \/ r.pc = "mark" /\ r.granted /\ r.prepaid
    THEN r.n ELSE 0

Granted == [u \in Consumers |-> InHand(user[u])]

BudgetInv ==
    /\ remaining \in Nat
    /\ account \in [installed : Nat, spent : Int, lost : Nat, delivered : Nat, unpaid : Int]
    /\ user \in [Consumers -> PathState]
    /\ \A u \in Consumers : PathFits(u, user[u])
    /\ IsFiniteSet(Units(Consumers, Granted))
    /\ account.unpaid <= account.delivered
    /\ account.delivered + Cardinality(Units(Consumers, Granted)) <= account.spent + account.unpaid

\* The step of one data path, and what the account must balance.
LEMMA BudgetMove ==
    ASSUME BudgetInv, NEW u \in Consumers, NEW r, PathFits(u, r),
           user' = [user EXCEPT ![u] = r],
           remaining' \in Nat,
           account' \in [installed : Nat, spent : Int, lost : Nat, delivered : Nat, unpaid : Int],
           account'.unpaid - account.unpaid <= account'.delivered - account.delivered,
           (account'.delivered - account.delivered) + InHand(r) - InHand(user[u])
              <= (account'.spent - account.spent) + (account'.unpaid - account.unpaid)
    PROVE  BudgetInv'
<1>1. user' \in [Consumers -> PathState] /\ \A v \in Consumers : PathFits(v, user'[v])
 BY DEF BudgetInv, PathFits
<1>2. Granted \in [Consumers -> Nat] /\ InHand(r) \in Nat /\ InHand(user[u]) \in Nat
 BY DEF BudgetInv, PathFits, PathState, InHand, Granted
<1>3. Granted' = [Granted EXCEPT ![u] = InHand(r)]
 BY DEF Granted, BudgetInv
<1>4. Granted[u] = InHand(user[u])
 BY DEF Granted
<1>5. /\ IsFiniteSet(Units(Consumers, Granted'))
      /\ Cardinality(Units(Consumers, Granted)) \in Nat
      /\ Cardinality(Units(Consumers, Granted')) =
           Cardinality(Units(Consumers, Granted)) - InHand(user[u]) + InHand(r)
 <2>1. IsFiniteSet(Units(Consumers, Granted))
  BY DEF BudgetInv
 <2>2. /\ Granted' \in [Consumers -> Nat] /\ Granted'[u] = InHand(r)
       /\ \A v \in Consumers : v # u => Granted'[v] = Granted[v]
  BY <1>2, <1>3
 <2>3. /\ IsFiniteSet(Units(Consumers, Granted'))
       /\ Cardinality(Units(Consumers, Granted)) \in Nat
       /\ Cardinality(Units(Consumers, Granted')) =
            Cardinality(Units(Consumers, Granted)) - Granted[u] + Granted'[u]
  BY <1>2, <2>1, <2>2, UnitsStep
 <2> QED BY <1>4, <2>2, <2>3
<1>6. /\ account.unpaid \in Int /\ account'.unpaid \in Int /\ account.spent \in Int
      /\ account'.spent \in Int /\ account.delivered \in Nat /\ account'.delivered \in Nat
 BY DEF BudgetInv
<1>7. /\ account'.unpaid <= account'.delivered
      /\ account'.delivered + Cardinality(Units(Consumers, Granted')) <= account'.spent + account'.unpaid
 BY <1>2, <1>5, <1>6 DEF BudgetInv
<1> QED BY <1>1, <1>5, <1>7 DEF BudgetInv

\* A path's bytes in hand are granted bytes.
LEMMA InHandGranted ==
    ASSUME BudgetInv, NEW u \in Consumers
    PROVE  InHand(user[u]) <= account.spent /\ InHand(user[u]) \in Nat
<1> USE DEF BudgetInv
<1>1. Granted \in [Consumers -> Nat] /\ Granted[u] = InHand(user[u])
 BY DEF PathFits, PathState, InHand, Granted
<1>2. Granted[u] <= Cardinality(Units(Consumers, Granted))
 BY <1>1, UnitsBound
<1>3. Cardinality(Units(Consumers, Granted)) \in Nat
 BY FS_CardinalityType
<1> QED BY <1>1, <1>2, <1>3

\* A handle that has just been built has granted nothing.
LEMMA BudgetInvInit == QuotaInit => BudgetInv
<1> SUFFICES ASSUME QuotaInit PROVE BudgetInv
 OBVIOUS
<1>1. /\ remaining \in Nat
      /\ account \in [installed : Nat, spent : Int, lost : Nat, delivered : Nat, unpaid : Int]
      /\ account.unpaid = 0 /\ account.delivered = 0 /\ account.spent = 0
 BY QuotaBudgets DEF QuotaInit
<1>2. user \in [Consumers -> PathState] /\ \A u \in Consumers : PathFits(u, user[u])
 BY DEF QuotaInit, PathState, PathFits, Phase, CopyPlaces, SendPlaces, HandPlaces, Consumers
<1>3. Granted = [u \in Consumers |-> 0]
 BY DEF QuotaInit, Granted, InHand, Phase
<1>4. IsFiniteSet(Units(Consumers, Granted)) /\ Cardinality(Units(Consumers, Granted)) = 0
 BY <1>3, UnitsZero
<1> QED BY <1>1, <1>2, <1>4 DEF BudgetInv

\* Steps that keep the account: only one path moves, with as much in hand.
LEMMA BudgetQuiet ==
    ASSUME BudgetInv, NEW u \in Consumers, NEW r, PathFits(u, r),
           user' = [user EXCEPT ![u] = r], InHand(r) <= InHand(user[u]),
           UNCHANGED <<remaining, account>>
    PROVE  BudgetInv'
<1>1. InHand(r) \in Nat /\ InHand(user[u]) \in Nat
 BY DEF BudgetInv, PathFits, PathState, InHand
<1>2. /\ account \in [installed : Nat, spent : Int, lost : Nat, delivered : Nat, unpaid : Int]
      /\ remaining \in Nat
 BY DEF BudgetInv
<1>3. /\ account'.unpaid - account.unpaid <= account'.delivered - account.delivered
      /\ (account'.delivered - account.delivered) + InHand(r) - InHand(user[u])
           <= (account'.spent - account.spent) + (account'.unpaid - account.unpaid)
 BY <1>1, <1>2
<1> QED BY <1>2, <1>3, BudgetMove

\* Phase(pc, n) is a state of a path.
LEMMA PhaseFits ==
    ASSUME NEW u \in Consumers, NEW n \in Nat, NEW pc,
           u \in TcpCopies => pc \in CopyPlaces,
           u \notin TcpCopies => pc \in SendPlaces,
           pc \in HandPlaces => n \in DrawSizes
    PROVE  PathFits(u, Phase(pc, n))
BY DEF PathFits, PathState, Phase

\* What a path becomes when consume returns.
LEMMA OutcomeFits ==
    ASSUME BudgetInv, NEW u \in Consumers, user[u].pc \in {"flag", "load", "cas", "mark"},
           NEW o \in {"Granted", "Exhausted"}
    PROVE  /\ PathFits(u, Outcome(u, o))
           /\ InHand(Outcome(u, o)) =
                IF o = "Granted" /\ user[u].prepaid THEN user[u].n ELSE 0
<1>1. PathFits(u, user[u]) /\ user[u].n \in DrawSizes /\ user[u].n \in Nat
 BY DEF BudgetInv, PathFits, PathState, HandPlaces
<1> QED BY <1>1, PhaseFits DEF Outcome, Phase, InHand, CopyPlaces, SendPlaces, HandPlaces,
  PathFits, PathState

\* consume keeps the account, and what it takes is a draw or a forfeit.
LEMMA BudgetCas ==
    ASSUME BudgetInv, NEW u \in Consumers, ConsumeCas(u)
    PROVE  BudgetInv' /\ [Budget!BudgetNext]_(Budget!budgetVars)
<1> DEFINE c == user[u]
           new == AtLeastZero(c.cur - c.n)
           fits == c.n <= c.cur
           drawn == [c EXCEPT !.pc = "mark", !.granted = fits]
           after == IF new = 0 THEN drawn ELSE Outcome(u, "Granted")
<1>1. /\ PathFits(u, c) /\ c.pc = "cas" /\ c \in PathState
      /\ c.n \in DrawSizes /\ c.n \in Nat /\ c.cur \in Nat /\ InHand(c) = 0 /\ c.n > 0
      /\ c.prepaid \in BOOLEAN /\ remaining \in Nat
      /\ account \in [installed : Nat, spent : Int, lost : Nat, delivered : Nat, unpaid : Int]
 BY QuotaSizes DEF ConsumeCas, BudgetInv, PathFits, PathState, HandPlaces, InHand
<1>2. CASE c.cur <= 0 \/ remaining # c.cur
 <2> DEFINE r == IF c.cur <= 0 THEN [c EXCEPT !.pc = "mark", !.granted = FALSE]
                               ELSE [c EXCEPT !.cur = remaining]
 <2>1. user' = [user EXCEPT ![u] = r] /\ UNCHANGED <<remaining, account>>
  BY <1>1, <1>2 DEF ConsumeCas, BudgetInv
 <2>2. PathFits(u, r) /\ InHand(r) = 0
  BY <1>1 DEF PathFits, PathState, InHand, HandPlaces, CopyPlaces, SendPlaces
 <2>3. BudgetInv'
  <3> HIDE DEF r, c
  <3>1. InHand(r) <= InHand(user[u])
   BY <1>1, <2>2 DEF c
  <3> QED BY <2>1, <2>2, <3>1, BudgetQuiet
 <2> QED BY <2>1, <2>3 DEF Budget!budgetVars
<1>3. CASE c.cur > 0 /\ remaining = c.cur
 <2>1. /\ user' = [user EXCEPT ![u] = after]
       /\ remaining' = new
       /\ account' = [account EXCEPT !.spent = @ + (IF fits THEN c.n ELSE 0),
                                     !.unpaid = @ - (IF fits THEN Paid(u) ELSE 0),
                                     !.lost = @ + (IF fits THEN 0 ELSE c.cur)]
  BY <1>1, <1>3 DEF ConsumeCas
 <2>2. /\ PathFits(u, Outcome(u, "Granted"))
       /\ InHand(Outcome(u, "Granted")) = IF c.prepaid THEN c.n ELSE 0
  BY <1>1, OutcomeFits
 <2>3. PathFits(u, drawn) /\ InHand(drawn) = IF fits /\ c.prepaid THEN c.n ELSE 0
  <3>1. ASSUME NEW b \in BOOLEAN
        PROVE  /\ PathFits(u, [c EXCEPT !.pc = "mark", !.granted = b])
               /\ InHand([c EXCEPT !.pc = "mark", !.granted = b]) = IF b /\ c.prepaid THEN c.n ELSE 0
   <4>1. PathFits(u, [c EXCEPT !.pc = "mark", !.granted = b])
    BY <1>1 DEF PathFits, PathState, HandPlaces, CopyPlaces, SendPlaces
   <4> QED BY <1>1, <4>1 DEF PathState, InHand
  <3>2. fits \in BOOLEAN
   BY <1>1
  <3> HIDE DEF fits
  <3> QED BY <3>1, <3>2
 <2>4. new \in Nat /\ (fits => new = c.cur - c.n) /\ (~fits => new = 0)
  BY <1>1 DEF AtLeastZero
 <2>5. PathFits(u, after) /\ InHand(after) = IF fits /\ c.prepaid THEN c.n ELSE 0
  <3> HIDE DEF drawn
  <3> QED BY <2>2, <2>3, <2>4
 <2>6. Paid(u) = IF c.prepaid THEN 0 ELSE c.n
  BY DEF Paid
 <2>7. /\ account' \in [installed : Nat, spent : Int, lost : Nat, delivered : Nat, unpaid : Int]
       /\ account'.delivered = account.delivered
       /\ account'.installed = account.installed
       /\ account'.spent = account.spent + (IF fits THEN c.n ELSE 0)
       /\ account'.unpaid = account.unpaid - (IF fits THEN Paid(u) ELSE 0)
       /\ account'.lost = account.lost + (IF fits THEN 0 ELSE c.cur)
  <3> DEFINE x == IF fits THEN c.n ELSE 0
             y == IF fits THEN Paid(u) ELSE 0
             z == IF fits THEN 0 ELSE c.cur
  <3>1. x \in Nat /\ y \in Nat /\ z \in Nat
   BY <1>1, <2>6
  <3> HIDE DEF x, y, z
  <3>2. account' = [account EXCEPT !.spent = @ + x, !.unpaid = @ - y, !.lost = @ + z]
   BY <2>1 DEF x, y, z
  <3>3. /\ account' \in [installed : Nat, spent : Int, lost : Nat, delivered : Nat, unpaid : Int]
        /\ account'.delivered = account.delivered
        /\ account'.installed = account.installed
        /\ account'.spent = account.spent + x
        /\ account'.unpaid = account.unpaid - y
        /\ account'.lost = account.lost + z
   <4>1. account.spent \in Int /\ account.unpaid \in Int /\ account.lost \in Nat
    BY <1>1
   <4>2. /\ account.spent + x \in Int /\ account.unpaid - y \in Int
         /\ account.lost + z \in Nat
    BY <3>1, <4>1
   <4> QED BY <1>1, <3>2, <4>2
  <3> QED BY <3>3 DEF x, y, z
 <2>8. BudgetInv'
  <3>1. /\ account'.unpaid - account.unpaid <= account'.delivered - account.delivered
        /\ (account'.delivered - account.delivered) + InHand(after) - InHand(user[u])
             <= (account'.spent - account.spent) + (account'.unpaid - account.unpaid)
   <4> USE <1>1, <2>5, <2>6, <2>7
   <4>1. CASE fits /\ c.prepaid
    BY <4>1
   <4>2. CASE fits /\ ~c.prepaid
    BY <4>2
   <4>3. CASE ~fits
    BY <4>3
   <4> QED BY <4>1, <4>2, <4>3
  <3>2. remaining' \in Nat
   BY <2>1, <2>4
  <3> HIDE DEF after
  <3> QED BY <2>1, <2>5, <2>7, <3>1, <3>2, BudgetMove
 <2>9. Budget!BudgetNext
  <3>1. CASE fits
   BY <1>1, <1>3, <2>1, <2>4, <2>7, <3>1 DEF Budget!BudgetNext, Budget!Draw
  <3>2. CASE ~fits
   BY <1>1, <1>3, <2>1, <2>4, <2>7, <3>2 DEF Budget!BudgetNext, Budget!Forfeit
  <3> QED BY <3>1, <3>2
 <2> QED BY <2>8, <2>9
<1> QED BY <1>1, <1>2, <1>3

\* Steps of a path that leave the budget and the account alone.
LEMMA BudgetQuietSteps ==
    ASSUME BudgetInv, NEW u \in Consumers,
           \/ ConsumeFlag(u) \/ ConsumeLoad(u) \/ ConsumeMark(u)
           \/ CopyTop(u) \/ CopyRead(u) \/ CopyOpen(u) \/ SendDatagram(u) \/ RestoreClear(u)
           \/ CheckSingle(u) \/ DemuxReply(u)
    PROVE  BudgetInv' /\ UNCHANGED <<remaining, account>>
<1> DEFINE c == user[u]
<1>1. /\ PathFits(u, c) /\ c \in PathState /\ InHand(c) \in Nat /\ remaining \in Nat
      /\ user \in [Consumers -> PathState] /\ c.n \in Nat
 BY DEF BudgetInv, PathFits, PathState, InHand
<1>2. DrawSizes \subseteq Nat
 BY QuotaSizes
<1> HIDE DEF c
<1>3. ASSUME NEW r, user' = [user EXCEPT ![u] = r], PathFits(u, r), InHand(r) <= InHand(c),
             UNCHANGED <<remaining, account>>
      PROVE  BudgetInv' /\ UNCHANGED <<remaining, account>>
 BY <1>3, BudgetQuiet DEF c
<1>4. CASE ConsumeFlag(u) \/ ConsumeMark(u)
 <2>1. PICK o \in {"Granted", "Exhausted"} :
         /\ \/ user' = [user EXCEPT ![u] = Outcome(u, o)]
            \/ c.pc = "flag" /\ user' = [user EXCEPT ![u] = [c EXCEPT !.pc = "load"]]
         /\ o = "Granted" => c.pc = "mark" /\ c.granted
  BY <1>1, <1>4 DEF ConsumeFlag, ConsumeMark, c
 <2>2. c.pc \in {"flag", "mark"} /\ UNCHANGED <<remaining, account>>
  BY <1>4 DEF ConsumeFlag, ConsumeMark, c
 <2>3. /\ PathFits(u, Outcome(u, o))
       /\ InHand(Outcome(u, o)) = IF o = "Granted" /\ c.prepaid THEN c.n ELSE 0
  BY <2>2, OutcomeFits DEF c
 <2>4. InHand(Outcome(u, o)) <= InHand(c)
  <3>1. InHand(c) = IF c.pc = "mark" /\ c.granted /\ c.prepaid THEN c.n ELSE 0
   BY <2>2 DEF InHand
  <3> QED BY <1>1, <2>1, <2>3, <3>1
 <2>5. CASE user' = [user EXCEPT ![u] = Outcome(u, o)]
  BY <1>3, <2>2, <2>3, <2>4, <2>5
 <2>6. CASE c.pc = "flag" /\ user' = [user EXCEPT ![u] = [c EXCEPT !.pc = "load"]]
  <3>1. PathFits(u, [c EXCEPT !.pc = "load"]) /\ InHand([c EXCEPT !.pc = "load"]) = 0
   BY <1>1, <2>6 DEF PathFits, PathState, InHand, HandPlaces, CopyPlaces, SendPlaces
  <3>2. InHand([c EXCEPT !.pc = "load"]) <= InHand(c)
   BY <1>1, <3>1
  <3> QED BY <1>3, <2>2, <2>6, <3>1, <3>2
 <2> QED BY <2>1, <2>5, <2>6
<1>5. CASE ConsumeLoad(u)
 <2> DEFINE r == [c EXCEPT !.pc = "cas", !.cur = remaining]
 <2>1. c.pc = "load" /\ user' = [user EXCEPT ![u] = r] /\ UNCHANGED <<remaining, account>>
  BY <1>1, <1>5 DEF ConsumeLoad, c
 <2>2. PathFits(u, r) /\ InHand(r) = 0
  BY <1>1, <2>1 DEF PathFits, PathState, InHand, HandPlaces, CopyPlaces, SendPlaces
 <2> HIDE DEF r
 <2>3. InHand(r) <= InHand(c)
  BY <1>1, <2>2
 <2> QED BY <1>3, <2>1, <2>2, <2>3
<1>6. CASE CopyTop(u) \/ CopyOpen(u) \/ RestoreClear(u)
           \/ (CopyRead(u) /\ user' = [user EXCEPT ![u].pc = "closed"])
 <2>1. PICK pc \in {"closed", "read", "top", "single"} :
         /\ user' = [user EXCEPT ![u] = [c EXCEPT !.pc = pc]]
         /\ pc = "single" => c.pc = "clear"
         /\ pc # "single" => c.pc \in {"top", "closed", "read"}
         /\ UNCHANGED <<remaining, account>>
  BY <1>1, <1>6 DEF CopyTop, CopyOpen, RestoreClear, CopyRead, c
 <2> DEFINE r == [c EXCEPT !.pc = pc]
 <2>2. PathFits(u, r) /\ InHand(r) = 0
  BY <1>1, <2>1 DEF PathFits, PathState, InHand, HandPlaces, CopyPlaces, SendPlaces
 <2>3. user' = [user EXCEPT ![u] = r]
  BY <2>1
 <2> HIDE DEF r
 <2>4. InHand(r) <= InHand(c)
  BY <1>1, <2>2
 <2> QED BY <1>3, <2>1, <2>2, <2>3, <2>4
<1>7. CASE \/ SendDatagram(u) \/ CheckSingle(u) \/ DemuxReply(u)
           \/ \E n \in DrawSizes : CopyRead(u) /\ user' = [user EXCEPT ![u] = Phase("flag", n)]
 <2>0. \/ \E n \in DrawSizes : user' = [user EXCEPT ![u] = Phase("flag", n)]
       \/ u \in UdpSends /\ \E n \in DrawSizes : user' = [user EXCEPT ![u] = Phase("single", n)]
  BY <1>7 DEF SendDatagram, CheckSingle, DemuxReply
 <2>1. PICK n \in DrawSizes, pc \in {"flag", "single"} :
         user' = [user EXCEPT ![u] = Phase(pc, n)] /\ (pc = "single" => u \in UdpSends)
  BY <2>0
 <2>2. UNCHANGED <<remaining, account>>
  BY <1>7 DEF SendDatagram, CheckSingle, DemuxReply, CopyRead
 <2>3. PathFits(u, Phase(pc, n))
  BY <1>2, <2>1, QuotaUsersDiffer, PhaseFits DEF CopyPlaces, SendPlaces
 <2>4. InHand(Phase(pc, n)) = 0
  BY <2>1 DEF Phase, InHand
 <2>5. InHand(Phase(pc, n)) <= InHand(c)
  BY <1>1, <2>4
 <2> QED BY <1>3, <2>1, <2>2, <2>3, <2>5
<1>8. CopyRead(u) => \/ user' = [user EXCEPT ![u].pc = "closed"]
                     \/ \E n \in DrawSizes : user' = [user EXCEPT ![u] = Phase("flag", n)]
 BY DEF CopyRead
<1> QED BY <1>4, <1>5, <1>6, <1>7, <1>8

\* A write, a flush and a single send move bytes; restore gives a grant back.
LEMMA BudgetBusySteps ==
    ASSUME BudgetInv, NEW u \in Consumers,
           CopyWrite(u) \/ FlushRun(u) \/ SendSingle(u) \/ RestoreAdd(u)
    PROVE  BudgetInv' /\ [Budget!BudgetNext]_(Budget!budgetVars)
<1> DEFINE c == user[u]
           Account == [installed : Nat, spent : Int, lost : Nat, delivered : Nat, unpaid : Int]
<1>1. /\ PathFits(u, c) /\ c \in PathState /\ remaining \in Nat /\ c.n \in Nat
      /\ user \in [Consumers -> PathState] /\ account \in Account
      /\ account.spent \in Int /\ account.delivered \in Nat /\ account.unpaid \in Int
 BY DEF BudgetInv, PathFits, PathState
<1>2. CASE CopyWrite(u) \/ FlushRun(u) \/ SendSingle(u)
 <2>1. PICK pc \in {"top", "closed", "idle"} :
         \/ /\ c.pc \in {"write", "queued"} /\ user' = [user EXCEPT ![u] = Phase(pc, 0)]
            /\ pc = "idle" <=> c.pc = "queued"
            /\ \/ account' = [account EXCEPT !.delivered = @ + c.n]
               \/ account' = account
         \/ /\ c.pc = "queued" /\ user' = [user EXCEPT ![u] = [c EXCEPT !.pc = "restore"]]
            /\ account' = account
         \/ /\ c.pc = "single"
            /\ user' = [user EXCEPT ![u] = [c EXCEPT !.pc = "flag", !.prepaid = FALSE]]
            /\ account' = [account EXCEPT !.delivered = @ + c.n, !.unpaid = @ + c.n]
         \/ /\ c.pc = "single" /\ pc = "idle" /\ user' = [user EXCEPT ![u] = Phase(pc, 0)]
            /\ account' = account
  BY <1>1, <1>2 DEF CopyWrite, FlushRun, SendSingle
 <2>2. UNCHANGED remaining
  BY <1>2 DEF CopyWrite, FlushRun, SendSingle
 <2> HIDE DEF c
 <2>3. account' \in Account /\ UNCHANGED <<account.spent, account.lost, account.installed>>
  <3>1. account.delivered + c.n \in Nat /\ account.unpaid + c.n \in Int
   BY <1>1
  <3> QED BY <1>1, <2>1, <3>1
 <2>4. [Budget!BudgetNext]_(Budget!budgetVars)
  BY <2>2, <2>3 DEF Budget!budgetVars
 <2>5. CASE (c.pc \in {"write", "queued"} \/ (c.pc = "single" /\ pc = "idle"))
            /\ user' = [user EXCEPT ![u] = Phase(pc, 0)]
            /\ (pc = "idle" <=> c.pc \in {"queued", "single"})
            /\ (account' = account
                \/ (c.pc # "single" /\ account' = [account EXCEPT !.delivered = @ + c.n]))
  <3>1. PathFits(u, Phase(pc, 0))
   BY <1>1, <2>5, PhaseFits DEF PathFits, CopyPlaces, SendPlaces, HandPlaces
  <3>2. InHand(Phase(pc, 0)) = 0
   BY DEF InHand, Phase
  <3>3. InHand(c) = IF c.pc = "single" THEN 0 ELSE c.n
   BY <2>5 DEF InHand
  <3>4. \/ account'.delivered = account.delivered /\ account'.unpaid = account.unpaid
           /\ account'.spent = account.spent
        \/ c.pc # "single" /\ account'.delivered = account.delivered + c.n
           /\ account'.unpaid = account.unpaid /\ account'.spent = account.spent
   BY <1>1, <2>5
  <3>5. /\ account'.unpaid - account.unpaid <= account'.delivered - account.delivered
        /\ (account'.delivered - account.delivered) + InHand(Phase(pc, 0)) - InHand(user[u])
             <= (account'.spent - account.spent) + (account'.unpaid - account.unpaid)
   BY <1>1, <3>2, <3>3, <3>4 DEF c
  <3>6. BudgetInv'
   BY <1>1, <2>2, <2>3, <2>5, <3>1, <3>5, BudgetMove
  <3> QED BY <2>4, <3>6
 <2>6. CASE /\ c.pc = "queued" /\ user' = [user EXCEPT ![u] = [c EXCEPT !.pc = "restore"]]
            /\ account' = account
  <3> DEFINE r == [c EXCEPT !.pc = "restore"]
  <3>1. PathFits(u, r) /\ InHand(r) = InHand(c) /\ InHand(c) \in Nat
   BY <1>1, <2>6 DEF PathFits, PathState, InHand, HandPlaces, CopyPlaces, SendPlaces
  <3>2. user' = [user EXCEPT ![u] = r]
   BY <2>6
  <3> HIDE DEF r
  <3>3. InHand(r) <= InHand(user[u])
   BY <3>1 DEF c
  <3>4. UNCHANGED <<remaining, account>>
   BY <2>2, <2>6
  <3>5. BudgetInv'
   BY <3>1, <3>2, <3>3, <3>4, BudgetQuiet
  <3> QED BY <2>4, <3>5
 <2>7. CASE /\ c.pc = "single"
            /\ user' = [user EXCEPT ![u] = [c EXCEPT !.pc = "flag", !.prepaid = FALSE]]
            /\ account' = [account EXCEPT !.delivered = @ + c.n, !.unpaid = @ + c.n]
  <3> DEFINE r == [c EXCEPT !.pc = "flag", !.prepaid = FALSE]
  <3>1. PathFits(u, r) /\ InHand(r) = 0 /\ InHand(c) = 0
   BY <1>1, <2>7 DEF PathFits, PathState, InHand, HandPlaces, CopyPlaces, SendPlaces
  <3>2. user' = [user EXCEPT ![u] = r]
   BY <2>7
  <3> HIDE DEF r
  <3>3. /\ account'.delivered = account.delivered + c.n /\ account'.unpaid = account.unpaid + c.n
        /\ account'.spent = account.spent
   BY <1>1, <2>7
  <3>4. /\ account'.unpaid - account.unpaid <= account'.delivered - account.delivered
        /\ (account'.delivered - account.delivered) + InHand(r) - InHand(user[u])
             <= (account'.spent - account.spent) + (account'.unpaid - account.unpaid)
   BY <1>1, <3>1, <3>3 DEF c
  <3>5. BudgetInv'
   BY <1>1, <2>2, <2>3, <3>1, <3>2, <3>4, BudgetMove
  <3> QED BY <2>4, <3>5
 <2> QED BY <2>1, <2>5, <2>6, <2>7
<1>3. CASE RestoreAdd(u)
 <2> DEFINE r == [c EXCEPT !.pc = "clear"]
 <2>1. /\ c.pc = "restore" /\ user' = [user EXCEPT ![u] = r] /\ remaining' = remaining + c.n
       /\ account' = [account EXCEPT !.spent = @ - c.n]
  BY <1>1, <1>3 DEF RestoreAdd
 <2>2. c.n <= account.spent /\ c.n \in DrawSizes
  <3>1. InHand(c) = c.n
   BY <2>1 DEF InHand
  <3>2. c.n \in DrawSizes
   BY <1>1, <2>1 DEF PathFits, HandPlaces
  <3> QED BY <3>1, <3>2, InHandGranted
 <2>3. PathFits(u, r) /\ InHand(r) = 0 /\ InHand(c) = c.n
  BY <1>1, <2>1 DEF PathFits, PathState, InHand, HandPlaces, CopyPlaces, SendPlaces
 <2>4. /\ account' \in Account /\ remaining' \in Nat
       /\ account'.spent = account.spent - c.n /\ account'.lost = account.lost
       /\ account'.installed = account.installed /\ account'.delivered = account.delivered
       /\ account'.unpaid = account.unpaid
  <3>1. account.spent - c.n \in Int
   BY <1>1
  <3> QED BY <1>1, <2>1, <3>1
 <2> HIDE DEF r, c
 <2>5. /\ account'.unpaid - account.unpaid <= account'.delivered - account.delivered
       /\ (account'.delivered - account.delivered) + InHand(r) - InHand(user[u])
            <= (account'.spent - account.spent) + (account'.unpaid - account.unpaid)
  BY <1>1, <2>3, <2>4 DEF c
 <2>6. BudgetInv'
  BY <2>1, <2>3, <2>4, <2>5, BudgetMove
 <2>7. Budget!BudgetNext
  BY <2>1, <2>2, <2>4 DEF Budget!BudgetNext, Budget!GiveBack
 <2> QED BY <2>6, <2>7
<1> QED BY <1>2, <1>3

\* replace() is an installation; the flag is not part of the budget.
LEMMA BudgetReplace ==
    ASSUME BudgetInv, ReplaceBudget \/ ReplaceFlag
    PROVE  BudgetInv' /\ [Budget!BudgetNext]_(Budget!budgetVars)
<1>1. CASE ReplaceFlag
 BY <1>1 DEF ReplaceFlag, BudgetInv, Granted, Budget!budgetVars
<1>2. CASE ReplaceBudget
 <2>1. PICK b \in Budgets :
         /\ remaining' = b
         /\ account' = [account EXCEPT !.installed = @ + b, !.lost = @ + remaining]
  BY <1>2 DEF ReplaceBudget
 <2>2. UNCHANGED user /\ b \in Nat
  BY <1>2, QuotaBudgets DEF ReplaceBudget
 <2>3. /\ account' \in [installed : Nat, spent : Int, lost : Nat, delivered : Nat, unpaid : Int]
       /\ account'.installed = account.installed + b /\ account'.lost = account.lost + remaining
       /\ account'.spent = account.spent /\ account'.delivered = account.delivered
       /\ account'.unpaid = account.unpaid
  <3>1. account.installed + b \in Nat /\ account.lost + remaining \in Nat
   BY <2>2 DEF BudgetInv
  <3> QED BY <2>1, <3>1 DEF BudgetInv
 <2>4. Granted' = Granted
  BY <2>2 DEF Granted
 <2>5. BudgetInv'
  BY <2>1, <2>2, <2>3, <2>4 DEF BudgetInv
 <2>6. Budget!BudgetNext
  BY <2>1, <2>3 DEF Budget!BudgetNext, Budget!Install
 <2> QED BY <2>5, <2>6
<1> QED BY <1>1, <1>2

\* Every step of the copies, the senders and the installs keeps the balance.
LEMMA BudgetInvNext ==
    BudgetInv /\ [QuotaNext]_quotaVars => BudgetInv' /\ [Budget!BudgetNext]_(Budget!budgetVars)
<1> SUFFICES ASSUME BudgetInv, [QuotaNext]_quotaVars
             PROVE  BudgetInv' /\ [Budget!BudgetNext]_(Budget!budgetVars)
 OBVIOUS
<1>1. CASE UNCHANGED quotaVars
 BY <1>1 DEF quotaVars, BudgetInv, Granted, Budget!budgetVars
<1>2. CASE \E u \in Consumers :
             \/ ConsumeFlag(u) \/ ConsumeLoad(u) \/ ConsumeMark(u)
             \/ CopyTop(u) \/ CopyRead(u) \/ CopyOpen(u) \/ SendDatagram(u) \/ RestoreClear(u)
           \/ CheckSingle(u) \/ DemuxReply(u)
 <2>1. BudgetInv' /\ UNCHANGED <<remaining, account>>
  BY <1>2, BudgetQuietSteps
 <2> QED BY <2>1 DEF Budget!budgetVars
<1>3. CASE \E u \in Consumers : CopyWrite(u) \/ FlushRun(u) \/ SendSingle(u) \/ RestoreAdd(u)
 BY <1>3, BudgetBusySteps
<1>4. CASE \E u \in Consumers : ConsumeCas(u)
 BY <1>4, BudgetCas
<1>5. CASE ReplaceBudget \/ ReplaceFlag
 BY <1>5, BudgetReplace
<1> QED BY <1>1, <1>2, <1>3, <1>4, <1>5 DEF QuotaNext

\* The budget of a (user, client) pair: consume, restore and replace, atomic by
\* atomic and for any number of data paths, implement QuotaBudget, and what
\* is debited before it is sent was granted (quota/mod.rs, quota/copy.rs).
THEOREM BudgetCorrect == QuotaSpec => BudgetSound
<1>1. QuotaInit => BudgetInv
 BY BudgetInvInit
<1>2. BudgetInv /\ [QuotaNext]_quotaVars => BudgetInv' /\ [Budget!BudgetNext]_(Budget!budgetVars)
 BY BudgetInvNext
<1>3. QuotaInit => Budget!BudgetInit
 BY DEF QuotaInit, Budget!BudgetInit
<1>4. BudgetInv => NeverOverdelivered
 <2> SUFFICES ASSUME BudgetInv PROVE NeverOverdelivered
  OBVIOUS
 <2>1. Cardinality(Units(Consumers, Granted)) \in Nat
  BY FS_CardinalityType DEF BudgetInv
 <2> QED BY <2>1 DEF BudgetInv, NeverOverdelivered
<1> QED BY <1>1, <1>2, <1>3, <1>4, PTL DEF QuotaSpec, BudgetSound, BudgetRefined, Budget!BudgetSpec

AccountingTasks == {"pump", "roll", "operator", "exhaust"}
TaskFields == {"pc", "row", "delta", "pre", "clear"}

\* The delta the pump has computed and not yet charged.
PendingDelta == IF handler["pump"].pc \in {"lookup", "pre", "charge"} THEN handler["pump"].delta ELSE 0

TaskInv ==
    /\ DOMAIN handler = AccountingTasks
    /\ \A t \in AccountingTasks : DOMAIN handler[t] = TaskFields
    /\ handler["pump"].delta \in Nat

\* A session pushes the rule once, to a client that does not run it.
FrameInv ==
    /\ \E S : frames \in Seq(S)
    /\ \A i, j \in 1..Len(frames) : frames[i].action = "PUSH" /\ frames[j].action = "PUSH" => i = j
    /\ \A i \in 1..Len(frames) : frames[i].action = "PUSH" => fwd.quota = "off"
    /\ ~online => frames = <<>> /\ fwd.quota = "off"

\* The counter of the rule, and the reading of it on its way.
ReadingInv ==
    /\ DOMAIN fwd = {"quota", "own", "bytes"} /\ fwd.bytes \in Nat
    /\ readings = <<>> \/ \E r \in 0 .. fwd.bytes : readings = <<r>>
    /\ fwd.quota = "off" => readings = <<>> /\ fwd.bytes = 0

\* What is charged, about to be charged, and may still be read: all of the
\* counter after it started afresh, what lies beyond the baseline otherwise.
ChargeBalance ==
    /\ prevReading \in Nat
    /\ total \in [sent : Nat, charged : Nat, requests : Nat, cuts : Nat]
    /\ \/ total.charged + PendingDelta + fwd.bytes <= total.sent
       \/ /\ prevReading <= fwd.bytes
          /\ readings # <<>> => prevReading <= Head(readings)
          /\ total.charged + PendingDelta + fwd.bytes - prevReading <= total.sent

ChargeInv == TaskInv /\ FrameInv /\ ReadingInv /\ ChargeBalance

\* At the start nothing was sent and nothing charged.
LEMMA ChargeInvInit == AccountingInit => ChargeInv
<1> SUFFICES ASSUME AccountingInit PROVE ChargeInv
 OBVIOUS
<1> USE DEF AccountingInit
<1>1. TaskInv
 BY DEF TaskInv, AccountingTasks, TaskFields, Resting
<1> USE DEF NotRunning
<1>2. FrameInv
 BY DEF FrameInv
<1>3. ReadingInv
 BY DEF ReadingInv
<1>4. ChargeBalance
 BY DEF ChargeBalance, PendingDelta, Resting
<1> QED BY <1>1, <1>2, <1>3, <1>4 DEF ChargeInv

\* A step of another task than the pump that only its own state, the quota and
\* the request count show.
LEMMA ChargeAside ==
    ASSUME ChargeInv, TaskInv', handler'["pump"] = handler["pump"],
           total' = total \/ total' = [total EXCEPT !.requests = @ + 1],
           UNCHANGED <<prevReading, fwd, readings>>
    PROVE  ReadingInv' /\ ChargeBalance'
<1>1. ReadingInv'
 BY DEF ChargeInv, ReadingInv
<1>2. PendingDelta' = PendingDelta
 BY DEF PendingDelta
<1>3. /\ total' \in [sent : Nat, charged : Nat, requests : Nat, cuts : Nat]
      /\ total'.sent = total.sent /\ total'.charged = total.charged
 BY DEF ChargeInv, ChargeBalance
<1>4. ChargeBalance'
 BY <1>2, <1>3 DEF ChargeInv, ChargeBalance
<1> QED BY <1>1, <1>4

\* The steps of the rollover, the operator and the exhaustion notice.
LEMMA ChargeOthers ==
    ASSUME ChargeInv,
           \/ TakeExhaustEvent \/ RollList \/ RollResetsRow \/ RollFillsCache
           \/ PutQuota \/ PatchQuota \/ UpsertRow \/ UpsertCache \/ ClearRow \/ ClearCache
           \/ DeleteRow \/ DeleteCache \/ NextMonth
    PROVE  ChargeInv'
<1>1. /\ UNCHANGED <<prevReading, fwd, readings, frames, online>>
      /\ total' = total \/ total' = [total EXCEPT !.requests = @ + 1]
 BY DEF TakeExhaustEvent, RollList, RollResetsRow, RollFillsCache, PutQuota, PatchQuota, UpsertRow,
  UpsertCache, ClearRow, ClearCache, DeleteRow, DeleteCache, NextMonth, sessionVars, agent
<1>2. TaskInv' /\ handler'["pump"] = handler["pump"]
 <2> USE DEF ChargeInv, TaskInv, AccountingTasks, TaskFields, Moves, Carry, Return, Resting
 <2>1. CASE TakeExhaustEvent \/ RollList \/ RollResetsRow \/ RollFillsCache \/ NextMonth
  BY <2>1 DEF TakeExhaustEvent, RollList, RollResetsRow, RollFillsCache, NextMonth
 <2>2. CASE PutQuota
  BY <2>2 DEF PutQuota
 <2>3. CASE PatchQuota
  BY <2>3 DEF PatchQuota
 <2>4. CASE UpsertRow \/ UpsertCache \/ ClearRow \/ ClearCache
  BY <2>4 DEF UpsertRow, UpsertCache, ClearRow, ClearCache
 <2>5. CASE DeleteRow \/ DeleteCache
  BY <2>5 DEF DeleteRow, DeleteCache
 <2> QED BY <2>1, <2>2, <2>3, <2>4, <2>5
<1>3. FrameInv'
 BY <1>1 DEF ChargeInv, FrameInv
<1>4. ReadingInv' /\ ChargeBalance'
 BY <1>1, <1>2, ChargeAside
<1> QED BY <1>2, <1>3, <1>4 DEF ChargeInv

\* A frame that is not a PUSH joins the others.
LEMMA ChargeAnnounce ==
    ASSUME FrameInv, NEW f, Announce(f), f.action # "PUSH", UNCHANGED <<online, fwd>>
    PROVE  FrameInv'
<1>1. CASE ~online
 BY <1>1 DEF Announce, FrameInv
<1>2. CASE online
 <2>1. frames' = Append(frames, f)
  BY <1>2 DEF Announce
 <2>2. PICK S : frames \in Seq(S)
  BY DEF FrameInv
 <2>3. frames \in Seq(S \cup {f})
  BY <2>2
 <2>4. /\ frames' \in Seq(S \cup {f}) /\ Len(frames') = Len(frames) + 1 /\ Len(frames) \in Nat
       /\ \A i \in 1..Len(frames) : frames'[i] = frames[i]
       /\ frames'[Len(frames) + 1] = f
  BY <2>1, <2>3
 <2>5. \A i \in 1..Len(frames') : frames'[i].action = "PUSH" => i \in 1..Len(frames) /\ frames[i].action = "PUSH"
  BY <2>4
 <2> QED BY <1>2, <2>4, <2>5 DEF FrameInv
<1> QED BY <1>1, <1>2

\* Telling the client of a change charges nothing.
LEMMA ChargeTells ==
    ASSUME ChargeInv, TellRemove \/ \E t \in {"roll", "operator", "exhaust"} : TellSet(t)
    PROVE  ChargeInv'
<1>1. PICK t \in {"roll", "operator", "exhaust"} : Return(t)
 BY DEF TellRemove, TellSet
<1>2. TaskInv' /\ handler'["pump"] = handler["pump"]
 BY <1>1 DEF ChargeInv, TaskInv, AccountingTasks, TaskFields, Return, Resting
<1>3. UNCHANGED <<prevReading, fwd, readings, online, total>>
 BY DEF TellRemove, TellSet, agent
<1>4. \E f : Announce(f) /\ f.action # "PUSH"
 BY DEF TellRemove, TellSet, SetFrame, RemoveFrame
<1>5. FrameInv'
 BY <1>3, <1>4, ChargeAnnounce DEF ChargeInv
<1>6. ReadingInv' /\ ChargeBalance'
 BY <1>2, <1>3, ChargeAside
<1> QED BY <1>2, <1>5, <1>6 DEF ChargeInv

\* The pump: a reading becomes a pending delta, and a delta a charge, once.
LEMMA ChargePump ==
    ASSUME ChargeInv,
           \/ Record \/ RecordLookup \/ AccumulateReadsCache \/ AccumulateChargesRow
           \/ AccumulateFillsCache
    PROVE  ChargeInv'
<1>1. /\ prevReading \in Nat /\ fwd.bytes \in Nat /\ handler["pump"].delta \in Nat
      /\ total \in [sent : Nat, charged : Nat, requests : Nat, cuts : Nat]
      /\ total.sent \in Nat /\ total.charged \in Nat /\ PendingDelta \in Nat
 BY DEF ChargeInv, ChargeBalance, ReadingInv, TaskInv, PendingDelta
<1>2. UNCHANGED <<frames, online, fwd>>
 BY DEF Record, RecordLookup, AccumulateReadsCache, AccumulateChargesRow, AccumulateFillsCache,
  sessionVars, agent
<1>3. FrameInv'
 BY <1>2 DEF ChargeInv, FrameInv
<1>4. CASE Record
 <2> DEFINE cum == Head(readings)
            delta == IF cum < prevReading THEN 0 ELSE cum - prevReading
 <2>1. PICK r \in 0 .. fwd.bytes : readings = <<r>>
  BY <1>4 DEF Record, ChargeInv, ReadingInv
 <2>2. cum = r /\ Tail(readings) = <<>> /\ r \in Nat /\ r <= fwd.bytes
  BY <1>1, <2>1
 <2>3. delta \in Nat /\ (r <= prevReading => delta = 0) /\ (r >= prevReading => delta = r - prevReading)
  BY <1>1, <2>2
 <2>4. /\ handler["pump"].pc = "idle" /\ readings' = <<>> /\ prevReading' = r /\ UNCHANGED total
       /\ handler' = IF delta = 0 THEN handler
                     ELSE [handler EXCEPT !["pump"].pc = "lookup", !["pump"].delta = delta]
  BY <1>4, <2>2 DEF Record
 <2> HIDE DEF cum, delta
 <2>5. TaskInv' /\ PendingDelta = 0 /\ PendingDelta' = delta
  <3>1. CASE delta = 0
   BY <2>4, <3>1 DEF ChargeInv, TaskInv, PendingDelta
  <3>2. CASE delta # 0
   BY <2>3, <2>4, <3>2 DEF ChargeInv, TaskInv, AccountingTasks, TaskFields, PendingDelta
  <3> QED BY <3>1, <3>2
 <2>6. ReadingInv'
  BY <1>2, <2>4 DEF ChargeInv, ReadingInv
 <2>7. total.charged + PendingDelta' + fwd.bytes - r <= total.sent
  <3>1. CASE total.charged + PendingDelta + fwd.bytes <= total.sent
   BY <1>1, <2>2, <2>3, <2>5, <3>1
  <3>2. CASE prevReading <= r /\ total.charged + PendingDelta + fwd.bytes - prevReading <= total.sent
   BY <1>1, <2>2, <2>3, <2>5, <3>2
  <3> QED BY <2>1, <2>2, <3>1, <3>2 DEF ChargeInv, ChargeBalance, cum
 <2>8. ChargeBalance'
  BY <1>1, <1>2, <2>2, <2>4, <2>7 DEF ChargeBalance
 <2> QED BY <1>3, <2>5, <2>6, <2>8 DEF ChargeInv
<1>5. CASE ~Record
 <2>1. UNCHANGED <<prevReading, readings>>
  BY <1>5 DEF RecordLookup, AccumulateReadsCache, AccumulateChargesRow, AccumulateFillsCache,
   sessionVars
 <2>2. ReadingInv'
  BY <1>2, <2>1 DEF ChargeInv, ReadingInv
 <2>3. /\ TaskInv'
       /\ total' \in [sent : Nat, charged : Nat, requests : Nat, cuts : Nat]
       /\ PendingDelta' \in Nat /\ total'.charged \in Nat /\ total'.sent = total.sent
       /\ total'.charged + PendingDelta' <= total.charged + PendingDelta
  <3> USE DEF Moves, Carry, Return, Resting
  <3>1. CASE RecordLookup \/ AccumulateReadsCache \/ AccumulateFillsCache
   <4>1. UNCHANGED total
    BY <3>1 DEF RecordLookup, AccumulateReadsCache, AccumulateFillsCache
   <4>2. TaskInv' /\ (PendingDelta' = PendingDelta \/ PendingDelta' = 0)
    <5> USE DEF ChargeInv, TaskInv, AccountingTasks, TaskFields, PendingDelta
    <5>1. CASE RecordLookup
     BY <5>1 DEF RecordLookup
    <5>2. CASE AccumulateReadsCache
     BY <5>2 DEF AccumulateReadsCache
    <5>3. CASE AccumulateFillsCache
     BY <5>3 DEF AccumulateFillsCache
    <5> QED BY <3>1, <5>1, <5>2, <5>3
   <4> QED BY <1>1, <4>1, <4>2
  <3>2. CASE AccumulateChargesRow
   <4>1. TaskInv' /\ PendingDelta' = 0 /\ PendingDelta = handler["pump"].delta
    BY <3>2 DEF AccumulateChargesRow, ChargeInv, TaskInv, AccountingTasks, TaskFields, PendingDelta
   <4>2. total' = total \/ total' = [total EXCEPT !.charged = @ + handler["pump"].delta]
    BY <3>2 DEF AccumulateChargesRow
   <4>3. total.charged + handler["pump"].delta \in Nat
    BY <1>1
   <4> QED BY <1>1, <4>1, <4>2, <4>3
  <3> QED BY <1>5, <3>1, <3>2
 <2>4. ChargeBalance'
  <3>1. CASE total.charged + PendingDelta + fwd.bytes <= total.sent
   <4>1. total'.charged + PendingDelta' + fwd'.bytes <= total'.sent
    BY <1>1, <1>2, <2>3, <3>1
   <4> QED BY <1>1, <2>1, <2>3, <4>1 DEF ChargeBalance
  <3>2. CASE /\ prevReading <= fwd.bytes
             /\ readings # <<>> => prevReading <= Head(readings)
             /\ total.charged + PendingDelta + fwd.bytes - prevReading <= total.sent
   <4>0. fwd'.bytes = fwd.bytes /\ prevReading' = prevReading
    BY <1>2, <2>1
   <4>1. total'.charged + PendingDelta' + fwd'.bytes - prevReading' <= total'.sent
    <5> DEFINE c == total.charged  d == total'.charged  p == PendingDelta  q == PendingDelta'
               b == fwd.bytes  r == prevReading  s == total.sent
    <5>1. /\ c \in Nat /\ d \in Nat /\ p \in Nat /\ q \in Nat /\ b \in Nat /\ r \in Nat
          /\ s \in Nat /\ d + q <= c + p /\ c + p + b - r <= s
     BY <1>1, <2>3, <3>2
    <5> HIDE DEF c, d, p, q, b, r, s
    <5>2. d + q + b - r <= s
     BY <5>1
    <5> QED BY <2>3, <4>0, <5>2 DEF c, d, p, q, b, r, s
   <4>2. prevReading' <= fwd'.bytes /\ prevReading' \in Nat
    BY <1>1, <1>2, <2>1, <3>2
   <4>3. readings' # <<>> => prevReading' <= Head(readings')
    BY <2>1, <3>2
   <4> QED BY <2>3, <4>1, <4>2, <4>3 DEF ChargeBalance
  <3> QED BY <3>1, <3>2 DEF ChargeInv, ChargeBalance
 <2> QED BY <1>3, <2>2, <2>3, <2>4 DEF ChargeInv
<1> QED BY <1>4, <1>5

\* A session begins: the rule is pushed to a client without it.
LEMMA ChargeReplay ==
    ASSUME ChargeInv, ReplaySession PROVE ChargeInv'
<1>1. UNCHANGED <<prevReading, handler, readings, fwd, total>> /\ online' = TRUE /\ ~online
 BY DEF ReplaySession, agent
<1>2. frames' = <<PushFrame>>
 <2>1. ReplayQuotas = <<>>
  BY DEF ReplayQuotas, ListForClient, ClientId, ClientName
 <2>2. frames' = ReplayQuotas \o <<PushFrame>>
  BY DEF ReplaySession
 <2>3. <<>> \o <<PushFrame>> = <<PushFrame>>
  BY <<PushFrame>> \in Seq({PushFrame}), ConcatEmptySeq
 <2> QED BY <2>1, <2>2, <2>3
<1>3. fwd.quota = "off"
 BY <1>1 DEF ChargeInv, FrameInv
<1>4. FrameInv'
 <2>1. frames' \in Seq({PushFrame}) /\ Len(frames') = 1
  BY <1>2
 <2> QED BY <1>1, <1>3, <2>1 DEF FrameInv
<1>5. TaskInv' /\ ReadingInv' /\ ChargeBalance'
 BY <1>1 DEF ChargeInv, TaskInv, ReadingInv, ChargeBalance, PendingDelta
<1> QED BY <1>4, <1>5 DEF ChargeInv

\* A session ends: what was read stays charged, the counter starts afresh.
LEMMA ChargeCut ==
    ASSUME ChargeInv, Disconnect \/ AccountingRestart PROVE ChargeInv'
<1>1. /\ online' = FALSE /\ frames' = <<>> /\ readings' = <<>> /\ fwd' = NotRunning
      /\ total' = [total EXCEPT !.cuts = @ + 1]
 BY DEF Disconnect, AccountingRestart
<1>2. FrameInv' /\ ReadingInv'
 BY <1>1 DEF FrameInv, ReadingInv, NotRunning
<1> USE DEF ChargeInv
<1>3. /\ TaskInv' /\ prevReading' \in Nat
      /\ PendingDelta' \in Nat /\ PendingDelta \in Nat /\ PendingDelta' <= PendingDelta
 <2>1. CASE Disconnect
  BY <2>1 DEF Disconnect, TaskInv, PendingDelta, ChargeBalance
 <2>2. CASE AccountingRestart
  BY <2>2 DEF AccountingRestart, TaskInv, AccountingTasks, TaskFields, PendingDelta, Resting
 <2> QED BY <2>1, <2>2
<1> USE DEF ChargeBalance
<1>4. /\ total' \in [sent : Nat, charged : Nat, requests : Nat, cuts : Nat]
      /\ total'.sent = total.sent /\ total'.charged = total.charged /\ fwd'.bytes = 0
      /\ total.sent \in Nat /\ total.charged \in Nat /\ fwd.bytes \in Nat
 BY <1>1 DEF ReadingInv, NotRunning
<1>5. total.charged + PendingDelta <= total.sent
 BY <1>3, <1>4
<1>6. ChargeBalance'
 BY <1>3, <1>4, <1>5
<1> QED BY <1>2, <1>3, <1>6

\* The client takes a frame.
LEMMA ChargeHandles ==
    ASSUME ChargeInv, HandleFrame PROVE ChargeInv'
<1>1. /\ frames # <<>> /\ frames' = Tail(frames)
      /\ UNCHANGED <<prevReading, handler, online, readings, total>>
 BY DEF HandleFrame
<1>2. PICK S : frames \in Seq(S)
 BY DEF ChargeInv, FrameInv
<1>3. /\ frames' \in Seq(S) /\ Len(frames') = Len(frames) - 1 /\ Len(frames) \in Nat /\ Len(frames) > 0
      /\ \A i \in 1..Len(frames') : frames'[i] = frames[i + 1] /\ i + 1 \in 1..Len(frames)
      /\ Head(frames) = frames[1] /\ 1 \in 1..Len(frames)
 BY <1>1, <1>2
<1>4. online
 BY <1>1 DEF ChargeInv, FrameInv
<1>5. /\ DOMAIN fwd' = {"quota", "own", "bytes"} /\ fwd'.bytes = fwd.bytes
      /\ fwd'.quota = "off" => fwd.quota = "off"
      /\ Head(frames).action # "PUSH" => (fwd.quota = "off" => fwd'.quota = "off")
 <2> DEFINE f == Head(frames)
 <2> USE DEF ChargeInv
 <2>1. CASE f.action = "SET" /\ UNCHANGED fwd
  BY <2>1 DEF ReadingInv
 <2>2. CASE f.action = "REMOVE" /\ fwd' = IF fwd.quota = "shared" THEN [fwd EXCEPT !.quota = "own", !.own = quotaScope]
                                          ELSE fwd
  BY <2>2 DEF ReadingInv
 <2>3. CASE f.action = "PUSH" /\ fwd' = [NotRunning EXCEPT !.quota = IF quotaScope = NoHandle THEN "unmetered" ELSE "shared"]
  <3>1. fwd.quota = "off"
   BY <1>3, <2>3 DEF FrameInv
  <3> QED BY <2>3, <3>1 DEF ReadingInv, NotRunning
 <2> QED BY <2>1, <2>2, <2>3 DEF HandleFrame
<1>6. FrameInv'
 <2>1. \A i \in 1..Len(frames') : frames'[i].action = "PUSH" => frames[i + 1].action = "PUSH" /\ i + 1 \in 1..Len(frames) /\ i + 1 # 1
  BY <1>3
 <2>2. \A i, j \in 1..Len(frames') : frames'[i].action = "PUSH" /\ frames'[j].action = "PUSH" => i = j
  <3> SUFFICES ASSUME NEW i \in 1..Len(frames'), NEW j \in 1..Len(frames'),
                      frames'[i].action = "PUSH", frames'[j].action = "PUSH"
               PROVE  i = j
   OBVIOUS
  <3>1. i + 1 = j + 1
   BY <2>1 DEF ChargeInv, FrameInv
  <3> QED BY <1>3, <3>1
 <2>3. \A i \in 1..Len(frames') : frames'[i].action = "PUSH" => fwd'.quota = "off"
  <3> SUFFICES ASSUME NEW i \in 1..Len(frames'), frames'[i].action = "PUSH" PROVE fwd'.quota = "off"
   OBVIOUS
  <3>1. fwd.quota = "off" /\ frames[1].action # "PUSH"
   BY <1>3, <2>1 DEF ChargeInv, FrameInv
  <3> QED BY <1>3, <1>5, <3>1
 <2> QED BY <1>1, <1>3, <1>4, <2>2, <2>3 DEF FrameInv
<1>7. ReadingInv'
 BY <1>1, <1>5 DEF ChargeInv, ReadingInv
<1>8. TaskInv' /\ ChargeBalance'
 BY <1>1, <1>5 DEF ChargeInv, TaskInv, ChargeBalance, PendingDelta
<1> QED BY <1>6, <1>7, <1>8 DEF ChargeInv

\* The client forwards, and reports its counter.
LEMMA ChargeForward ==
    ASSUME ChargeInv, ForwardMetered \/ ReportReading PROVE ChargeInv'
<1>1. /\ UNCHANGED <<prevReading, handler, online, frames>> /\ fwd.quota # "off"
 BY DEF ForwardMetered, ReportReading, sessionVars
<1>2. TaskInv' /\ PendingDelta' = PendingDelta /\ PendingDelta \in Nat /\ prevReading \in Nat
 BY <1>1 DEF ChargeInv, TaskInv, PendingDelta, ChargeBalance
<1>3. /\ fwd.bytes \in Nat /\ total.sent \in Nat /\ total.charged \in Nat
      /\ total \in [sent : Nat, charged : Nat, requests : Nat, cuts : Nat]
 BY DEF ChargeInv, ReadingInv, ChargeBalance
<1>4. CASE ReportReading
 <2>1. readings' = <<fwd.bytes>> /\ UNCHANGED <<fwd, total>>
  BY <1>4 DEF ReportReading, agent
 <2>2. FrameInv' /\ ReadingInv'
  BY <1>1, <1>3, <2>1 DEF ChargeInv, FrameInv, ReadingInv
 <2>3. ChargeBalance'
  BY <1>1, <1>2, <1>3, <2>1 DEF ChargeInv, ChargeBalance
 <2> QED BY <1>2, <2>2, <2>3 DEF ChargeInv
<1>5. CASE ForwardMetered
 <2>1. PICK n \in Nat :
         /\ fwd'.bytes = fwd.bytes + n /\ fwd'.quota = fwd.quota
         /\ DOMAIN fwd' = {"quota", "own", "bytes"}
         /\ total' = [total EXCEPT !.sent = @ + n]
  <3>1. PICK m \in Chunks, g \in BOOLEAN : \E o :
          /\ fwd' = [fwd EXCEPT !.bytes = @ + (IF g THEN m ELSE 0), !.own = o]
          /\ total' = [total EXCEPT !.sent = @ + (IF g THEN m ELSE 0)]
   BY <1>5 DEF ForwardMetered
  <3>2. (IF g THEN m ELSE 0) \in Nat
   BY QuotaChunks
  <3> QED BY <3>1, <3>2 DEF ChargeInv, ReadingInv
 <2>2. UNCHANGED readings
  BY <1>5 DEF ForwardMetered, sessionVars
 <2>3. /\ total' \in [sent : Nat, charged : Nat, requests : Nat, cuts : Nat]
       /\ total'.sent = total.sent + n /\ total'.charged = total.charged
  BY <1>3, <2>1
 <2>4. FrameInv' /\ ReadingInv'
  BY <1>1, <1>3, <2>1, <2>2 DEF ChargeInv, FrameInv, ReadingInv
 <2>5. ChargeBalance'
  <3>1. CASE total.charged + PendingDelta + fwd.bytes <= total.sent
   <4>1. total'.charged + PendingDelta' + fwd'.bytes <= total'.sent
    BY <1>2, <1>3, <2>1, <2>3, <3>1
   <4> QED BY <1>1, <1>2, <2>3, <4>1 DEF ChargeBalance
  <3>2. CASE /\ prevReading <= fwd.bytes
             /\ readings # <<>> => prevReading <= Head(readings)
             /\ total.charged + PendingDelta + fwd.bytes - prevReading <= total.sent
   <4>1. /\ total'.charged + PendingDelta' + fwd'.bytes - prevReading' <= total'.sent
         /\ prevReading' <= fwd'.bytes
    <5> DEFINE c == total.charged  p == PendingDelta  b == fwd.bytes  r == prevReading  s == total.sent
    <5>1. /\ c \in Nat /\ p \in Nat /\ b \in Nat /\ r \in Nat /\ s \in Nat /\ n \in Nat
          /\ r <= b /\ c + p + b - r <= s
     BY <1>2, <1>3, <2>1, <3>2
    <5> HIDE DEF c, p, b, r, s
    <5>2. c + p + (b + n) - r <= s + n /\ r <= b + n
     BY <5>1
    <5> QED BY <1>1, <1>2, <2>1, <2>3, <5>2 DEF c, p, b, r, s
   <4>2. prevReading' \in Nat
    BY <1>1, <1>2
   <4>3. readings' # <<>> => prevReading' <= Head(readings')
    BY <1>1, <2>2, <3>2
   <4> QED BY <2>3, <4>1, <4>2, <4>3 DEF ChargeBalance
  <3> QED BY <3>1, <3>2 DEF ChargeInv, ChargeBalance
 <2> QED BY <1>2, <2>4, <2>5 DEF ChargeInv
<1> QED BY <1>4, <1>5

\* Every step of the accounting keeps the balance.
LEMMA ChargeInvNext == ChargeInv /\ [AccountingNext]_accountingVars => ChargeInv'
<1> SUFFICES ASSUME ChargeInv, [AccountingNext]_accountingVars PROVE ChargeInv'
 OBVIOUS
<1>1. CASE UNCHANGED accountingVars
 <2>1. UNCHANGED <<handler, frames, fwd, online, readings, prevReading, total>>
  BY <1>1 DEF accountingVars, sessionVars, agent
 <2> QED BY <2>1 DEF ChargeInv, TaskInv, FrameInv, ReadingInv, ChargeBalance, PendingDelta
<1>2. CASE AccountingNext
 BY <1>2, ChargePump, ChargeOthers, ChargeTells, ChargeReplay, ChargeCut, ChargeHandles,
  ChargeForward DEF AccountingNext
<1> QED BY <1>1, <1>2

\* A forwarded byte is charged to the quota at most once, whatever readings and
\* sessions are lost and whoever restarts (aggregator.rs record, cache.rs
\* accumulate).
THEOREM ChargedOnceHolds == AccountingSpec => []ChargedOnce
<1>1. AccountingInit => ChargeInv
 BY ChargeInvInit
<1>2. ChargeInv /\ [AccountingNext]_accountingVars => ChargeInv'
 BY ChargeInvNext
<1>3. ChargeInv => ChargedOnce
 <2> SUFFICES ASSUME ChargeInv PROVE ChargedOnce
  OBVIOUS
 <2>1. /\ prevReading \in Nat /\ fwd.bytes \in Nat /\ PendingDelta \in Nat
       /\ total.sent \in Nat /\ total.charged \in Nat
  BY DEF ChargeInv, ChargeBalance, ReadingInv, TaskInv, PendingDelta
 <2> QED BY <2>1 DEF ChargeInv, ChargeBalance, ChargedOnce
<1> QED BY <1>1, <1>2, <1>3, PTL DEF AccountingSpec

----
(* The token bucket of a cap *)

\* Division by a positive number: the largest quotient that fits.
LEMMA DivFits ==
    ASSUME NEW x \in Nat, NEW u \in Nat \ {0}
    PROVE  /\ x \div u \in Nat
           /\ u * (x \div u) <= x
           /\ x < u * ((x \div u) + 1)
OBVIOUS

\* A product grows with its factor.
LEMMA TimesMonotone ==
    ASSUME NEW u, NEW a, NEW b, u \in Nat, a \in Nat, b \in Nat, a <= b PROVE u * a <= u * b
<1>1. PICK k \in Nat : b = a + k
 <2>1. b - a \in Nat /\ b = a + (b - a)
  OBVIOUS
 <2> QED BY <2>1
<1>2. u * b = u * a + u * k
 BY <1>1
<1>3. u * k \in Nat /\ u * a \in Nat
 OBVIOUS
<1> QED BY <1>2, <1>3

\* What fits is at most the quotient.
LEMMA DivLargest ==
    ASSUME NEW x, NEW u, NEW q, x \in Nat, u \in Nat \ {0}, q \in Nat, u * q <= x
    PROVE  q <= x \div u
<1> DEFINE d == x \div u
<1>1. d \in Nat /\ x < u * (d + 1)
 BY DivFits
<1> HIDE DEF d
<1>2. SUFFICES ASSUME ~ (q <= d) PROVE FALSE
 BY DEF d
<1>3. d + 1 <= q /\ d + 1 \in Nat
 BY <1>1, <1>2
<1>4. u * (d + 1) <= u * q
 BY <1>3, TimesMonotone
<1>5. u * (d + 1) \in Nat /\ u * q \in Nat
 BY <1>3
<1> QED BY <1>1, <1>4, <1>5

\* The tokens a stretch of time earns.
Earned(t) == (t * Rate) \div Unit

\* Two stretches apart earn no more than both together: the fraction that a
\* refill leaves to accrue is never lost twice nor minted twice.
LEMMA EarnedApart ==
    ASSUME NEW s, NEW t, s \in Nat, t \in Nat
    PROVE  /\ Earned(s) \in Nat /\ Earned(t) \in Nat /\ Earned(s + t) \in Nat
           /\ Earned(s) + Earned(t) <= Earned(s + t)
<1> DEFINE x == s * Rate  y == t * Rate  a == x \div Unit  b == y \div Unit
<1>0. Rate \in Nat \ {0} /\ Unit \in Nat \ {0}
 BY ThrottleRate
<1>1. x \in Nat /\ y \in Nat /\ (s + t) * Rate = x + y
 BY <1>0
<1> HIDE DEF x, y
<1>2. a \in Nat /\ b \in Nat /\ Unit * a <= x /\ Unit * b <= y /\ (x + y) \div Unit \in Nat
 BY <1>0, <1>1, DivFits
<1> HIDE DEF a, b
<1>3. Unit * (a + b) = Unit * a + Unit * b /\ Unit * a \in Nat /\ Unit * b \in Nat
 BY <1>0, <1>2
<1>4. Unit * (a + b) <= x + y /\ a + b \in Nat /\ x + y \in Nat
 BY <1>1, <1>2, <1>3
<1>5. a + b <= (x + y) \div Unit
 BY <1>0, <1>4, DivLargest
<1> QED BY <1>1, <1>2, <1>5 DEF Earned, a, b, x, y

\* The tokens earned grow with time.
LEMMA EarnedGrows ==
    ASSUME NEW s, NEW t, s \in Nat, t \in Nat, s <= t
    PROVE  Earned(s) \in Nat /\ Earned(t) \in Nat /\ Earned(s) <= Earned(t)
<1>1. t - s \in Nat /\ s + (t - s) = t
 OBVIOUS
<1>2. Earned(s) \in Nat /\ Earned(t - s) \in Nat /\ Earned(t) \in Nat
      /\ Earned(s) + Earned(t - s) <= Earned(t)
 BY <1>1, EarnedApart
<1> QED BY <1>2

\* Where an acquire may be.
AcquirePlaces == {"read", "acquire", "refill", "publish", "mint", "swap", "load", "take", "sleep"}

\* The state of one acquire: between the load of the time stamp and its
\* exchange it has computed what the stretch up to its own reading earns.
AcquireFits(c, t) ==
    /\ DOMAIN c = DOMAIN ReadyToRead
    /\ c.pc \in AcquirePlaces
    /\ c.i \in Nat /\ c.n \in Nat /\ c.now \in Nat /\ c.seen \in Nat /\ c.added \in Nat
    /\ c.now <= t
    /\ c.pc # "read" => c.i \in 1..Len(Layers)
    /\ c.pc = "publish" => c.seen <= c.now /\ c.added = Earned(c.now - c.seen)

\* Tokens an acquire has won and not yet put into the pool of layer l.
ToMint(c, l) == IF c.pc \in {"mint", "swap"} /\ Layers[c.i] = l THEN c.added ELSE 0

Minting(l) == [d \in Draws |-> ToMint(draw[d], l)]

\* Granted, in the pool and about to be minted: at most the burst and what
\* was earned up to the published time stamp, which the clock has reached.
RateInv ==
    /\ time \in Nat
    /\ tokens \in [Capped -> Nat] /\ last \in [Capped -> Nat] /\ granted \in [Capped -> Nat]
    /\ DOMAIN draw = Draws
    /\ \A d \in Draws : AcquireFits(draw[d], time)
    /\ \A l \in Capped :
          /\ last[l] <= time
          /\ IsFiniteSet(Units(Draws, Minting(l)))
          /\ granted[l] + tokens[l] + Cardinality(Units(Draws, Minting(l)))
                <= Burst + Earned(last[l])

\* Full buckets, and nothing acquired yet.
LEMMA RateInit == ThrottleInit => RateInv
<1> SUFFICES ASSUME ThrottleInit PROVE RateInv
 OBVIOUS
<1>1. DOMAIN draw = Draws /\ \A d \in Draws : AcquireFits(draw[d], time)
 BY DEF ThrottleInit, AcquireFits, ReadyToRead, AcquirePlaces
<1>2. /\ time \in Nat /\ tokens \in [Capped -> Nat] /\ last \in [Capped -> Nat]
      /\ granted \in [Capped -> Nat]
 BY ThrottleBurst DEF ThrottleInit
<1>3. ASSUME NEW l \in Capped
      PROVE  /\ last[l] <= time
             /\ IsFiniteSet(Units(Draws, Minting(l)))
             /\ granted[l] + tokens[l] + Cardinality(Units(Draws, Minting(l)))
                   <= Burst + Earned(last[l])
 <2>1. Minting(l) = [d \in Draws |-> 0]
  BY DEF ThrottleInit, Minting, ToMint, ReadyToRead
 <2>2. IsFiniteSet(Units(Draws, Minting(l))) /\ Cardinality(Units(Draws, Minting(l))) = 0
  BY <2>1, UnitsZero
 <2>3. Earned(0) \in Nat
  BY EarnedApart
 <2>4. granted[l] = 0 /\ tokens[l] = Burst /\ last[l] = 0 /\ time = 0 /\ Burst \in Nat
  BY ThrottleBurst DEF ThrottleInit
 <2> QED BY <2>2, <2>3, <2>4
<1> QED BY <1>1, <1>2, <1>3 DEF RateInv

\* The step of one acquire, and what its layer must balance.
LEMMA RateMove ==
    ASSUME RateInv, NEW d, d \in Draws, NEW c, AcquireFits(c, time), time' = time,
           draw' = [draw EXCEPT ![d] = c],
           tokens' \in [Capped -> Nat], last' \in [Capped -> Nat], granted' \in [Capped -> Nat],
           \A l \in Capped : last'[l] <= time,
           \A l \in Capped :
              (granted'[l] + tokens'[l] + ToMint(c, l)) + Earned(last[l])
                 <= (granted[l] + tokens[l] + ToMint(draw[d], l)) + Earned(last'[l])
    PROVE  RateInv'
<1>1. DOMAIN draw' = Draws /\ \A e \in Draws : AcquireFits(draw'[e], time)
 BY DEF RateInv
<1>2. ASSUME NEW l \in Capped
      PROVE  /\ IsFiniteSet(Units(Draws, Minting(l)'))
             /\ granted'[l] + tokens'[l] + Cardinality(Units(Draws, Minting(l)'))
                   <= Burst + Earned(last'[l])
 <2>1. Minting(l) \in [Draws -> Nat] /\ ToMint(c, l) \in Nat /\ ToMint(draw[d], l) \in Nat
  BY DEF Minting, ToMint, RateInv, AcquireFits
 <2>2. /\ Minting(l)' \in [Draws -> Nat] /\ Minting(l)'[d] = ToMint(c, l)
       /\ Minting(l)[d] = ToMint(draw[d], l)
       /\ \A e \in Draws : e # d => Minting(l)'[e] = Minting(l)[e]
  <3>1. Minting(l)' = [e \in Draws |-> ToMint(draw'[e], l)]
   BY DEF Minting
  <3>2. \A e \in Draws : draw'[e] = IF e = d THEN c ELSE draw[e]
   BY DEF RateInv
  <3>3. \A e \in Draws : ToMint(draw'[e], l) = IF e = d THEN ToMint(c, l) ELSE ToMint(draw[e], l)
   BY <3>2
  <3> QED BY <2>1, <3>1, <3>3 DEF Minting
 <2>3. IsFiniteSet(Units(Draws, Minting(l)))
  BY DEF RateInv
 <2>4. /\ IsFiniteSet(Units(Draws, Minting(l)'))
       /\ Cardinality(Units(Draws, Minting(l))) \in Nat
       /\ Cardinality(Units(Draws, Minting(l)')) =
            Cardinality(Units(Draws, Minting(l))) - Minting(l)[d] + Minting(l)'[d]
  BY <2>1, <2>2, <2>3, UnitsStep
 <2>5. Earned(last[l]) \in Nat /\ Earned(last'[l]) \in Nat
  <3>1. last[l] \in Nat /\ last'[l] \in Nat
   BY DEF RateInv
  <3> QED BY <3>1, EarnedApart
 <2>6. /\ granted[l] \in Nat /\ tokens[l] \in Nat /\ granted'[l] \in Nat /\ tokens'[l] \in Nat
       /\ Burst \in Nat
  BY ThrottleBurst DEF RateInv
 <2>7. granted[l] + tokens[l] + Cardinality(Units(Draws, Minting(l))) <= Burst + Earned(last[l])
  BY DEF RateInv
 <2>8. (granted'[l] + tokens'[l] + ToMint(c, l)) + Earned(last[l])
          <= (granted[l] + tokens[l] + ToMint(draw[d], l)) + Earned(last'[l])
  OBVIOUS
 <2> QED BY <2>1, <2>2, <2>4, <2>5, <2>6, <2>7, <2>8
<1>3. time' \in Nat
 BY DEF RateInv
<1> QED BY <1>1, <1>2, <1>3 DEF RateInv

\* A step that only moves the acquire, with nothing to mint afterwards.
LEMMA RateStays ==
    ASSUME RateInv, NEW d, d \in Draws, NEW c, AcquireFits(c, time), time' = time,
           draw' = [draw EXCEPT ![d] = c], UNCHANGED <<tokens, last, granted>>,
           c.pc \in {"mint", "swap"} =>
              draw[d].pc \in {"mint", "swap"} /\ c.i = draw[d].i /\ c.added = draw[d].added
    PROVE  RateInv'
<1>1. /\ tokens' \in [Capped -> Nat] /\ last' \in [Capped -> Nat] /\ granted' \in [Capped -> Nat]
      /\ \A l \in Capped : last'[l] <= time
 BY DEF RateInv
<1>2. ASSUME NEW l \in Capped
      PROVE  (granted'[l] + tokens'[l] + ToMint(c, l)) + Earned(last[l])
                <= (granted[l] + tokens[l] + ToMint(draw[d], l)) + Earned(last'[l])
 <2>1. ToMint(c, l) \in Nat /\ ToMint(draw[d], l) \in Nat /\ ToMint(c, l) <= ToMint(draw[d], l)
  BY DEF ToMint, RateInv, AcquireFits
 <2>2. last[l] \in Nat /\ granted[l] \in Nat /\ tokens[l] \in Nat
  BY DEF RateInv
 <2>3. Earned(last[l]) \in Nat
  BY <2>2, EarnedApart
 <2> QED BY <2>1, <2>2, <2>3
<1> QED BY <1>1, <1>2, RateMove


\* The layer of an acquire under way is one of the capped ones.
LEMMA HereCapped ==
    ASSUME RateInv, NEW d, d \in Draws, draw[d].pc # "read"
    PROVE  Here(d) \in Capped /\ draw[d].i \in 1..Len(Layers)
<1>1. draw[d].i \in 1..Len(Layers)
 BY DEF RateInv, AcquireFits
<1> QED BY <1>1, ThrottleLayers DEF Here, Capped

\* Every step keeps the balance (the layers are not empty).
LEMMA RateNext ==
    ASSUME RateInv, ThrottleNext, Layers # <<>> PROVE RateInv'
<1>0. Len(Layers) \in Nat \ {0} /\ 1 \in 1..Len(Layers)
 BY ThrottleLayers
<1>1. ASSUME NEW d \in Draws, ReadChunk(d) PROVE RateInv'
 <2>1. PICK n \in ChunkSizes :
         Moved(d, [ReadyToRead EXCEPT !.pc = "acquire", !.i = 1, !.n = n])
  BY <1>1 DEF ReadChunk
 <2> DEFINE c == [ReadyToRead EXCEPT !.pc = "acquire", !.i = 1, !.n = n]
 <2>2. AcquireFits(c, time) /\ c.pc = "acquire"
  BY <1>0, ThrottleSizes DEF AcquireFits, ReadyToRead, AcquirePlaces, RateInv
 <2> HIDE DEF c
 <2>3. draw' = [draw EXCEPT ![d] = c]
  BY <2>1 DEF Moved, c
 <2>4. time' = time /\ UNCHANGED <<tokens, last, granted>>
  BY <1>1 DEF ReadChunk
 <2> QED BY <2>2, <2>3, <2>4, RateStays
<1>2. ASSUME NEW d \in Draws, AcquireReadsClock(d) PROVE RateInv'
 <2> DEFINE c == [draw[d] EXCEPT !.pc = "refill", !.now = time]
 <2>2. AcquireFits(c, time) /\ c.pc = "refill"
  BY <1>2 DEF AcquireFits, ReadyToRead, AcquirePlaces, RateInv, AcquireReadsClock
 <2> HIDE DEF c
 <2>3. draw' = [draw EXCEPT ![d] = c] /\ time' = time /\ UNCHANGED <<tokens, last, granted>>
  BY <1>2 DEF Moved, c, AcquireReadsClock
 <2> QED BY <2>2, <2>3, RateStays
<1>3. ASSUME NEW d \in Draws, RefillLoads(d) PROVE RateInv'
 <2> DEFINE elapsed == draw[d].now - last[Here(d)]
            added == (elapsed * Rate) \div Unit
            c == IF elapsed <= 0 \/ added = 0 THEN [draw[d] EXCEPT !.pc = "load"]
                 ELSE [draw[d] EXCEPT !.pc = "publish", !.seen = last[Here(d)], !.added = added]
 <2>1. draw' = [draw EXCEPT ![d] = c] /\ time' = time /\ UNCHANGED <<tokens, last, granted>>
  BY <1>3 DEF Moved, RefillLoads
 <2>2. draw[d].pc = "refill" /\ AcquireFits(draw[d], time)
  BY <1>3 DEF RefillLoads, RateInv
 <2>3. last[Here(d)] \in Nat
  BY <2>2, HereCapped DEF RateInv
 <2>4. AcquireFits(c, time) /\ c.pc \in {"load", "publish"}
  <3>1. CASE elapsed <= 0 \/ added = 0
   BY <2>2, <3>1 DEF AcquireFits, ReadyToRead, AcquirePlaces
  <3>2. CASE ~ (elapsed <= 0 \/ added = 0)
   <4>1. elapsed \in Nat /\ last[Here(d)] <= draw[d].now
    BY <2>2, <2>3, <3>2 DEF AcquireFits
   <4>2. added = Earned(elapsed)
    BY DEF Earned
   <4>3. added \in Nat
    BY <4>1, <4>2, EarnedApart
   <4>4. c = [draw[d] EXCEPT !.pc = "publish", !.seen = last[Here(d)], !.added = added]
    BY <3>2
   <4> HIDE DEF elapsed, added, c
   <4>5. c.pc = "publish" /\ c.seen = last[Here(d)] /\ c.added = added /\ c.now = draw[d].now
         /\ c.n = draw[d].n /\ c.i = draw[d].i /\ DOMAIN c = DOMAIN draw[d]
    BY <2>2, <4>4 DEF AcquireFits, ReadyToRead
   <4>6. c.added = Earned(c.now - c.seen)
    BY <4>2, <4>5 DEF elapsed
   <4> QED BY <2>2, <2>3, <4>1, <4>3, <4>5, <4>6 DEF AcquireFits, AcquirePlaces
  <3> QED BY <3>1, <3>2
 <2> HIDE DEF c
 <2> QED BY <2>1, <2>4, RateStays
<1>4. ASSUME NEW d \in Draws, RefillPublishes(d) PROVE RateInv'
 <2>1. draw[d].pc = "publish" /\ AcquireFits(draw[d], time)
  BY <1>4 DEF RefillPublishes, RateInv
 <2>2. Here(d) \in Capped /\ last[Here(d)] \in Nat
  BY <2>1, HereCapped DEF RateInv
 <2>3. time' = time /\ UNCHANGED <<tokens, granted>>
  BY <1>4 DEF RefillPublishes
 <2>4. CASE last[Here(d)] = draw[d].seen
  <3> DEFINE c == [draw[d] EXCEPT !.pc = "mint"]
  <3>1. AcquireFits(c, time) /\ c.pc = "mint" /\ c.i = draw[d].i /\ c.added = draw[d].added
   BY <2>1 DEF AcquireFits, ReadyToRead, AcquirePlaces
  <3> HIDE DEF c
  <3>2. draw' = [draw EXCEPT ![d] = c] /\ last' = [last EXCEPT ![Here(d)] = draw[d].now]
   BY <1>4, <2>4 DEF RefillPublishes, Moved, c
  <3>3. /\ last' \in [Capped -> Nat] /\ tokens' \in [Capped -> Nat] /\ granted' \in [Capped -> Nat]
        /\ \A l \in Capped : last'[l] <= time
   BY <2>1, <2>2, <2>3, <3>2 DEF RateInv, AcquireFits
  <3>4. ASSUME NEW l \in Capped
        PROVE  (granted'[l] + tokens'[l] + ToMint(c, l)) + Earned(last[l])
                  <= (granted[l] + tokens[l] + ToMint(draw[d], l)) + Earned(last'[l])
   <4>1. ToMint(draw[d], l) = 0 /\ ToMint(c, l) = (IF Here(d) = l THEN draw[d].added ELSE 0)
    BY <2>1, <3>1 DEF ToMint, Here
   <4>2. last[l] \in Nat /\ granted[l] \in Nat /\ tokens[l] \in Nat
    BY DEF RateInv
   <4>3. Earned(last[l]) \in Nat
    BY <4>2, EarnedApart
   <4>4. CASE l # Here(d)
    <5>1. last'[l] = last[l]
     BY <3>2, <4>4 DEF RateInv
    <5> QED BY <2>3, <4>1, <4>2, <4>3, <4>4, <5>1
   <4>5. CASE l = Here(d)
    <5>1. last'[l] = draw[d].now /\ last[l] = draw[d].seen
     BY <2>4, <3>2, <4>5 DEF RateInv
    <5>2. /\ draw[d].now \in Nat /\ draw[d].seen \in Nat /\ draw[d].seen <= draw[d].now
          /\ draw[d].added = Earned(draw[d].now - draw[d].seen)
     BY <2>1 DEF AcquireFits
    <5>3. draw[d].now - draw[d].seen \in Nat
          /\ draw[d].seen + (draw[d].now - draw[d].seen) = draw[d].now
     BY <5>2
    <5>4. /\ Earned(draw[d].seen) \in Nat /\ draw[d].added \in Nat /\ Earned(draw[d].now) \in Nat
          /\ Earned(draw[d].seen) + draw[d].added <= Earned(draw[d].now)
     BY <5>2, <5>3, EarnedApart
    <5> QED BY <2>3, <4>1, <4>2, <4>5, <5>1, <5>4
   <4> QED BY <4>4, <4>5
  <3> QED BY <2>3, <3>1, <3>2, <3>3, <3>4, RateMove
 <2>5. CASE last[Here(d)] # draw[d].seen
  <3> DEFINE c == [draw[d] EXCEPT !.pc = "load", !.added = 0]
  <3>1. AcquireFits(c, time) /\ c.pc = "load"
   BY <2>1 DEF AcquireFits, ReadyToRead, AcquirePlaces
  <3> HIDE DEF c
  <3>2. draw' = [draw EXCEPT ![d] = c] /\ UNCHANGED last
   BY <1>4, <2>5 DEF RefillPublishes, Moved, c
  <3> QED BY <2>3, <3>1, <3>2, RateStays
 <2> QED BY <2>4, <2>5
<1>5. ASSUME NEW d \in Draws, RefillReadsPool(d) PROVE RateInv'
 <2>1. draw[d].pc = "mint" /\ AcquireFits(draw[d], time)
  BY <1>5 DEF RefillReadsPool, RateInv
 <2>2. tokens[Here(d)] \in Nat
  BY <2>1, HereCapped DEF RateInv
 <2> DEFINE c == [draw[d] EXCEPT !.pc = "swap", !.seen = tokens[Here(d)]]
 <2>3. AcquireFits(c, time) /\ c.i = draw[d].i /\ c.added = draw[d].added
  BY <2>1, <2>2 DEF AcquireFits, ReadyToRead, AcquirePlaces
 <2> HIDE DEF c
 <2>4. draw' = [draw EXCEPT ![d] = c] /\ time' = time /\ UNCHANGED <<tokens, last, granted>>
  BY <1>5 DEF Moved, c, RefillReadsPool
 <2> QED BY <2>1, <2>3, <2>4, RateStays
<1>6. ASSUME NEW d \in Draws, RefillMints(d) PROVE RateInv'
 <2>1. draw[d].pc = "swap" /\ AcquireFits(draw[d], time)
  BY <1>6 DEF RefillMints, RateInv
 <2>2. Here(d) \in Capped /\ tokens[Here(d)] \in Nat
  BY <2>1, HereCapped DEF RateInv
 <2>3. time' = time /\ UNCHANGED <<last, granted>>
  BY <1>6 DEF RefillMints
 <2> DEFINE n == IF draw[d].seen + draw[d].added < Burst THEN draw[d].seen + draw[d].added ELSE Burst
 <2>4. n \in Nat /\ n <= draw[d].seen + draw[d].added /\ draw[d].seen \in Nat /\ draw[d].added \in Nat
  BY <2>1, ThrottleBurst DEF AcquireFits
 <2>5. CASE n = draw[d].seen \/ tokens[Here(d)] = draw[d].seen
  <3> DEFINE c == [draw[d] EXCEPT !.pc = "load", !.added = 0]
             t == IF n = draw[d].seen THEN tokens[Here(d)] ELSE n
  <3>1. AcquireFits(c, time) /\ c.pc = "load"
   BY <2>1 DEF AcquireFits, ReadyToRead, AcquirePlaces
  <3>2. t \in Nat /\ t <= tokens[Here(d)] + draw[d].added
   BY <2>2, <2>4, <2>5
  <3>3. draw' = [draw EXCEPT ![d] = c] /\ tokens' = [tokens EXCEPT ![Here(d)] = t]
   BY <1>6, <2>5 DEF RefillMints, Moved
  <3> HIDE DEF c, t, n
  <3>4. /\ last' \in [Capped -> Nat] /\ tokens' \in [Capped -> Nat] /\ granted' \in [Capped -> Nat]
        /\ \A l \in Capped : last'[l] <= time
   BY <2>3, <3>2, <3>3 DEF RateInv
  <3>5. ASSUME NEW l \in Capped
        PROVE  (granted'[l] + tokens'[l] + ToMint(c, l)) + Earned(last[l])
                  <= (granted[l] + tokens[l] + ToMint(draw[d], l)) + Earned(last'[l])
   <4>1. ToMint(c, l) = 0 /\ ToMint(draw[d], l) = (IF Here(d) = l THEN draw[d].added ELSE 0)
    BY <2>1, <3>1 DEF ToMint, Here
   <4>2. last[l] \in Nat /\ granted[l] \in Nat /\ tokens[l] \in Nat
    BY DEF RateInv
   <4>3. Earned(last[l]) \in Nat
    BY <4>2, EarnedApart
   <4>4. tokens'[l] = IF l = Here(d) THEN t ELSE tokens[l]
    BY <3>3 DEF RateInv
   <4> QED BY <2>3, <2>4, <3>2, <4>1, <4>2, <4>3, <4>4
  <3> QED BY <2>3, <3>1, <3>3, <3>4, <3>5, RateMove
 <2>6. CASE ~ (n = draw[d].seen \/ tokens[Here(d)] = draw[d].seen)
  <3> DEFINE c == [draw[d] EXCEPT !.seen = tokens[Here(d)]]
  <3>1. AcquireFits(c, time) /\ c.i = draw[d].i /\ c.added = draw[d].added
   BY <2>1, <2>2 DEF AcquireFits, ReadyToRead, AcquirePlaces
  <3>2. draw' = [draw EXCEPT ![d] = c] /\ UNCHANGED tokens
   BY <1>6, <2>6 DEF RefillMints, Moved
  <3> HIDE DEF c
  <3> QED BY <2>1, <2>3, <3>1, <3>2, RateStays
 <2> QED BY <2>5, <2>6
<1>7. ASSUME NEW d \in Draws, AcquireReadsPool(d) PROVE RateInv'
 <2>1. draw[d].pc = "load" /\ AcquireFits(draw[d], time)
  BY <1>7 DEF AcquireReadsPool, RateInv
 <2>2. tokens[Here(d)] \in Nat
  BY <2>1, HereCapped DEF RateInv
 <2> DEFINE c == [draw[d] EXCEPT !.pc = "take", !.seen = tokens[Here(d)]]
 <2>3. AcquireFits(c, time) /\ c.pc = "take"
  BY <2>1, <2>2 DEF AcquireFits, ReadyToRead, AcquirePlaces
 <2> HIDE DEF c
 <2>4. draw' = [draw EXCEPT ![d] = c] /\ time' = time /\ UNCHANGED <<tokens, last, granted>>
  BY <1>7 DEF Moved, c, AcquireReadsPool
 <2> QED BY <2>3, <2>4, RateStays
<1>8. ASSUME NEW d \in Draws, AcquireTakes(d) PROVE RateInv'
 <2>1. draw[d].pc = "take" /\ AcquireFits(draw[d], time)
  BY <1>8 DEF AcquireTakes, RateInv
 <2>2. Here(d) \in Capped /\ tokens[Here(d)] \in Nat /\ draw[d].i \in 1..Len(Layers)
  BY <2>1, HereCapped DEF RateInv
 <2>3. time' = time /\ UNCHANGED last
  BY <1>8 DEF AcquireTakes
 <2>4. CASE draw[d].seen < draw[d].n
  <3> DEFINE c == Throttled(d)
  <3>1. AcquireFits(c, time) /\ c.pc \in {"read", "sleep"}
   <4>1. CASE d \in Shapers
    BY <4>1 DEF Throttled, AcquireFits, ReadyToRead, AcquirePlaces, RateInv
   <4>2. CASE d \notin Shapers
    <5>1. PICK w, k : c = [draw[d] EXCEPT !.pc = "sleep", !.wake = w, !.waits = k]
     BY <4>2 DEF Throttled
    <5> HIDE DEF c
    <5> QED BY <2>1, <5>1 DEF AcquireFits, ReadyToRead, AcquirePlaces
   <4> QED BY <4>1, <4>2
  <3>2. draw' = [draw EXCEPT ![d] = c] /\ UNCHANGED <<tokens, granted>>
   BY <1>8, <2>4 DEF AcquireTakes, Moved
  <3> HIDE DEF c
  <3> QED BY <2>3, <3>1, <3>2, RateStays
 <2>5. CASE ~ (draw[d].seen < draw[d].n) /\ tokens[Here(d)] = draw[d].seen
  <3> DEFINE c == Admitted(d)
  <3>1. AcquireFits(c, time) /\ c.pc \in {"read", "acquire"}
   <4>1. CASE draw[d].i = Len(Layers)
    BY <4>1 DEF Admitted, AcquireFits, ReadyToRead, AcquirePlaces, RateInv
   <4>2. CASE draw[d].i # Len(Layers)
    <5>1. draw[d].i + 1 \in 1..Len(Layers) /\ draw[d].i + 1 \in Nat /\ draw[d].n \in Nat
          /\ time \in Nat
     BY <1>0, <2>1, <2>2, <4>2 DEF AcquireFits, RateInv
    <5>2. c = [ReadyToRead EXCEPT !.pc = "acquire", !.i = draw[d].i + 1, !.n = draw[d].n]
     BY <4>2 DEF Admitted
    <5> HIDE DEF c
    <5> QED BY <5>1, <5>2 DEF AcquireFits, ReadyToRead, AcquirePlaces
   <4> QED BY <4>1, <4>2
  <3>2. /\ draw' = [draw EXCEPT ![d] = c]
        /\ tokens' = [tokens EXCEPT ![Here(d)] = draw[d].seen - draw[d].n]
        /\ granted' = [granted EXCEPT ![Here(d)] = @ + draw[d].n]
   BY <1>8, <2>5 DEF AcquireTakes, Moved
  <3> HIDE DEF c
  <3>3. draw[d].n \in Nat /\ draw[d].seen \in Nat /\ draw[d].seen - draw[d].n \in Nat
   BY <2>1, <2>5 DEF AcquireFits
  <3>4. /\ last' \in [Capped -> Nat] /\ tokens' \in [Capped -> Nat] /\ granted' \in [Capped -> Nat]
        /\ \A l \in Capped : last'[l] <= time
   BY <2>2, <2>3, <3>2, <3>3 DEF RateInv
  <3>5. ASSUME NEW l \in Capped
        PROVE  (granted'[l] + tokens'[l] + ToMint(c, l)) + Earned(last[l])
                  <= (granted[l] + tokens[l] + ToMint(draw[d], l)) + Earned(last'[l])
   <4>1. ToMint(c, l) = 0 /\ ToMint(draw[d], l) = 0
    BY <2>1, <3>1 DEF ToMint
   <4>2. last[l] \in Nat /\ granted[l] \in Nat /\ tokens[l] \in Nat
    BY DEF RateInv
   <4>3. Earned(last[l]) \in Nat
    BY <4>2, EarnedApart
   <4>4. /\ tokens'[l] = IF l = Here(d) THEN draw[d].seen - draw[d].n ELSE tokens[l]
         /\ granted'[l] = IF l = Here(d) THEN granted[l] + draw[d].n ELSE granted[l]
    BY <3>2 DEF RateInv
   <4> QED BY <2>3, <2>5, <3>3, <4>1, <4>2, <4>3, <4>4
  <3> QED BY <2>3, <3>1, <3>2, <3>4, <3>5, RateMove
 <2>6. CASE ~ (draw[d].seen < draw[d].n) /\ tokens[Here(d)] # draw[d].seen
  <3> DEFINE c == [draw[d] EXCEPT !.pc = "load"]
  <3>1. AcquireFits(c, time) /\ c.pc = "load"
   BY <2>1 DEF AcquireFits, ReadyToRead, AcquirePlaces
  <3>2. draw' = [draw EXCEPT ![d] = c] /\ UNCHANGED <<tokens, granted>>
   BY <1>8, <2>6 DEF AcquireTakes, Moved
  <3> HIDE DEF c
  <3> QED BY <2>3, <3>1, <3>2, RateStays
 <2> QED BY <2>4, <2>5, <2>6
<1>9. ASSUME NEW d \in Draws, Wake(d) PROVE RateInv'
 <2>1. draw[d].pc = "sleep" /\ AcquireFits(draw[d], time)
  BY <1>9 DEF Wake, RateInv
 <2> DEFINE c == [draw[d] EXCEPT !.pc = "acquire", !.wake = 0]
 <2>2. AcquireFits(c, time) /\ c.pc = "acquire"
  BY <2>1 DEF AcquireFits, ReadyToRead, AcquirePlaces
 <2> HIDE DEF c
 <2>3. draw' = [draw EXCEPT ![d] = c] /\ time' = time /\ UNCHANGED <<tokens, last, granted>>
  BY <1>9 DEF Moved, c, Wake
 <2> QED BY <2>2, <2>3, RateStays
<1>10. ASSUME TimePasses PROVE RateInv'
 <2> USE DEF RateInv
 <2>1. time' = time + 1 /\ UNCHANGED <<tokens, last, draw, granted>> /\ time \in Nat
  BY <1>10 DEF TimePasses
 <2>2. \A d \in Draws : AcquireFits(draw[d], time')
  BY <2>1 DEF AcquireFits
 <2>3. \A l \in Capped : Minting(l)' = Minting(l)
  BY <2>1 DEF Minting
 <2>4. \A l \in Capped : last[l] <= time'
  BY <2>1
 <2> QED BY <2>1, <2>2, <2>3, <2>4
<1> QED BY <1>1, <1>2, <1>3, <1>4, <1>5, <1>6, <1>7, <1>8, <1>9, <1>10 DEF ThrottleNext

\* A layer grants no more than its burst and what its rate has earned,
\* however acquires, lost exchanges and refills of the bucket interleave
\* (bucket.rs acquire, refill; copy.rs; UdpBandwidthShaper).
THEOREM RateIsHeld == ThrottleSpec => []RateHeld
<1>1. CASE Layers = <<>>
 <2>1. Capped = {}
  BY <1>1 DEF Capped
 <2>2. RateHeld
  BY <2>1 DEF RateHeld
 <2> QED BY <2>2, PTL
<1>2. CASE Layers # <<>>
 <2>1. RateInv /\ [ThrottleNext]_throttleVars => RateInv'
  <3>1. CASE ThrottleNext
   BY <1>2, <3>1, RateNext
  <3>2. CASE UNCHANGED throttleVars
   <4>1. UNCHANGED <<tokens, last, time, draw, granted>>
    BY <3>2 DEF throttleVars
   <4>2. \A l \in Capped : Minting(l)' = Minting(l)
    BY <4>1 DEF Minting
   <4> QED BY <4>1, <4>2 DEF RateInv
  <3> QED BY <3>1, <3>2
 <2>2. RateInv => RateHeld
  <3> SUFFICES ASSUME RateInv, NEW l \in Capped PROVE granted[l] <= Burst + (time * Rate) \div Unit
   BY DEF RateHeld
  <3>1. last[l] \in Nat /\ time \in Nat /\ last[l] <= time /\ granted[l] \in Nat /\ tokens[l] \in Nat
        /\ Burst \in Nat
   BY ThrottleBurst DEF RateInv
  <3>2. Earned(last[l]) \in Nat /\ Earned(time) \in Nat /\ Earned(last[l]) <= Earned(time)
   BY <3>1, EarnedGrows
  <3>3. Cardinality(Units(Draws, Minting(l))) \in Nat
   BY FS_CardinalityType DEF RateInv
  <3>4. granted[l] + tokens[l] + Cardinality(Units(Draws, Minting(l))) <= Burst + Earned(last[l])
   BY DEF RateInv
  <3>5. granted[l] <= Burst + Earned(time)
   BY <3>1, <3>2, <3>3, <3>4
  <3> QED BY <3>5 DEF Earned
 <2> QED BY <2>1, <2>2, RateInit, PTL DEF ThrottleSpec
<1> QED BY <1>1, <1>2

----
(* The layered admission of connections *)

\* One element joins, leaves or stays: the count follows.
LEMMA OneChanges ==
    ASSUME NEW S, NEW T, NEW a, IsFiniteSet(S), \A b : b # a => (b \in S <=> b \in T)
    PROVE  /\ IsFiniteSet(T) /\ Cardinality(S) \in Nat /\ Cardinality(T) \in Nat
           /\ Cardinality(T) = Cardinality(S) - (IF a \in S THEN 1 ELSE 0)
                                              + (IF a \in T THEN 1 ELSE 0)
<1> DEFINE R == S \ {a}
<1>1. IsFiniteSet(R) /\ Cardinality(R) = IF a \in S THEN Cardinality(S) - 1 ELSE Cardinality(S)
 BY FS_RemoveElement
<1>2. a \notin R
 OBVIOUS
<1>3. (a \in T => T = R \cup {a}) /\ (a \notin T => T = R)
 OBVIOUS
<1> HIDE DEF R
<1>4. IsFiniteSet(R \cup {a}) /\ Cardinality(R \cup {a}) = Cardinality(R) + 1
 BY <1>1, <1>2, FS_AddElement
<1>5. Cardinality(S) \in Nat /\ Cardinality(R) \in Nat /\ Cardinality(R \cup {a}) \in Nat
 BY <1>1, <1>4, FS_CardinalityType
<1>6. /\ IsFiniteSet(T)
      /\ Cardinality(T) = IF a \in T THEN Cardinality(R) + 1 ELSE Cardinality(R)
 <2>1. CASE a \in T
  <3>1. T = R \cup {a}
   BY <1>3, <2>1
  <3> QED BY <1>4, <2>1, <3>1
 <2>2. CASE a \notin T
  <3>1. T = R
   BY <1>3, <2>2
  <3> QED BY <1>1, <2>2, <3>1
 <2> QED BY <2>1, <2>2
<1>7. /\ Cardinality(T) \in Nat
      /\ Cardinality(T) = Cardinality(S) - (IF a \in S THEN 1 ELSE 0) + (IF a \in T THEN 1 ELSE 0)
 <2> DEFINE s == Cardinality(S)  r == Cardinality(R)  t == Cardinality(T)
 <2>1. /\ s \in Nat /\ r \in Nat
       /\ r = IF a \in S THEN s - 1 ELSE s
       /\ t = IF a \in T THEN r + 1 ELSE r
  BY <1>1, <1>5, <1>6
 <2> HIDE DEF s, r, t
 <2>2. t \in Nat /\ t = s - (IF a \in S THEN 1 ELSE 0) + (IF a \in T THEN 1 ELSE 0)
  <3>1. CASE a \in S
   BY <2>1, <3>1
  <3>2. CASE a \notin S
   BY <2>1, <3>2
  <3> QED BY <3>1, <3>2
 <2> QED BY <2>2 DEF s, t
<1> QED BY <1>5, <1>6, <1>7

AdmissionPlaces == {"idle", "owner", "ownerFull", "rule", "ruleFull", "open", "closing"}
FullPlaces == {"ownerFull", "ruleFull"}

\* The slot whose limiter c is at.
LayerOf(c) == IF c.pc \in {"owner", "ownerFull"} THEN Owner ELSE c.rule

\* A limiter that exists, and whose count belongs to slot s.
Belongs(l, s, home, made) ==
    l # NoLimiter =>
       /\ l \in Limiter
       /\ l.activeGauge \in 1..made
       /\ home[l.activeGauge] = s

\* The state of one connection: the limiter it looked up and its guards are
\* on counts of the slots they were taken for, the owner's first.
AcceptFits(c, home, made) ==
    /\ DOMAIN c = {"pc", "rule", "snap", "guards"}
    /\ c.pc \in AdmissionPlaces
    /\ c.pc # "idle" => c.rule \in Rules
    /\ c.pc \in {"idle", "open", "closing"} => c.snap = NoLimiter
    /\ c.pc \in FullPlaces => c.snap # NoLimiter
    /\ c.pc \in {"idle", "owner", "ownerFull"} => c.guards = {}
    /\ \A p \in c.guards : p \in Slots \X (1..made) /\ home[p[2]] = p[1]
    /\ c.pc \in {"rule", "ruleFull"} => \A p \in c.guards : p[1] = Owner
    /\ Belongs(c.snap, LayerOf(c), home, made)

\* The units of count g that c stands for.
On(c, g) == \E s \in Slots : <<s, g>> \in c.guards
Back(c, g) == c.pc \in FullPlaces /\ c.snap.activeGauge = g
UnitsOf(c, g) == (IF On(c, g) THEN 1 ELSE 0) + (IF Back(c, g) THEN 1 ELSE 0)

\* Every count belongs to one slot for good.
Homed(home) ==
    /\ \A s \in Slots : Belongs(limiter[s], s, home, gaugesMade)
    /\ \A a \in Accepts : AcceptFits(accept[a], home, gaugesMade)

AdmissionInv ==
    /\ gaugesMade \in 0..MaxGauges
    /\ DOMAIN limiter = Slots /\ DOMAIN accept = Accepts
    /\ activeGauge \in [Gauges -> Int]
    /\ \E home \in [Gauges -> Slots] : Homed(home)
    /\ \A g \in Gauges :
          /\ IsFiniteSet(Guards(g)) /\ IsFiniteSet(TakingBack(g))
          /\ activeGauge[g] = Cardinality(Guards(g)) + Cardinality(TakingBack(g))

\* No connection holds a guard at the start.
LEMMA AdmissionInvInit == AdmissionInit => AdmissionInv
<1> SUFFICES ASSUME AdmissionInit PROVE AdmissionInv
 OBVIOUS
<1>1. /\ gaugesMade \in 0..MaxGauges /\ DOMAIN limiter = Slots /\ DOMAIN accept = Accepts
      /\ activeGauge \in [Gauges -> Int]
 BY AdmissionAssumption DEF AdmissionInit
<1>2. \E home \in [Gauges -> Slots] : Homed(home)
 <2> DEFINE home == [g \in Gauges |-> Owner]
 <2>1. home \in [Gauges -> Slots]
  BY DEF Slots
 <2>2. Homed(home)
  BY DEF AdmissionInit, Homed, Belongs, AcceptFits, NotOffered, AdmissionPlaces, FullPlaces
 <2> QED BY <2>1, <2>2
<1>3. ASSUME NEW g \in Gauges
      PROVE  /\ IsFiniteSet(Guards(g)) /\ IsFiniteSet(TakingBack(g))
             /\ activeGauge[g] = Cardinality(Guards(g)) + Cardinality(TakingBack(g))
 <2>1. Guards(g) = {} /\ TakingBack(g) = {}
  BY DEF AdmissionInit, Guards, TakingBack, NotOffered
 <2>2. activeGauge[g] = 0
  BY DEF AdmissionInit
 <2> QED BY <2>1, <2>2, FS_EmptySet
<1> QED BY <1>1, <1>2, <1>3 DEF AdmissionInv

\* The step of one connection, and what the counts must follow.
LEMMA AdmissionMove ==
    ASSUME AdmissionInv, NEW a, a \in Accepts, NEW c,
           NEW home, home \in [Gauges -> Slots], Homed(home), AcceptFits(c, home, gaugesMade),
           accept' = [accept EXCEPT ![a] = c],
           limiter' = limiter, gaugesMade' = gaugesMade,
           activeGauge' \in [Gauges -> Int],
           \A g \in Gauges :
              activeGauge'[g] = activeGauge[g] - UnitsOf(accept[a], g) + UnitsOf(c, g)
    PROVE  AdmissionInv'
<1>1. /\ gaugesMade' \in 0..MaxGauges /\ DOMAIN limiter' = Slots /\ DOMAIN accept' = Accepts
 BY DEF AdmissionInv
<1>2. \A b \in Accepts : accept'[b] = IF b = a THEN c ELSE accept[b]
 BY DEF AdmissionInv
<1>3. Homed(home)'
 <2>1. \A s \in Slots : Belongs(limiter'[s], s, home, gaugesMade')
  BY DEF Homed
 <2>2. \A b \in Accepts : AcceptFits(accept'[b], home, gaugesMade')
  BY <1>2 DEF Homed
 <2> QED BY <2>1, <2>2 DEF Homed
<1>4. ASSUME NEW g \in Gauges
      PROVE  /\ IsFiniteSet(Guards(g)') /\ IsFiniteSet(TakingBack(g)')
             /\ activeGauge'[g] = Cardinality(Guards(g)') + Cardinality(TakingBack(g)')
 <2>1. /\ Guards(g) = {b \in Accepts : On(accept[b], g)}
       /\ Guards(g)' = {b \in Accepts : On(accept'[b], g)}
       /\ TakingBack(g) = {b \in Accepts : Back(accept[b], g)}
       /\ TakingBack(g)' = {b \in Accepts : Back(accept'[b], g)}
  BY DEF Guards, TakingBack, On, Back, FullPlaces
 <2> DEFINE S == Guards(g)  T == Guards(g)'  X == TakingBack(g)  Y == TakingBack(g)'
 <2>2. /\ \A b : b # a => (b \in S <=> b \in T)
       /\ \A b : b # a => (b \in X <=> b \in Y)
       /\ a \in S <=> On(accept[a], g)
       /\ a \in T <=> On(c, g)
       /\ a \in X <=> Back(accept[a], g)
       /\ a \in Y <=> Back(c, g)
  BY <1>2, <2>1
 <2>3. IsFiniteSet(S) /\ IsFiniteSet(X) /\ activeGauge[g] = Cardinality(S) + Cardinality(X)
  BY DEF AdmissionInv
 <2>4. activeGauge'[g] = activeGauge[g] - UnitsOf(accept[a], g) + UnitsOf(c, g)
  OBVIOUS
 <2> HIDE DEF S, T, X, Y
 <2> USE <2>2, <2>3
 <2>5. /\ IsFiniteSet(T) /\ Cardinality(S) \in Nat /\ Cardinality(T) \in Nat
       /\ Cardinality(T) = Cardinality(S) - (IF a \in S THEN 1 ELSE 0) + (IF a \in T THEN 1 ELSE 0)
  BY OneChanges
 <2>6. /\ IsFiniteSet(Y) /\ Cardinality(X) \in Nat /\ Cardinality(Y) \in Nat
       /\ Cardinality(Y) = Cardinality(X) - (IF a \in X THEN 1 ELSE 0) + (IF a \in Y THEN 1 ELSE 0)
  BY OneChanges
 <2>7. activeGauge'[g] = Cardinality(T) + Cardinality(Y)
  BY <2>4, <2>5, <2>6 DEF UnitsOf
 <2> QED BY <2>5, <2>6, <2>7 DEF T, Y
<1> QED BY <1>1, <1>3, <1>4 DEF AdmissionInv

\* A step of the registries, which leaves the connections alone.
LEMMA AdmissionRegistry ==
    ASSUME AdmissionInv, accept' = accept, activeGauge' = activeGauge,
           gaugesMade' \in 0..MaxGauges, DOMAIN limiter' = Slots,
           NEW home, home \in [Gauges -> Slots], Homed(home)'
    PROVE  AdmissionInv'
<1>1. \A g \in Gauges : Guards(g)' = Guards(g) /\ TakingBack(g)' = TakingBack(g)
 BY DEF Guards, TakingBack
<1> QED BY <1>1 DEF AdmissionInv


\* A step of one connection that leaves the counts alone.
LEMMA AdmissionStays ==
    ASSUME AdmissionInv, NEW a, a \in Accepts, NEW c,
           NEW home, home \in [Gauges -> Slots], Homed(home), AcceptFits(c, home, gaugesMade),
           accept' = [accept EXCEPT ![a] = c],
           UNCHANGED <<limiter, activeGauge, gaugesMade>>,
           c.guards = accept[a].guards,
           c.pc \notin FullPlaces, accept[a].pc \notin FullPlaces
    PROVE  AdmissionInv'
<1>1. \A g \in Gauges : UnitsOf(c, g) = UnitsOf(accept[a], g) /\ UnitsOf(c, g) \in Nat
 BY DEF UnitsOf, On, Back
<1>2. /\ activeGauge' \in [Gauges -> Int]
      /\ \A g \in Gauges :
            activeGauge'[g] = activeGauge[g] - UnitsOf(accept[a], g) + UnitsOf(c, g)
 BY <1>1 DEF AdmissionInv
<1> QED BY <1>2, AdmissionMove

\* The connection past the layer it is at.
LEMMA PassedFits ==
    ASSUME AdmissionInv, NEW a, a \in Accepts, NEW home, Homed(home), NEW G,
           accept[a].pc \in {"owner", "rule"},
           \A p \in G : p \in Slots \X (1..gaugesMade) /\ home[p[2]] = p[1],
           accept[a].pc = "owner" => \A p \in G : p[1] = Owner
    PROVE  /\ AcceptFits(Passed(a, G), home, gaugesMade)
           /\ Passed(a, G).guards = G
           /\ Passed(a, G).pc \notin FullPlaces
<1>1. AcceptFits(accept[a], home, gaugesMade)
 BY DEF Homed
<1>2. CASE accept[a].pc = "owner"
 <2> DEFINE c == [accept[a] EXCEPT !.pc = "rule", !.snap = limiter[accept[a].rule], !.guards = G]
 <2>1. Passed(a, G) = c
  BY <1>2 DEF Passed
 <2> USE DEF AcceptFits
 <2>2. c.pc = "rule" /\ c.snap = limiter[accept[a].rule] /\ c.guards = G /\ c.rule = accept[a].rule
       /\ DOMAIN c = {"pc", "rule", "snap", "guards"}
  BY <1>1
 <2>3. accept[a].rule \in Rules /\ accept[a].rule \in Slots
  BY <1>1, <1>2 DEF Slots
 <2>4. Belongs(limiter[accept[a].rule], accept[a].rule, home, gaugesMade)
  BY <2>3 DEF Homed
 <2> HIDE DEF c
 <2> QED BY <1>2, <2>1, <2>2, <2>3, <2>4 DEF AdmissionPlaces, FullPlaces, LayerOf
<1>3. CASE accept[a].pc # "owner"
 <2> DEFINE c == [accept[a] EXCEPT !.pc = "open", !.snap = NoLimiter, !.guards = G]
 <2>1. Passed(a, G) = c
  BY <1>3 DEF Passed
 <2> USE DEF AcceptFits
 <2>2. c.pc = "open" /\ c.snap = NoLimiter /\ c.guards = G /\ c.rule = accept[a].rule
       /\ DOMAIN c = {"pc", "rule", "snap", "guards"}
  BY <1>1
 <2>3. accept[a].rule \in Rules
  BY <1>1, <1>3
 <2> HIDE DEF c
 <2> QED BY <1>3, <2>1, <2>2, <2>3 DEF AdmissionPlaces, FullPlaces, Belongs
<1> QED BY <1>2, <1>3

\* A refused connection.
LEMMA RejectedFits ==
    ASSUME AdmissionInv, NEW a, a \in Accepts, NEW home, Homed(home), accept[a].pc # "idle"
    PROVE  /\ AcceptFits(Rejected(a), home, gaugesMade)
           /\ Rejected(a).guards = accept[a].guards
           /\ Rejected(a).pc = "closing"
<1>1. AcceptFits(accept[a], home, gaugesMade)
 BY DEF Homed
<1> QED BY <1>1 DEF AcceptFits, Rejected, AdmissionPlaces, FullPlaces, Belongs

\* The registries: a new count belongs to the slot it is made for, a kept
\* one stays where it was.
LEMMA AdmissionRegistries ==
    ASSUME AdmissionInv,
           \/ \E s \in Slots, max \in Ceilings \cup {NoCeiling} :
                 UpdateLimiter(s, max) \/ InstallLimiter(s, max)
           \/ \E s \in Slots : RemoveLimiter(s)
    PROVE  AdmissionInv'
<1> PICK home \in [Gauges -> Slots] : Homed(home)
 BY DEF AdmissionInv
<1>1. ASSUME NEW s \in Slots, NEW max \in Ceilings \cup {NoCeiling}, FromEnvelope(s, max),
             UNCHANGED accept
      PROVE  AdmissionInv'
 <2>n. PICK n : n = gaugesMade + 1
  OBVIOUS
 <2>m. PICK made : made = [home EXCEPT ![n] = s]
  OBVIOUS
 <2> DEFINE l == [activeGauge |-> n, max |-> max]
 <2>1. n \in Gauges /\ gaugesMade' = n /\ gaugesMade \in Nat /\ n \in 0..MaxGauges
  BY <1>1, <2>n, AdmissionAssumption DEF FromEnvelope, AdmissionInv, Gauges
 <2>2. made \in [Gauges -> Slots] /\ made[n] = s /\ \A g \in 1..gaugesMade : made[g] = home[g] /\ g \in 1..n
  BY <2>n, <2>m, <2>1, AdmissionAssumption DEF Gauges
 <2>3. limiter' = [limiter EXCEPT ![s] = l] /\ activeGauge' = activeGauge /\ accept' = accept
  BY <1>1, <2>n DEF FromEnvelope
 <2>4. l \in Limiter /\ l.activeGauge = n
  BY <2>1 DEF Limiter
 <2> HIDE DEF l
 <2>5. n \in 1..n
  BY <2>1 DEF Gauges
 <2>6. \A t \in Slots : Belongs(limiter'[t], t, made, gaugesMade')
  <3>1. \A t \in Slots : limiter'[t] = IF t = s THEN l ELSE limiter[t]
   BY <2>3 DEF AdmissionInv
  <3>2. \A t \in Slots : Belongs(limiter[t], t, home, gaugesMade)
   BY DEF Homed
  <3> QED BY <2>1, <2>2, <2>4, <2>5, <3>1, <3>2 DEF Belongs
 <2>7. \A a \in Accepts : AcceptFits(accept'[a], made, gaugesMade')
  <3> SUFFICES ASSUME NEW a \in Accepts PROVE AcceptFits(accept[a], made, n)
   BY <2>1, <2>3
  <3>1. AcceptFits(accept[a], home, gaugesMade)
   BY DEF Homed
  <3>2. Belongs(accept[a].snap, LayerOf(accept[a]), made, n)
   BY <2>2, <3>1 DEF Belongs, AcceptFits
  <3>3. \A p \in accept[a].guards : p \in Slots \X (1..n) /\ made[p[2]] = p[1]
   <4> SUFFICES ASSUME NEW p \in accept[a].guards PROVE p \in Slots \X (1..n) /\ made[p[2]] = p[1]
    OBVIOUS
   <4>1. p \in Slots \X (1..gaugesMade) /\ home[p[2]] = p[1]
    BY <3>1 DEF AcceptFits
   <4>2. p[2] \in 1..gaugesMade /\ p = <<p[1], p[2]>> /\ p[1] \in Slots
    BY <4>1
   <4>3. p[2] \in 1..n /\ made[p[2]] = home[p[2]]
    BY <2>2, <4>2
   <4> QED BY <4>1, <4>2, <4>3
  <3> QED BY <3>1, <3>2, <3>3 DEF AcceptFits
 <2>8. Homed(made)'
  BY <2>6, <2>7 DEF Homed
 <2>9. DOMAIN limiter' = Slots /\ gaugesMade' \in 0..MaxGauges
  BY <2>1, <2>3 DEF AdmissionInv
 <2> QED BY <2>2, <2>3, <2>8, <2>9, AdmissionRegistry
<1>2. ASSUME NEW s \in Slots, NEW max \in Ceilings \cup {NoCeiling}, limiter[s] # NoLimiter,
             WithCarryover(s, max), UNCHANGED accept
      PROVE  AdmissionInv'
 <2>1. limiter' = [limiter EXCEPT ![s].max = max] /\ UNCHANGED <<activeGauge, gaugesMade, accept>>
  BY <1>2 DEF WithCarryover
 <2>2. limiter[s] \in Limiter /\ limiter[s].activeGauge \in 1..gaugesMade
       /\ home[limiter[s].activeGauge] = s
  BY <1>2 DEF Homed, Belongs
 <2> DEFINE l == [limiter[s] EXCEPT !.max = max]
 <2>3. l \in Limiter /\ l.activeGauge = limiter[s].activeGauge
  BY <2>2 DEF Limiter
 <2>4. \A t \in Slots : limiter'[t] = IF t = s THEN l ELSE limiter[t]
  BY <2>1 DEF AdmissionInv
 <2>5. DOMAIN limiter' = Slots /\ gaugesMade' \in 0..MaxGauges
  BY <2>1 DEF AdmissionInv
 <2> HIDE DEF l
 <2>6. Homed(home)'
  BY <2>1, <2>2, <2>3, <2>4 DEF Homed, Belongs
 <2> QED BY <2>1, <2>5, <2>6, AdmissionRegistry
<1>3. ASSUME NEW s \in Slots, RemoveLimiter(s) PROVE AdmissionInv'
 <2>1. limiter' = [limiter EXCEPT ![s] = NoLimiter] /\ UNCHANGED <<activeGauge, gaugesMade, accept>>
  BY <1>3 DEF RemoveLimiter
 <2>2. \A t \in Slots : limiter'[t] = IF t = s THEN NoLimiter ELSE limiter[t]
  BY <2>1 DEF AdmissionInv
 <2>3. DOMAIN limiter' = Slots /\ gaugesMade' \in 0..MaxGauges
  BY <2>1 DEF AdmissionInv
 <2>4. Homed(home)'
  BY <2>1, <2>2 DEF Homed, Belongs
 <2> QED BY <2>1, <2>3, <2>4, AdmissionRegistry
<1>4. ASSUME NEW s \in Slots, NEW max \in Ceilings \cup {NoCeiling},
             UpdateLimiter(s, max) \/ InstallLimiter(s, max)
      PROVE  AdmissionInv'
 <2>1. CASE UpdateLimiter(s, max)
  <3>1. CASE limiter[s] = NoLimiter
   BY <1>1, <2>1, <3>1 DEF UpdateLimiter
  <3>2. CASE limiter[s] # NoLimiter
   BY <1>2, <2>1, <3>2 DEF UpdateLimiter
  <3> QED BY <3>1, <3>2
 <2>2. CASE InstallLimiter(s, max)
  BY <1>1, <2>2 DEF InstallLimiter
 <2> QED BY <1>4, <2>1, <2>2
<1> QED BY <1>3, <1>4


\* The addition to a count: it is kept as a guard, or is to be taken back.
LEMMA FetchAddKeeps ==
    ASSUME AdmissionInv, NEW a \in Accepts, FetchAdd(a) PROVE AdmissionInv'
<1> PICK home \in [Gauges -> Slots] : Homed(home)
 BY DEF AdmissionInv
<1> DEFINE l == accept[a].snap
           n == l.activeGauge
           G == accept[a].guards \cup {<<SlotOf(a), n>>}
<1>1. AcceptFits(accept[a], home, gaugesMade) /\ accept[a].pc \in {"owner", "rule"} /\ l # NoLimiter
 BY DEF Homed, FetchAdd
<1>2. l \in Limiter /\ n \in 1..gaugesMade /\ home[n] = SlotOf(a) /\ SlotOf(a) = LayerOf(accept[a])
 BY <1>1 DEF AcceptFits, Belongs, LayerOf, SlotOf
<1>3. n \in Gauges /\ SlotOf(a) \in Slots
 BY <1>1, <1>2 DEF Limiter, SlotOf, Slots, AcceptFits
<1>4. activeGauge' = [activeGauge EXCEPT ![n] = @ + 1] /\ UNCHANGED <<limiter, gaugesMade>>
 BY DEF FetchAdd
<1>5. activeGauge' \in [Gauges -> Int]
      /\ \A g \in Gauges : activeGauge'[g] = IF g = n THEN activeGauge[g] + 1 ELSE activeGauge[g]
 <2> HIDE DEF n
 <2> QED BY <1>3, <1>4 DEF AdmissionInv
<1>6. \A g \in Gauges : activeGauge[g] \in Int
 BY DEF AdmissionInv
<1>7. ~ On(accept[a], n)
 <2> SUFFICES ASSUME NEW s \in Slots, <<s, n>> \in accept[a].guards PROVE FALSE
  BY DEF On
 <2>1. accept[a].pc = "rule" /\ s = Owner /\ accept[a].rule \in Rules
  BY <1>1 DEF AcceptFits, AdmissionPlaces
 <2>2. home[n] = s
  BY <1>1 DEF AcceptFits
 <2> QED BY <1>2, <2>1, <2>2, AdmissionAssumption DEF LayerOf
<1>8. CASE Room(l, activeGauge[n])
 <2> DEFINE c == Passed(a, G)
 <2>1. accept' = [accept EXCEPT ![a] = c]
  BY <1>8 DEF FetchAdd
 <2>2. /\ \A p \in G : p \in Slots \X (1..gaugesMade) /\ home[p[2]] = p[1]
       /\ accept[a].pc = "owner" => \A p \in G : p[1] = Owner
  <3>1. <<SlotOf(a), n>> \in Slots \X (1..gaugesMade)
   BY <1>2, <1>3
  <3>2. accept[a].pc = "owner" => accept[a].guards = {} /\ SlotOf(a) = Owner
   BY <1>1 DEF AcceptFits, SlotOf
  <3> QED BY <1>1, <1>2, <3>1, <3>2 DEF AcceptFits
 <2> HIDE DEF G
 <2>3. AcceptFits(c, home, gaugesMade) /\ c.guards = G /\ c.pc \notin FullPlaces
  BY <1>1, <2>2, PassedFits
 <2> HIDE DEF c
 <2>4. \A g \in Gauges : On(c, g) <=> (g = n \/ On(accept[a], g))
  BY <1>3, <2>3 DEF On, G
 <2>5. \A g \in Gauges : ~ Back(c, g) /\ ~ Back(accept[a], g)
  BY <1>1, <2>3 DEF Back, FullPlaces
 <2>6. \A g \in Gauges : UnitsOf(c, g) = UnitsOf(accept[a], g) + (IF g = n THEN 1 ELSE 0)
                         /\ UnitsOf(accept[a], g) \in Nat
  <3> HIDE DEF n
  <3> QED BY <1>7, <2>4, <2>5 DEF UnitsOf
 <2>7. \A g \in Gauges : activeGauge'[g] = activeGauge[g] - UnitsOf(accept[a], g) + UnitsOf(c, g)
  <3> HIDE DEF n
  <3> QED BY <1>5, <1>6, <2>6
 <2> QED BY <1>4, <1>5, <2>1, <2>3, <2>7, AdmissionMove
<1>9. CASE ~ Room(l, activeGauge[n])
 <2> DEFINE c == [accept[a] EXCEPT !.pc = IF accept[a].pc = "owner" THEN "ownerFull" ELSE "ruleFull"]
 <2>1. accept' = [accept EXCEPT ![a] = c]
  BY <1>9 DEF FetchAdd
 <2>2. /\ c.pc = (IF accept[a].pc = "owner" THEN "ownerFull" ELSE "ruleFull")
       /\ c.guards = accept[a].guards /\ c.snap = l /\ c.rule = accept[a].rule
       /\ DOMAIN c = DOMAIN accept[a]
  BY <1>1 DEF AcceptFits
 <2> HIDE DEF c
 <2>3. AcceptFits(c, home, gaugesMade)
  <3>1. LayerOf(c) = LayerOf(accept[a])
   BY <1>1, <2>2 DEF LayerOf
  <3> QED BY <1>1, <2>2, <3>1 DEF AcceptFits, AdmissionPlaces, FullPlaces
 <2>4. \A g \in Gauges : (On(c, g) <=> On(accept[a], g)) /\ (Back(c, g) <=> g = n) /\ ~ Back(accept[a], g)
  BY <1>1, <2>2 DEF On, Back, FullPlaces
 <2>6. \A g \in Gauges : UnitsOf(c, g) = UnitsOf(accept[a], g) + (IF g = n THEN 1 ELSE 0)
                         /\ UnitsOf(accept[a], g) \in Nat
  <3> HIDE DEF n
  <3> QED BY <2>4 DEF UnitsOf
 <2>7. \A g \in Gauges : activeGauge'[g] = activeGauge[g] - UnitsOf(accept[a], g) + UnitsOf(c, g)
  <3> HIDE DEF n
  <3> QED BY <1>5, <1>6, <2>6
 <2> QED BY <1>4, <1>5, <2>1, <2>3, <2>7, AdmissionMove
<1> QED BY <1>8, <1>9

\* The addition is taken back by the connection that made it.
LEMMA FetchSubKeeps ==
    ASSUME AdmissionInv, NEW a \in Accepts, FetchSub(a) PROVE AdmissionInv'
<1> PICK home \in [Gauges -> Slots] : Homed(home)
 BY DEF AdmissionInv
<1> DEFINE n == accept[a].snap.activeGauge
           c == Rejected(a)
<1>1. AcceptFits(accept[a], home, gaugesMade) /\ accept[a].pc \in FullPlaces
 BY DEF Homed, FetchSub, FullPlaces
<1>2. n \in Gauges
 BY <1>1 DEF AcceptFits, Belongs, Limiter
<1>3. AcceptFits(c, home, gaugesMade) /\ c.guards = accept[a].guards /\ c.pc = "closing"
 BY <1>1, RejectedFits DEF FullPlaces
<1>4. /\ accept' = [accept EXCEPT ![a] = c]
      /\ activeGauge' = [activeGauge EXCEPT ![n] = @ - 1] /\ UNCHANGED <<limiter, gaugesMade>>
 BY DEF FetchSub
<1> HIDE DEF c
<1>5. \A g \in Gauges : (On(c, g) <=> On(accept[a], g)) /\ ~ Back(c, g) /\ (Back(accept[a], g) <=> g = n)
 BY <1>1, <1>3 DEF On, Back, FullPlaces
<1> HIDE DEF n
<1>6. activeGauge' \in [Gauges -> Int]
      /\ \A g \in Gauges : activeGauge'[g] = IF g = n THEN activeGauge[g] - 1 ELSE activeGauge[g]
 BY <1>2, <1>4 DEF AdmissionInv
<1>7. \A g \in Gauges : UnitsOf(accept[a], g) = UnitsOf(c, g) + (IF g = n THEN 1 ELSE 0)
                        /\ UnitsOf(c, g) \in Nat /\ activeGauge[g] \in Int
 BY <1>5 DEF UnitsOf, AdmissionInv
<1>8. \A g \in Gauges : activeGauge'[g] = activeGauge[g] - UnitsOf(accept[a], g) + UnitsOf(c, g)
 BY <1>6, <1>7
<1> QED BY <1>3, <1>4, <1>6, <1>8, AdmissionMove

\* A guard gives back its unit when it goes out of scope.
LEMMA DropGuardsKeeps ==
    ASSUME AdmissionInv, NEW a \in Accepts, DropGuards(a) PROVE AdmissionInv'
<1> PICK home \in [Gauges -> Slots] : Homed(home)
 BY DEF AdmissionInv
<1>1. AcceptFits(accept[a], home, gaugesMade) /\ accept[a].pc = "closing"
      /\ UNCHANGED <<limiter, gaugesMade>>
 BY DEF Homed, DropGuards
<1>2. CASE accept[a].guards = {}
 <2>1. accept' = [accept EXCEPT ![a] = NotOffered] /\ UNCHANGED activeGauge
  BY <1>2 DEF DropGuards
 <2>2. /\ AcceptFits(NotOffered, home, gaugesMade) /\ NotOffered.guards = accept[a].guards
       /\ NotOffered.pc \notin FullPlaces
  BY <1>2 DEF AcceptFits, NotOffered, AdmissionPlaces, FullPlaces, Belongs
 <2>3. accept[a].pc \notin FullPlaces
  BY <1>1 DEF FullPlaces
 <2> QED BY <1>1, <2>1, <2>2, <2>3, AdmissionStays
<1>3. CASE accept[a].guards # {}
 <2>1. PICK p \in accept[a].guards :
          /\ activeGauge' = [activeGauge EXCEPT ![p[2]] = @ - 1]
          /\ accept' = [accept EXCEPT ![a].guards = @ \ {p}]
  BY <1>3 DEF DropGuards
 <2> DEFINE n == p[2]
            c == [accept[a] EXCEPT !.guards = @ \ {p}]
 <2>2. accept' = [accept EXCEPT ![a] = c]
  BY <2>1
 <2>3. c.guards = accept[a].guards \ {p} /\ c.pc = "closing" /\ c.snap = accept[a].snap
       /\ c.rule = accept[a].rule /\ DOMAIN c = DOMAIN accept[a]
  BY <1>1 DEF AcceptFits
 <2> HIDE DEF c
 <2>4. AcceptFits(c, home, gaugesMade)
  BY <1>1, <2>3 DEF AcceptFits, LayerOf, FullPlaces
 <2>5. p \in Slots \X (1..gaugesMade) /\ home[n] = p[1] /\ p = <<p[1], n>> /\ p[1] \in Slots
       /\ n \in Gauges
  <3>1. p \in Slots \X (1..gaugesMade) /\ home[p[2]] = p[1]
   BY <1>1 DEF AcceptFits
  <3>2. gaugesMade \in 0..MaxGauges /\ MaxGauges \in Nat
   BY AdmissionAssumption DEF AdmissionInv
  <3> QED BY <3>1, <3>2 DEF Gauges
 <2>6. \A g \in Gauges : (On(accept[a], g) <=> (g = n \/ On(c, g))) /\ ~ Back(c, g) /\ ~ Back(accept[a], g)
  BY <1>1, <2>3, <2>5 DEF On, Back, FullPlaces
 <2>7. ~ On(c, n)
  <3> SUFFICES ASSUME NEW s \in Slots, <<s, n>> \in c.guards PROVE FALSE
   BY DEF On
  <3>1. <<s, n>> \in accept[a].guards /\ <<s, n>> # p
   BY <2>3
  <3>2. home[n] = s
   BY <1>1, <3>1 DEF AcceptFits
  <3> QED BY <2>5, <3>1, <3>2
 <2> HIDE DEF n
 <2>8. activeGauge' \in [Gauges -> Int]
       /\ \A g \in Gauges : activeGauge'[g] = IF g = n THEN activeGauge[g] - 1 ELSE activeGauge[g]
  BY <2>1, <2>5 DEF AdmissionInv, n
 <2>9. \A g \in Gauges : UnitsOf(accept[a], g) = UnitsOf(c, g) + (IF g = n THEN 1 ELSE 0)
                         /\ UnitsOf(c, g) \in Nat /\ activeGauge[g] \in Int
  BY <2>6, <2>7 DEF UnitsOf, AdmissionInv
 <2>10. \A g \in Gauges : activeGauge'[g] = activeGauge[g] - UnitsOf(accept[a], g) + UnitsOf(c, g)
  BY <2>8, <2>9
 <2> QED BY <1>1, <2>2, <2>4, <2>8, <2>10, AdmissionMove
<1> QED BY <1>2, <1>3

\* Every step of an accept keeps the guards and the gauges in balance.
LEMMA AdmissionInvNext == AdmissionInv /\ AdmissionNext => AdmissionInv'
<1> SUFFICES ASSUME AdmissionInv, AdmissionNext PROVE AdmissionInv'
 OBVIOUS
<1> PICK home \in [Gauges -> Slots] : Homed(home)
 BY DEF AdmissionInv
<1>1. ASSUME NEW a \in Accepts, NEW r \in Rules, Offer(a, r) PROVE AdmissionInv'
 <2> DEFINE c == [pc |-> "owner", rule |-> r, snap |-> limiter[Owner], guards |-> {}]
 <2>1. AcceptFits(accept[a], home, gaugesMade) /\ accept[a].pc = "idle"
  BY <1>1 DEF Homed, Offer
 <2>2. accept' = [accept EXCEPT ![a] = c] /\ UNCHANGED <<limiter, activeGauge, gaugesMade>>
  BY <1>1 DEF Offer
 <2>3. Belongs(limiter[Owner], Owner, home, gaugesMade)
  BY DEF Homed, Slots
 <2>4. AcceptFits(c, home, gaugesMade) /\ c.pc \notin FullPlaces /\ c.guards = accept[a].guards
       /\ accept[a].pc \notin FullPlaces
  BY <2>1, <2>3 DEF AcceptFits, LayerOf, AdmissionPlaces, FullPlaces
 <2> HIDE DEF c
 <2> QED BY <2>2, <2>4, AdmissionStays
<1>2. ASSUME NEW a \in Accepts, Uncapped(a) PROVE AdmissionInv'
 <2> DEFINE G == accept[a].guards
            c == Passed(a, G)
 <2>1. AcceptFits(accept[a], home, gaugesMade) /\ accept[a].pc \in {"owner", "rule"}
  BY <1>2 DEF Homed, Uncapped
 <2>2. accept' = [accept EXCEPT ![a] = c] /\ UNCHANGED <<limiter, activeGauge, gaugesMade>>
  BY <1>2 DEF Uncapped
 <2>3. /\ \A p \in G : p \in Slots \X (1..gaugesMade) /\ home[p[2]] = p[1]
       /\ accept[a].pc = "owner" => \A p \in G : p[1] = Owner
  BY <2>1 DEF AcceptFits
 <2> HIDE DEF G
 <2>4. AcceptFits(c, home, gaugesMade) /\ c.guards = G /\ c.pc \notin FullPlaces
  BY <2>1, <2>3, PassedFits
 <2> HIDE DEF c
 <2>5. accept[a].pc \notin FullPlaces
  BY <2>1 DEF FullPlaces
 <2> QED BY <2>2, <2>4, <2>5, AdmissionStays DEF G
<1>3. ASSUME NEW a \in Accepts, RateReject(a) PROVE AdmissionInv'
 <2>1. accept[a].pc # "idle" /\ accept[a].pc \notin FullPlaces
  BY <1>3 DEF RateReject, FullPlaces
 <2>2. accept' = [accept EXCEPT ![a] = Rejected(a)] /\ UNCHANGED <<limiter, activeGauge, gaugesMade>>
  BY <1>3 DEF RateReject
 <2>3. /\ AcceptFits(Rejected(a), home, gaugesMade) /\ Rejected(a).guards = accept[a].guards
       /\ Rejected(a).pc \notin FullPlaces
  BY <2>1, RejectedFits DEF FullPlaces
 <2> QED BY <2>1, <2>2, <2>3, AdmissionStays
<1>4. ASSUME NEW a \in Accepts, Close(a) PROVE AdmissionInv'
 <2> DEFINE c == [accept[a] EXCEPT !.pc = "closing"]
 <2>1. AcceptFits(accept[a], home, gaugesMade) /\ accept[a].pc = "open"
  BY <1>4 DEF Homed, Close
 <2>2. accept' = [accept EXCEPT ![a] = c] /\ UNCHANGED <<limiter, activeGauge, gaugesMade>>
  BY <1>4 DEF Close
 <2>3. AcceptFits(c, home, gaugesMade) /\ c.pc \notin FullPlaces /\ c.guards = accept[a].guards
       /\ accept[a].pc \notin FullPlaces
  BY <2>1 DEF AcceptFits, LayerOf, AdmissionPlaces, FullPlaces
 <2> HIDE DEF c
 <2> QED BY <2>2, <2>3, AdmissionStays
<1> QED BY <1>1, <1>2, <1>3, <1>4, FetchAddKeeps, FetchSubKeeps, DropGuardsKeeps,
  AdmissionRegistries DEF AdmissionNext

\* What NeverOverCeiling asks of one step.
UnderCeiling ==
    \A a \in Accepts, g \in Gauges :
       LET l == accept[a].snap
       IN  (/\ l /= NoLimiter
            /\ l.activeGauge = g
            /\ \E s \in Slots : <<s, g>> \in accept'[a].guards \ accept[a].guards)
           => l.max = NoCeiling \/ Cardinality(Guards(g)) < l.max

\* Only the fetch_add that found room makes a guard.
LEMMA OnlyFetchAddGuards ==
    ASSUME AdmissionInv, AdmissionNext, NEW a \in Accepts, NEW p,
           p \in accept'[a].guards, p \notin accept[a].guards
    PROVE  FetchAdd(a) /\ Room(accept[a].snap, activeGauge[accept[a].snap.activeGauge])
<1> PICK home \in [Gauges -> Slots] : Homed(home)
 BY DEF AdmissionInv
<1>1. DOMAIN accept = Accepts /\ \A b \in Accepts : AcceptFits(accept[b], home, gaugesMade)
 BY DEF Homed, AdmissionInv
<1>2. accept'[a] # accept[a]
 OBVIOUS
<1>3. ASSUME NEW s \in Slots, NEW max \in Ceilings \cup {NoCeiling},
             UpdateLimiter(s, max) \/ InstallLimiter(s, max)
      PROVE  FALSE
 BY <1>2, <1>3 DEF UpdateLimiter, InstallLimiter
<1>4. ASSUME NEW s \in Slots, RemoveLimiter(s) PROVE FALSE
 BY <1>2, <1>4 DEF RemoveLimiter
<1>5. ASSUME NEW b \in Accepts, NEW c, accept' = [accept EXCEPT ![b] = c], c.guards \subseteq accept[b].guards
      PROVE  FALSE
 BY <1>1, <1>5
<1>6. ASSUME NEW b \in Accepts, NEW r \in Rules, Offer(b, r) PROVE FALSE
 BY <1>5, <1>6 DEF Offer
<1>7. ASSUME NEW b \in Accepts, Uncapped(b) PROVE FALSE
 <2>1. Passed(b, accept[b].guards).guards = accept[b].guards
  BY <1>1 DEF Passed, AcceptFits
 <2>2. accept' = [accept EXCEPT ![b] = Passed(b, accept[b].guards)]
  BY <1>7 DEF Uncapped
 <2> QED BY <1>5, <2>1, <2>2
<1>8. ASSUME NEW b \in Accepts, RateReject(b) \/ FetchSub(b) PROVE FALSE
 <2>1. Rejected(b).guards = accept[b].guards
  BY <1>1 DEF Rejected, AcceptFits
 <2>2. accept' = [accept EXCEPT ![b] = Rejected(b)]
  BY <1>8 DEF RateReject, FetchSub
 <2> QED BY <1>5, <2>1, <2>2
<1>9. ASSUME NEW b \in Accepts, Close(b) PROVE FALSE
 <2>1. [accept[b] EXCEPT !.pc = "closing"].guards = accept[b].guards
  BY <1>1 DEF AcceptFits
 <2>2. accept' = [accept EXCEPT ![b] = [accept[b] EXCEPT !.pc = "closing"]]
  BY <1>9 DEF Close
 <2> QED BY <1>5, <2>1, <2>2
<1>10. ASSUME NEW b \in Accepts, DropGuards(b) PROVE FALSE
 <2>1. CASE accept[b].guards = {}
  <3>1. accept' = [accept EXCEPT ![b] = NotOffered] /\ NotOffered.guards = {}
   BY <1>10, <2>1 DEF DropGuards, NotOffered
  <3> QED BY <1>5, <3>1
 <2>2. CASE accept[b].guards # {}
  <3>1. PICK q : accept' = [accept EXCEPT ![b].guards = @ \ {q}]
   BY <1>10, <2>2 DEF DropGuards
  <3> DEFINE c == [accept[b] EXCEPT !.guards = @ \ {q}]
  <3>2. accept' = [accept EXCEPT ![b] = c] /\ c.guards = accept[b].guards \ {q}
   BY <1>1, <3>1 DEF AcceptFits
  <3> HIDE DEF c
  <3> QED BY <1>5, <3>2
 <2> QED BY <2>1, <2>2
<1>11. ASSUME NEW b \in Accepts, FetchAdd(b)
       PROVE  b = a /\ Room(accept[a].snap, activeGauge[accept[a].snap.activeGauge])
 <2>1. b = a
  BY <1>1, <1>2, <1>11 DEF FetchAdd
 <2>2. ASSUME ~ Room(accept[a].snap, activeGauge[accept[a].snap.activeGauge]) PROVE FALSE
  <3> DEFINE c == [accept[a] EXCEPT !.pc = IF accept[a].pc = "owner" THEN "ownerFull" ELSE "ruleFull"]
  <3>1. accept' = [accept EXCEPT ![a] = c]
   BY <1>11, <2>1, <2>2 DEF FetchAdd
  <3>2. c.guards = accept[a].guards
   BY <1>1 DEF AcceptFits
  <3> HIDE DEF c
  <3> QED BY <1>5, <3>1, <3>2
 <2> QED BY <2>1, <2>2
<1> QED BY <1>3, <1>4, <1>6, <1>7, <1>8, <1>9, <1>10, <1>11 DEF AdmissionNext

\* A step that takes a guard finds room under the ceiling of its snapshot.
LEMMA AdmissionUnderCeiling ==
    ASSUME AdmissionInv, AdmissionNext PROVE UnderCeiling
<1> SUFFICES ASSUME NEW a \in Accepts, NEW g \in Gauges, accept[a].snap # NoLimiter,
                    accept[a].snap.activeGauge = g,
                    NEW s \in Slots, <<s, g>> \in accept'[a].guards \ accept[a].guards
             PROVE  accept[a].snap.max = NoCeiling \/ Cardinality(Guards(g)) < accept[a].snap.max
 BY DEF UnderCeiling
<1>1. Room(accept[a].snap, activeGauge[g])
 BY OnlyFetchAddGuards
<1>2. IsFiniteSet(Guards(g)) /\ IsFiniteSet(TakingBack(g))
      /\ activeGauge[g] = Cardinality(Guards(g)) + Cardinality(TakingBack(g))
 BY DEF AdmissionInv
<1>3. Cardinality(Guards(g)) \in Nat /\ Cardinality(TakingBack(g)) \in Nat
 BY <1>2, FS_CardinalityType
<1>4. accept[a].snap.max # NoCeiling => accept[a].snap.max \in Nat
 <2>1. PICK home \in [Gauges -> Slots] : Homed(home)
  BY DEF AdmissionInv
 <2>2. accept[a].snap \in Limiter
  BY <2>1 DEF Homed, AcceptFits, Belongs
 <2>3. accept[a].snap.max \in Ceilings \cup {NoCeiling}
  BY <2>2 DEF Limiter
 <2> QED BY <2>3, AdmissionAssumption
<1> DEFINE m == accept[a].snap.max  x == Cardinality(Guards(g))  y == Cardinality(TakingBack(g))
<1>5. x \in Nat /\ y \in Nat /\ (m # NoCeiling => m \in Nat /\ x + y < m)
 BY <1>1, <1>2, <1>3, <1>4 DEF Room
<1> HIDE DEF m, x, y
<1>6. m = NoCeiling \/ x < m
 BY <1>5
<1> QED BY <1>6 DEF m, x

\* No unit of a count is stranded or lost and no ceiling is passed, for any
\* number of rules, connections and reloads (scope.rs try_acquire_layered).
THEOREM AdmissionCorrect == AdmissionSpec => AdmissionSound
<1>1. AdmissionInv /\ [AdmissionNext]_admissionVars => AdmissionInv'
 <2>1. CASE UNCHANGED admissionVars
  <3>1. UNCHANGED <<limiter, activeGauge, gaugesMade, accept>>
   BY <2>1 DEF admissionVars
  <3>2. \A g \in Gauges : Guards(g)' = Guards(g) /\ TakingBack(g)' = TakingBack(g)
   BY <3>1 DEF Guards, TakingBack
  <3>3. \A home : Homed(home)' <=> Homed(home)
   BY <3>1 DEF Homed
  <3> QED BY <3>1, <3>2, <3>3 DEF AdmissionInv
 <2> QED BY <2>1, AdmissionInvNext
<1>2. AdmissionInv /\ [AdmissionNext]_admissionVars
        => [\A a \in Accepts, g \in Gauges :
              LET l == accept[a].snap
              IN  (/\ l /= NoLimiter
                   /\ l.activeGauge = g
                   /\ \E s \in Slots : <<s, g>> \in accept'[a].guards \ accept[a].guards)
                  => l.max = NoCeiling \/ Cardinality(Guards(g)) < l.max]_admissionVars
 BY AdmissionUnderCeiling DEF UnderCeiling
<1>3. AdmissionInv => GaugeExact
 BY DEF AdmissionInv, GaugeExact
<1> QED BY <1>1, <1>2, <1>3, AdmissionInvInit, PTL DEF AdmissionSpec, AdmissionSound,
  NeverOverCeiling

----
(* Finite orders *)

\* A finite set that is not empty has an element with no other before it in a
\* transitive and irreflexive relation.
LEMMA FiniteFirst ==
    ASSUME NEW S, IsFiniteSet(S), S # {}, NEW R,
           \A x \in S : <<x, x>> \notin R,
           \A x, y, z \in S : <<x, y>> \in R /\ <<y, z>> \in R => <<x, z>> \in R
    PROVE  \E x \in S : \A y \in S : <<y, x>> \notin R
<1> DEFINE Below(x) == {y \in S : <<y, x>> \in R}
           T == {Below(x) : x \in S}
           O == StrictSubsetOrdering(S)
<1>1. IsWellFoundedOn(O, FiniteSubsetsOf(S)) /\ FiniteSubsetsOf(S) = SUBSET S
 BY FS_StrictSubsetOrderingWellFounded, FS_FiniteSubsetsOfFinite
<1>2. T \subseteq FiniteSubsetsOf(S) /\ T # {}
 <2>1. \A x \in S : Below(x) \in SUBSET S
  OBVIOUS
 <2> HIDE DEF Below
 <2> QED BY <1>1, <2>1
<1>3. PICK B \in T : \A C \in T : <<C, B>> \notin O
 <2> HIDE DEF T, O
 <2> QED BY <1>1, <1>2, WFMin
<1>4. PICK x \in S : B = Below(x)
 OBVIOUS
<1>5. ASSUME NEW y \in S, <<y, x>> \in R PROVE FALSE
 <2>1. Below(y) \subseteq Below(x) /\ y \in Below(x) /\ y \notin Below(y)
  BY <1>5
 <2>2. Below(y) \in SUBSET S /\ Below(x) \in SUBSET S /\ Below(y) \in T
  OBVIOUS
 <2>3. <<Below(y), B>> \in O
  <3> HIDE DEF Below
  <3> QED BY <1>4, <2>1, <2>2 DEF StrictSubsetOrdering
 <2> QED BY <1>3, <2>2, <2>3
<1> QED BY <1>5

----
(* Pages of the audit table *)

\* What a row of the table is: the time, the columns and the entry behind them.
AuditRows == {[ts |-> n, row |-> AuditRow(e), of |-> e] : n \in Nat, e \in EntryKinds}

TableInv ==
    /\ instant \in Nat
    /\ \A h \in holding : h.entry \in EntryKinds /\ h.ts \in Nat
    /\ written \in Seq(AuditRows)
    /\ inTable \subseteq DOMAIN written

\* The filters of the walk, which no page changes.
Passes(q, r) ==
    /\ q.outcome # Missing => written[r].row.outcome = q.outcome
    /\ \A t \in q.since : written[r].ts >= t
    /\ \A t \in q.until : written[r].ts <= t

CrossesLater(r) == \E s \in DOMAIN written : Crossed(r, s)
Crosses(r) == \E s \in DOMAIN written : Crossed(r, s) \/ Crossed(s, r)

\* A walk between two pages: below the cursor c lie the rows it still owes, and
\* no row that came later.
BetweenPages(rd, c) ==
    /\ rd.query.cursor = {c} /\ c \in DOMAIN written
    /\ \A r \in rd.owed \cap inTable : r \in rd.shown \/ r < c \/ Crosses(r)
    /\ \A r \in inTable : r < c /\ Passes(rd.query, r) => r \in rd.owed
    /\ \A r \in rd.shown : r < c => CrossesLater(r)

\* A reader who has not finished, or has, in the state of the table.
Walks(rd) ==
    \/ rd.stage \notin {"more", "end"}
    \/ /\ rd.owed \subseteq DOMAIN written
       /\ \A r \in rd.owed : Passes(rd.query, r)
       /\ rd.shown \subseteq rd.owed
       /\ \A r \in rd.again : r \in DOMAIN written /\ CrossesLater(r)
       /\ \/ /\ rd.stage = "more"
             /\ rd.query.limit \in Nat \ {0} /\ DOMAIN rd.query = DOMAIN PlainQuery
             /\ \E c \in DOMAIN written : BetweenPages(rd, c)
          \/ /\ rd.stage = "end"
             /\ \A r \in rd.owed \cap inTable : r \in rd.shown \/ Crosses(r)

WalkInv == Walks(reader)

\* The rows of a table have times, and the columns of their entries.
LEMMA RowsTyped ==
    ASSUME TableInv
    PROVE  /\ Len(written) \in Nat /\ DOMAIN written = 1..Len(written)
           /\ \A r \in DOMAIN written :
                 /\ written[r].ts \in Nat
                 /\ written[r].of \in EntryKinds
                 /\ written[r].row = AuditRow(written[r].of)
           /\ IsFiniteSet(inTable)
<1>1. Len(written) \in Nat /\ DOMAIN written = 1..Len(written)
 BY DEF TableInv
<1>2. ASSUME NEW r \in DOMAIN written
      PROVE  /\ written[r].ts \in Nat /\ written[r].of \in EntryKinds
             /\ written[r].row = AuditRow(written[r].of)
 <2>1. written[r] \in AuditRows
  BY <1>1 DEF TableInv
 <2>2. PICK n \in Nat, e \in EntryKinds : written[r] = [ts |-> n, row |-> AuditRow(e), of |-> e]
  BY <2>1 DEF AuditRows
 <2> QED BY <2>2
<1>3. IsFiniteSet(inTable)
 <2>1. IsFiniteSet(1..Len(written)) /\ inTable \in SUBSET (1..Len(written))
  BY <1>1, FS_Interval DEF TableInv
 <2> QED BY <2>1, FS_Subset
<1> QED BY <1>1, <1>2, <1>3

\* Pages are sorted by a strict total order.
LEMMA BeforeOrders ==
    ASSUME TableInv
    PROVE  /\ \A r \in DOMAIN written : ~Before(r, r)
           /\ \A r, s \in DOMAIN written : r = s \/ Before(r, s) \/ Before(s, r)
           /\ \A r, s, t \in DOMAIN written : Before(r, s) /\ Before(s, t) => Before(r, t)
<1>1. /\ DOMAIN written \subseteq Nat
      /\ \A r \in DOMAIN written : written[r].ts \in Nat
 BY RowsTyped
<1> QED BY <1>1 DEF Before

\* A page has a first row, and a last one, which is its cursor.
LEMMA PageEnds ==
    ASSUME TableInv, NEW rs, rs \subseteq inTable, rs # {}
    PROVE  /\ \E r \in rs : \A s \in rs : ~Before(s, r)
           /\ \E r \in rs : LastOf(rs) = {r} /\ \A s \in rs : s = r \/ Before(s, r)
<1>1. IsFiniteSet(rs) /\ rs \subseteq DOMAIN written
 <2>1. IsFiniteSet(inTable) /\ inTable \subseteq DOMAIN written /\ rs \in SUBSET inTable
  BY RowsTyped DEF TableInv
 <2> QED BY <2>1, FS_Subset
<1> DEFINE R == {p \in rs \X rs : Before(p[1], p[2])}
           B == {p \in rs \X rs : Before(p[2], p[1])}
<1>2. \A x, y \in rs : (<<x, y>> \in R <=> Before(x, y)) /\ (<<x, y>> \in B <=> Before(y, x))
 OBVIOUS
<1>3. /\ \A x \in rs : <<x, x>> \notin R /\ <<x, x>> \notin B
      /\ \A x, y, z \in rs : <<x, y>> \in R /\ <<y, z>> \in R => <<x, z>> \in R
      /\ \A x, y, z \in rs : <<x, y>> \in B /\ <<y, z>> \in B => <<x, z>> \in B
 <2> HIDE DEF R, B
 <2> QED BY <1>1, <1>2, BeforeOrders
<1> HIDE DEF R, B
<1>4. \E r \in rs : \A s \in rs : ~Before(s, r)
 <2>1. \E x \in rs : \A y \in rs : <<y, x>> \notin R
  BY <1>1, <1>3, FiniteFirst
 <2> QED BY <1>2, <2>1
<1>5. PICK r \in rs : \A s \in rs : ~Before(r, s)
 <2>1. \E x \in rs : \A y \in rs : <<y, x>> \notin B
  BY <1>1, <1>3, FiniteFirst
 <2> QED BY <1>2, <2>1
<1>6. \A s \in rs : s = r \/ Before(s, r)
 BY <1>1, <1>5, BeforeOrders
<1>7. LastOf(rs) = {r}
 BY <1>5, <1>6 DEF LastOf
<1> QED BY <1>4, <1>6, <1>7

\* A page that is not cut off is the whole answer; one that is cut off ends at a
\* row with no row of the answer beyond the page before it.
LEMMA PageCut ==
    ASSUME TableInv, NEW rs, rs \subseteq inTable, NEW limit \in Nat \ {0}
    PROVE  /\ FirstOf(rs, limit) \subseteq rs
           /\ Cardinality(rs) \in Nat
           /\ Cardinality(rs) <= limit => FirstOf(rs, limit) = rs
           /\ Cardinality(rs) > limit =>
                 \E c \in FirstOf(rs, limit) :
                    /\ LastOf(FirstOf(rs, limit)) = {c}
                    /\ \A r \in FirstOf(rs, limit) : r = c \/ Before(r, c)
                    /\ \A r \in rs \ FirstOf(rs, limit) : Before(c, r)
<1> DEFINE page == FirstOf(rs, limit)
           Ahead(r) == {s \in rs : Before(s, r)}
<1>1. IsFiniteSet(rs) /\ rs \subseteq DOMAIN written /\ Cardinality(rs) \in Nat
 <2>1. IsFiniteSet(inTable) /\ inTable \subseteq DOMAIN written /\ rs \in SUBSET inTable
  BY RowsTyped DEF TableInv
 <2> QED BY <2>1, FS_Subset, FS_CardinalityType
<1>2. page \subseteq rs /\ \A r \in rs : r \in page <=> Cardinality(Ahead(r)) < limit
 BY DEF FirstOf
<1>3. \A T \in SUBSET rs : IsFiniteSet(T) /\ Cardinality(T) \in Nat
 BY <1>1, FS_Subset, FS_CardinalityType
<1>4. ASSUME Cardinality(rs) <= limit PROVE page = rs
 <2>1. ASSUME NEW r \in rs PROVE r \in page
  <3>1. IsFiniteSet(rs \ {r}) /\ Cardinality(rs \ {r}) = Cardinality(rs) - 1
   BY <1>1, FS_RemoveElement
  <3>2. Ahead(r) \in SUBSET (rs \ {r})
   BY <1>1, BeforeOrders
  <3>3. Cardinality(Ahead(r)) <= Cardinality(rs \ {r})
   <4> HIDE DEF Ahead
   <4> QED BY <3>1, <3>2, FS_Subset
  <3>4. Cardinality(Ahead(r)) \in Nat
   <4>1. Ahead(r) \in SUBSET rs
    OBVIOUS
   <4> QED BY <1>3, <4>1
  <3> HIDE DEF page, Ahead
  <3> QED BY <1>1, <1>2, <1>4, <3>1, <3>3, <3>4
 <2> QED BY <1>2, <2>1
<1>5. ASSUME Cardinality(rs) > limit
      PROVE  \E c \in page : /\ LastOf(page) = {c}
                             /\ \A r \in page : r = c \/ Before(r, c)
                             /\ \A r \in rs \ page : Before(c, r)
 <2>1. rs # {}
  BY <1>1, <1>5, FS_EmptySet
 <2>2. PICK f \in rs : \A s \in rs : ~Before(s, f)
  BY <2>1, PageEnds
 <2>3. f \in page
  <3>1. Ahead(f) = {}
   BY <2>2
  <3>2. Cardinality(Ahead(f)) = 0
   BY <3>1, FS_EmptySet
  <3> HIDE DEF page, Ahead
  <3> QED BY <1>2, <3>2
 <2>4. PICK c \in page : LastOf(page) = {c} /\ \A r \in page : r = c \/ Before(r, c)
  <3>1. page \subseteq inTable /\ page # {}
   BY <1>2, <2>3
  <3> HIDE DEF page
  <3> QED BY <3>1, PageEnds
 <2>5. ASSUME NEW r \in rs \ page PROVE Before(c, r)
  <3>1. r # c /\ c \in rs /\ r \in rs
   BY <1>2
  <3>2. ASSUME Before(r, c) PROVE FALSE
   <4>1. Ahead(r) \in SUBSET Ahead(c)
    BY <1>1, <3>1, <3>2, BeforeOrders
   <4>2. Ahead(c) \in SUBSET rs /\ Ahead(r) \in SUBSET rs
    OBVIOUS
   <4> HIDE DEF Ahead, page
   <4>3. IsFiniteSet(Ahead(c)) /\ Cardinality(Ahead(c)) \in Nat /\ Cardinality(Ahead(r)) \in Nat
    BY <1>3, <4>2
   <4>4. Cardinality(Ahead(r)) <= Cardinality(Ahead(c))
    BY <4>1, <4>3, FS_Subset
   <4>5. Cardinality(Ahead(c)) < limit
    BY <1>2, <3>1
   <4>6. Cardinality(Ahead(r)) < limit
    BY <4>3, <4>4, <4>5
   <4> QED BY <1>2, <3>1, <4>6
  <3> QED BY <1>1, <3>1, <3>2, BeforeOrders
 <2> QED BY <2>4, <2>5
<1> QED
 <2> HIDE DEF page
 <2>1. (Cardinality(rs) <= limit => page = rs) /\ (Cardinality(rs) > limit =>
                \E c \in page :
                   /\ LastOf(page) = {c}
                   /\ \A r \in page : r = c \/ Before(r, c)
                   /\ \A r \in rs \ page : Before(c, r))
  BY <1>4, <1>5
 <2> QED BY <1>1, <1>2, <2>1 DEF page

----
(* The steps *)

\* The cursor of the next answer: none, or the last row of its page.
AnswerOf(q) == IF Envelope(q) THEN NextCursor(Matching(q), q.limit) ELSE {}

\* What an answer makes of a walk that has seen `had' and owes `owed'.
LEMMA AnswerWalks ==
    ASSUME TableInv, NEW q, NEW had, NEW again, NEW owed,
           q.limit \in Nat \ {0}, DOMAIN q = DOMAIN PlainQuery, Envelope(q),
           q.cursor \subseteq Nat, owed \subseteq DOMAIN written, had \subseteq owed,
           \A r \in owed : Passes(q, r),
           \A r \in again : r \in DOMAIN written /\ CrossesLater(r),
           \A r \in Matching(q) : r \in owed,
           \A r \in owed \cap inTable : r \in had \/ r \in Matching(q) \/ Crosses(r),
           \A c \in q.cursor : \A r \in had : r < c => CrossesLater(r),
           q.cursor = {} => had = {}
    PROVE  Walks(Answered(q, had, again, owed))
<1> DEFINE rs == Matching(q)
           page == FirstOf(rs, q.limit)
           cursor == NextCursor(rs, q.limit)
           n == Answered(q, had, again, owed)
<1>1. rs \subseteq inTable /\ inTable \subseteq DOMAIN written
 BY DEF Matching, TableInv
<1>2. /\ page \subseteq rs /\ Cardinality(rs) \in Nat
      /\ Cardinality(rs) <= q.limit => page = rs
      /\ Cardinality(rs) > q.limit =>
                 \E c \in page :
                    /\ LastOf(page) = {c}
                    /\ \A r \in page : r = c \/ Before(r, c)
                    /\ \A r \in rs \ page : Before(c, r)
 BY <1>1, PageCut
<1>3. /\ n.stage = (IF cursor = {} THEN "end" ELSE "more")
      /\ n.query = [q EXCEPT !.cursor = cursor]
      /\ n.shown = had \cup page
      /\ n.again = again \cup (had \cap page)
      /\ n.owed = owed
 BY DEF Answered
<1>4. /\ n.query.cursor = cursor /\ n.query.limit = q.limit /\ n.query.outcome = q.outcome
      /\ n.query.since = q.since /\ n.query.until = q.until
      /\ DOMAIN n.query = DOMAIN PlainQuery
 BY <1>3 DEF PlainQuery
<1> HIDE DEF n, rs, page, cursor
<1>5. \A r : Passes(q, r) <=> Passes(n.query, r)
 BY <1>4 DEF Passes
<1>6. ASSUME NEW r \in had \cap page PROVE r \in DOMAIN written /\ CrossesLater(r)
 <2>1. r \in rs /\ r \in DOMAIN written
  BY <1>1, <1>2
 <2>2. PICK c \in q.cursor : TRUE
  BY <1>6
 <2>3. r < c
  BY <2>1, <2>2 DEF rs, Matching
 <2> QED BY <2>1, <2>2, <2>3
<1>7. \A r \in n.again : r \in DOMAIN written /\ CrossesLater(r)
 BY <1>3, <1>6
<1>8. n.shown \subseteq n.owed /\ n.owed \subseteq DOMAIN written
      /\ \A r \in n.owed : Passes(n.query, r)
 BY <1>2, <1>3, <1>5 DEF rs
<1>9. CASE Cardinality(rs) > q.limit
 <2>1. PICK c \in page :
                   /\ LastOf(page) = {c}
                   /\ \A r \in page : r = c \/ Before(r, c)
                   /\ \A r \in rs \ page : Before(c, r)
  BY <1>2, <1>9
 <2>2. cursor = {c} /\ n.stage = "more"
  BY <1>3, <1>9, <2>1 DEF cursor, NextCursor, page
 <2>3. c \in DOMAIN written /\ c \in rs
  BY <1>1, <1>2, <2>1
 <2>0. /\ DOMAIN written \subseteq Nat
       /\ \A r \in DOMAIN written : written[r].ts \in Nat
  BY RowsTyped
 <2>4. ASSUME NEW r \in n.owed \cap inTable PROVE r \in n.shown \/ r < c \/ Crosses(r)
  <3>1. r \in had \/ r \in rs \/ Crosses(r)
   BY <1>3, <2>4 DEF rs
  <3>2. CASE r \in rs \ page
   <4>1. Before(c, r) /\ r \in DOMAIN written
    BY <1>1, <2>1, <3>2
   <4>2. r < c \/ Crossed(c, r)
    BY <2>0, <2>3, <4>1 DEF Before, Crossed
   <4> QED BY <2>3, <4>2 DEF Crosses
  <3> QED BY <1>3, <3>1, <3>2
 <2>5. ASSUME NEW r \in inTable, r < c, Passes(n.query, r) PROVE r \in n.owed
  <3>1. \A row \in q.cursor : row \in Nat => r < row
   <4>1. \A row \in q.cursor : c < row
    BY <2>3 DEF rs, Matching
   <4> QED BY <2>0, <2>3, <2>5, <4>1, <1>1
  <3>2. q.cursor \subseteq Nat => r \in rs
   BY <1>5, <2>5, <3>1 DEF rs, Matching, Passes
  <3> QED BY <1>3, <3>2 DEF rs
 <2> USE <2>3
 <2>6. ASSUME NEW r \in n.shown, r < c PROVE CrossesLater(r)
  <3>1. CASE r \in page
   <4>1. r \in DOMAIN written /\ r # c
    BY <1>1, <1>2, <2>0, <2>6, <3>1
   <4>2. Crossed(r, c)
    BY <2>0, <2>1, <2>6, <3>1, <4>1 DEF Before, Crossed
   <4> QED BY <4>2 DEF CrossesLater
  <3>2. CASE r \in had
   <4>1. PICK d \in q.cursor : TRUE
    BY <3>2
   <4>2. c < d
    BY DEF rs, Matching
   <4> QED BY <3>2, <4>1, <4>2, <2>0, <2>6
  <3> QED BY <1>3, <3>1, <3>2
 <2>7. BetweenPages(n, c)
  BY <1>4, <2>2, <2>4, <2>5, <2>6 DEF BetweenPages
 <2>8. Walks(n)
  BY <1>4, <1>7, <1>8, <2>2, <2>7 DEF Walks
 <2> QED BY <2>8 DEF n
<1>10. CASE Cardinality(rs) <= q.limit
 <2>1. cursor = {} /\ n.stage = "end" /\ page = rs
  BY <1>2, <1>3, <1>10 DEF cursor, NextCursor
 <2>2. ASSUME NEW r \in n.owed \cap inTable PROVE r \in n.shown \/ Crosses(r)
  BY <1>3, <2>1, <2>2 DEF rs
 <2> QED
  <3>1. Walks(n)
   BY <1>7, <1>8, <2>1, <2>2 DEF Walks
  <3> QED BY <3>1 DEF n
<1> QED BY <1>2, <1>9, <1>10

\* What is recorded and deleted meanwhile leaves a walk as it is: rows keep what
\* they hold, and a new one comes after every row there was.
LEMMA WalkKept ==
    ASSUME NEW rd, Walks(rd), TableInv,
           DOMAIN written \subseteq DOMAIN written',
           \A r \in DOMAIN written : written'[r] = written[r],
           \A r \in inTable' : r \in inTable \/ r = Len(written) + 1,
           reader' = rd
    PROVE  WalkInv'
<1>1. /\ Len(written) \in Nat /\ DOMAIN written = 1..Len(written)
      /\ inTable \subseteq DOMAIN written
 BY RowsTyped DEF TableInv
<1>2. \A r, s \in DOMAIN written : Crossed(r, s) => Crossed(r, s)'
 BY DEF Crossed
<1>3. /\ \A r \in DOMAIN written : CrossesLater(r) => CrossesLater(r)'
      /\ \A r \in DOMAIN written : Crosses(r) => Crosses(r)'
 BY <1>2 DEF CrossesLater, Crosses
<1>4. CASE rd.stage \notin {"more", "end"}
 BY <1>4 DEF WalkInv, Walks
<1>5. CASE rd.stage \in {"more", "end"}
 <2>1. /\ rd.owed \subseteq DOMAIN written
       /\ \A r \in rd.owed : Passes(rd.query, r)
       /\ rd.shown \subseteq rd.owed
       /\ \A r \in rd.again : r \in DOMAIN written /\ CrossesLater(r)
  BY <1>5 DEF Walks
 <2>2. \A r \in DOMAIN written : Passes(rd.query, r) <=> Passes(rd.query, r)'
  BY DEF Passes
 <2>3. \A r \in rd.owed \cap inTable' : r \in rd.owed \cap inTable
  BY <1>1, <2>1
 <2>4. /\ rd.owed \subseteq DOMAIN written'
       /\ \A r \in rd.owed : Passes(rd.query, r)'
       /\ rd.shown \subseteq rd.owed
       /\ \A r \in rd.again : r \in DOMAIN written' /\ CrossesLater(r)'
  BY <1>3, <2>1, <2>2
 <2>5. CASE rd.stage = "more"
  <3>1. PICK c \in DOMAIN written : BetweenPages(rd, c)
   BY <2>5 DEF Walks
  <3>2. /\ rd.query.limit \in Nat \ {0} /\ DOMAIN rd.query = DOMAIN PlainQuery
   BY <2>5 DEF Walks
  <3>3. /\ rd.query.cursor = {c} /\ c \in DOMAIN written'
        /\ \A r \in rd.owed \cap inTable' : r \in rd.shown \/ r < c \/ Crosses(r)'
        /\ \A r \in rd.shown : r < c => CrossesLater(r)'
   BY <1>3, <2>1, <2>3, <3>1 DEF BetweenPages
  <3>4. ASSUME NEW r \in inTable', r < c, Passes(rd.query, r)' PROVE r \in rd.owed
   <4>1. r # Len(written) + 1
    BY <1>1, <3>1, <3>4
   <4>2. r \in inTable /\ r \in DOMAIN written
    BY <1>1, <4>1
   <4> QED BY <2>2, <3>1, <3>4, <4>2 DEF BetweenPages
  <3>5. BetweenPages(rd, c)'
   BY <3>3, <3>4 DEF BetweenPages
  <3>6. BetweenPages(reader, c)' /\ c \in DOMAIN written'
   BY <3>3, <3>5 DEF BetweenPages, Passes
  <3> QED BY <2>4, <2>5, <3>2, <3>6 DEF WalkInv, Walks, Passes
 <2>6. CASE rd.stage = "end"
  <3>1. \A r \in rd.owed \cap inTable' : r \in rd.shown \/ Crosses(r)'
   BY <1>3, <2>1, <2>3, <2>6 DEF Walks
  <3> QED BY <2>4, <2>6, <3>1 DEF WalkInv, Walks, Passes
 <2> QED BY <1>5, <2>5, <2>6
<1> QED BY <1>4, <1>5

\* The queries of an operator carry no cursor of their own.
LEMMA QueriesStart ==
    ASSUME NEW q \in AuditQueries
    PROVE  /\ DOMAIN q = DOMAIN PlainQuery /\ q.cursor = {}
           /\ q.limit \in Nat
<1>1. LimitMax \in Nat /\ LimitMax + 1 \in Nat
 BY AuditQueryAssumption
<1>2. ASSUME NEW d \in Nat, NEW a, NEW b, NEW o, NEW bad,
             q = [limit |-> d, outcome |-> o, since |-> a, until |-> b, cursor |-> {},
                  malformed |-> bad]
      PROVE  DOMAIN q = DOMAIN PlainQuery /\ q.cursor = {} /\ q.limit \in Nat
 BY <1>2 DEF PlainQuery
<1>3. \E d \in Nat : \E a, b, o, bad :
                    q = [limit |-> d, outcome |-> o, since |-> a, until |-> b, cursor |-> {},
                         malformed |-> bad]
 BY <1>1 DEF AuditQueries, PlainQuery
<1> QED BY <1>2, <1>3

\* Entries, rows and deletions keep the table well formed.
LEMMA TableKept ==
    ASSUME TableInv, [AuditQueryNext]_auditQueryVars PROVE TableInv'
<1> USE DEF TableInv
<1>1. ASSUME NEW e \in EntryKinds, MakeEntry(e) PROVE TableInv'
 BY <1>1 DEF MakeEntry
<1>2. ASSUME NEW h \in holding, InsertRow(h) PROVE TableInv'
 <2>1. [ts |-> h.ts, row |-> AuditRow(h.entry), of |-> h.entry] \in AuditRows
  BY DEF AuditRows
 <2> USE <1>2 DEF InsertRow
 <2>2. written' \in Seq(AuditRows) /\ Len(written') = Len(written) + 1 /\ Len(written) \in Nat
  BY <2>1
 <2>3. DOMAIN written' = 1..(Len(written) + 1) /\ DOMAIN written = 1..Len(written)
  BY <2>2
 <2>4. inTable' \subseteq DOMAIN written'
  BY <2>2, <2>3
 <2> QED BY <2>2, <2>4
<1>3. CASE Tick
 BY <1>3 DEF Tick
<1>4. ASSUME NEW cutoff, PruneApply(cutoff) PROVE TableInv'
 BY <1>4 DEF PruneApply
<1>5. CASE PruneRows
 BY <1>5 DEF PruneRows
<1>6. ASSUME NEW q, NEW role, GetAudit(role, q) PROVE TableInv'
 BY <1>6 DEF GetAudit
<1>7. CASE NextPage \/ CloseAudit
 BY <1>7 DEF NextPage, CloseAudit
<1>8. CASE UNCHANGED auditQueryVars
 BY <1>8 DEF auditQueryVars
<1> QED BY <1>1, <1>2, <1>3, <1>4, <1>5, <1>6, <1>7, <1>8 DEF AuditQueryNext

\* Every step keeps what is known of the walk.
LEMMA WalkStep ==
    ASSUME TableInv, WalkInv, [AuditQueryNext]_auditQueryVars PROVE WalkInv'
<1>0. /\ Len(written) \in Nat /\ DOMAIN written = 1..Len(written)
      /\ inTable \subseteq DOMAIN written /\ DOMAIN written \subseteq Nat
 BY RowsTyped DEF TableInv
<1>1. ASSUME UNCHANGED <<written, reader>>, inTable' \subseteq inTable PROVE WalkInv'
 BY <1>1, WalkKept DEF WalkInv
<1>2. ASSUME NEW e, MakeEntry(e) PROVE WalkInv'
 BY <1>1, <1>2 DEF MakeEntry
<1>3. ASSUME NEW h \in holding, InsertRow(h) PROVE WalkInv'
 <2>1. PICK x : written' = Append(written, x)
  BY <1>3 DEF InsertRow
 <2>2. DOMAIN written' = 1..(Len(written) + 1) /\ \A r \in 1..Len(written) : written'[r] = written[r]
  BY <1>0, <2>1 DEF TableInv
 <2>3. DOMAIN written \subseteq DOMAIN written' /\ \A r \in DOMAIN written : written'[r] = written[r]
  BY <1>0, <2>2
 <2>4. reader' = reader /\ \A r \in inTable' : r \in inTable \/ r = Len(written) + 1
  BY <1>3 DEF InsertRow
 <2> QED BY <2>3, <2>4, WalkKept DEF WalkInv
<1>4. CASE Tick
 BY <1>1, <1>4 DEF Tick
<1>5. ASSUME NEW cutoff, PruneApply(cutoff) PROVE WalkInv'
 BY <1>1, <1>5 DEF PruneApply
<1>6. CASE PruneRows
 BY <1>1, <1>6 DEF PruneRows
<1>7. ASSUME NEW q \in AuditQueries, NEW role, GetAudit(role, q) PROVE WalkInv'
 <2>1. UNCHANGED <<written, inTable>>
  BY <1>7 DEF GetAudit
 <2>2. CASE Refusal(role, q) # Missing
  BY <1>1, <1>7, <2>2 DEF GetAudit
 <2>3. CASE Refusal(role, q) = Missing
  <3>1. reader' = Answered(q, {}, {}, Matching(q))
   BY <1>7, <2>3 DEF GetAudit
  <3>2. q.limit \in Nat \ {0}
   <4>1. q.limit \in 1..LimitMax
    BY <2>3 DEF Refusal, Missing
   <4> QED BY <4>1, AuditQueryAssumption
  <3>3. CASE Envelope(q)
   <4>1. DOMAIN q = DOMAIN PlainQuery /\ q.cursor = {}
    BY QueriesStart
   <4>2. Matching(q) \subseteq inTable /\ \A r \in Matching(q) : Passes(q, r)
    BY DEF Matching, Passes
   <4>3. Walks(Answered(q, {}, {}, Matching(q)))
    BY <1>0, <3>2, <3>3, <4>1, <4>2, AnswerWalks
   <4> QED BY <2>1, <3>1, <4>3, WalkKept
  <3>4. CASE ~Envelope(q)
   <4>1. reader'.stage = "array"
    BY <3>1, <3>4 DEF Answered
   <4> QED BY <4>1 DEF WalkInv, Walks
  <3> QED BY <3>3, <3>4
 <2> QED BY <2>2, <2>3
<1>8. CASE NextPage
 <2> DEFINE q == reader.query  had == reader.shown  owed == reader.owed
 <2>1. /\ reader.stage = "more" /\ reader' = Answered(q, had, reader.again, owed)
       /\ UNCHANGED <<written, inTable>>
  BY <1>8 DEF NextPage
 <2>2. PICK c \in DOMAIN written : BetweenPages(reader, c)
  BY <2>1 DEF WalkInv, Walks
 <2>3. /\ owed \subseteq DOMAIN written /\ had \subseteq owed
       /\ \A r \in owed : Passes(q, r)
       /\ \A r \in reader.again : r \in DOMAIN written /\ CrossesLater(r)
       /\ q.limit \in Nat \ {0} /\ DOMAIN q = DOMAIN PlainQuery
  BY <2>1 DEF WalkInv, Walks
 <2>4. q.cursor = {c} /\ Envelope(q) /\ q.cursor \subseteq Nat
  BY <1>0, <2>2 DEF BetweenPages, Envelope
 <2>5. \A r \in inTable : r \in Matching(q) <=> r < c /\ Passes(q, r)
  BY <2>4 DEF Matching, Passes
 <2>6. Matching(q) \subseteq inTable
  BY DEF Matching
 <2>7. \A r \in Matching(q) : r \in owed
  BY <2>2, <2>5, <2>6 DEF BetweenPages
 <2>8. \A r \in owed \cap inTable : r \in had \/ r \in Matching(q) \/ Crosses(r)
  BY <2>2, <2>3, <2>5 DEF BetweenPages
 <2>9. \A d \in q.cursor : \A r \in had : r < d => CrossesLater(r)
  BY <2>2, <2>4 DEF BetweenPages
 <2> HIDE DEF q, had, owed
 <2>10. Walks(Answered(q, had, reader.again, owed))
  BY <2>3, <2>4, <2>7, <2>8, <2>9, AnswerWalks
 <2> QED BY <2>1, <2>10, WalkKept
<1>9. CASE CloseAudit
 <2>1. reader'.stage = "idle"
  BY <1>9 DEF CloseAudit, NoWalk
 <2> QED BY <2>1 DEF WalkInv, Walks
<1>10. CASE UNCHANGED auditQueryVars
 BY <1>1, <1>10 DEF auditQueryVars
<1> QED BY <1>2, <1>3, <1>4, <1>5, <1>6, <1>7, <1>8, <1>9, <1>10 DEF AuditQueryNext

\* Every column is parsed back into the field it was made from.
LEMMA EntriesReadBack ==
    ASSUME NEW e \in EntryKinds
    PROVE  /\ \A f \in DOMAIN e \ {"request"} : Loaded(AuditRow(e))[f] = e[f]
           /\ e.action = Missing => Loaded(AuditRow(e)).request = e.request
<1>1. CASE e = Allowed
 BY <1>1 DEF Allowed, Loaded, AuditRow, Missing
<1>2. CASE e = Denied
 BY <1>2 DEF Allowed, Denied, Loaded, AuditRow, Missing
<1>3. CASE e = PasswordReset
 <2> DEFINE back == Loaded(AuditRow(e))
            Fields == {"actor", "role", "request", "outcome", "reason", "action", "details"}
 <2>1. DOMAIN Allowed = Fields
  BY DEF Allowed
 <2>2. /\ DOMAIN e = Fields
       /\ e.action = "operator.password_reset"
  BY <1>3, <2>1 DEF PasswordReset
 <2>3. e.action # Missing
  BY <2>2 DEF Missing
 <2>4. /\ back.actor = e.actor /\ back.role = e.role /\ back.outcome = e.outcome
       /\ back.reason = e.reason /\ back.details = e.details
  BY DEF Loaded, AuditRow
 <2>5. back.action = e.action
  BY <2>3 DEF Loaded, AuditRow
 <2> HIDE DEF back
 <2>6. \A f \in Fields \ {"request"} : back[f] = e[f]
  BY <2>4, <2>5
 <2>7. /\ \A f \in DOMAIN e \ {"request"} : back[f] = e[f]
       /\ e.action = Missing => back.request = e.request
  BY <2>2, <2>3, <2>6
 <2> QED BY <2>7 DEF back
<1> QED BY <1>1, <1>2, <1>3 DEF EntryKinds

\* A walk along next_cursor shows every row it owes and none twice, except rows
\* whose handlers took the time in one order and pushed in the other, whatever
\* is recorded and deleted between its pages; and an entry is read back as it
\* was recorded (get_audit, query_audit_envelope, parse_details).
THEOREM PagesAreSound == AuditQuerySpec => []PagesSound
<1>1. AuditQueryInit => TableInv /\ WalkInv
 <2> SUFFICES ASSUME AuditQueryInit PROVE TableInv /\ WalkInv
  OBVIOUS
 <2>1. <<>> \in Seq(AuditRows) /\ DOMAIN <<>> = {}
  OBVIOUS
 <2>2. TableInv
  BY <2>1 DEF AuditQueryInit, TableInv
 <2>3. reader.stage = "idle"
  BY DEF AuditQueryInit, NoWalk
 <2> QED BY <2>2, <2>3 DEF WalkInv, Walks
<1>2. TableInv /\ WalkInv /\ [AuditQueryNext]_auditQueryVars => TableInv' /\ WalkInv'
 BY TableKept, WalkStep
<1>3. TableInv /\ WalkInv => PagesSound
 <2> SUFFICES ASSUME TableInv, WalkInv PROVE PagesSound
  OBVIOUS
 <2>1. WalkExact /\ WalkClosed
  BY DEF WalkExact, WalkClosed, WalkInv, Walks, Crosses, CrossesLater
 <2>2. ReadBack
  <3>1. ASSUME NEW r \in inTable
        PROVE  written[r].of \in EntryKinds /\ written[r].row = AuditRow(written[r].of)
   BY RowsTyped DEF TableInv
  <3> QED BY <3>1, EntriesReadBack DEF ReadBack
 <2> QED BY <2>1, <2>2 DEF PagesSound
<1> QED BY <1>1, <1>2, <1>3, PTL DEF AuditQuerySpec

----
(* A rule's counters and streams *)

Families == RuleFamilies \cup StandingFamilies
Reports == [bytes : Nat, seq : Nat]

\* The baseline of a family: an entry that is missing counts from zero.
Baseline(f) == IF f \in StandingFamilies THEN standing[f]
               ELSE IF entry = NoEntry THEN 0 ELSE entry.prev[f]

\* The report in hand, if there is one.
InHandling == handling # NotHandling

StatsType ==
    /\ carried \in Nat /\ reading \in Nat /\ seq \in Nat
    /\ \/ handling = NotHandling
       \/ /\ DOMAIN handling = {"at", "bytes", "owner"}
          /\ handling.bytes \in Nat /\ handling.bytes <= reading
          /\ handling.owner \in Owners /\ (present => handling.owner = "owner")
    /\ \/ wire = <<>>
       \/ /\ wire \in Seq(Nat) /\ Len(wire) = 1 /\ wire[1] <= reading
          /\ InHandling => handling.bytes <= wire[1]
    /\ present \in BOOLEAN
    /\ removal # "none" => ~present
    /\ \/ entry = NoEntry
       \/ /\ entry \in [prev : [RuleFamilies -> Nat], snap : Reports]
          /\ entry.snap.seq <= seq
    /\ standing \in [StandingFamilies -> Nat]
    /\ counter \in [Families -> [Owners -> Nat]]

\* A family's counter holds what earlier sessions did, or that and its baseline,
\* which is then a reading of this session and older than every report to come.
Balanced(f) ==
    \/ counter[f]["owner"] + reading <= carried
    \/ /\ counter[f]["owner"] + reading <= carried + Baseline(f)
       /\ Baseline(f) <= reading
       /\ InHandling => Baseline(f) <= handling.bytes
       /\ wire # <<>> => Baseline(f) <= wire[1]

CounterInv ==
    /\ StatsType
    /\ reading <= carried
    /\ present => \A f \in Families : Balanced(f)

\* A stream shows what it has in order, none of it newer than the last report.
StreamFits(r) ==
    /\ DOMAIN r = {"at", "listening", "first", "feed", "last"}
    /\ r.listening \in BOOLEAN /\ r.first \in Seq(Reports) /\ r.feed \in Seq(Reports)
    /\ r.last \in Nat /\ r.last <= seq
    /\ Len(r.first) <= 1
    /\ r.first # <<>> => r.last <= r.first[1].seq /\ r.first[1].seq <= seq
    /\ \A i \in 1..Len(r.feed) :
          /\ r.last <= r.feed[i].seq /\ r.feed[i].seq <= seq
          /\ r.first # <<>> => r.first[1].seq <= r.feed[i].seq
    /\ \A i, j \in 1..Len(r.feed) : i <= j => r.feed[i].seq <= r.feed[j].seq
    /\ r.at \in {"closed", "get", "subscribe"} =>
          r.feed = <<>> /\ r.last = 0 /\ ~r.listening
    /\ r.at \in {"closed", "get"} => r.first = <<>>

StreamInv == DOMAIN viewer = Viewers /\ \A v \in Viewers : StreamFits(viewer[v])

----
(* The counters *)

\* Folding a reading into a counter in balance.
LEMMA Folds ==
    ASSUME NEW c \in Nat, NEW b \in Nat, NEW x \in Nat, NEW r \in Nat, NEW k \in Nat,
           x <= r, r <= k,
           c + r <= k \/ (c + r <= k + b /\ b <= x)
    PROVE  (c + Delta(x, b)) + r <= k + x
<1>1. CASE x >= b
 BY <1>1 DEF Delta
<1>2. CASE x < b
 BY <1>2 DEF Delta
<1> QED BY <1>1, <1>2

\* A family whose counter took a report's reading is in balance.
LEMMA FoldedBalance ==
    ASSUME CounterInv, present, InHandling, NEW f \in Families,
           NEW b, b = Baseline(f), handling.owner = "owner",
           counter'[f]["owner"] = counter[f]["owner"] + Delta(handling.bytes, b),
           Baseline(f)' = handling.bytes,
           UNCHANGED <<carried, reading, wire>>,
           handling' = NotHandling \/ handling'.bytes = handling.bytes
    PROVE  Balanced(f)'
<1> DEFINE x == handling.bytes  c == counter[f]["owner"]
<1>1. x \in Nat /\ x <= reading /\ reading <= carried /\ reading \in Nat /\ carried \in Nat
 BY DEF CounterInv, StatsType, InHandling
<1>2. c \in Nat
 BY DEF CounterInv, StatsType, Owners
<1>3. b \in Nat
 <2>1. CASE f \in StandingFamilies
  BY <2>1 DEF Baseline, CounterInv, StatsType
 <2>2. CASE f \in RuleFamilies /\ f \notin StandingFamilies
  BY <2>2 DEF Baseline, CounterInv, StatsType
 <2> QED BY <2>1, <2>2 DEF Families
<1>4. c + reading <= carried \/ (c + reading <= carried + b /\ b <= x)
 BY DEF CounterInv, Balanced
<1> HIDE DEF x, c
<1>5. (c + Delta(x, b)) + reading <= carried + x
 BY <1>1, <1>2, <1>3, <1>4, Folds
<1>6. wire # <<>> => x <= wire[1]
 BY DEF CounterInv, StatsType, x
<1> QED BY <1>1, <1>5, <1>6 DEF Balanced, InHandling, x, c

\* A family no step of which is taken stays in balance.
LEMMA BalanceKept ==
    ASSUME CounterInv, NEW f \in Families, Balanced(f),
           counter'[f]["owner"] = counter[f]["owner"],
           Baseline(f)' = Baseline(f),
           UNCHANGED <<carried, reading, wire>>,
           handling' = NotHandling \/ (InHandling /\ handling'.bytes = handling.bytes)
    PROVE  Balanced(f)'
  BY DEF Balanced, InHandling

\* An entry the handler has made is told from no entry.
LEMMA EntryMade ==
    ASSUME StatsType, NEW x \in Nat
    PROVE  /\ Observed(entry, x) # NoEntry
           /\ Observed(entry, x) \in [prev : [RuleFamilies -> Nat], snap : Reports]
           /\ Observed(entry, x).snap.seq = seq + 1
           /\ Observed(entry, x).prev["bytes"] = x
           /\ \A f \in RuleFamilies : f # "bytes" => Observed(entry, x).prev[f] = Baseline(f)
<1> DEFINE o == Observed(entry, x)
<1>1. o.prev = [f \in RuleFamilies |-> IF f = "bytes" THEN x
                                      ELSE IF entry = NoEntry THEN 0 ELSE entry.prev[f]]
      /\ o.snap = [bytes |-> x, seq |-> seq + 1] /\ DOMAIN o = {"prev", "snap"}
 BY DEF Observed
<1>2. o.prev \in [RuleFamilies -> Nat] /\ o.snap \in Reports
 BY <1>1 DEF StatsType, Reports
<1>3. o = [prev |-> o.prev, snap |-> o.snap]
 BY DEF Observed
<1>4. o \in [prev : [RuleFamilies -> Nat], snap : Reports]
 BY <1>2, <1>3
<1>5. \A f \in RuleFamilies : f \notin StandingFamilies
 BY DEF RuleFamilies, StandingFamilies
<1>6. o # NoEntry
 BY <1>4, NoEntryAssumption DEF Reports
<1> HIDE DEF o
<1>7. /\ o.prev["bytes"] = x
      /\ \A f \in RuleFamilies : f # "bytes" => o.prev[f] = Baseline(f)
 BY <1>1, <1>5 DEF Baseline, RuleFamilies
<1> QED BY <1>1, <1>4, <1>6, <1>7 DEF o

\* A handler's step that moves one family f of the counters.
LEMMA OneFolds ==
    ASSUME CounterInv, InHandling, NEW g \in Families,
           counter' = [counter EXCEPT ![g][handling.owner] =
                          @ + Delta(handling.bytes, Baseline(g))],
           Baseline(g)' = handling.bytes,
           \A f \in Families : f # g => Baseline(f)' = Baseline(f),
           UNCHANGED <<carried, reading, wire, present>>,
           handling' = NotHandling \/ handling'.bytes = handling.bytes
    PROVE  /\ counter' \in [Families -> [Owners -> Nat]]
           /\ present => \A f \in Families : Balanced(f)'
<1>1. handling.bytes \in Nat /\ handling.owner \in Owners /\ (present => handling.owner = "owner")
 BY DEF CounterInv, StatsType, InHandling
<1>2. \A f \in Families : Baseline(f) \in Nat
 BY DEF Baseline, CounterInv, StatsType, Families
<1>3. counter \in [Families -> [Owners -> Nat]]
 BY DEF CounterInv, StatsType
<1>4. Delta(handling.bytes, Baseline(g)) \in Nat
 BY <1>1, <1>2 DEF Delta
<1>5. counter[g][handling.owner] + Delta(handling.bytes, Baseline(g)) \in Nat
 BY <1>1, <1>3, <1>4
<1>6. counter' \in [Families -> [Owners -> Nat]]
 BY <1>1, <1>3, <1>5
<1>7. \A f \in Families : f # g => counter'[f] = counter[f]
 BY <1>3
<1>8. counter'[g][handling.owner] = counter[g][handling.owner] + Delta(handling.bytes, Baseline(g))
 BY <1>1, <1>3
<1>9. ASSUME present, NEW f \in Families PROVE Balanced(f)'
 <2>1. CASE f = g
  <3>1. handling.owner = "owner"
   BY <1>1, <1>9
  <3>2. counter'[f]["owner"] = counter[f]["owner"] + Delta(handling.bytes, Baseline(f))
   BY <1>8, <2>1, <3>1
  <3>3. Baseline(f)' = handling.bytes
   BY <2>1
  <3> QED BY <1>9, <3>1, <3>2, <3>3, FoldedBalance
 <2>2. CASE f # g
  <3>1. Balanced(f) /\ counter'[f]["owner"] = counter[f]["owner"] /\ Baseline(f)' = Baseline(f)
   BY <1>7, <1>9, <2>2 DEF CounterInv
  <3> QED BY <3>1, BalanceKept
 <2> QED BY <2>1, <2>2
<1> QED BY <1>6, <1>9

\* The handler's steps on the counters of a rule.
LEMMA RuleFolds ==
    ASSUME CounterInv, Observe \/ ObserveSni \/ ObserveRateLimit PROVE CounterInv'
<1>1. InHandling /\ handling.bytes \in Nat /\ handling.owner \in Owners
 <2>1. InHandling
  BY DEF Observe, ObserveSni, ObserveRateLimit, InHandling, NotHandling
 <2> QED BY <2>1 DEF InHandling, CounterInv, StatsType
<1>2. /\ UNCHANGED <<carried, reading, wire, present, removal, standing>>
      /\ \E s : handling' = [handling EXCEPT !.at = s]
 BY DEF Observe, ObserveSni, ObserveRateLimit, Fold, reporterVars
<1>3. /\ DOMAIN handling' = {"at", "bytes", "owner"}
      /\ handling'.bytes = handling.bytes /\ handling'.owner = handling.owner
      /\ handling' # NotHandling
 <2>1. DOMAIN handling = {"at", "bytes", "owner"} /\ DOMAIN NotHandling = {"at"}
  BY <1>1 DEF InHandling, CounterInv, StatsType, NotHandling
 <2>2. DOMAIN handling' = {"at", "bytes", "owner"} /\ handling'.bytes = handling.bytes
       /\ handling'.owner = handling.owner
  BY <1>2, <2>1
 <2> QED BY <2>1, <2>2
<1>4. \A f \in RuleFamilies : f \notin StandingFamilies /\ f \in Families
 BY DEF RuleFamilies, StandingFamilies, Families
<1>5. \A f \in StandingFamilies : Baseline(f)' = Baseline(f)
 BY <1>2 DEF Baseline
<1>6. CASE Observe
 <2>1. /\ entry' = Observed(entry, handling.bytes) /\ seq' = seq + 1
       /\ counter' = [counter EXCEPT !["bytes"][handling.owner] =
                         @ + Delta(handling.bytes, Baseline("bytes"))]
  BY <1>6 DEF Observe, Baseline, StandingFamilies
 <2>2. /\ entry' # NoEntry /\ entry' \in [prev : [RuleFamilies -> Nat], snap : Reports]
       /\ entry'.snap.seq = seq'
       /\ entry'.prev["bytes"] = handling.bytes
       /\ \A f \in RuleFamilies : f # "bytes" => entry'.prev[f] = Baseline(f)
  BY <1>1, <2>1, EntryMade DEF CounterInv
 <2>3. /\ "bytes" \in Families /\ Baseline("bytes")' = handling.bytes
       /\ \A f \in Families : f # "bytes" => Baseline(f)' = Baseline(f)
  BY <1>4, <1>5, <2>2 DEF Baseline, Families, RuleFamilies
 <2>4. /\ counter' \in [Families -> [Owners -> Nat]]
       /\ present => \A f \in Families : Balanced(f)'
  BY <1>1, <1>2, <1>3, <2>1, <2>3, OneFolds
 <2>5. seq' \in Nat /\ entry'.snap.seq <= seq'
  BY <2>1, <2>2 DEF CounterInv, StatsType
 <2> QED BY <1>1, <1>2, <1>3, <2>2, <2>4, <2>5 DEF CounterInv, StatsType, InHandling
<1>7. ASSUME NEW g \in RuleFamilies, Fold(g) PROVE CounterInv'
 <2>1. UNCHANGED seq
  BY <1>7 DEF Fold
 <2>2. CASE entry = NoEntry
  <3>1. UNCHANGED <<counter, entry>>
   BY <1>7, <2>2 DEF Fold
  <3>2. \A f : Baseline(f)' = Baseline(f)
   BY <1>2, <3>1 DEF Baseline
  <3>3. ASSUME present, NEW f \in Families PROVE Balanced(f)'
   BY <1>1, <1>2, <1>3, <3>1, <3>2, <3>3, BalanceKept DEF CounterInv
  <3> QED BY <1>1, <1>2, <1>3, <2>1, <3>1, <3>3 DEF CounterInv, StatsType, InHandling
 <2>3. CASE entry # NoEntry
  <3>1. /\ entry' = [entry EXCEPT !.prev[g] = handling.bytes]
        /\ counter' = [counter EXCEPT ![g][handling.owner] =
                           @ + Delta(handling.bytes, Baseline(g))]
   BY <1>4, <1>7, <2>3 DEF Fold, Baseline
  <3>2. entry \in [prev : [RuleFamilies -> Nat], snap : Reports] /\ entry.snap.seq <= seq
   BY <2>3 DEF CounterInv, StatsType
  <3>3. /\ entry' \in [prev : [RuleFamilies -> Nat], snap : Reports]
        /\ entry'.snap = entry.snap /\ entry'.prev[g] = handling.bytes
        /\ \A f \in RuleFamilies : f # g => entry'.prev[f] = entry.prev[f]
   BY <1>1, <3>1, <3>2
  <3>4. entry' # NoEntry
   BY <3>3, NoEntryAssumption DEF Reports
  <3>5. /\ Baseline(g)' = handling.bytes
        /\ \A f \in Families : f # g => Baseline(f)' = Baseline(f)
   BY <1>4, <1>5, <2>3, <3>3, <3>4 DEF Baseline, Families
  <3>6. /\ counter' \in [Families -> [Owners -> Nat]]
        /\ present => \A f \in Families : Balanced(f)'
   BY <1>1, <1>2, <1>3, <1>4, <3>1, <3>5, OneFolds
  <3> QED BY <1>1, <1>2, <1>3, <2>1, <3>2, <3>3, <3>6 DEF CounterInv, StatsType, InHandling
 <2> QED BY <2>2, <2>3
<1>8. CASE ObserveSni
 BY <1>7, <1>8 DEF ObserveSni, RuleFamilies
<1>9. CASE ObserveRateLimit
 BY <1>7, <1>9 DEF ObserveRateLimit, RuleFamilies
<1> QED BY <1>6, <1>8, <1>9

\* The handler's steps on the counters of the owner and the port.
LEMMA StandingFolds ==
    ASSUME CounterInv, ObserveOwner \/ ObserveListener PROVE CounterInv'
<1>1. InHandling /\ handling.bytes \in Nat /\ handling.owner \in Owners
 <2>1. InHandling
  BY DEF ObserveOwner, ObserveListener, InHandling, NotHandling
 <2> QED BY <2>1 DEF InHandling, CounterInv, StatsType
<1>2. /\ UNCHANGED <<carried, reading, wire, present, removal, entry, seq>>
      /\ handling' = NotHandling \/ \E s : handling' = [handling EXCEPT !.at = s]
 BY DEF ObserveOwner, ObserveListener, FoldStanding, reporterVars
<1>3. \/ handling' = NotHandling
      \/ /\ DOMAIN handling' = {"at", "bytes", "owner"}
         /\ handling'.bytes = handling.bytes /\ handling'.owner = handling.owner
 <2>1. DOMAIN handling = {"at", "bytes", "owner"}
  BY <1>1 DEF InHandling, CounterInv, StatsType
 <2> QED BY <1>2, <2>1
<1>4. PICK g \in StandingFamilies : FoldStanding(g)
 BY DEF ObserveOwner, ObserveListener, StandingFamilies
<1>5. /\ counter' = [counter EXCEPT ![g]["owner"] = @ + Delta(handling.bytes, Baseline(g))]
      /\ standing' = [standing EXCEPT ![g] = handling.bytes]
 BY <1>4 DEF FoldStanding, Baseline
<1>6. /\ standing' \in [StandingFamilies -> Nat] /\ standing'[g] = handling.bytes
      /\ \A f \in StandingFamilies : f # g => standing'[f] = standing[f]
 BY <1>1, <1>5 DEF CounterInv, StatsType
<1>7. /\ g \in Families /\ Baseline(g)' = handling.bytes
      /\ \A f \in Families : f # g => Baseline(f)' = Baseline(f)
 BY <1>2, <1>6 DEF Baseline, Families
<1>8. /\ counter' \in [Families -> [Owners -> Nat]]
      /\ present => \A f \in Families : Balanced(f)'
 <2>1. CASE present
  <3>1. handling.owner = "owner"
   BY <1>1, <2>1 DEF InHandling, CounterInv, StatsType
  <3> QED BY <1>1, <1>2, <1>3, <1>5, <1>7, <3>1, OneFolds
 <2>2. CASE ~present
  <3>1. Baseline(g) \in Nat /\ counter \in [Families -> [Owners -> Nat]]
   BY DEF Baseline, CounterInv, StatsType
  <3>2. counter[g]["owner"] + Delta(handling.bytes, Baseline(g)) \in Nat
   BY <1>1, <1>7, <3>1 DEF Delta, Owners
  <3> QED BY <1>5, <1>7, <2>2, <3>1, <3>2 DEF Owners
 <2> QED BY <2>1, <2>2 DEF CounterInv, StatsType
<1> QED BY <1>1, <1>2, <1>3, <1>6, <1>8 DEF CounterInv, StatsType, InHandling

\* Forwarding, reporting, a new session and the lookup.
LEMMA ReporterBalance ==
    ASSUME CounterInv, ForwardBytes \/ ReportCounters \/ NewSession \/ LookupOwner PROVE CounterInv'
<1>0. \A f : Baseline(f)' = Baseline(f)
 BY DEF ForwardBytes, ReportCounters, NewSession, LookupOwner, statsServerVars, Baseline
<1>1. /\ \A f \in Families : Baseline(f) \in Nat /\ counter[f]["owner"] \in Nat
      /\ reading \in Nat /\ carried \in Nat /\ reading <= carried
      /\ UNCHANGED <<counter, entry, standing, seq, present, removal>>
 BY DEF Baseline, CounterInv, StatsType, Families, Owners, ForwardBytes, ReportCounters,
  NewSession, LookupOwner, statsServerVars
<1>2. CASE ForwardBytes
 <2>1. carried' = carried + 1 /\ reading' = reading + 1 /\ UNCHANGED <<wire, handling>>
  BY <1>2 DEF ForwardBytes
 <2> USE <1>1
 <2>2. ASSUME NEW f \in Families, Balanced(f) PROVE Balanced(f)'
  <3> DEFINE c == counter[f]["owner"]  b == Baseline(f)
  <3>1. c \in Nat /\ b \in Nat /\ Baseline(f)' = b /\ counter'[f]["owner"] = c
   BY <1>0
  <3>2. CASE c + reading <= carried
   <4>1. c + (reading + 1) <= carried + 1
    BY <3>1, <3>2
   <4> QED BY <2>1, <3>1, <4>1 DEF Balanced
  <3>3. CASE /\ c + reading <= carried + b /\ b <= reading
             /\ InHandling => b <= handling.bytes
             /\ wire # <<>> => b <= wire[1]
   <4> HIDE DEF c, b
   <4>1. c + (reading + 1) <= (carried + 1) + b /\ b <= reading + 1
    BY <3>1, <3>3
   <4> QED BY <2>1, <3>1, <3>3, <4>1 DEF Balanced, InHandling
  <3> QED BY <2>2, <3>2, <3>3 DEF Balanced
 <2>3. reading' <= carried' /\ reading <= reading'
  BY <2>1
 <2>4. StatsType'
  <3>1. \A x \in Nat : x <= reading => x <= reading'
   BY <2>1
  <3> QED BY <2>1, <3>1 DEF CounterInv, StatsType, InHandling
 <2> QED BY <2>2, <2>3, <2>4 DEF CounterInv
<1>3. CASE ReportCounters
 <2>1. wire' = <<reading>> /\ UNCHANGED <<carried, reading, handling>>
  BY <1>3 DEF ReportCounters, reporterVars
 <2> USE <1>1, <2>1
 <2>2. wire' \in Seq(Nat) /\ Len(wire') = 1 /\ wire'[1] = reading
  OBVIOUS
 <2>3. ASSUME NEW f \in Families, Balanced(f) PROVE Balanced(f)'
  BY <1>0, <2>2, <2>3 DEF Balanced, InHandling
 <2>4. StatsType'
  BY <2>2 DEF CounterInv, StatsType, InHandling
 <2> QED BY <2>3, <2>4 DEF CounterInv
<1>4. CASE NewSession
 <2>1. wire' = <<>> /\ reading' = 0 /\ handling = NotHandling /\ UNCHANGED <<carried, handling>>
  BY <1>4 DEF NewSession
 <2> USE <1>1, <2>1
 <2>2. ASSUME NEW f \in Families, Balanced(f) PROVE Balanced(f)'
  <3>1. counter[f]["owner"] + 0 <= carried
   BY <2>2 DEF Balanced
  <3> QED BY <3>1 DEF Balanced
 <2>3. StatsType'
  BY DEF CounterInv, StatsType, InHandling
 <2> QED BY <2>2, <2>3 DEF CounterInv
<1>5. CASE LookupOwner
 <2>1. /\ wire # <<>> /\ handling = NotHandling /\ wire' = Tail(wire)
       /\ handling' = [at |-> "observe", bytes |-> Head(wire),
                       owner |-> IF present THEN "owner" ELSE "_unknown"]
       /\ UNCHANGED <<carried, reading>>
  BY <1>5 DEF LookupOwner, reporterVars
 <2> USE <2>1
 <2>2. wire \in Seq(Nat) /\ Len(wire) = 1 /\ wire[1] <= reading
  BY DEF CounterInv, StatsType
 <2>3. wire' = <<>> /\ Head(wire) = wire[1] /\ wire[1] \in Nat
  <3>1. Tail(wire) \in Seq(Nat) /\ Len(Tail(wire)) = 0
   BY <2>2, HeadTailProperties
  <3> QED BY <2>2, <3>1, EmptySeq
 <2>4. /\ DOMAIN handling' = {"at", "bytes", "owner"} /\ handling'.bytes = wire[1]
       /\ handling'.owner = IF present THEN "owner" ELSE "_unknown"
  BY <2>3
 <2> USE <1>1, <2>4
 <2>5. ASSUME NEW f \in Families, Balanced(f) PROVE Balanced(f)'
  BY <1>0, <2>3, <2>5 DEF Balanced
 <2> USE DEF CounterInv
 <2>6. StatsType'
  <3>1. handling'.owner \in Owners
   BY DEF Owners, StatsType
  <3> QED BY <2>2, <2>3, <3>1 DEF StatsType, InHandling
 <2> QED BY <2>5, <2>6
<1> QED BY <1>2, <1>3, <1>4, <1>5

\* The steps that leave the counters and the reports alone.
LEMMA OthersBalance ==
    ASSUME CounterInv,
           \/ FanOut \/ UpdatePerPort \/ RemoveFromRules \/ DropSender \/ DropEntry
           \/ DropPerPort \/ UNCHANGED ruleStatsVars
           \/ \E v \in Viewers : OpenStream(v) \/ GetSnapshot(v) \/ Subscribe(v)
                               \/ Deliver(v) \/ EndStream(v)
    PROVE  CounterInv'
<1>1. /\ UNCHANGED <<carried, reading, wire, seq, standing, counter>>
      /\ \/ UNCHANGED handling
         \/ handling # NotHandling /\ \E s : handling' = [handling EXCEPT !.at = s]
      /\ \/ UNCHANGED <<present, removal>>
         \/ present' = FALSE
         \/ removal # "none" /\ UNCHANGED present
      /\ \/ UNCHANGED entry
         \/ entry' = NoEntry /\ removal # "none"
 <2>1. CASE FanOut \/ UpdatePerPort
  BY <2>1 DEF FanOut, UpdatePerPort, reporterVars, statsServerVars, NotHandling
 <2>2. CASE RemoveFromRules \/ DropSender \/ DropEntry \/ DropPerPort
  BY <2>2 DEF RemoveFromRules, DropSender, DropEntry, DropPerPort, reporterVars, statsServerVars
 <2>3. CASE UNCHANGED ruleStatsVars
  BY <2>3 DEF ruleStatsVars
 <2>4. CASE \E v \in Viewers : OpenStream(v) \/ GetSnapshot(v) \/ Subscribe(v)
                              \/ Deliver(v) \/ EndStream(v)
  BY <2>4 DEF OpenStream, GetSnapshot, Subscribe, Deliver, EndStream, ViewerStep, reporterVars,
   statsServerVars
 <2> QED BY <2>1, <2>2, <2>3, <2>4
<1> USE <1>1
<1>2. /\ present' => present /\ UNCHANGED entry
      /\ present' \in BOOLEAN /\ (removal' # "none" => ~present')
 <2>1. present \in BOOLEAN /\ (removal # "none" => present = FALSE)
  BY DEF CounterInv, StatsType
 <2>2. CASE UNCHANGED <<present, removal>>
  BY <2>1, <2>2
 <2>3. CASE present' = FALSE
  BY <2>3
 <2>4. CASE removal # "none" /\ UNCHANGED present
  BY <2>1, <2>4
 <2> QED BY <2>2, <2>3, <2>4
<1> USE DEF CounterInv
<1>3. \/ UNCHANGED handling
      \/ /\ InHandling /\ DOMAIN handling' = {"at", "bytes", "owner"}
         /\ handling'.bytes = handling.bytes /\ handling'.owner = handling.owner
 BY DEF StatsType, InHandling
<1>4. StatsType'
 BY <1>2, <1>3 DEF StatsType, InHandling
<1>5. ASSUME present', NEW f \in Families PROVE Balanced(f)'
 <2>1. Balanced(f) /\ Baseline(f)' = Baseline(f)
  BY <1>2, <1>5 DEF Baseline
 <2> QED BY <1>3, <2>1 DEF Balanced, InHandling
<1> QED BY <1>4, <1>5

----
(* The streams *)

\* What a stream does once the snapshot is read, and once it subscribed.
LEMMA OpensInOrder == Opens("get") = "subscribe" /\ Opens("subscribe") = "live" /\ Setup[1] = "get"
<1>1. Setup[1] = "get" /\ Setup[2] = "subscribe" /\ Setup[3] = "live"
 BY DEF Setup
<1>2. (CHOOSE i \in 1..2 : Setup[i] = "get") = 1
 <2>1. \E i \in 1..2 : Setup[i] = "get"
  BY <1>1
 <2>2. \A i \in 1..2 : Setup[i] = "get" => i = 1
  BY <1>1
 <2> QED BY <2>1, <2>2
<1>3. (CHOOSE i \in 1..2 : Setup[i] = "subscribe") = 2
 <2>1. \E i \in 1..2 : Setup[i] = "subscribe"
  BY <1>1
 <2>2. \A i \in 1..2 : Setup[i] = "subscribe" => i = 2
  BY <1>1
 <2> QED BY <2>1, <2>2
<1> QED BY <1>1, <1>2, <1>3 DEF Opens

\* The newest of a feed in order are in order.
LEMMA NewestInOrder ==
    ASSUME NEW f \in Seq(Reports), NEW lo \in Nat, NEW hi \in Nat,
           \A i \in 1..Len(f) : lo <= f[i].seq /\ f[i].seq <= hi,
           \A i, j \in 1..Len(f) : i <= j => f[i].seq <= f[j].seq
    PROVE  LET g == KeepNewest(f)
           IN  /\ g \in Seq(Reports)
               /\ \A i \in 1..Len(g) : lo <= g[i].seq /\ g[i].seq <= hi
               /\ \A i, j \in 1..Len(g) : i <= j => g[i].seq <= g[j].seq
<1> DEFINE n == Len(f) - StreamCapacity
<1>0. Len(f) \in Nat /\ StreamCapacity \in Nat /\ StreamCapacity > 0
 BY RuleStatsAssumption
<1>1. CASE Len(f) <= StreamCapacity
 BY <1>1 DEF KeepNewest
<1> USE <1>0
<1>2. CASE Len(f) > StreamCapacity
 <2> DEFINE g == SubSeq(f, n + 1, Len(f))
 <2>1. n \in Nat /\ n + 1 \in 1..Len(f) + 1 /\ Len(f) \in n..Len(f)
  BY <1>2
 <2>2. g \in Seq(Reports) /\ Len(g) = StreamCapacity
       /\ \A i \in 1..StreamCapacity : g[i] = f[n + i]
  <3>1. Len(f) - (n + 1) + 1 = StreamCapacity
   OBVIOUS
  <3>2. \A i \in 1..StreamCapacity : n + 1 + i - 1 = n + i /\ n + i \in 1..Len(f)
   BY <2>1
  <3> HIDE DEF n
  <3> QED BY <2>1, <3>1, <3>2, SubSeqProperties
 <2>3. \A i \in 1..StreamCapacity : n + i \in 1..Len(f)
  BY <2>1
 <2>4. \A i, j \in 1..StreamCapacity : i <= j => n + i <= n + j
  BY <2>1
 <2>5. KeepNewest(f) = g
  BY <1>2 DEF KeepNewest
 <2> HIDE DEF g, n
 <2> QED BY <2>2, <2>3, <2>4, <2>5
<1> QED BY <1>1, <1>2

\* A stream stays in order while newer reports are handled.
LEMMA StreamLater ==
    ASSUME NEW r, StreamFits(r), seq \in Nat, seq' \in Nat, seq <= seq' PROVE StreamFits(r)'
<1>1. /\ \A i \in 1..Len(r.feed) : r.feed[i].seq \in Nat
      /\ r.first # <<>> => r.first[1].seq \in Nat
 <2>1. \A i \in 1..Len(r.feed) : r.feed[i] \in Reports
  BY DEF StreamFits
 <2>2. r.first # <<>> => r.first[1] \in Reports
  BY EmptySeq DEF StreamFits
 <2> QED BY <2>1, <2>2 DEF Reports
<1>2. \A n \in Nat : n <= seq => n <= seq'
 OBVIOUS
<1> QED BY <1>1, <1>2 DEF StreamFits

\* Only the first of a stream's reports is shown, and none shown before is newer.
InOrderNow == \A v \in Viewers : viewer'[v].last >= viewer[v].last

\* A step of one stream.
LEMMA OneStream ==
    ASSUME StreamInv, NEW v \in Viewers, NEW r,
           viewer' = [viewer EXCEPT ![v] = r], UNCHANGED seq,
           StreamFits(r), r.last >= viewer[v].last
    PROVE  StreamInv' /\ InOrderNow
<1>1. /\ viewer'[v] = r /\ DOMAIN viewer' = Viewers
      /\ \A w \in Viewers : w # v => viewer'[w] = viewer[w]
 BY DEF StreamInv
<1>2. \A w \in Viewers : viewer[w].last >= viewer[w].last /\ StreamFits(viewer[w])
 BY DEF StreamInv, StreamFits
<1>3. \A w \in Viewers : StreamFits(viewer'[w])
 BY <1>1, <1>2
<1>4. \A w \in Viewers : viewer'[w].last >= viewer[w].last
 <2>1. ASSUME NEW w \in Viewers PROVE viewer'[w].last >= viewer[w].last
  <3>1. CASE w = v
   BY <1>1, <3>1
  <3>2. CASE w # v
   BY <1>1, <1>2, <3>2
  <3> QED BY <3>1, <3>2
 <2> QED BY <2>1
<1>5. StreamInv'
 BY <1>1, <1>3 DEF StreamInv, StreamFits
<1> QED BY <1>4, <1>5 DEF InOrderNow

\* The viewers' own steps.
LEMMA StreamSteps ==
    ASSUME CounterInv, StreamInv, NEW v \in Viewers,
           OpenStream(v) \/ GetSnapshot(v) \/ Subscribe(v) \/ Deliver(v) \/ EndStream(v)
    PROVE  StreamInv' /\ InOrderNow
<1> DEFINE r == viewer[v]
<1>1. /\ StreamFits(r) /\ DOMAIN r = {"at", "listening", "first", "feed", "last"}
      /\ r.first \in Seq(Reports) /\ r.feed \in Seq(Reports) /\ r.last \in Nat
      /\ v \in DOMAIN viewer /\ seq \in Nat /\ r.listening \in BOOLEAN
 BY DEF StreamInv, StreamFits, CounterInv, StatsType
<1>2. UNCHANGED seq
 BY DEF OpenStream, GetSnapshot, Subscribe, Deliver, EndStream, ViewerStep
<1>3. ASSUME NEW a, a \notin {"closed", "get", "subscribe"} \/ (r.at = "closed" /\ a = "get")
      PROVE  StreamFits([r EXCEPT !.at = a]) /\ [r EXCEPT !.at = a].last >= r.last
 <2> DEFINE n == [r EXCEPT !.at = a]
 <2>1. /\ DOMAIN n = DOMAIN r /\ n.at = a /\ n.listening = r.listening /\ n.first = r.first
       /\ n.feed = r.feed /\ n.last = r.last
  BY <1>1
 <2> HIDE DEF n, r
 <2>2. StreamFits(n)
  BY <1>1, <1>3, <2>1 DEF StreamFits
 <2>3. n.last >= r.last
  BY <1>1, <2>1
 <2> QED BY <2>2, <2>3 DEF n
<1>4. CASE OpenStream(v)
 <2>1. viewer' = [viewer EXCEPT ![v] = [r EXCEPT !.at = "get"]] /\ r.at = "closed"
  BY <1>4, OpensInOrder DEF OpenStream
 <2>2. StreamFits([r EXCEPT !.at = "get"]) /\ [r EXCEPT !.at = "get"].last >= r.last
  BY <1>3, <2>1
 <2> QED BY <1>2, <2>1, <2>2, OneStream
<1>5. CASE EndStream(v)
 <2>1. viewer' = [viewer EXCEPT ![v] = [r EXCEPT !.at = "over"]]
  BY <1>5 DEF EndStream
 <2>2. "over" \notin {"closed", "get", "subscribe"}
  OBVIOUS
 <2>3. StreamFits([r EXCEPT !.at = "over"]) /\ [r EXCEPT !.at = "over"].last >= r.last
  <3> HIDE DEF r
  <3> QED BY <1>3, <2>2
 <2> QED BY <1>2, <2>1, <2>3, OneStream
<1>6. CASE Subscribe(v)
 <2> DEFINE n == [r EXCEPT !.at = "live", !.listening = TRUE]
 <2>1. viewer' = [viewer EXCEPT ![v] = n] /\ r.at = "subscribe"
  BY <1>6, OpensInOrder DEF Subscribe
 <2>2. /\ DOMAIN n = DOMAIN r /\ n.at = "live" /\ n.listening = TRUE /\ n.first = r.first
       /\ n.feed = r.feed /\ n.last = r.last
  BY <1>1
 <2> HIDE DEF n, r
 <2>3. StreamFits(n)
  BY <1>1, <2>2 DEF StreamFits
 <2>4. n.last >= r.last
  BY <1>1, <2>2
 <2>5. n.last >= viewer[v].last
  BY <2>4 DEF r
 <2> QED BY <1>2, <2>1, <2>3, <2>5, OneStream
<1>7. CASE GetSnapshot(v)
 <2> DEFINE s == IF entry = NoEntry THEN <<>> ELSE <<entry.snap>>
            n == [r EXCEPT !.at = "subscribe", !.first = s]
 <2>1. viewer' = [viewer EXCEPT ![v] = n] /\ r.at = "get"
  BY <1>7, OpensInOrder DEF GetSnapshot
 <2>2. s \in Seq(Reports) /\ Len(s) <= 1 /\ (s # <<>> => s[1].seq <= seq /\ s[1].seq \in Nat)
  <3>1. CASE entry = NoEntry
   BY <3>1
  <3>2. CASE entry # NoEntry
   <4>1. entry.snap \in Reports /\ entry.snap.seq <= seq /\ entry.snap.seq \in Nat
    BY <3>2 DEF CounterInv, StatsType, Reports
   <4>2. s = <<entry.snap>>
    BY <3>2
   <4> QED BY <4>1, <4>2
  <3> QED BY <3>1, <3>2
 <2>3. r.feed = <<>> /\ r.last = 0 /\ ~r.listening
  BY <1>1, <2>1 DEF StreamFits
 <2> HIDE DEF s
 <2>4. /\ DOMAIN n = DOMAIN r /\ n.at = "subscribe" /\ n.listening = r.listening /\ n.first = s
       /\ n.feed = r.feed /\ n.last = r.last
  BY <1>1
 <2> HIDE DEF n, r
 <2>5. Len(n.feed) = 0
  BY <2>3, <2>4
 <2>6. StreamFits(n)
  BY <1>1, <2>2, <2>3, <2>4, <2>5 DEF StreamFits
 <2>7. n.last >= viewer[v].last
  BY <1>1, <2>4 DEF r
 <2> QED BY <1>2, <2>1, <2>6, <2>7, OneStream
<1>8. CASE Deliver(v)
 <2> DEFINE h == Head(Pending(v)).seq
            f == IF r.first = <<>> THEN Tail(r.feed) ELSE r.feed
            n == [r EXCEPT !.last = h, !.first = <<>>, !.feed = f]
 <2>1. viewer' = [viewer EXCEPT ![v] = n] /\ r.at = "live" /\ r.first \o r.feed # <<>>
  BY <1>8 DEF Deliver, Pending
 <2>2. /\ DOMAIN n = DOMAIN r /\ n.at = "live" /\ n.listening = r.listening
       /\ n.first = <<>> /\ n.feed = f /\ n.last = h
  BY <1>1, <2>1
 <2>3. CASE r.first # <<>>
  <3>0. Len(r.first) \in Nat \ {0} /\ Len(r.first) <= 1
   <4>1. Len(r.first) <= 1
    BY <1>1 DEF StreamFits
   <4> QED BY <1>1, <2>3, <4>1, EmptySeq
  <3>1. Len(r.first) = 1 /\ r.first[1] \in Reports
   <4>0. \A k \in Nat \ {0} : k <= 1 => k = 1
    OBVIOUS
   <4>1. Len(r.first) = 1
    BY <3>0, <4>0, Zenon
   <4>2. \A i \in 1..Len(r.first) : r.first[i] \in Reports
    BY <1>1
   <4> QED BY <4>1, <4>2
  <3>2. h = r.first[1].seq /\ f = r.feed
   <4>1. Pending(v) = r.first \o r.feed
    BY DEF Pending
   <4>2. (r.first \o r.feed)[1] = r.first[1]
    BY <1>1, <3>1
   <4>3. Head(r.first \o r.feed) = (r.first \o r.feed)[1]
    BY <1>1, <3>1
   <4> QED BY <2>3, <4>1, <4>2, <4>3
  <3> HIDE DEF h, f, n, r
  <3>3. r.first[1].seq \in Nat
   BY <3>1 DEF Reports
  <3>4. StreamFits(n)
   BY <1>1, <2>2, <2>3, <3>2, <3>3 DEF StreamFits
  <3>5. n.last >= r.last
   BY <1>1, <2>2, <2>3, <3>2, <3>3 DEF StreamFits
  <3>6. n.last >= viewer[v].last
   BY <3>5 DEF r
  <3> QED BY <1>2, <2>1, <3>4, <3>6, OneStream
 <2>4. CASE r.first = <<>>
  <3>1. r.first \o r.feed = r.feed
   BY <1>1, <2>4, ConcatEmptySeq
  <3>2. Pending(v) = r.feed /\ r.feed # <<>>
   BY <2>1, <3>1 DEF Pending
  <3>3. Len(r.feed) \in Nat \ {0} /\ \A i \in 1..Len(r.feed) : r.feed[i] \in Reports
   BY <1>1, <3>2, EmptySeq
  <3>4. h = r.feed[1].seq /\ f = Tail(r.feed)
   BY <1>1, <2>4, <3>2, <3>3
  <3>5. /\ Tail(r.feed) \in Seq(Reports) /\ Len(Tail(r.feed)) = Len(r.feed) - 1
        /\ \A i \in 1..Len(Tail(r.feed)) : Tail(r.feed)[i] = r.feed[i + 1]
   BY <1>1, <3>2, HeadTailProperties
  <3> HIDE DEF h, f, n, r
  <3>6. \A i \in 1..Len(r.feed) : r.feed[i].seq \in Nat
   BY <3>3 DEF Reports
  <3>7. \A i \in 1..Len(f) : i + 1 \in 1..Len(r.feed) /\ 1 <= i + 1 /\ f[i] = r.feed[i + 1]
   BY <3>3, <3>4, <3>5
  <3>8. 1 \in 1..Len(r.feed)
   BY <3>3
  <3>9. /\ \A i \in 1..Len(f) : h <= f[i].seq /\ f[i].seq <= seq
        /\ \A i, j \in 1..Len(f) : i <= j => f[i].seq <= f[j].seq
   <4>1. \A i, j \in 1..Len(f) : i <= j => i + 1 <= j + 1
    BY <3>3, <3>4, <3>5
   <4> QED BY <1>1, <3>4, <3>7, <3>8, <4>1 DEF StreamFits
  <3>10. h \in Nat /\ h <= seq /\ h >= r.last
   BY <1>1, <3>4, <3>6, <3>8 DEF StreamFits
  <3>11. StreamFits(n)
   BY <1>1, <2>2, <2>4, <3>4, <3>5, <3>9, <3>10 DEF StreamFits
  <3>12. n.last >= viewer[v].last
   BY <2>2, <3>10 DEF r
  <3> QED BY <1>2, <2>1, <3>11, <3>12, OneStream
 <2> QED BY <2>3, <2>4
<1> QED BY <1>4, <1>5, <1>6, <1>7, <1>8

\* The handler's broadcast appends the newest report, and the removal ends the
\* streams that listen.
LEMMA StreamsTold ==
    ASSUME CounterInv, StreamInv, FanOut \/ DropSender PROVE StreamInv' /\ InOrderNow
<1>1. UNCHANGED seq /\ seq \in Nat /\ DOMAIN viewer = Viewers
 BY DEF FanOut, DropSender, CounterInv, StatsType, StreamInv
<1>2. ASSUME NEW v \in Viewers PROVE StreamFits(viewer'[v]) /\ viewer'[v].last >= viewer[v].last
 <2> DEFINE r == viewer[v]
 <2>1. /\ StreamFits(r) /\ DOMAIN r = {"at", "listening", "first", "feed", "last"}
       /\ r.first \in Seq(Reports) /\ r.feed \in Seq(Reports) /\ r.last \in Nat
       /\ r.listening \in BOOLEAN
  BY DEF StreamInv, StreamFits
 <2>2. CASE viewer'[v] = r
  <3>1. r.last >= r.last
   <4> HIDE DEF r
   <4> QED BY <2>1
  <3> QED BY <2>1, <2>2, <3>1
 <2>3. CASE viewer'[v] = [r EXCEPT !.listening = FALSE]
  <3> DEFINE n == [r EXCEPT !.listening = FALSE]
  <3>1. /\ DOMAIN n = DOMAIN r /\ n.at = r.at /\ n.listening = FALSE /\ n.first = r.first
        /\ n.feed = r.feed /\ n.last = r.last
   BY <2>1
  <3> HIDE DEF n, r
  <3>2. StreamFits(n)
   BY <2>1, <3>1 DEF StreamFits
  <3>3. n.last >= r.last
   BY <2>1, <3>1
  <3> QED BY <2>3, <3>2, <3>3 DEF n, r
 <2>4. CASE /\ FanOut /\ Watching(v)
            /\ viewer'[v] = [r EXCEPT !.feed =
                   KeepNewest(Append(@, [bytes |-> handling.bytes, seq |-> seq]))]
  <3> DEFINE x == [bytes |-> handling.bytes, seq |-> seq]
             f == Append(r.feed, x)
             g == KeepNewest(f)
             n == [r EXCEPT !.feed = g]
  <3>1. x \in Reports /\ x.seq = seq
   <4>1. handling.bytes \in Nat
    BY <2>4 DEF FanOut, CounterInv, StatsType, NotHandling
   <4> QED BY <1>1, <4>1 DEF Reports
  <3>2. /\ f \in Seq(Reports) /\ Len(f) = Len(r.feed) + 1 /\ Len(r.feed) \in Nat
        /\ \A i \in 1..Len(f) : f[i] = IF i <= Len(r.feed) THEN r.feed[i] ELSE x
   <4> HIDE DEF x, r
   <4> QED BY <2>1, <3>1
  <3> HIDE DEF x, f
  <3>3. \A i \in 1..Len(r.feed) : r.feed[i].seq \in Nat
   <4>1. \A i \in 1..Len(r.feed) : r.feed[i] \in Reports
    BY <2>1
   <4> QED BY <4>1 DEF Reports
  <3> DEFINE lo == IF r.first = <<>> THEN r.last ELSE r.first[1].seq
  <3> HIDE DEF r
  <3>4. lo \in Nat /\ r.last <= lo /\ lo <= seq /\ (r.first # <<>> => lo = r.first[1].seq)
   <4>1. CASE r.first = <<>>
    BY <2>1, <4>1 DEF StreamFits
   <4>2. CASE r.first # <<>>
    <5>1. r.first[1] \in Reports
     BY <2>1, <4>2, EmptySeq
    <5>2. r.first[1].seq \in Nat
     BY <5>1 DEF Reports
    <5> QED BY <2>1, <4>2, <5>2 DEF StreamFits
   <4> QED BY <4>1, <4>2
  <3>5. \A i \in 1..Len(r.feed) : lo <= r.feed[i].seq /\ r.feed[i].seq <= seq
   BY <2>1 DEF StreamFits
  <3> HIDE DEF lo
  <3>6. \A i \in 1..Len(f) : lo <= f[i].seq /\ f[i].seq <= seq
   <4>1. ASSUME NEW i \in 1..Len(f) PROVE lo <= f[i].seq /\ f[i].seq <= seq
    <5>1. CASE i <= Len(r.feed)
     <6>1. i \in 1..Len(r.feed) /\ f[i] = r.feed[i]
      BY <3>2, <5>1
     <6> QED BY <3>5, <6>1
    <5>2. CASE ~(i <= Len(r.feed))
     <6>1. f[i] = x
      BY <3>2, <5>2
     <6> QED BY <1>1, <3>1, <3>4, <6>1
    <5> QED BY <5>1, <5>2
   <4> QED BY <4>1
  <3>7. \A i, j \in 1..Len(f) : i <= j => f[i].seq <= f[j].seq
   <4>1. ASSUME NEW i \in 1..Len(f), NEW j \in 1..Len(f), i <= j PROVE f[i].seq <= f[j].seq
    <5>1. CASE j <= Len(r.feed)
     <6>1. i \in 1..Len(r.feed) /\ f[i] = r.feed[i] /\ j \in 1..Len(r.feed) /\ f[j] = r.feed[j]
      BY <3>2, <4>1, <5>1
     <6> QED BY <2>1, <4>1, <6>1 DEF StreamFits
    <5>2. CASE ~(j <= Len(r.feed))
     <6>1. f[j] = x
      BY <3>2, <5>2
     <6> QED BY <3>1, <3>6, <6>1
    <5> QED BY <5>1, <5>2
   <4> QED BY <4>1
  <3>8. /\ g \in Seq(Reports)
        /\ \A i \in 1..Len(g) : lo <= g[i].seq /\ g[i].seq <= seq
        /\ \A i, j \in 1..Len(g) : i <= j => g[i].seq <= g[j].seq
   BY <1>1, <3>2, <3>4, <3>6, <3>7, NewestInOrder
  <3> HIDE DEF g
  <3>9. /\ DOMAIN n = DOMAIN r /\ n.at = r.at /\ n.listening = r.listening
        /\ n.first = r.first /\ n.feed = g /\ n.last = r.last
   BY <2>1
  <3>10. r.at \notin {"closed", "get", "subscribe"}
   BY <2>1, <2>4 DEF StreamFits, Watching, r
  <3>11. viewer'[v] = n
   BY <2>4 DEF n, g, f, x, r
  <3> HIDE DEF n
  <3>12. \A i \in 1..Len(n.feed) : r.last <= n.feed[i].seq
   <4>1. ASSUME NEW i \in 1..Len(g) PROVE r.last <= g[i].seq
    <5>1. g[i] \in Reports
     BY <3>8
    <5>2. g[i].seq \in Nat
     BY <5>1 DEF Reports
    <5> QED BY <2>1, <3>4, <3>8, <5>2
   <4> QED BY <3>9, <4>1
  <3>13. StreamFits(n)
   BY <2>1, <3>4, <3>8, <3>9, <3>10, <3>12 DEF StreamFits
  <3>14. n.last >= r.last
   BY <2>1, <3>9
  <3> QED BY <3>11, <3>13, <3>14 DEF r
 <2> QED BY <2>2, <2>3, <2>4 DEF FanOut, DropSender
<1>3. DOMAIN viewer' = Viewers
 BY <1>1 DEF FanOut, DropSender
<1>4. StreamInv'
 BY <1>1, <1>2, <1>3 DEF StreamInv, StreamFits
<1> QED BY <1>2, <1>4 DEF InOrderNow

\* The steps that no stream takes part in.
LEMMA StreamsWait ==
    ASSUME CounterInv, StreamInv, UNCHANGED viewer, seq' = seq \/ seq' = seq + 1
    PROVE  StreamInv' /\ InOrderNow
<1>1. seq \in Nat /\ seq' \in Nat /\ seq <= seq'
 BY DEF CounterInv, StatsType
<1>2. ASSUME NEW v \in Viewers PROVE StreamFits(viewer[v])' /\ viewer'[v].last >= viewer[v].last
 <2>1. StreamFits(viewer[v]) /\ viewer[v].last \in Nat /\ viewer'[v] = viewer[v]
  BY DEF StreamInv, StreamFits
 <2>2. PICK r : r = viewer[v]
  OBVIOUS
 <2>3. StreamFits(r)'
  BY <1>1, <2>1, <2>2, StreamLater
 <2> QED BY <2>1, <2>2, <2>3 DEF StreamFits
<1>3. DOMAIN viewer' = Viewers
 BY DEF StreamInv
<1> QED BY <1>2, <1>3 DEF StreamInv, InOrderNow

----
\* Every step keeps the counters in balance and the streams in order.
LEMMA StatsStep ==
    ASSUME CounterInv, StreamInv, [RuleStatsNext]_ruleStatsVars
    PROVE  CounterInv' /\ StreamInv' /\ InOrderNow
<1>1. CASE ForwardBytes \/ ReportCounters \/ NewSession \/ LookupOwner
 BY <1>1, ReporterBalance, StreamsWait DEF ForwardBytes, ReportCounters, NewSession, LookupOwner
<1>2. CASE Observe \/ ObserveSni \/ ObserveRateLimit
 BY <1>2, RuleFolds, StreamsWait DEF Observe, ObserveSni, ObserveRateLimit, Fold
<1>3. CASE ObserveOwner \/ ObserveListener
 BY <1>3, StandingFolds, StreamsWait DEF ObserveOwner, ObserveListener, FoldStanding
<1> USE OthersBalance
<1>4. CASE FanOut \/ DropSender
 BY <1>4, StreamsTold
<1>5. CASE UpdatePerPort \/ RemoveFromRules \/ DropEntry \/ DropPerPort
           \/ UNCHANGED ruleStatsVars
 BY <1>5, StreamsWait DEF UpdatePerPort, RemoveFromRules, DropEntry, DropPerPort, ruleStatsVars
<1>6. CASE \E v \in Viewers : OpenStream(v) \/ GetSnapshot(v) \/ Subscribe(v)
                               \/ Deliver(v) \/ EndStream(v)
 BY <1>6, StreamSteps
<1> QED BY <1>1, <1>2, <1>3, <1>4, <1>5, <1>6 DEF RuleStatsNext

\* A stream of statistics never shows an older reading after a newer one, and
\* while the rule exists no counter of the rule, its owner or its port exceeds
\* what the rule did, over any number of sessions and with a removal at any
\* moment (stats.rs, metrics.rs, stats_stream.rs).
THEOREM StatsAreSound == RuleStatsSpec => StatsSound
<1>1. RuleStatsInit => CounterInv /\ StreamInv
 <2> SUFFICES ASSUME RuleStatsInit PROVE CounterInv /\ StreamInv
  OBVIOUS
 <2>1. counter \in [Families -> [Owners -> Nat]] /\ \A f \in Families : counter[f]["owner"] = 0
  BY DEF RuleStatsInit, Collectors, Families, Owners
 <2>2. StatsType
  BY <2>1 DEF RuleStatsInit, StatsType
 <2>3. \A f \in Families : Balanced(f)
  BY <2>1 DEF RuleStatsInit, Balanced
 <2>4. CounterInv
  BY <2>2, <2>3 DEF CounterInv, RuleStatsInit
 <2>5. ASSUME NEW v \in Viewers PROVE StreamFits(viewer[v])
  <3>1. viewer[v] = [at |-> "closed", listening |-> FALSE, first |-> <<>>, feed |-> <<>>,
                     last |-> 0]
   BY DEF RuleStatsInit
  <3>2. <<>> \in Seq(Reports) /\ Len(<<>>) = 0
   OBVIOUS
  <3>3. seq = 0
   BY DEF RuleStatsInit
  <3>4. /\ viewer[v].first = <<>> /\ viewer[v].feed = <<>> /\ viewer[v].last = 0
        /\ viewer[v].at = "closed" /\ viewer[v].listening = FALSE
        /\ DOMAIN viewer[v] = {"at", "listening", "first", "feed", "last"}
   BY <3>1
  <3>5. /\ Len(viewer[v].feed) = 0 /\ Len(viewer[v].first) = 0
        /\ viewer[v].first \in Seq(Reports) /\ viewer[v].feed \in Seq(Reports)
   BY <3>2, <3>4
  <3>6. 1..Len(viewer[v].feed) = {} /\ Len(viewer[v].first) <= 1 /\ viewer[v].last <= seq
        /\ viewer[v].last \in Nat
   BY <3>3, <3>4, <3>5
  <3>7. viewer[v].listening \in BOOLEAN
   BY <3>4
  <3> QED BY <3>4, <3>5, <3>6, <3>7, Zenon DEF StreamFits
 <2>6. DOMAIN viewer = Viewers
  BY DEF RuleStatsInit
 <2> QED BY <2>4, <2>5, <2>6 DEF StreamInv
<1>2. CounterInv /\ StreamInv /\ [RuleStatsNext]_ruleStatsVars =>
         /\ CounterInv' /\ StreamInv'
         /\ [\A v \in Viewers : viewer'[v].last >= viewer[v].last]_ruleStatsVars
 BY StatsStep DEF InOrderNow
<1>3. CounterInv => CounterNotAhead
 <2> SUFFICES ASSUME CounterInv, present, NEW f \in DOMAIN counter
              PROVE  counter[f]["owner"] <= carried
  BY DEF CounterNotAhead
 <2>1. /\ f \in Families /\ Balanced(f) /\ counter[f]["owner"] \in Nat
       /\ reading \in Nat /\ carried \in Nat /\ reading <= carried
  BY DEF CounterInv, StatsType, Owners
 <2>2. Baseline(f) \in Nat
  BY <2>1 DEF Baseline, CounterInv, StatsType, Families
 <2> QED BY <2>1, <2>2 DEF Balanced
<1> QED BY <1>1, <1>2, <1>3, PTL DEF RuleStatsSpec, StatsSound, StreamInOrder

\* A request in progress, and what it holds at each of its steps.
RequestSlots ==
    [kind : {"none", "reenroll", "redeem", "revoke", "delete", "rename", "push", "remove"},
     step : {"none", "create", "cut", "row", "read", "memory", "id", "send"},
     client : Fleet \cup {Nobody}, name : Labels \cup {Nobody},
     to : Fleet \cup {Nobody}, rule : 0 .. MaxRuleNo]

\* What a request says of the name of its client.
NamesClient(k) ==
    \/ k.kind = "push" /\ k.client # Nobody
    \/ k.kind = "remove"
    \/ k.kind = "rename" /\ k.step = "memory"

AskFits(k) ==
    /\ k \in RequestSlots
    /\ k.kind \in {"reenroll", "redeem", "revoke", "delete", "rename", "remove"} => k.client \in Fleet
    /\ k.kind = "push" => k.to \in Fleet /\ k.name \in Labels
    /\ k.kind = "push" /\ k.step # "id" => k.client \in Fleet
    /\ k.kind = "push" /\ k.step \in {"row", "send"} => k.rule \in RuleNos
    /\ k.kind = "remove" => k.rule \in RuleNos
    /\ k.kind = "reenroll" => k.name \in Labels
    /\ NamesClient(k) => k.name \in Labels /\ k.client \in Fleet

RuleRow == [client : Fleet \cup {Nobody}, name : Labels \cup {Nobody}]
WholeRow(row) == row \in RuleRow /\ (row.client \in Fleet => row.name \in Labels)
Session == [stage : {"none", "arriving", "open", "cancelled"}, name : Labels \cup {Nobody}]
WholeSession(s) == s \in Session /\ (s.stage # "none" => s.name \in Labels)
RosterRow == [name : Labels \cup {Nobody}, revoked : BOOLEAN, address : Address \cup {Nobody}]
CodeRow == [client : Fleet, name : Labels, address : Address \cup {Nobody}]

\* Types.
NamesType ==
    /\ running \in BOOLEAN
    /\ roster \in [Fleet -> RosterRow]
    /\ codes \subseteq CodeRow
    /\ live \in [Fleet -> Session] /\ \A c \in Fleet : WholeSession(live[c])
    /\ table \in [RuleNos -> RuleRow] /\ \A r \in RuleNos : WholeRow(table[r])
    /\ memory \in [RuleNos -> RuleRow] /\ \A r \in RuleNos : WholeRow(memory[r])
    /\ nextNo \in 1 .. MaxRuleNo + 1
    /\ asks \in [Admins -> RequestSlots] /\ \A a \in Admins : AskFits(asks[a])
    /\ asked \in 0 .. MaxAsks

\* The bounds, and that nobody is no client and no name.
LEMMA RosterFacts ==
    /\ MaxRuleNo \in Nat \ {0} /\ MaxAsks \in Nat
    /\ Nobody \notin Fleet /\ Nobody \notin Labels
    /\ RuleNos = 1 .. MaxRuleNo
  BY RosterAssumption DEF RuleNos

\* The rows that say nothing.
LEMMA NothingFits ==
    /\ AskFits(Done) /\ Done \in RequestSlots
    /\ WholeRow(NoRuleRow) /\ NoRuleRow \in RuleRow
    /\ WholeSession(NoSession) /\ NoSession \in Session
    /\ NoRosterRow \in RosterRow
<1>1. AskFits(Done) /\ Done \in RequestSlots
 BY RosterFacts DEF AskFits, Done, RequestSlots, NamesClient, RuleNos
<1>2. WholeRow(NoRuleRow) /\ NoRuleRow \in RuleRow
 BY RosterFacts DEF WholeRow, NoRuleRow, RuleRow
<1>3. WholeSession(NoSession) /\ NoSession \in Session
 BY DEF WholeSession, NoSession, Session
<1>4. NoRosterRow \in RosterRow
 BY DEF NoRosterRow, RosterRow
<1> QED BY <1>1, <1>2, <1>3, <1>4

\* A slot that is set to what fits.
LEMMA SlotSet ==
    ASSUME NamesType, NEW a \in Admins, NEW k, AskFits(k), asks' = [asks EXCEPT ![a] = k]
    PROVE  /\ asks' \in [Admins -> RequestSlots] /\ \A b \in Admins : AskFits(asks'[b])
           /\ asks'[a] = k /\ \A b \in Admins : b # a => asks'[b] = asks[b]
<1>1. k \in RequestSlots
 BY DEF AskFits
<1>2. asks'[a] = k /\ \A b \in Admins : b # a => asks'[b] = asks[b]
 BY DEF NamesType
<1>3. asks' \in [Admins -> RequestSlots]
 BY <1>1 DEF NamesType
<1>4. \A b \in Admins : AskFits(asks'[b])
 BY <1>2 DEF NamesType
<1> QED BY <1>2, <1>3, <1>4

\* A request's slot moves to k; the other requests stay where they are.
SlotMoves(a, k) ==
    /\ AskFits(k) /\ asks' \in [Admins -> RequestSlots] /\ asks'[a] = k
    /\ \A b \in Admins : b # a => asks'[b] = asks[b]

\* The clients that bore the names in the rows, the sessions and the requests.
BorneInv ==
    /\ bearers \in [Labels -> SUBSET Fleet]
    /\ \A c \in Fleet : OnRoster(c) => c \in bearers[roster[c].name]
    /\ \A c \in Fleet : live[c].stage # "none" => c \in bearers[live[c].name]
    /\ \A r \in RuleNos : table[r].client \in Fleet => table[r].client \in bearers[table[r].name]
    /\ \A r \in RuleNos : memory[r].client \in Fleet => memory[r].client \in bearers[memory[r].name]
    /\ \A a \in Admins : NamesClient(asks[a]) => asks[a].client \in bearers[asks[a].name]
    /\ \A a \in Admins : asks[a].kind = "push" => asks[a].to \in bearers[asks[a].name]

\* A stopped server has no sessions, requests or rules in memory.
QuietInv ==
    ~running => /\ \A c \in Fleet : live[c] = NoSession
                /\ \A r \in RuleNos : memory[r] = NoRuleRow
                /\ \A a \in Admins : asks[a] = Done

\* Client c is known by the name n wherever a name of it is kept, except in
\* memory while it is renamed.
Bears(c, n) ==
    /\ roster[c].name \in {n, Nobody}
    /\ live[c].stage # "none" => live[c].name = n
    /\ \A r \in RuleNos : table[r].client = c => table[r].name = n
    /\ \A r \in RuleNos : memory[r].client = c =>
          \/ memory[r].name = n
          \/ \E a \in Admins : asks[a].kind = "rename" /\ asks[a].client = c
    /\ \A a \in Admins : asks[a].client = c /\ NamesClient(asks[a]) => asks[a].name = n
    /\ \A a \in Admins : asks[a].client = c /\ asks[a].kind = "rename" => roster[c].name = n

OneName == \A c \in Fleet \ astray : ~Contended(c) /\ \E n \in Labels : Bears(c, n)

NamesInv ==
    NamesType /\ BorneInv /\ QuietInv /\ DeliveredByName /\ RemovalTold /\ OneName

\* What was borne stays borne, and a name on the roster is.
LEMMA BearersGrow ==
    ASSUME NamesType, BorneInv, NEW X, Remember(X), roster' \in [Fleet -> RosterRow]
    PROVE  /\ bearers' \in [Labels -> SUBSET Fleet]
           /\ \A n \in Labels : bearers[n] \subseteq bearers'[n]
           /\ \A c \in Fleet : OnRoster(c)' => roster'[c].name \in Labels /\ c \in bearers'[roster'[c].name]
<1>1. \A n \in Labels : bearers'[n] = bearers[n] \cup {c \in Fleet : roster'[c].name = n}
 BY DEF Remember
<1>2. \A c \in Fleet : roster'[c].name \in Labels \cup {Nobody}
 BY DEF RosterRow
<1>3. bearers' \in [Labels -> SUBSET Fleet]
 BY DEF Remember, BorneInv
<1> QED BY <1>1, <1>2, <1>3 DEF OnRoster

\* Names of the rows, sessions and requests that are as they were are borne.
LEMMA BorneStep ==
    ASSUME NamesType, BorneInv, NamesType', NEW X, Remember(X),
           \A c \in Fleet : live'[c].stage # "none" =>
              \/ live'[c].name = live[c].name /\ live[c].stage # "none"
              \/ c \in bearers'[live'[c].name],
           \A r \in RuleNos : table'[r].client \in Fleet =>
              table'[r] = table[r] \/ table'[r].client \in bearers'[table'[r].name],
           \A r \in RuleNos : memory'[r].client \in Fleet =>
              memory'[r] = memory[r] \/ memory'[r].client \in bearers'[memory'[r].name],
           \A a \in Admins : asks'[a] # asks[a] =>
              /\ NamesClient(asks'[a]) => asks'[a].client \in bearers'[asks'[a].name]
              /\ asks'[a].kind = "push" => asks'[a].to \in bearers'[asks'[a].name]
    PROVE  BorneInv'
<1>0. roster' \in [Fleet -> RosterRow]
 BY DEF NamesType
<1>1. /\ bearers' \in [Labels -> SUBSET Fleet]
      /\ \A n \in Labels : bearers[n] \subseteq bearers'[n]
      /\ \A c \in Fleet : OnRoster(c)' => c \in bearers'[roster'[c].name]
 BY <1>0, BearersGrow
<1>2. \A c \in Fleet : live'[c].stage # "none" => c \in bearers'[live'[c].name]
 <2>1. \A c \in Fleet : live[c].stage # "none" => live[c].name \in Labels /\ c \in bearers[live[c].name]
  BY DEF NamesType, WholeSession, BorneInv
 <2> QED BY <1>1, <2>1
<1>3. \A r \in RuleNos : table'[r].client \in Fleet => table'[r].client \in bearers'[table'[r].name]
 <2>1. \A r \in RuleNos : table[r].client \in Fleet =>
          table[r].name \in Labels /\ table[r].client \in bearers[table[r].name]
  BY DEF NamesType, WholeRow, BorneInv
 <2> QED BY <1>1, <2>1
<1>4. \A r \in RuleNos : memory'[r].client \in Fleet => memory'[r].client \in bearers'[memory'[r].name]
 <2>1. \A r \in RuleNos : memory[r].client \in Fleet =>
          memory[r].name \in Labels /\ memory[r].client \in bearers[memory[r].name]
  BY DEF NamesType, WholeRow, BorneInv
 <2> QED BY <1>1, <2>1
<1>5. ASSUME NEW a \in Admins
      PROVE  /\ NamesClient(asks'[a]) => asks'[a].client \in bearers'[asks'[a].name]
             /\ asks'[a].kind = "push" => asks'[a].to \in bearers'[asks'[a].name]
 <2>1. CASE asks'[a] # asks[a]
  BY <2>1
 <2>2. CASE asks'[a] = asks[a]
  <3>1. /\ NamesClient(asks[a]) => asks[a].name \in Labels /\ asks[a].client \in bearers[asks[a].name]
        /\ asks[a].kind = "push" => asks[a].name \in Labels /\ asks[a].to \in bearers[asks[a].name]
   BY DEF NamesType, AskFits, BorneInv
  <3>2. asks[a].name \in Labels => bearers[asks[a].name] \subseteq bearers'[asks[a].name]
   BY <1>1
  <3> QED BY <2>2, <3>1, <3>2
 <2> QED BY <2>1, <2>2
<1>6. \A a \in Admins : NamesClient(asks[a])' <=> NamesClient(asks'[a])
 BY DEF NamesClient
<1> QED BY <1>1, <1>2, <1>3, <1>4, <1>5, <1>6 DEF BorneInv

\* A client keeps its name over a step of one request.
LEMMA BearsStep ==
    ASSUME NEW c \in Fleet, NEW n, Bears(c, n), NEW a \in Admins, NEW k, SlotMoves(a, k),
           roster'[c].name = roster[c].name,
           live'[c].stage # "none" => live'[c].name = n,
           \A r \in RuleNos : table'[r].client = c => table'[r].name = n,
           \A r \in RuleNos : memory'[r].client = c => memory'[r].name = n \/ memory'[r] = memory[r],
           asks[a].kind = "rename" /\ asks[a].client = c =>
              \/ k.kind = "rename" /\ k.client = c
              \/ \A r \in RuleNos : memory'[r].client = c => memory'[r].name = n,
           k.client = c /\ NamesClient(k) => k.name = n,
           k.client = c /\ k.kind = "rename" => roster[c].name = n
    PROVE  Bears(c, n)'
<1>1. asks'[a] = k /\ \A b \in Admins : b # a => asks'[b] = asks[b]
 BY DEF SlotMoves
<1>2. \A r \in RuleNos : memory'[r].client = c =>
          \/ memory'[r].name = n
          \/ \E b \in Admins : asks'[b].kind = "rename" /\ asks'[b].client = c
 <2>1. ASSUME NEW b \in Admins, asks[b].kind = "rename", asks[b].client = c
       PROVE  \/ \E e \in Admins : asks'[e].kind = "rename" /\ asks'[e].client = c
              \/ \A r \in RuleNos : memory'[r].client = c => memory'[r].name = n
  BY <1>1, <2>1
 <2>2. \A r \in RuleNos : memory[r].client = c =>
         \/ memory[r].name = n
         \/ \E b \in Admins : asks[b].kind = "rename" /\ asks[b].client = c
  BY DEF Bears
 <2> QED BY <2>1, <2>2
<1>3. \A b \in Admins : asks'[b].client = c /\ NamesClient(asks'[b]) => asks'[b].name = n
 BY <1>1 DEF Bears
<1>4. \A b \in Admins : asks'[b].client = c /\ asks'[b].kind = "rename" => roster'[c].name = n
 BY <1>1 DEF Bears
<1>5. roster'[c].name \in {n, Nobody}
 BY DEF Bears
<1>6. \A b \in Admins : NamesClient(asks[b])' <=> NamesClient(asks'[b])
 BY DEF NamesClient
<1> QED BY <1>2, <1>3, <1>4, <1>5, <1>6 DEF Bears

\* What is left to show of a step.
LEMMA NamesStep ==
    ASSUME NamesInv, Remember(Restored), NamesType', BorneInv', QuietInv',
           \A m \in sent' : \/ m \in sent
                            \/ /\ m.to \in Fleet \ {m.client} =>
                                     \E n \in Labels : {m.to, m.client} \subseteq bearers'[n]
                               /\ m.what = "unsent" => m.client \in astray',
           \A c \in Fleet \ astray' : \A n \in Labels :
              Bears(c, n) /\ ~Contended(c) /\ ~Contended(c)' => \E m \in Labels : Bears(c, m)'
    PROVE  NamesInv'
<1>1. astray \subseteq astray' /\ \A c \in Fleet : Contended(c)' => c \in astray'
 BY DEF Remember
<1>2. \A n \in Labels : bearers[n] \subseteq bearers'[n]
 BY BearersGrow DEF NamesInv, NamesType
<1>4. DeliveredByName'
 <2>1. ASSUME NEW m \in sent', m.to \in Fleet \ {m.client}
       PROVE  \E n \in Labels : {m.to, m.client} \subseteq bearers'[n]
  <3>1. CASE m \in sent
   <4>1. PICK n \in Labels : {m.to, m.client} \subseteq bearers[n]
    BY <2>1, <3>1 DEF NamesInv, DeliveredByName
   <4> QED BY <1>2, <4>1
  <3> QED BY <2>1, <3>1
 <2> QED BY <2>1 DEF DeliveredByName
<1>5. RemovalTold'
 BY <1>1 DEF NamesInv, RemovalTold
<1>6. OneName'
 <2>1. ASSUME NEW c \in Fleet \ astray' PROVE ~Contended(c)' /\ \E n \in Labels : Bears(c, n)'
  <3>1. ~Contended(c)' /\ c \in Fleet \ astray
   BY <1>1
  <3>2. PICK n \in Labels : Bears(c, n) /\ ~Contended(c)
   BY <3>1 DEF NamesInv, OneName
  <3> QED BY <3>1, <3>2
 <2> QED BY <2>1 DEF OneName
<1> QED BY <1>4, <1>5, <1>6 DEF NamesInv

\* The same while the server runs.
LEMMA ServedStep ==
    ASSUME NamesInv, running, running' = running, Remember(Restored), NamesType', BorneInv',
           \A m \in sent' : \/ m \in sent
                            \/ /\ m.to \in Fleet \ {m.client} =>
                                     \E n \in Labels : {m.to, m.client} \subseteq bearers'[n]
                               /\ m.what = "unsent" => m.client \in astray',
           \A c \in Fleet \ astray' : \A n \in Labels :
              Bears(c, n) /\ ~Contended(c) /\ ~Contended(c)' => \E m \in Labels : Bears(c, m)'
    PROVE  NamesInv'
<1>1. QuietInv'
 BY DEF QuietInv
<1> QED BY <1>1, NamesStep

\* The requests fit after a slot has moved, and a slot that did not is unchanged.
LEMMA SlotType ==
    ASSUME NamesType, NEW a \in Admins, NEW k, SlotMoves(a, k)
    PROVE  /\ asks' \in [Admins -> RequestSlots] /\ \A b \in Admins : AskFits(asks[b])'
           /\ asks'[a] = k /\ \A b \in Admins : b # a => asks'[b] = asks[b]
<1>1. AskFits(k) /\ asks' \in [Admins -> RequestSlots] /\ asks'[a] = k
      /\ \A b \in Admins : b # a => asks'[b] = asks[b]
 BY DEF SlotMoves
<1>2. \A b \in Admins : AskFits(asks'[b])
 BY <1>1 DEF NamesType
<1>3. \A b \in Admins : AskFits(asks[b])'
 BY <1>2 DEF AskFits, NamesClient
<1> QED BY <1>1, <1>3

\* A step of a request that leaves the roster, the sessions and the rules alone.
LEMMA SlotAlone ==
    ASSUME NamesInv, running, running' = running, Remember(Restored),
           NEW a \in Admins, NEW k, SlotMoves(a, k),
           UNCHANGED <<roster, live, table, memory, nextNo, sent>>,
           codes' \subseteq CodeRow, asked' \in 0 .. MaxAsks,
           NamesClient(k) => k.client \in bearers[k.name],
           k.kind = "push" => k.to \in bearers[k.name],
           \A c \in Fleet \ astray' : \A n \in Labels : Bears(c, n) /\ ~Contended(c) /\ ~Contended(c)' =>
              /\ asks[a].kind = "rename" /\ asks[a].client = c => k.kind = "rename" /\ k.client = c
              /\ k.client = c /\ NamesClient(k) => k.name = n
              /\ k.client = c /\ k.kind = "rename" => roster[c].name = n
    PROVE  NamesInv'
<1>0. NamesType /\ BorneInv
 BY DEF NamesInv
<1>1. AskFits(k) /\ asks' \in [Admins -> RequestSlots] /\ asks'[a] = k
      /\ \A b \in Admins : b # a => asks'[b] = asks[b]
 BY DEF SlotMoves
<1>2. \A b \in Admins : AskFits(asks'[b])
 BY <1>0, <1>1 DEF NamesType
<1>3. NamesType'
 <2>1. \A b \in Admins : AskFits(asks[b])'
  BY <1>2 DEF AskFits, NamesClient
 <2> QED BY <1>0, <1>1, <2>1 DEF NamesType
<1>4. \A n \in Labels : bearers[n] \subseteq bearers'[n]
 BY <1>0, <1>3, BearersGrow DEF NamesType
<1>5. /\ NamesClient(k) => k.client \in bearers'[k.name]
      /\ k.kind = "push" => k.to \in bearers'[k.name]
 <2>1. NamesClient(k) \/ k.kind = "push" => k.name \in Labels
  BY <1>1 DEF AskFits
 <2> QED BY <1>4, <2>1
<1>6. \A b \in Admins : asks'[b] # asks[b] =>
              /\ NamesClient(asks'[b]) => asks'[b].client \in bearers'[asks'[b].name]
              /\ asks'[b].kind = "push" => asks'[b].to \in bearers'[asks'[b].name]
 BY <1>1, <1>5
<1>7. BorneInv'
 BY <1>0, <1>3, <1>6, BorneStep
<1>8. ASSUME NEW c \in Fleet \ astray', NEW n \in Labels, Bears(c, n), ~Contended(c), ~Contended(c)'
      PROVE  \E m \in Labels : Bears(c, m)'
 <2>1. live[c].stage # "none" => live[c].name = n
  BY <1>8 DEF Bears
 <2>2. \A r \in RuleNos : table[r].client = c => table[r].name = n
  BY <1>8 DEF Bears
 <2>3. Bears(c, n)'
  BY <1>8, <2>1, <2>2, BearsStep
 <2> QED BY <2>3
<1> QED BY <1>3, <1>7, <1>8, ServedStep

----
(* How a request's slot moves *)

Fresh(kind, step, client, name, to, rule) ==
    [kind |-> kind, step |-> step, client |-> client, name |-> name, to |-> to, rule |-> rule]

\* The request as it starts.
LEMMA FreshById ==
    ASSUME NEW a, NEW kind, NEW step, NEW c, NEW n,
           Starts(a, [Done EXCEPT !.kind = kind, !.step = step, !.client = c, !.name = n])
    PROVE  Starts(a, Fresh(kind, step, c, n, Nobody, 0))
<1> DEFINE k == [Done EXCEPT !.kind = kind, !.step = step, !.client = c, !.name = n]
<1>1. k \in [kind : {kind}, step : {step}, client : {c}, name : {n}, to : {Nobody}, rule : {0}]
 BY DEF Done
<1>2. Starts(a, k)
 OBVIOUS
<1> HIDE DEF k
<1>3. k = Fresh(kind, step, c, n, Nobody, 0)
 BY <1>1 DEF Fresh
<1> QED BY <1>2, <1>3

\* The request as it starts.
LEMMA FreshRedeem ==
    ASSUME NEW a, NEW kind, NEW step, NEW c,
           Starts(a, [Done EXCEPT !.kind = kind, !.step = step, !.client = c])
    PROVE  Starts(a, Fresh(kind, step, c, Nobody, Nobody, 0))
<1> DEFINE k == [Done EXCEPT !.kind = kind, !.step = step, !.client = c]
<1>1. k \in [kind : {kind}, step : {step}, client : {c}, name : {Nobody}, to : {Nobody}, rule : {0}]
 BY DEF Done
<1>2. Starts(a, k)
 OBVIOUS
<1> HIDE DEF k
<1>3. k = Fresh(kind, step, c, Nobody, Nobody, 0)
 BY <1>1 DEF Fresh
<1> QED BY <1>2, <1>3

\* The request as it starts.
LEMMA FreshPush ==
    ASSUME NEW a, NEW kind, NEW step, NEW n, NEW to,
           Starts(a, [Done EXCEPT !.kind = kind, !.step = step, !.name = n, !.to = to])
    PROVE  Starts(a, Fresh(kind, step, Nobody, n, to, 0))
<1> DEFINE k == [Done EXCEPT !.kind = kind, !.step = step, !.name = n, !.to = to]
<1>1. k \in [kind : {kind}, step : {step}, client : {Nobody}, name : {n}, to : {to}, rule : {0}]
 BY DEF Done
<1>2. Starts(a, k)
 OBVIOUS
<1> HIDE DEF k
<1>3. k = Fresh(kind, step, Nobody, n, to, 0)
 BY <1>1 DEF Fresh
<1> QED BY <1>2, <1>3

\* The request as it starts.
LEMMA FreshRemove ==
    ASSUME NEW a, NEW kind, NEW step, NEW c, NEW n, NEW r,
           Starts(a, [Done EXCEPT !.kind = kind, !.step = step, !.rule = r, !.client = c, !.name = n])
    PROVE  Starts(a, Fresh(kind, step, c, n, Nobody, r))
<1> DEFINE k == [Done EXCEPT !.kind = kind, !.step = step, !.rule = r, !.client = c, !.name = n]
<1>1. k \in [kind : {kind}, step : {step}, client : {c}, name : {n}, to : {Nobody}, rule : {r}]
 BY DEF Done
<1>2. Starts(a, k)
 OBVIOUS
<1> HIDE DEF k
<1>3. k = Fresh(kind, step, c, n, Nobody, r)
 BY <1>1 DEF Fresh
<1> QED BY <1>2, <1>3

\* An id the roster knows.
LEMMA ByIdStarts ==
    ASSUME NEW a, NEW kind, NEW c, NEW n, NEW step, ById(a, kind, c, n, step)
    PROVE  OnRoster(c) /\ Starts(a, Fresh(kind, step, c, n, Nobody, 0))
<1>1. OnRoster(c) /\ Starts(a, [Done EXCEPT !.kind = kind, !.step = step, !.client = c, !.name = n])
 BY DEF ById
<1> QED BY <1>1, FreshById

\* A request that starts takes a slot that was free.
LEMMA StartMoves ==
    ASSUME NamesType, NEW a \in Admins, NEW k, AskFits(k), Starts(a, k)
    PROVE  /\ SlotMoves(a, k) /\ asked' \in 0 .. MaxAsks
           /\ asks[a].kind = "none" /\ asks[a].client = Nobody
<1>1. asks[a] = Done /\ asks' = [asks EXCEPT ![a] = k] /\ asked < MaxAsks /\ asked' = asked + 1
 BY DEF Starts
<1>2. asked' \in 0 .. MaxAsks
 BY <1>1, RosterFacts DEF NamesType
<1>3. SlotMoves(a, k)
 BY <1>1, SlotSet DEF SlotMoves
<1> QED BY <1>1, <1>2, <1>3 DEF Done

\* A request that ends leaves its slot free.
LEMMA EndMoves ==
    ASSUME NamesType, NEW a \in Admins, Ends(a) PROVE SlotMoves(a, Done) /\ asked' \in 0 .. MaxAsks
<1>1. asks' = [asks EXCEPT ![a] = Done] /\ asked' = asked
 BY DEF Ends
<1> QED BY <1>1, SlotSet, NothingFits DEF SlotMoves, NamesType

\* An ended request says nothing.
LEMMA DoneSays ==
    ~NamesClient(Done) /\ Done.kind = "none" /\ Done.client = Nobody
  BY DEF Done, NamesClient

\* The fields of a request whose step or step and another field are set.
LEMMA FieldsSet ==
    ASSUME NamesType, NEW a \in Admins, NEW s, NEW x, NEW f \in {"step", "name", "client", "rule"},
           asks' = [asks EXCEPT ![a].step = s] \/ asks' = [asks EXCEPT ![a].step = s, ![a][f] = x],
           AskFits(asks'[a])
    PROVE  SlotMoves(a, asks'[a])
<1>1. asks \in [Admins -> RequestSlots]
 BY DEF NamesType
<1>2. DOMAIN asks' = Admins /\ \A b \in Admins : b # a => asks'[b] = asks[b]
 BY <1>1
<1>3. asks' \in [Admins -> RequestSlots]
 <2>1. \A b \in Admins : asks'[b] \in RequestSlots
  BY <1>1, <1>2 DEF AskFits
 <2>2. asks' = [b \in Admins |-> asks'[b]]
  BY <1>1
 <2> QED BY <2>1, <2>2
<1> QED BY <1>2, <1>3 DEF SlotMoves

----
(* The steps of the requests *)

\* A client whose name is kept knows its requests.
LEMMA AskOf ==
    ASSUME NamesInv, NEW a \in Admins
    PROVE  /\ NamesType /\ AskFits(asks[a]) /\ asks[a] \in RequestSlots
           /\ DOMAIN asks[a] = {"kind", "step", "client", "name", "to", "rule"}
           /\ \A c \in Fleet : /\ roster[c] \in RosterRow /\ live[c] \in Session
                               /\ OnRoster(c) => roster[c].name \in Labels
<1>1. NamesType /\ AskFits(asks[a]) /\ asks[a] \in RequestSlots
 BY DEF NamesInv, NamesType
<1>2. \A c \in Fleet : roster[c] \in RosterRow /\ live[c] \in Session
 BY <1>1 DEF NamesType
<1>3. \A c \in Fleet : OnRoster(c) => roster[c].name \in Labels
 BY <1>2 DEF OnRoster, RosterRow
<1>4. DOMAIN asks[a] = {"kind", "step", "client", "name", "to", "rule"}
 BY <1>1 DEF RequestSlots
<1> QED BY <1>1, <1>2, <1>3, <1>4

\* A request that reads the client's row first.
LEMMA ReadStarts ==
    ASSUME NamesInv, running, running' = running, Remember(Restored), NEW a \in Admins, NEW c \in Fleet,
           NEW kind, NEW step, NEW n, kind \in {"reenroll", "revoke", "delete"}, step \in {"create", "row"},
           n \in Labels \cup {Nobody}, kind = "reenroll" => n \in Labels,
           Starts(a, Fresh(kind, step, c, n, Nobody, 0)),
           UNCHANGED <<roster, codes, live, table, memory, nextNo, sent>>
    PROVE  NamesInv'
<1> DEFINE k == Fresh(kind, step, c, n, Nobody, 0)
<1>0. NamesType /\ codes \subseteq CodeRow
 BY DEF NamesInv, NamesType
<1>1. AskFits(k) /\ ~NamesClient(k) /\ k.kind \notin {"push", "rename"}
 BY RosterFacts DEF AskFits, RequestSlots, Fresh, NamesClient
<1>2. SlotMoves(a, k) /\ asked' \in 0 .. MaxAsks /\ asks[a].kind = "none"
 BY <1>0, <1>1, StartMoves
<1>3. codes' \subseteq CodeRow
 BY <1>0
<1> HIDE DEF k
<1> QED BY <1>1, <1>2, <1>3, SlotAlone

\* Requests that start and read, and codes.
LEMMA ReadsKeep ==
    ASSUME NamesInv, running, running' = running, Remember(Restored), NEW a \in Admins, NEW c \in Fleet,
           \/ \E n \in Labels, addr \in Address : EnrollClient(a, c, n, addr)
           \/ ReenrollRead(a, c) \/ RevokeRead(a, c) \/ DeleteRead(a, c)
    PROVE  NamesInv'
<1>0. NamesType /\ BorneInv /\ codes \subseteq CodeRow /\ (OnRoster(c) => roster[c].name \in Labels)
 BY AskOf DEF NamesInv, NamesType
<1>1. ASSUME NEW n \in Labels, NEW addr \in Address, EnrollClient(a, c, n, addr) PROVE NamesInv'
 <2>1. Starts(a, Done) /\ Issued(c, n, addr) /\ UNCHANGED <<roster, live, table, memory, nextNo, sent>>
  BY <1>1 DEF EnrollClient
 <2>2. codes' \subseteq CodeRow
  BY <1>0, <2>1 DEF Issued, CodeRow
 <2>3. SlotMoves(a, Done) /\ asked' \in 0 .. MaxAsks /\ asks[a].kind = "none"
  BY <1>0, <2>1, StartMoves, NothingFits
 <2>4. \A d \in Fleet : Done.client # d
  BY DoneSays, RosterFacts
 <2> QED BY <2>1, <2>2, <2>3, <2>4, DoneSays, SlotAlone
<1>3. CASE ReenrollRead(a, c)
 <2>1. /\ OnRoster(c) /\ Starts(a, Fresh("reenroll", "create", c, roster[c].name, Nobody, 0))
       /\ UNCHANGED <<roster, codes, live, table, memory, nextNo, sent>>
  BY <1>3, ByIdStarts DEF ReenrollRead
 <2> QED BY <1>0, <2>1, ReadStarts
<1>4. CASE RevokeRead(a, c)
 <2>1. /\ OnRoster(c) /\ Starts(a, Fresh("revoke", "row", c, Nobody, Nobody, 0))
       /\ UNCHANGED <<roster, codes, live, table, memory, nextNo, sent>>
  BY <1>4, ByIdStarts DEF RevokeRead
 <2> QED BY <1>0, <2>1, ReadStarts
<1>5. CASE DeleteRead(a, c)
 <2>1. /\ OnRoster(c) /\ Starts(a, Fresh("delete", "row", c, Nobody, Nobody, 0))
       /\ UNCHANGED <<roster, codes, live, table, memory, nextNo, sent>>
  BY <1>5, ByIdStarts DEF DeleteRead
 <2> QED BY <1>0, <2>1, ReadStarts
<1> QED BY <1>1, <1>3, <1>4, <1>5

\* The second step of a re-enrollment.
LEMMA CreateKeeps ==
    ASSUME NamesInv, running, running' = running, Remember(Restored), NEW a \in Admins, ReenrollCreate(a)
    PROVE  NamesInv'
<1>0. NamesType /\ codes \subseteq CodeRow /\ AskFits(asks[a]) /\ asks[a].kind = "reenroll" /\ Ends(a)
      /\ UNCHANGED <<roster, live, table, memory, nextNo, sent>>
 BY AskOf DEF NamesInv, NamesType, ReenrollCreate, AskAt
<1>1. codes' \subseteq CodeRow
 <2>1. asks[a].client \in Fleet /\ asks[a].name \in Labels
  BY <1>0 DEF AskFits
 <2>2. roster[asks[a].client].address \in Address \cup {Nobody}
  BY <2>1, AskOf DEF RosterRow
 <2> QED BY <1>0, <2>1, <2>2 DEF ReenrollCreate, Issued, CodeRow
<1>2. SlotMoves(a, Done) /\ asked' \in 0 .. MaxAsks
 BY <1>0, EndMoves
<1>3. \A d \in Fleet : Done.client # d
 BY DoneSays, RosterFacts
<1> QED BY <1>0, <1>1, <1>2, <1>3, DoneSays, SlotAlone

\* The step of a rename that reads the row back.
LEMMA RenameReadKeeps ==
    ASSUME NamesInv, running, running' = running, Remember(Restored), NEW a \in Admins, RenameRead(a)
    PROVE  NamesInv'
<1> DEFINE c == asks[a].client
<1>0. /\ NamesType /\ BorneInv /\ AskFits(asks[a]) /\ asks[a].kind = "rename" /\ asks[a].step = "read"
      /\ codes' \subseteq CodeRow /\ asked \in 0 .. MaxAsks
      /\ UNCHANGED <<roster, live, table, memory, nextNo, sent>>
 BY AskOf DEF NamesInv, NamesType, RenameRead, AskAt
<1>1. c \in Fleet
 BY <1>0 DEF AskFits
<1>2. CASE OnRoster(c)
 <2> DEFINE k == asks'[a]
 <2>1. asks' = [asks EXCEPT ![a].step = "memory", ![a].name = roster[c].name] /\ asked' = asked
  BY <1>2 DEF RenameRead
 <2> USE <1>0
 <2>2. roster[c].name \in Labels /\ c \in bearers[roster[c].name]
  BY <1>1, <1>2, AskOf DEF BorneInv
 <2>3. k = [asks[a] EXCEPT !.step = "memory", !.name = roster[c].name]
  BY <2>1 DEF NamesType
 <2>4. k \in RequestSlots /\ k.kind = "rename" /\ k.client = c /\ k.name = roster[c].name
  BY <2>2, <2>3, AskOf DEF RequestSlots
 <2>5. AskFits(k)
  BY <1>1, <2>2, <2>4 DEF AskFits, NamesClient
 <2>6. SlotMoves(a, k)
  BY <2>1, <2>5, FieldsSet
 <2> HIDE DEF k, c
 <2>7. \A d \in Fleet \ astray' : \A n \in Labels : Bears(d, n) =>
             /\ asks[a].kind = "rename" /\ asks[a].client = d => k.kind = "rename" /\ k.client = d
             /\ k.client = d /\ NamesClient(k) => k.name = n
             /\ k.client = d /\ k.kind = "rename" => roster[d].name = n
  BY <2>2, <2>4, RosterFacts DEF Bears, c
 <2>8. asked' \in 0 .. MaxAsks
  BY <2>1
 <2> QED BY <2>2, <2>4, <2>6, <2>7, <2>8, SlotAlone
<1>3. CASE ~OnRoster(c)
 <2>1. Ends(a)
  BY <1>3 DEF RenameRead
 <2>2. SlotMoves(a, Done) /\ asked' \in 0 .. MaxAsks
  BY <1>0, <2>1, EndMoves
 <2>3. \A d \in Fleet : Done.client # d
  BY DoneSays, RosterFacts
 <2>4. \A d \in Fleet : \A n \in Labels : Bears(d, n) => asks[a].client # d
  BY <1>0, <1>3, RosterFacts DEF Bears, OnRoster
 <2> QED BY <1>0, <2>2, <2>3, <2>4, DoneSays, SlotAlone
<1> QED BY <1>2, <1>3

\* Requests that set the row of a client but not its name.
LEMMA RowKeeps ==
    ASSUME NamesInv, running, running' = running, Remember(Restored), NEW a \in Admins, NEW k, SlotMoves(a, k),
           UNCHANGED <<codes, live, table, memory, nextNo, sent>>, asked' \in 0 .. MaxAsks,
           roster' \in [Fleet -> RosterRow], \A c \in Fleet : roster'[c].name = roster[c].name,
           ~NamesClient(k), k.kind \notin {"push", "rename"}, asks[a].kind # "rename"
    PROVE  NamesInv'
<1>0. NamesType /\ BorneInv
 BY DEF NamesInv
<1>1. NamesType'
 BY <1>0, SlotType DEF NamesType
<1>2. asks'[a] = k /\ \A b \in Admins : b # a => asks'[b] = asks[b]
 BY <1>0, SlotType
<1>3. BorneInv'
 BY <1>0, <1>1, <1>2, BorneStep
<1>4. ASSUME NEW c \in Fleet \ astray', NEW n \in Labels, Bears(c, n)
      PROVE  \E m \in Labels : Bears(c, m)'
 <2>1. live[c].stage # "none" => live[c].name = n
  BY <1>4 DEF Bears
 <2>2. \A r \in RuleNos : table[r].client = c => table[r].name = n
  BY <1>4 DEF Bears
 <2>3. Bears(c, n)'
  BY <1>4, <2>1, <2>2, BearsStep
 <2> QED BY <2>3
<1> QED BY <1>1, <1>3, <1>4, ServedStep

\* A revocation marks the row and leaves the name.
LEMMA RevokeKeeps ==
    ASSUME NamesInv, running, running' = running, Remember(Restored), NEW a \in Admins, RevokeRow(a)
    PROVE  NamesInv'
<1> DEFINE k == asks'[a]
<1>0. /\ NamesType /\ AskFits(asks[a]) /\ asks[a].kind = "revoke" /\ asked \in 0 .. MaxAsks
      /\ roster \in [Fleet -> RosterRow]
      /\ UNCHANGED <<codes, live, table, memory, nextNo, sent>>
 BY AskOf DEF NamesInv, NamesType, RevokeRow, AskAt
<1>1. asks[a].client \in Fleet
 BY <1>0 DEF AskFits
<1>2. asks' = [asks EXCEPT ![a].step = "cut"] /\ asked' = asked
 BY DEF RevokeRow, Proceeds
<1> USE <1>0
<1>3. k = [asks[a] EXCEPT !.step = "cut"]
 BY <1>2 DEF NamesType
<1>4. k \in RequestSlots /\ k.kind = "revoke" /\ k.client = asks[a].client
 BY <1>3, AskOf DEF RequestSlots
<1>5. AskFits(k) /\ ~NamesClient(k)
 BY <1>1, <1>4 DEF AskFits, NamesClient
<1>6. SlotMoves(a, k)
 BY <1>2, <1>5, FieldsSet
<1>7. roster' \in [Fleet -> RosterRow] /\ \A c \in Fleet : roster'[c].name = roster[c].name
 <2>1. PICK c \in Fleet : c = asks[a].client
  BY <1>1
 <2>2. roster' = roster \/ roster' = [roster EXCEPT ![c].revoked = TRUE]
  BY <2>1 DEF RevokeRow
 <2>3. CASE roster' = [roster EXCEPT ![c].revoked = TRUE]
  BY <2>3 DEF RosterRow
 <2> QED BY <2>2, <2>3
<1>8. asked' \in 0 .. MaxAsks
 BY <1>2
<1> HIDE DEF k
<1> QED BY <1>4, <1>5, <1>6, <1>7, <1>8, RowKeeps

\* A new address leaves the name.
LEMMA UpdateKeeps ==
    ASSUME NamesInv, running, running' = running, Remember(Restored), NEW a \in Admins, NEW c \in Fleet,
           NEW addr \in Address, UpdateClient(a, c, addr)
    PROVE  NamesInv'
<1>0. /\ NamesType /\ Starts(a, Done) /\ roster \in [Fleet -> RosterRow]
      /\ roster' = [roster EXCEPT ![c].address = addr]
      /\ UNCHANGED <<codes, live, table, memory, nextNo, sent>>
 BY DEF NamesInv, NamesType, UpdateClient, UpdatedRow
<1>1. roster' \in [Fleet -> RosterRow] /\ \A d \in Fleet : roster'[d].name = roster[d].name
 BY <1>0 DEF RosterRow
<1>2. SlotMoves(a, Done) /\ asked' \in 0 .. MaxAsks /\ asks[a].kind = "none"
 BY <1>0, StartMoves, NothingFits
<1> QED BY <1>0, <1>1, <1>2, DoneSays, RowKeeps

\* A row that goes takes no rename with it.
LEMMA DeleteKeeps ==
    ASSUME NamesInv, running, running' = running, Remember(Restored), NEW a \in Admins, DeleteRosterRow(a)
    PROVE  NamesInv'
<1> DEFINE c == asks[a].client
<1>0. /\ NamesType /\ BorneInv /\ AskFits(asks[a]) /\ asks[a].kind = "delete" /\ Ends(a)
      /\ roster \in [Fleet -> RosterRow]
      /\ UNCHANGED <<codes, live, table, memory, nextNo, sent>>
 BY AskOf DEF NamesInv, NamesType, DeleteRosterRow, AskAt
<1>1. c \in Fleet
 BY <1>0 DEF AskFits
<1>2. SlotMoves(a, Done) /\ asked' \in 0 .. MaxAsks
 BY <1>0, EndMoves
<1>3. /\ roster' \in [Fleet -> RosterRow]
      /\ \A d \in Fleet : d # c => roster'[d] = roster[d]
      /\ roster'[c] = roster[c] \/ roster'[c].name = Nobody
 <2>1. roster' = roster \/ roster' = [roster EXCEPT ![c] = NoRosterRow]
  BY DEF DeleteRosterRow
 <2>2. NoRosterRow.name = Nobody
  BY DEF NoRosterRow
 <2> QED BY <1>0, <1>1, <2>1, <2>2, NothingFits
<1>4. asks'[a] = Done /\ \A b \in Admins : b # a => asks'[b] = asks[b]
 BY <1>0, <1>2, SlotType
<1>5. NamesType'
 BY <1>0, <1>2, <1>3, SlotType DEF NamesType
<1>6. BorneInv'
 BY <1>0, <1>4, <1>5, DoneSays, BorneStep
<1>7. ASSUME NEW d \in Fleet \ astray', NEW n \in Labels, Bears(d, n), ~Contended(d)
      PROVE  \E m \in Labels : Bears(d, m)'
 <2>1. live[d].stage # "none" => live[d].name = n
  BY <1>7 DEF Bears
 <2>2. \A r \in RuleNos : table[r].client = d => table[r].name = n
  BY <1>7 DEF Bears
 <2>3. Done.client # d
  BY DoneSays, RosterFacts
 <2>4. CASE roster'[d].name = roster[d].name
  <3>1. Bears(d, n)'
   BY <1>0, <1>2, <1>7, <2>1, <2>2, <2>3, <2>4, BearsStep
  <3> QED BY <3>1
 <2>5. CASE d = c /\ roster'[d].name = Nobody
  <3>1. \A b \in Admins : ~(asks[b].kind = "rename" /\ asks[b].client = d)
   <4>1. About(a, d) /\ a \notin RenamingNow(d)
    BY <1>0, <2>5 DEF About, RenamingNow
   <4>2. RenamingNow(d) = {}
    BY <1>7, <4>1 DEF Contended
   <4> QED BY <4>2 DEF RenamingNow
  <3>2. \A b \in Admins : ~(asks'[b].kind = "rename" /\ asks'[b].client = d)
   BY <1>4, <2>3, <3>1
  <3>3. \A r \in RuleNos : memory[r].client = d => memory[r].name = n
   BY <1>7, <3>1 DEF Bears
  <3>4. \A b \in Admins : asks'[b].client = d /\ NamesClient(asks'[b]) => asks'[b].name = n
   BY <1>4, <1>7, <2>3 DEF Bears
  <3>5. \A b \in Admins : NamesClient(asks[b])' <=> NamesClient(asks'[b])
   BY DEF NamesClient
  <3>6. Bears(d, n)'
   BY <1>0, <2>1, <2>2, <2>5, <3>2, <3>3, <3>4, <3>5 DEF Bears
  <3> QED BY <3>6
 <2> QED BY <1>3, <2>4, <2>5
<1> QED BY <1>0, <1>5, <1>6, <1>7, ServedStep

\* A code redeemed: a client that was there keeps its name, a new one has that of
\* the code, and one deleted before is remembered.
LEMMA RedeemKeeps ==
    ASSUME NamesInv, running, running' = running, Remember(Restored), NEW a \in Admins,
           NEW code \in codes, RedeemCode(a, code)
    PROVE  NamesInv'
<1> DEFINE c == code.client
           k == Fresh("redeem", "cut", c, Nobody, Nobody, 0)
<1>0. /\ NamesType /\ BorneInv /\ codes \subseteq CodeRow /\ roster \in [Fleet -> RosterRow]
      /\ Starts(a, [Done EXCEPT !.kind = "redeem", !.step = "cut", !.client = c])
      /\ roster' = [roster EXCEPT ![c] = RedeemedRow(code)] /\ codes' = codes \ {code}
      /\ UNCHANGED <<live, table, memory, nextNo, sent>>
 BY DEF NamesInv, NamesType, RedeemCode
<1>1. c \in Fleet /\ code.name \in Labels /\ code.address \in Address \cup {Nobody}
 BY <1>0 DEF CodeRow
<1>2. Starts(a, k)
 BY <1>0, FreshRedeem
<1>3. AskFits(k) /\ ~NamesClient(k) /\ k.kind \notin {"push", "rename"}
 BY <1>1, RosterFacts DEF AskFits, RequestSlots, Fresh, NamesClient
<1>4. SlotMoves(a, k) /\ asked' \in 0 .. MaxAsks /\ asks[a].kind = "none"
 BY <1>0, <1>2, <1>3, StartMoves
<1>5. /\ RedeemedRow(code) \in RosterRow
      /\ RedeemedRow(code).name = IF OnRoster(c) THEN roster[c].name ELSE code.name
 <2>1. CASE OnRoster(c)
  <3>1. roster[c] \in RosterRow
   BY <1>0, <1>1
  <3>2. RedeemedRow(code) = [roster[c] EXCEPT !.revoked = FALSE,
                                !.address = IF code.address = Nobody THEN @ ELSE code.address]
   BY <2>1 DEF RedeemedRow
  <3> QED BY <1>1, <2>1, <3>1, <3>2 DEF RosterRow
 <2>2. CASE ~OnRoster(c)
  <3>1. RedeemedRow(code) = [name |-> code.name, revoked |-> FALSE, address |-> code.address]
   BY <2>2 DEF RedeemedRow
  <3> QED BY <1>1, <2>2, <3>1 DEF RosterRow
 <2> QED BY <2>1, <2>2
<1>6. /\ roster' \in [Fleet -> RosterRow] /\ \A d \in Fleet : d # c => roster'[d] = roster[d]
      /\ roster'[c].name = IF OnRoster(c) THEN roster[c].name ELSE code.name
 BY <1>0, <1>1, <1>5
<1> HIDE DEF k, c
<1>7. asks'[a] = k /\ \A b \in Admins : b # a => asks'[b] = asks[b]
 BY <1>0, <1>4, SlotType
<1>8. NamesType'
 BY <1>0, <1>4, <1>6, SlotType DEF NamesType
<1>9. BorneInv'
 BY <1>0, <1>3, <1>7, <1>8, BorneStep
<1>10. ASSUME NEW d \in Fleet \ astray', NEW n \in Labels, Bears(d, n)
      PROVE  \E m \in Labels : Bears(d, m)'
 <2>1. live[d].stage # "none" => live[d].name = n
  BY <1>10 DEF Bears
 <2>2. \A r \in RuleNos : table[r].client = d => table[r].name = n
  BY <1>10 DEF Bears
 <2>4. CASE roster'[d].name = roster[d].name
  <3>1. Bears(d, n)'
   BY <1>0, <1>3, <1>4, <1>10, <2>1, <2>2, <2>4, BearsStep
  <3> QED BY <3>1
 <2>5. CASE d = c /\ ~OnRoster(c)
  <3>1. roster'[c].name = code.name /\ code.name # Nobody
   BY <1>1, <1>6, <2>5, RosterFacts
  <3>2. \A m \in Labels : c \notin bearers[m]
   <4>1. OnRoster(c)'
    BY <3>1 DEF OnRoster
   <4>2. c \notin Restored
    BY <2>5 DEF Remember
   <4> QED BY <1>1, <2>5, <4>1, <4>2 DEF Restored
  <3>3. live[c].stage = "none"
   BY <1>0, <1>1, <3>2 DEF BorneInv, NamesType, WholeSession
  <3>4. \A r \in RuleNos : table[r].client # c /\ memory[r].client # c
   BY <1>0, <1>1, <3>2 DEF BorneInv, NamesType, WholeRow
  <3>5. \A b \in Admins : ~(asks[b].client = c /\ NamesClient(asks[b]))
   BY <1>0, <1>1, <3>2 DEF BorneInv, NamesType, AskFits
  <3>6. \A b \in Admins : ~(asks'[b].client = c /\ NamesClient(asks'[b]))
   BY <1>3, <1>7, <3>5
  <3>7. \A b \in Admins : NamesClient(asks[b])' <=> NamesClient(asks'[b])
   BY DEF NamesClient
  <3>8. Bears(d, code.name)'
   BY <1>0, <2>5, <3>1, <3>3, <3>4, <3>6, <3>7 DEF Bears
  <3> QED BY <1>1, <3>8
 <2> QED BY <1>6, <2>4, <2>5
<1> QED BY <1>0, <1>8, <1>9, <1>10, ServedStep

\* A rename nobody else is about leaves one name: rows and roster change at once.
LEMMA RenameKeeps ==
    ASSUME NamesInv, running, running' = running, Remember(Restored), NEW a \in Admins,
           NEW c \in Fleet, NEW new \in Labels, RenameRow(a, c, new)
    PROVE  NamesInv'
<1> DEFINE k == Fresh("rename", "read", c, Nobody, Nobody, 0)
<1>0. /\ NamesType /\ BorneInv /\ roster \in [Fleet -> RosterRow] /\ table \in [RuleNos -> RuleRow]
      /\ OnRoster(c) /\ Starts(a, k)
      /\ roster' = [roster EXCEPT ![c].name = new] /\ table' = RenamedRows(c, new)
      /\ UNCHANGED <<codes, live, memory, nextNo, sent>>
 BY ByIdStarts DEF NamesInv, NamesType, RenameRow
<1>1. AskFits(k) /\ ~NamesClient(k) /\ k.kind = "rename" /\ k.client = c
 BY RosterFacts DEF AskFits, RequestSlots, Fresh, NamesClient
<1>2. SlotMoves(a, k) /\ asked' \in 0 .. MaxAsks /\ asks[a].kind = "none"
 BY <1>0, <1>1, StartMoves
<1>3. /\ roster' \in [Fleet -> RosterRow] /\ \A d \in Fleet : d # c => roster'[d] = roster[d]
      /\ roster'[c].name = new
 BY <1>0 DEF RosterRow
<1>4. /\ table' \in [RuleNos -> RuleRow]
      /\ \A r \in RuleNos : /\ table'[r].client = table[r].client
                            /\ table'[r].name = IF table[r].client = c THEN new ELSE table[r].name
                            /\ table[r].client # c => table'[r] = table[r]
 <2>1. \A r \in RuleNos : table[r] \in RuleRow
  BY <1>0
 <2>2. table' = [r \in RuleNos |-> IF table[r].client = c THEN [table[r] EXCEPT !.name = new] ELSE table[r]]
  BY <1>0 DEF RenamedRows
 <2> QED BY <2>1, <2>2 DEF RuleRow
<1> HIDE DEF k
<1>5. asks'[a] = k /\ \A b \in Admins : b # a => asks'[b] = asks[b]
 BY <1>0, <1>2, SlotType
<1>6. \A r \in RuleNos : WholeRow(table[r])'
 BY <1>0, <1>4 DEF NamesType, WholeRow
<1>7. NamesType'
 BY <1>0, <1>2, <1>3, <1>4, <1>6, SlotType DEF NamesType
<1>8. BorneInv'
 <2>1. c \in bearers'[new]
  BY <1>3 DEF Remember
 <2>2. \A r \in RuleNos : table'[r].client \in Fleet =>
             table'[r] = table[r] \/ table'[r].client \in bearers'[table'[r].name]
  BY <1>4, <2>1
 <2> QED BY <1>0, <1>1, <1>5, <1>7, <2>2, BorneStep
<1>9. ASSUME NEW d \in Fleet \ astray', NEW n \in Labels, Bears(d, n), ~Contended(d)'
      PROVE  \E m \in Labels : Bears(d, m)'
 <2>1. CASE d # c
  <3>1. live[d].stage # "none" => live[d].name = n
   BY <1>9 DEF Bears
  <3>2. \A r \in RuleNos : table'[r].client = d => table'[r].name = n
   BY <1>4, <1>9, <2>1 DEF Bears
  <3>3. Bears(d, n)'
   BY <1>0, <1>1, <1>2, <1>3, <1>9, <2>1, <3>1, <3>2, BearsStep
  <3> QED BY <3>3
 <2>2. CASE d = c
  <3>1. a \in RenamingNow(c)'
   BY <1>1, <1>5 DEF RenamingNow
  <3>2. live'[c].stage = "none" /\ \A b \in Admins : About(b, c)' => RenamingNow(c)' = {b}
   BY <1>9, <2>2, <3>1 DEF Contended
  <3>3. \A b \in Admins : asks'[b].client = c => b = a
   BY <3>1, <3>2 DEF About
  <3>4. \A b \in Admins : NamesClient(asks[b])' <=> NamesClient(asks'[b])
   BY DEF NamesClient
  <3>5. Bears(c, new)'
   BY <1>1, <1>3, <1>4, <1>5, <3>2, <3>3, <3>4 DEF Bears
  <3> QED BY <2>2, <3>5
 <2> QED BY <2>1, <2>2
<1> QED BY <1>0, <1>7, <1>8, <1>9, ServedStep

----
(* The steps of the sessions *)

\* A client keeps its name when the requests stay where they are.
LEMMA BearsStill ==
    ASSUME NEW c \in Fleet, NEW n, Bears(c, n), UNCHANGED <<roster, table, memory, asks>>,
           live'[c].stage # "none" => live'[c].name = n
    PROVE  Bears(c, n)'
<1>1. \A b \in Admins : NamesClient(asks[b])' <=> NamesClient(asks[b])
 BY DEF NamesClient
<1> QED BY <1>1 DEF Bears

\* A session takes the name the row has, and keeps it until it ends.
LEMMA SessionsKeep ==
    ASSUME NamesInv, running, running' = running, Remember(Restored), NEW c \in Fleet,
           Verify(c) \/ RegisterSession(c) \/ SessionEnds(c)
    PROVE  NamesInv'
<1>0. /\ NamesType /\ BorneInv /\ live \in [Fleet -> Session] /\ roster \in [Fleet -> RosterRow]
      /\ UNCHANGED <<roster, codes, table, memory, nextNo, asks, asked, sent>>
 BY DEF NamesInv, NamesType, Verify, RegisterSession, SessionEnds
<1>1. /\ live' \in [Fleet -> Session] /\ \A d \in Fleet : d # c => live'[d] = live[d]
      /\ \/ live'[c].name = roster[c].name /\ OnRoster(c)
         \/ live'[c].name = live[c].name /\ live[c].stage # "none"
         \/ live'[c].stage = "none"
 <2>1. CASE Verify(c)
  <3>1. /\ OnRoster(c)
        /\ live' = [live EXCEPT ![c] = [stage |-> "arriving", name |-> roster[c].name]]
   BY <2>1 DEF Verify
  <3>2. roster[c].name \in Labels \cup {Nobody}
   BY <1>0 DEF RosterRow
  <3> QED BY <1>0, <3>1, <3>2 DEF Session
 <2>2. CASE RegisterSession(c)
  <3>1. live[c].stage = "arriving" /\ live' = [live EXCEPT ![c].stage = "open"]
   BY <2>2 DEF RegisterSession
  <3> QED BY <1>0, <3>1 DEF Session
 <2>3. CASE SessionEnds(c)
  <3>1. live' = [live EXCEPT ![c] = NoSession]
   BY <2>3 DEF SessionEnds
  <3> QED BY <1>0, <3>1, NothingFits DEF NoSession
 <2> QED BY <2>1, <2>2, <2>3
<1>2. OnRoster(c) => roster[c].name \in Labels /\ c \in bearers[roster[c].name]
 BY <1>0 DEF BorneInv, OnRoster, RosterRow
<1>3. \A d \in Fleet : WholeSession(live[d])'
 BY <1>0, <1>1, <1>2 DEF NamesType, WholeSession
<1>4. \A b \in Admins : AskFits(asks[b])'
 BY <1>0 DEF NamesType, AskFits, NamesClient
<1>5. NamesType'
 BY <1>0, <1>1, <1>3, <1>4 DEF NamesType
<1>6. BorneInv'
 <2>1. OnRoster(c) => c \in bearers'[roster[c].name]
  BY <1>0, <1>2, BearersGrow DEF NamesType
 <2>2. \A d \in Fleet : live'[d].stage # "none" =>
             \/ live'[d].name = live[d].name /\ live[d].stage # "none"
             \/ d \in bearers'[live'[d].name]
  BY <1>1, <2>1
 <2> QED BY <1>0, <1>5, <2>2, BorneStep
<1>7. ASSUME NEW d \in Fleet, NEW n \in Labels, Bears(d, n) PROVE \E m \in Labels : Bears(d, m)'
 <2>1. live'[d].stage # "none" => live'[d].name = n
  <3>1. live[d].stage # "none" => live[d].name = n
   BY <1>7 DEF Bears
  <3>2. OnRoster(d) => roster[d].name = n
   BY <1>7 DEF Bears, OnRoster
  <3> QED BY <1>1, <3>1, <3>2
 <2>2. Bears(d, n)'
  BY <1>0, <1>7, <2>1, BearsStill
 <2> QED BY <2>2
<1> QED BY <1>0, <1>5, <1>6, <1>7, ServedStep

\* A session that is cut keeps its name.
LEMMA DisconnectKeeps ==
    ASSUME NamesInv, running, running' = running, Remember(Restored), NEW a \in Admins, DisconnectClient(a)
    PROVE  NamesInv'
<1> DEFINE c == asks[a].client
<1>0. /\ NamesType /\ BorneInv /\ live \in [Fleet -> Session] /\ AskFits(asks[a])
      /\ asks[a].kind \in {"revoke", "redeem"} /\ Ends(a) /\ live' = Cancelled(c)
      /\ UNCHANGED <<roster, codes, table, memory, nextNo, sent>>
 BY AskOf DEF NamesInv, NamesType, DisconnectClient
<1> USE <1>0
<1>1. c \in Fleet
 BY DEF AskFits
<1> HIDE DEF c
<1>2. /\ live' \in [Fleet -> Session]
      /\ \A d \in Fleet : /\ live'[d].name = live[d].name
                          /\ live'[d].stage # "none" => live[d].stage # "none"
 <2>1. live' = live \/ (live[c].stage = "open" /\ live' = [live EXCEPT ![c].stage = "cancelled"])
  BY DEF Cancelled
 <2>2. CASE live[c].stage = "open" /\ live' = [live EXCEPT ![c].stage = "cancelled"]
  BY <1>1, <2>2 DEF Session
 <2> QED BY <2>1, <2>2
<1>3. \A d \in Fleet : WholeSession(live[d])'
 BY <1>2 DEF NamesType, WholeSession
<1>4. SlotMoves(a, Done) /\ asked' \in 0 .. MaxAsks
 BY EndMoves
<1>5. NamesType'
 BY <1>2, <1>3, <1>4, SlotType DEF NamesType
<1>6. asks'[a] = Done /\ \A b \in Admins : b # a => asks'[b] = asks[b]
 BY <1>4, SlotType
<1>7. BorneInv'
 BY <1>2, <1>5, <1>6, DoneSays, BorneStep
<1>8. ASSUME NEW d \in Fleet, NEW n \in Labels, Bears(d, n) PROVE \E m \in Labels : Bears(d, m)'
 <2>1. live'[d].stage # "none" => live'[d].name = n
  BY <1>2, <1>8 DEF Bears
 <2>2. \A r \in RuleNos : table[r].client = d => table[r].name = n
  BY <1>8 DEF Bears
 <2>3. Done.client # d
  BY DoneSays, RosterFacts
 <2>4. Bears(d, n)'
  BY <1>4, <1>8, <2>1, <2>2, <2>3, BearsStep
 <2> QED BY <2>4
<1> QED BY <1>5, <1>7, <1>8, ServedStep

----
(* The steps of the rules *)

\* A session of a name is of a client that bore it.
LEMMA SessionBorne ==
    ASSUME NamesInv, NEW n, NEW c \in SessionsNamed(n)
    PROVE  c \in Fleet /\ live[c].name = n /\ live[c].stage # "none" /\ n \in Labels /\ c \in bearers[n]
<1>1. c \in Fleet /\ live[c].name = n /\ live[c].stage # "none"
 BY DEF SessionsNamed, Open
<1>2. n \in Labels
 BY <1>1 DEF NamesInv, NamesType, WholeSession
<1> QED BY <1>1, <1>2 DEF NamesInv, BorneInv

\* A push looks a session of the name up, and then an id of the name.
LEMMA PushLooks ==
    ASSUME NamesInv, running, running' = running, Remember(Restored), NEW a \in Admins,
           (\E n \in Labels, c \in Fleet : PushHandles(a, n, c)) \/ PushId(a)
    PROVE  NamesInv'
<1>0. /\ NamesType /\ BorneInv /\ codes' \subseteq CodeRow /\ AskFits(asks[a]) /\ asked \in 0 .. MaxAsks
      /\ UNCHANGED <<roster, live, table, memory, nextNo, sent>>
 BY AskOf DEF NamesInv, NamesType, PushHandles, PushId
<1>1. ASSUME NEW n \in Labels, NEW c \in Fleet, PushHandles(a, n, c) PROVE NamesInv'
 <2> DEFINE k == Fresh("push", "id", Nobody, n, c, 0)
 <2>1. c \in SessionsNamed(n) /\ Starts(a, [Done EXCEPT !.kind = "push", !.step = "id", !.name = n, !.to = c])
  BY <1>1 DEF PushHandles
 <2>2. Starts(a, k)
  BY <2>1, FreshPush
 <2>3. AskFits(k) /\ ~NamesClient(k) /\ k.kind = "push" /\ k.to = c /\ k.name = n /\ k.client = Nobody
  BY RosterFacts DEF AskFits, RequestSlots, Fresh, NamesClient
 <2>4. SlotMoves(a, k) /\ asked' \in 0 .. MaxAsks /\ asks[a].kind = "none"
  BY <1>0, <2>2, <2>3, StartMoves
 <2>5. c \in bearers[n]
  BY <2>1, SessionBorne
 <2> HIDE DEF k
 <2> QED BY <1>0, <2>3, <2>4, <2>5, SlotAlone
<1>2. CASE PushId(a)
 <2>0. asks[a].kind = "push" /\ asks[a].to \in Fleet /\ asks[a].name \in Labels
       /\ asks[a].to \in bearers[asks[a].name]
  BY <1>0, <1>2 DEF PushId, AskAt, AskFits, BorneInv
 <2>1. CASE Ends(a)
  <3>1. SlotMoves(a, Done) /\ asked' \in 0 .. MaxAsks
   BY <1>0, <2>1, EndMoves
  <3>2. \A d \in Fleet : Done.client # d
   BY DoneSays, RosterFacts
  <3> QED BY <1>0, <2>0, <3>1, <3>2, DoneSays, SlotAlone
 <2>2. ASSUME NEW c \in SessionsNamed(asks[a].name), asked' = asked,
              asks' = [asks EXCEPT ![a].step = "memory", ![a].client = c]
       PROVE  NamesInv'
  <3> DEFINE k == asks'[a]
  <3>1. c \in Fleet /\ live[c].name = asks[a].name /\ live[c].stage # "none" /\ c \in bearers[asks[a].name]
   BY <2>2, SessionBorne
  <3>2. k = [asks[a] EXCEPT !.step = "memory", !.client = c]
   BY <1>0, <2>2 DEF NamesType
  <3>3. k \in RequestSlots /\ k.kind = "push" /\ k.client = c /\ k.name = asks[a].name /\ k.to = asks[a].to
        /\ k.step = "memory"
   BY <1>0, <2>0, <3>1, <3>2, AskOf DEF RequestSlots
  <3>4. AskFits(k)
   BY <2>0, <3>1, <3>3, RosterFacts DEF AskFits, NamesClient
  <3>5. SlotMoves(a, k)
   BY <1>0, <2>2, <3>4, FieldsSet
  <3> HIDE DEF k
  <3>6. \A d \in Fleet : \A n \in Labels : Bears(d, n) => (k.client = d => k.name = n)
   BY <3>1, <3>3 DEF Bears
  <3>7. asked' \in 0 .. MaxAsks
   BY <1>0, <2>2
  <3> QED BY <1>0, <2>0, <3>1, <3>3, <3>5, <3>6, <3>7, SlotAlone
 <2>3. \/ Ends(a)
       \/ \E c \in SessionsNamed(asks[a].name) :
             asks' = [asks EXCEPT ![a].step = "memory", ![a].client = c] /\ asked' = asked
  BY <1>2 DEF PushId
 <2> QED BY <2>1, <2>2, <2>3
<1> QED BY <1>1, <1>2

\* A request that names its client leaves that name, or nothing, on the rules it
\* touches.
LEMMA RulesKeep ==
    ASSUME NamesInv, running, running' = running, Remember(Restored), NEW a \in Admins, NEW k, SlotMoves(a, k),
           UNCHANGED <<roster, codes, live>>, asked' \in 0 .. MaxAsks, nextNo' \in 1 .. MaxRuleNo + 1,
           NEW x \in Fleet, NEW y \in Labels, x \in bearers[y],
           table' \in [RuleNos -> RuleRow], memory' \in [RuleNos -> RuleRow],
           \A r \in RuleNos : \/ table'[r] = table[r] \/ table'[r] = NoRuleRow
                              \/ table'[r].client = x /\ table'[r].name = y,
           \A r \in RuleNos : \/ memory'[r] = memory[r] \/ memory'[r] = NoRuleRow
                              \/ memory'[r].client = x /\ memory'[r].name = y,
           \A m \in sent' : \/ m \in sent
                            \/ /\ m.to \in Fleet \ {m.client} =>
                                     \E n \in Labels : {m.to, m.client} \subseteq bearers[n]
                               /\ m.what = "unsent" => m.client \in astray,
           NamesClient(k) => k.client = x /\ k.name = y,
           k.kind = "push" => k.to \in bearers[k.name],
           k.kind # "rename",
           asks[a].kind = "rename" => \A r \in RuleNos : memory'[r].client = asks[a].client => memory'[r].name = y,
           asks[a].kind = "rename" => asks[a].client = x,
           \A n \in Labels : x \notin astray' /\ Bears(x, n) /\ ~Contended(x)' => y = n
    PROVE  NamesInv'
<1>0. NamesType /\ BorneInv
 BY DEF NamesInv
<1>1. asks'[a] = k /\ (\A b \in Admins : b # a => asks'[b] = asks[b]) /\ AskFits(k)
 BY <1>0, SlotType DEF SlotMoves
<1>2. NoRuleRow.client = Nobody /\ NoRuleRow.name = Nobody
 BY DEF NoRuleRow
<1>3. \A r \in RuleNos : WholeRow(table[r])'
 BY <1>0, <1>2, RosterFacts DEF NamesType, WholeRow
<1>4. \A r \in RuleNos : WholeRow(memory[r])'
 BY <1>0, <1>2, RosterFacts DEF NamesType, WholeRow
<1>5. NamesType'
 BY <1>0, <1>3, <1>4, SlotType DEF NamesType
<1>6. \A n \in Labels : bearers[n] \subseteq bearers'[n]
 BY <1>0, <1>5, BearersGrow DEF NamesType
<1>7. BorneInv'
 <2>1. x \in bearers'[y]
  BY <1>6
 <2>2. \A r \in RuleNos : table'[r].client \in Fleet =>
             table'[r] = table[r] \/ table'[r].client \in bearers'[table'[r].name]
  BY <1>2, <2>1, RosterFacts
 <2>3. \A r \in RuleNos : memory'[r].client \in Fleet =>
             memory'[r] = memory[r] \/ memory'[r].client \in bearers'[memory'[r].name]
  BY <1>2, <2>1, RosterFacts
 <2>4. k.kind = "push" => k.to \in bearers'[k.name]
  BY <1>1, <1>6 DEF AskFits
 <2>5. \A b \in Admins : asks'[b] # asks[b] =>
             /\ NamesClient(asks'[b]) => asks'[b].client \in bearers'[asks'[b].name]
             /\ asks'[b].kind = "push" => asks'[b].to \in bearers'[asks'[b].name]
  BY <1>1, <2>1, <2>4
 <2>6. \A c \in Fleet : live'[c].stage # "none" =>
             \/ live'[c].name = live[c].name /\ live[c].stage # "none"
             \/ c \in bearers'[live'[c].name]
  OBVIOUS
 <2> QED BY <1>0, <1>5, <2>2, <2>3, <2>5, <2>6, BorneStep
<1>8. ASSUME NEW c \in Fleet \ astray', NEW n \in Labels, Bears(c, n), ~Contended(c)'
      PROVE  \E m \in Labels : Bears(c, m)'
 <2>0. x = c => y = n
  BY <1>8
 <2>1. live[c].stage # "none" => live[c].name = n
  BY <1>8 DEF Bears
 <2>2. \A r \in RuleNos : table'[r].client = c => table'[r].name = n
  BY <1>2, <1>8, <2>0, RosterFacts DEF Bears
 <2>3. \A r \in RuleNos : memory'[r].client = c => memory'[r].name = n \/ memory'[r] = memory[r]
  BY <1>2, <2>0, RosterFacts
 <2>4. asks[a].kind = "rename" /\ asks[a].client = c =>
          \A r \in RuleNos : memory'[r].client = c => memory'[r].name = n
  BY <2>0
 <2>5. k.client = c /\ NamesClient(k) => k.name = n
  BY <2>0
 <2>6. live'[c].stage # "none" => live'[c].name = n
  BY <2>1
 <2>7. roster'[c].name = roster[c].name
  OBVIOUS
 <2>8. Bears(c, n)'
  BY <1>8, <2>2, <2>3, <2>4, <2>5, <2>6, <2>7, BearsStep
 <2> QED BY <2>8
<1>9. \A m \in sent' : \/ m \in sent
                       \/ /\ m.to \in Fleet \ {m.client} =>
                                \E n \in Labels : {m.to, m.client} \subseteq bearers'[n]
                          /\ m.what = "unsent" => m.client \in astray'
 <2>1. astray \subseteq astray'
  BY DEF Remember
 <2>2. ASSUME NEW m, NEW n \in Labels, {m.to, m.client} \subseteq bearers[n]
       PROVE  {m.to, m.client} \subseteq bearers'[n]
  BY <1>6, <2>2
 <2> QED BY <2>1, <2>2
<1> QED BY <1>5, <1>7, <1>8, <1>9, ServedStep

\* What the request at slot a says of its client, once it names it.
LEMMA NamedClient ==
    ASSUME NamesInv, NEW a \in Admins, NamesClient(asks[a])
    PROVE  /\ asks[a].client \in Fleet /\ asks[a].name \in Labels
           /\ asks[a].client \in bearers[asks[a].name]
           /\ \A n \in Labels : Bears(asks[a].client, n) => asks[a].name = n
<1>1. asks[a].client \in Fleet /\ asks[a].name \in Labels
 BY AskOf DEF AskFits
<1> QED BY <1>1 DEF NamesInv, BorneInv, Bears

\* The last step of a rename: the rules in memory have the name the row had.
LEMMA RenameMemoryKeeps ==
    ASSUME NamesInv, running, running' = running, Remember(Restored), NEW a \in Admins, RenameMemory(a)
    PROVE  NamesInv'
<1> DEFINE x == asks[a].client
           y == asks[a].name
<1>0. /\ NamesType /\ AskFits(asks[a]) /\ asks[a].kind = "rename" /\ asks[a].step = "memory" /\ Ends(a)
      /\ table \in [RuleNos -> RuleRow] /\ memory \in [RuleNos -> RuleRow] /\ nextNo \in 1 .. MaxRuleNo + 1
      /\ memory' = [r \in RuleNos |-> IF memory[r].client = x
                                      THEN [memory[r] EXCEPT !.name = y] ELSE memory[r]]
      /\ UNCHANGED <<roster, codes, live, table, nextNo, sent>>
 BY AskOf DEF NamesInv, NamesType, RenameMemory, AskAt
<1>1. NamesClient(asks[a])
 BY <1>0 DEF NamesClient
<1>2. x \in Fleet /\ y \in Labels /\ x \in bearers[y] /\ \A n \in Labels : Bears(x, n) => y = n
 BY <1>1, NamedClient
<1>3. SlotMoves(a, Done) /\ asked' \in 0 .. MaxAsks
 BY <1>0, EndMoves
<1> HIDE DEF x, y
<1>4. /\ memory' \in [RuleNos -> RuleRow]
      /\ \A r \in RuleNos : \/ memory'[r] = memory[r] /\ memory[r].client # x
                            \/ memory'[r].client = x /\ memory'[r].name = y
 <2>1. \A r \in RuleNos : memory[r] \in RuleRow
  BY <1>0
 <2> QED BY <1>0, <1>2, <2>1 DEF RuleRow
<1>5. \A r \in RuleNos : memory'[r].client = x => memory'[r].name = y
 BY <1>4
<1>6. asks[a].client = x
 BY DEF x
<1>7. table' \in [RuleNos -> RuleRow] /\ nextNo' \in 1 .. MaxRuleNo + 1
 BY <1>0
<1>8. \A r \in RuleNos : memory'[r].client = asks[a].client => memory'[r].name = y
 BY <1>5, <1>6
<1>9. \A r \in RuleNos : \/ memory'[r] = memory[r] \/ memory'[r] = NoRuleRow
                         \/ memory'[r].client = x /\ memory'[r].name = y
 BY <1>4
<1>10. \A r \in RuleNos : table'[r] = table[r]
 BY <1>0
<1>11. \A m \in sent' : m \in sent
 BY <1>0
<1>12. ~NamesClient(Done) /\ Done.kind # "push" /\ Done.kind # "rename"
 BY DoneSays
<1>13. memory' \in [RuleNos -> RuleRow] /\ UNCHANGED <<roster, codes, live>>
 BY <1>0, <1>4
<1> QED BY <1>2, <1>3, <1>6, <1>7, <1>8, <1>9, <1>10, <1>11, <1>12, <1>13, RulesKeep

\* A push stores the rule in memory, under the client and the name it found.
LEMMA PushMemoryKeeps ==
    ASSUME NamesInv, running, running' = running, Remember(Restored), NEW a \in Admins, PushMemory(a)
    PROVE  NamesInv'
<1> DEFINE x == asks[a].client
           y == asks[a].name
           k == asks'[a]
<1>0. /\ NamesType /\ AskFits(asks[a]) /\ asks[a].kind = "push" /\ asks[a].step = "memory"
      /\ table \in [RuleNos -> RuleRow] /\ memory \in [RuleNos -> RuleRow] /\ nextNo \in 1 .. MaxRuleNo + 1
      /\ nextNo <= MaxRuleNo /\ nextNo' = nextNo + 1 /\ asked \in 0 .. MaxAsks
      /\ memory' = [memory EXCEPT ![nextNo] = [client |-> x, name |-> y]]
      /\ asks' = [asks EXCEPT ![a].step = "row", ![a].rule = nextNo]
      /\ UNCHANGED <<roster, codes, live, table, asked, sent>>
 BY AskOf DEF NamesInv, NamesType, PushMemory, AskAt
<1>1. NamesClient(asks[a]) /\ asks[a].to \in Fleet /\ asks[a].to \in bearers[y]
 BY <1>0, RosterFacts DEF NamesClient, AskFits, NamesInv, BorneInv
<1>2. x \in Fleet /\ y \in Labels /\ x \in bearers[y] /\ \A n \in Labels : Bears(x, n) => y = n
 BY <1>1, NamedClient
<1>3. nextNo \in RuleNos /\ nextNo \in 0 .. MaxRuleNo /\ nextNo' \in 1 .. MaxRuleNo + 1
 BY <1>0, RosterFacts
<1>4. k = [asks[a] EXCEPT !.step = "row", !.rule = nextNo]
 BY <1>0 DEF NamesType
<1>5. k \in RequestSlots /\ k.kind = "push" /\ k.client = x /\ k.name = y /\ k.to = asks[a].to
      /\ k.step = "row" /\ k.rule = nextNo
 <2>1. asks[a] \in RequestSlots
  BY AskOf
 <2>2. PICK no \in 0 .. MaxRuleNo : no = nextNo
  BY <1>3
 <2>3. k = [asks[a] EXCEPT !.step = "row", !.rule = no]
  BY <1>4, <2>2
 <2> HIDE DEF k
 <2>4. /\ k \in RequestSlots /\ k.kind = asks[a].kind /\ k.client = asks[a].client /\ k.name = asks[a].name
       /\ k.to = asks[a].to /\ k.step = "row" /\ k.rule = no
  BY ONLY <2>1, <2>3, no \in 0 .. MaxRuleNo DEF RequestSlots
 <2> QED BY <1>0, <2>2, <2>4
<1>6. AskFits(k)
 BY <1>1, <1>2, <1>3, <1>5 DEF AskFits, NamesClient
<1>7. SlotMoves(a, k)
 BY <1>0, <1>6, FieldsSet
<1> HIDE DEF x, y, k
<1>8. /\ memory' \in [RuleNos -> RuleRow]
      /\ \A r \in RuleNos : memory'[r] = memory[r] \/ (memory'[r].client = x /\ memory'[r].name = y)
 BY <1>0, <1>2, <1>3 DEF RuleRow
<1>9. table' \in [RuleNos -> RuleRow] /\ asked' \in 0 .. MaxAsks
 BY <1>0
<1>10. k.to \in bearers[k.name]
 BY <1>1, <1>5
<1> QED BY <1>0, <1>2, <1>3, <1>5, <1>7, <1>8, <1>9, <1>10, RulesKeep


\* The rows of a table after one of them is set.
LEMMA RowSet ==
    ASSUME NEW t \in [RuleNos -> RuleRow], NEW r \in RuleNos, NEW row \in RuleRow
    PROVE  /\ [t EXCEPT ![r] = row] \in [RuleNos -> RuleRow]
           /\ \A s \in RuleNos : [t EXCEPT ![r] = row][s] = IF s = r THEN row ELSE t[s]
  OBVIOUS

\* A request goes on to its next step.
LEMMA ProceedsMoves ==
    ASSUME NamesInv, NEW a \in Admins, NEW step, step \in {"send"}, asks[a].kind \in {"push", "remove"},
           asks[a].step = "row", Proceeds(a, step)
    PROVE  /\ SlotMoves(a, asks'[a]) /\ asked' \in 0 .. MaxAsks
           /\ asks'[a].kind = asks[a].kind /\ asks'[a].client = asks[a].client
           /\ asks'[a].name = asks[a].name /\ asks'[a].to = asks[a].to
<1> DEFINE k == asks'[a]
<1>0. /\ NamesType /\ AskFits(asks[a]) /\ asks[a] \in RequestSlots /\ asked \in 0 .. MaxAsks
      /\ asks' = [asks EXCEPT ![a].step = step] /\ asked' = asked
 BY AskOf DEF NamesInv, NamesType, Proceeds
<1>1. k = [asks[a] EXCEPT !.step = step]
 BY <1>0 DEF NamesType
<1>2. /\ k \in RequestSlots /\ k.kind = asks[a].kind /\ k.client = asks[a].client /\ k.name = asks[a].name
      /\ k.to = asks[a].to /\ k.rule = asks[a].rule /\ k.step = step
 BY <1>0, <1>1, AskOf DEF RequestSlots
<1>3. AskFits(k)
 <2> USE DEF AskFits
 <2>1. CASE asks[a].kind = "push"
  <3>1. asks[a].to \in Fleet /\ asks[a].name \in Labels /\ asks[a].client \in Fleet /\ asks[a].rule \in RuleNos
   BY <1>0, <2>1
  <3> QED BY <1>2, <2>1, <3>1 DEF NamesClient
 <2>2. CASE asks[a].kind = "remove"
  <3>1. asks[a].name \in Labels /\ asks[a].client \in Fleet /\ asks[a].rule \in RuleNos
   BY <1>0, <2>2 DEF NamesClient
  <3> QED BY <1>2, <2>2, <3>1 DEF NamesClient
 <2> QED BY <2>1, <2>2
<1>4. SlotMoves(a, k)
 BY <1>0, <1>3, FieldsSet
<1> QED BY <1>0, <1>2, <1>4

\* The row of the rule is written, or taken out, after memory was.
LEMMA RuleRowKeeps ==
    ASSUME NamesInv, running, running' = running, Remember(Restored), NEW a \in Admins,
           PushRow(a) \/ RemoveRow(a)
    PROVE  NamesInv'
<1> DEFINE x == asks[a].client
           y == asks[a].name
           k == asks'[a]
<1>0. /\ NamesType /\ AskFits(asks[a]) /\ asks[a].kind \in {"push", "remove"} /\ asks[a].step = "row"
      /\ table \in [RuleNos -> RuleRow] /\ memory \in [RuleNos -> RuleRow] /\ nextNo \in 1 .. MaxRuleNo + 1
      /\ Proceeds(a, "send")
      /\ UNCHANGED <<roster, codes, live, memory, nextNo, sent>>
 BY AskOf DEF NamesInv, NamesType, PushRow, RemoveRow, AskAt
<1>1. NamesClient(asks[a]) /\ asks[a].rule \in RuleNos
 BY <1>0, RosterFacts DEF NamesClient, AskFits
<1>2. x \in Fleet /\ y \in Labels /\ x \in bearers[y] /\ \A n \in Labels : Bears(x, n) => y = n
 BY <1>1, NamedClient
<1>3. /\ SlotMoves(a, k) /\ asked' \in 0 .. MaxAsks /\ k.kind = asks[a].kind
      /\ k.client = x /\ k.name = y /\ k.to = asks[a].to
 BY <1>0, ProceedsMoves
<1>4. k.kind = "push" => k.to \in bearers[k.name]
 BY <1>3 DEF NamesInv, BorneInv
<1>5. PICK row \in RuleRow : /\ table' = [table EXCEPT ![asks[a].rule] = row]
                             /\ row = NoRuleRow \/ (row.client = x /\ row.name = y)
 <2>1. NoRuleRow \in RuleRow
  BY NothingFits
 <2>2. [client |-> x, name |-> y] \in RuleRow
  BY <1>2 DEF RuleRow
 <2>3. \/ table' = [table EXCEPT ![asks[a].rule] = NoRuleRow]
       \/ table' = [table EXCEPT ![asks[a].rule] = [client |-> x, name |-> y]]
  BY DEF PushRow, RemoveRow
 <2> QED BY <2>1, <2>2, <2>3
<1> HIDE DEF x, y, k
<1>6. /\ table' \in [RuleNos -> RuleRow]
      /\ \A r \in RuleNos : \/ table'[r] = table[r] \/ table'[r] = NoRuleRow
                            \/ table'[r].client = x /\ table'[r].name = y
 BY <1>0, <1>1, <1>5, RowSet
<1>7. memory' \in [RuleNos -> RuleRow] /\ nextNo' \in 1 .. MaxRuleNo + 1 /\ \A r \in RuleNos : memory'[r] = memory[r]
 BY <1>0
<1>8. \A m \in sent' : m \in sent
 BY <1>0
<1>9. asks[a].kind # "rename" /\ k.kind # "rename" /\ UNCHANGED <<roster, codes, live>>
 BY <1>0, <1>3
<1> QED BY <1>2, <1>3, <1>4, <1>6, <1>7, <1>8, <1>9, RulesKeep

\* A removal starts with memory, and takes the client and the name from there; a
\* rename in progress is then under its feet.
LEMMA RemoveMemoryKeeps ==
    ASSUME NamesInv, running, running' = running, Remember(Restored), NEW a \in Admins,
           NEW rule \in RuleNos, RemoveMemory(a, rule)
    PROVE  NamesInv'
<1>p. PICK x, y : x = memory[rule].client /\ y = memory[rule].name
 OBVIOUS
<1> DEFINE k == Fresh("remove", "row", x, y, Nobody, rule)
<1>0. /\ NamesType /\ BorneInv /\ x # Nobody
      /\ table \in [RuleNos -> RuleRow] /\ memory \in [RuleNos -> RuleRow] /\ nextNo \in 1 .. MaxRuleNo + 1
      /\ Starts(a, k) /\ memory' = [memory EXCEPT ![rule] = NoRuleRow]
      /\ UNCHANGED <<roster, codes, live, table, nextNo, sent>>
 BY <1>p, FreshRemove DEF NamesInv, NamesType, RemoveMemory
<1>1. x \in Fleet /\ y \in Labels /\ x \in bearers[y]
 BY <1>0, <1>p DEF NamesType, WholeRow, RuleRow, BorneInv
<1>2. AskFits(k) /\ k.kind = "remove" /\ k.client = x /\ k.name = y /\ k.to = Nobody
 BY <1>1, RosterFacts DEF AskFits, RequestSlots, Fresh, NamesClient
<1>3. SlotMoves(a, k) /\ asked' \in 0 .. MaxAsks /\ asks[a].kind = "none"
 BY <1>0, <1>2, StartMoves
<1>4. asks'[a] = k /\ \A b \in Admins : b # a => asks'[b] = asks[b]
 BY <1>0, <1>3, SlotType
<1>5. ASSUME NEW n \in Labels, Bears(x, n), ~Contended(x)' PROVE y = n
 <2>1. ASSUME NEW b \in Admins, asks[b].kind = "rename", asks[b].client = x PROVE FALSE
  <3>1. b # a /\ b \in RenamingNow(x)'
   BY <1>3, <1>4, <2>1 DEF RenamingNow
  <3>2. About(a, x)' /\ a \notin RenamingNow(x)'
   BY <1>2, <1>4 DEF About, RenamingNow
  <3> QED BY <1>5, <3>1, <3>2 DEF Contended
 <2>2. y = n \/ \E b \in Admins : asks[b].kind = "rename" /\ asks[b].client = x
  BY <1>5, <1>p DEF Bears
 <2> QED BY <2>1, <2>2
<1> HIDE DEF k
<1>6. /\ memory' \in [RuleNos -> RuleRow]
      /\ \A r \in RuleNos : memory'[r] = memory[r] \/ memory'[r] = NoRuleRow
 BY <1>0, NothingFits, RowSet
<1>7. table' \in [RuleNos -> RuleRow] /\ nextNo' \in 1 .. MaxRuleNo + 1 /\ \A r \in RuleNos : table'[r] = table[r]
 BY <1>0
<1>8. \A m \in sent' : m \in sent
 BY <1>0
<1>9. UNCHANGED <<roster, codes, live>>
 BY <1>0
<1> QED BY <1>1, <1>2, <1>3, <1>5, <1>6, <1>7, <1>8, <1>9, RulesKeep


\* What is sent for a rule: a push to the session found first, a removal to a
\* session of the rule's name, if there is one.
LEMMA SentKeeps ==
    ASSUME NamesInv, running, running' = running, Remember(Restored), NEW a \in Admins,
           PushSent(a) \/ RemoveSent(a)
    PROVE  NamesInv'
<1> DEFINE x == asks[a].client
           y == asks[a].name
<1>0. /\ NamesType /\ AskFits(asks[a]) /\ asks[a].kind \in {"push", "remove"} /\ asks[a].step = "send" /\ Ends(a)
      /\ table \in [RuleNos -> RuleRow] /\ memory \in [RuleNos -> RuleRow] /\ nextNo \in 1 .. MaxRuleNo + 1
      /\ UNCHANGED <<roster, codes, live, table, memory, nextNo>>
 BY AskOf DEF NamesInv, NamesType, PushSent, RemoveSent, AskAt
<1>1. NamesClient(asks[a])
 BY <1>0, RosterFacts DEF NamesClient, AskFits
<1>2. x \in Fleet /\ y \in Labels /\ x \in bearers[y] /\ \A n \in Labels : Bears(x, n) => y = n
 BY <1>1, NamedClient
<1>3. SlotMoves(a, Done) /\ asked' \in 0 .. MaxAsks
 BY <1>0, EndMoves
<1>4. PICK what, rule, to : /\ sent' = sent \cup {Message(what, rule, x, to)}
                            /\ to \in Fleet => to \in bearers[y]
                            /\ what = "unsent" => x \in astray
 <2>1. CASE PushSent(a)
  <3>1. asks[a].to \in bearers[y] /\ sent' = sent \cup {Message("push", asks[a].rule, x, asks[a].to)}
   BY <2>1 DEF PushSent, AskAt, NamesInv, BorneInv
  <3> QED BY <3>1
 <2>2. CASE RemoveSent(a)
  <3>1. PICK to \in IF SessionsNamed(y) = {} THEN {Nobody} ELSE SessionsNamed(y) :
            sent' = sent \cup {Message(IF SessionsNamed(y) = {} /\ Open(x) THEN "unsent" ELSE "remove",
                                       asks[a].rule, x, to)}
   BY <2>2 DEF RemoveSent
  <3>2. to \in Fleet => to \in bearers[y]
   <4>1. to \in Fleet => to \in SessionsNamed(y)
    BY <3>1, RosterFacts
   <4> QED BY <4>1, SessionBorne
  <3>3. SessionsNamed(y) = {} /\ Open(x) => x \in astray
   <4> SUFFICES ASSUME SessionsNamed(y) = {}, Open(x), x \notin astray PROVE FALSE
    OBVIOUS
   <4>1. PICK n \in Labels : Bears(x, n)
    BY <1>2 DEF NamesInv, OneName
   <4>2. live[x].stage # "none"
    BY DEF Open
   <4>3. live[x].name = n /\ y = n
    BY <1>2, <4>1, <4>2 DEF Bears
   <4> QED BY <1>2, <4>3 DEF SessionsNamed
  <3> DEFINE what == IF SessionsNamed(y) = {} /\ Open(x) THEN "unsent" ELSE "remove"
  <3>4. sent' = sent \cup {Message(what, asks[a].rule, x, to)}
   BY <3>1
  <3>5. what = "unsent" => x \in astray
   BY <3>3
  <3> HIDE DEF what
  <3> QED BY <3>2, <3>4, <3>5
 <2> QED BY <2>1, <2>2
<1>5. \A m \in sent' : \/ m \in sent
                       \/ /\ m.to \in Fleet \ {m.client} =>
                                \E n \in Labels : {m.to, m.client} \subseteq bearers[n]
                          /\ m.what = "unsent" => m.client \in astray
 <2> DEFINE msg == Message(what, rule, x, to)
 <2>1. msg.to = to /\ msg.client = x /\ msg.what = what
  BY DEF Message
 <2>2. sent' = sent \cup {msg}
  BY <1>4
 <2> HIDE DEF msg
 <2>3. /\ msg.to \in Fleet \ {msg.client} => \E n \in Labels : {msg.to, msg.client} \subseteq bearers[n]
       /\ msg.what = "unsent" => msg.client \in astray
  BY <1>2, <1>4, <2>1
 <2> QED BY <2>2, <2>3
<1> HIDE DEF x, y
<1>6. /\ table' \in [RuleNos -> RuleRow] /\ \A r \in RuleNos : table'[r] = table[r]
      /\ memory' \in [RuleNos -> RuleRow] /\ \A r \in RuleNos : memory'[r] = memory[r]
      /\ nextNo' \in 1 .. MaxRuleNo + 1
 BY <1>0
<1>7. asks[a].kind # "rename" /\ UNCHANGED <<roster, codes, live>>
 BY <1>0
<1>8. ~NamesClient(Done) /\ Done.kind # "push" /\ Done.kind # "rename"
 BY DoneSays
<1> QED BY <1>2, <1>3, <1>5, <1>6, <1>7, <1>8, RulesKeep

----
(* The server's stop and start, and the commands in between *)

\* Requests that are all over name nobody.
LEMMA AllDone ==
    ASSUME \A a \in Admins : asks'[a] = Done, asks' \in [Admins -> RequestSlots]
    PROVE  /\ \A a \in Admins : AskFits(asks[a])'
           /\ \A a \in Admins : asks'[a].kind = "none" /\ asks'[a].client = Nobody
           /\ \A a \in Admins : ~NamesClient(asks'[a]) /\ ~NamesClient(asks[a])'
           /\ \A c \in Fleet : ~Contended(c)'
<1>1. \A a \in Admins : AskFits(asks'[a])
 BY NothingFits
<1>2. \A a \in Admins : AskFits(asks[a])'
 BY <1>1 DEF AskFits, NamesClient
<1>3. \A a \in Admins : asks'[a].kind = "none" /\ asks'[a].client = Nobody /\ ~NamesClient(asks'[a])
 BY DoneSays
<1>4. \A a \in Admins : ~NamesClient(asks[a])'
 BY <1>3 DEF NamesClient
<1>5. \A c \in Fleet : ~Contended(c)'
 BY <1>3 DEF Contended, RenamingNow
<1> QED BY <1>2, <1>3, <1>4, <1>5

\* A stop leaves the rows; a start reads them.
LEMMA StopKeeps ==
    ASSUME NamesInv, Remember(Restored), StopServer PROVE NamesInv'
<1>0. /\ NamesType /\ BorneInv /\ running' = FALSE
      /\ memory' = [r \in RuleNos |-> NoRuleRow] /\ live' = [c \in Fleet |-> NoSession]
      /\ asks' = [a \in Admins |-> Done] /\ sent' = {}
      /\ UNCHANGED <<roster, codes, table, nextNo, asked>>
 BY DEF NamesInv, StopServer
<1>1. asks' \in [Admins -> RequestSlots] /\ \A a \in Admins : asks'[a] = Done
 BY <1>0, NothingFits
<1>2. live' \in [Fleet -> Session] /\ \A c \in Fleet : live'[c] = NoSession /\ WholeSession(live'[c])
 BY <1>0, NothingFits
<1>3. memory' \in [RuleNos -> RuleRow] /\ \A r \in RuleNos : memory'[r] = NoRuleRow /\ WholeRow(memory'[r])
 BY <1>0, NothingFits
<1>4. NamesType'
 <2>1. \A c \in Fleet : WholeSession(live[c])'
  BY <1>2 DEF WholeSession
 <2>2. \A r \in RuleNos : WholeRow(memory[r])' /\ WholeRow(table[r])'
  BY <1>0, <1>3 DEF WholeRow, NamesType
 <2>3. running' \in BOOLEAN
  BY <1>0
 <2> QED BY <1>0, <1>1, <1>2, <1>3, <2>1, <2>2, <2>3, AllDone DEF NamesType
<1>5. NoSession.stage = "none" /\ NoRuleRow.client = Nobody
 BY DEF NoSession, NoRuleRow
<1>6. BorneInv'
 <2>1. \A c \in Fleet : live'[c].stage = "none"
  BY <1>2, <1>5
 <2>2. \A r \in RuleNos : memory'[r].client \notin Fleet
  BY <1>3, <1>5, RosterFacts
 <2>3. \A a \in Admins : ~NamesClient(asks'[a]) /\ asks'[a].kind # "push"
  BY <1>1, AllDone
 <2>4. \A r \in RuleNos : table'[r] = table[r]
  BY <1>0
 <2> QED BY <1>0, <1>4, <2>1, <2>2, <2>3, <2>4, BorneStep
<1>7. QuietInv'
 BY <1>1, <1>2, <1>3 DEF QuietInv
<1>8. ASSUME NEW c \in Fleet, NEW n \in Labels, Bears(c, n) PROVE \E m \in Labels : Bears(c, m)'
 <2>1. roster'[c].name \in {n, Nobody} /\ \A r \in RuleNos : table'[r].client = c => table'[r].name = n
  BY <1>0, <1>8 DEF Bears
 <2>2. live'[c].stage = "none" /\ \A r \in RuleNos : memory'[r].client # c
  BY <1>2, <1>3, <1>5, RosterFacts
 <2>3. \A a \in Admins : asks'[a].client # c
  BY <1>1, AllDone, RosterFacts
 <2>4. Bears(c, n)'
  BY <2>1, <2>2, <2>3 DEF Bears
 <2> QED BY <2>4
<1>9. \A m \in sent' : m \in sent
 BY <1>0
<1> QED BY <1>4, <1>6, <1>7, <1>8, <1>9, NamesStep

\* The next number after those of the rows.
LEMMA NextNoBounds ==
    ASSUME NEW S, S \subseteq RuleNos PROVE 1 + Cardinality(S) \in 1 .. MaxRuleNo + 1
<1>1. IsFiniteSet(RuleNos) /\ Cardinality(RuleNos) = MaxRuleNo
 BY FS_Interval, RosterFacts
<1>2. IsFiniteSet(S) /\ Cardinality(S) <= MaxRuleNo
 BY <1>1, FS_Subset
<1>3. Cardinality(S) \in Nat
 BY <1>2, FS_CardinalityType
<1> QED BY <1>2, <1>3, RosterFacts

\* What a stopped server holds.
LEMMA Quiet ==
    ASSUME NamesInv, ~running
    PROVE  /\ \A c \in Fleet : live[c].stage = "none"
           /\ \A r \in RuleNos : memory[r].client = Nobody
           /\ \A a \in Admins : asks[a] = Done
           /\ asks \in [Admins -> RequestSlots]
  BY DEF NamesInv, NamesType, QuietInv, NoSession, NoRuleRow


\* A start: the rules in memory are the rows.
LEMMA StartKeeps ==
    ASSUME NamesInv, Remember(Restored), StartServer PROVE NamesInv'
<1>0. /\ NamesType /\ BorneInv /\ ~running /\ running' = TRUE /\ memory' = table
      /\ nextNo' = 1 + Cardinality({r \in RuleNos : \E s \in r .. MaxRuleNo : table[s] # NoRuleRow})
      /\ UNCHANGED <<roster, codes, live, table, asks, asked, sent>>
 BY DEF NamesInv, StartServer
<1> USE <1>0
<1>1. /\ \A c \in Fleet : live[c].stage = "none"
      /\ \A a \in Admins : asks[a] = Done /\ asks'[a] = Done
      /\ asks' \in [Admins -> RequestSlots]
 BY Quiet
<1>2. nextNo' \in 1 .. MaxRuleNo + 1
 <2> DEFINE S == {r \in RuleNos : \E s \in r .. MaxRuleNo : table[s] # NoRuleRow}
 <2>1. S \subseteq RuleNos /\ nextNo' = 1 + Cardinality(S)
  OBVIOUS
 <2> HIDE DEF S
 <2> QED BY <2>1, NextNoBounds
<1>3. NamesType'
 <2>1. \A c \in Fleet : WholeSession(live[c])'
  BY DEF WholeSession, NamesType
 <2>2. \A r \in RuleNos : WholeRow(memory[r])' /\ WholeRow(table[r])'
  BY DEF WholeRow, NamesType
 <2>3. running' \in BOOLEAN
  OBVIOUS
 <2> QED BY <1>1, <1>2, <2>1, <2>2, <2>3, AllDone DEF NamesType
<1>4. BorneInv'
 <2>1. \A r \in RuleNos : table[r].client \in Fleet => table[r].client \in bearers'[table[r].name]
  <3>1. \A r \in RuleNos : table[r].client \in Fleet =>
           table[r].name \in Labels /\ table[r].client \in bearers[table[r].name]
   BY DEF NamesType, WholeRow, BorneInv
  <3> QED BY <1>3, <3>1, BearersGrow DEF NamesType
 <2>2. \A c \in Fleet : live'[c].stage = "none"
  BY <1>1
 <2>3. \A a \in Admins : asks'[a] = asks[a]
  BY <1>1
 <2> QED BY <1>3, <2>1, <2>2, <2>3, BorneStep
<1>5. QuietInv'
 BY DEF QuietInv
<1>6. ASSUME NEW c \in Fleet, NEW n \in Labels, Bears(c, n) PROVE \E m \in Labels : Bears(c, m)'
 <2>1. roster'[c].name \in {n, Nobody} /\ \A r \in RuleNos : table'[r].client = c => table'[r].name = n
  BY <1>6 DEF Bears
 <2>2. live'[c].stage = "none" /\ \A r \in RuleNos : memory'[r] = table'[r]
  BY <1>1
 <2>3. \A a \in Admins : asks'[a].client # c
  BY <1>1, AllDone, RosterFacts
 <2>4. Bears(c, n)'
  BY <2>1, <2>2, <2>3 DEF Bears
 <2> QED BY <2>4
<1>7. \A m \in sent' : m \in sent
 OBVIOUS
<1> QED BY <1>3, <1>4, <1>5, <1>6, <1>7, NamesStep

\* A command that edits the rows of a stopped server: whoever it renames has the
\* new name everywhere.
LEMMA CommandKeeps ==
    ASSUME NamesInv, Remember(Restored), ~running, running' = running,
           UNCHANGED <<codes, live, memory, nextNo, asks, sent>>, asked' \in 0 .. MaxAsks,
           roster' \in [Fleet -> RosterRow], table' \in [RuleNos -> RuleRow],
           NEW C \in SUBSET Fleet, NEW new \in Labels,
           \A d \in Fleet : roster'[d].name = IF d \in C THEN new ELSE roster[d].name,
           \A r \in RuleNos : /\ table'[r].client = table[r].client
                              /\ table[r].client \in C => table'[r].name = new
                              /\ table[r].client \notin C => table'[r] = table[r]
    PROVE  NamesInv'
<1>0. NamesType /\ BorneInv /\ QuietInv
 BY DEF NamesInv
<1>1. /\ \A d \in Fleet : live[d].stage = "none"
      /\ \A r \in RuleNos : memory[r].client = Nobody
      /\ \A a \in Admins : asks[a] = Done /\ asks'[a] = Done
      /\ asks' \in [Admins -> RequestSlots]
 BY Quiet
<1>3. NamesType'
 <2> USE <1>0 DEF NamesType
 <2>1. \A d \in Fleet : WholeSession(live[d])'
  BY DEF WholeSession
 <2>2. \A r \in RuleNos : WholeRow(memory[r])' /\ WholeRow(table[r])'
  BY DEF WholeRow
 <2> QED BY <1>1, <2>1, <2>2, AllDone
<1>4. BorneInv'
 <2>1. \A d \in C : d \in bearers'[new]
  BY DEF Remember
 <2>2. \A r \in RuleNos : table'[r].client \in Fleet =>
             table'[r] = table[r] \/ table'[r].client \in bearers'[table'[r].name]
  BY <2>1
 <2> QED BY <1>0, <1>3, <2>2, BorneStep
<1>5. QuietInv'
 BY <1>0 DEF QuietInv
<1>6. ASSUME NEW d \in Fleet, NEW n \in Labels, Bears(d, n) PROVE \E m \in Labels : Bears(d, m)'
 <2>1. live'[d].stage = "none" /\ \A r \in RuleNos : memory'[r].client # d
  BY <1>1, RosterFacts
 <2>2. \A a \in Admins : asks'[a].client # d
  BY <1>1, AllDone, RosterFacts
 <2>3. CASE d \in C
  <3>1. Bears(d, new)'
   BY <2>1, <2>2, <2>3 DEF Bears
  <3> QED BY <3>1
 <2>4. CASE d \notin C
  <3>1. roster'[d].name \in {n, Nobody} /\ \A r \in RuleNos : table'[r].client = d => table'[r].name = n
   BY <1>6, <2>4 DEF Bears
  <3>2. Bears(d, n)'
   BY <2>1, <2>2, <3>1 DEF Bears
  <3> QED BY <3>2
 <2> QED BY <2>3, <2>4
<1>7. \A m \in sent' : m \in sent
 OBVIOUS
<1> QED BY <1>3, <1>4, <1>5, <1>6, <1>7, NamesStep

\* The two commands of a stopped server.
LEMMA OfflineKeeps ==
    ASSUME NamesInv, Remember(Restored), NEW new \in Labels,
           OfflineRevoke(new) \/ \E c \in Fleet : OfflineRename(c, new)
    PROVE  NamesInv'
<1>0. /\ NamesType /\ roster \in [Fleet -> RosterRow] /\ table \in [RuleNos -> RuleRow]
      /\ ~running /\ running' = running /\ asked < MaxAsks /\ asked' = asked + 1
      /\ UNCHANGED <<codes, live, memory, nextNo, asks, sent>>
 BY DEF NamesInv, NamesType, OfflineRevoke, OfflineRename
<1>1. asked' \in 0 .. MaxAsks
 BY <1>0, RosterFacts DEF NamesType
<1>2. CASE OfflineRevoke(new)
 <2>1. /\ roster' = [c \in Fleet |-> IF roster[c].name = new THEN [roster[c] EXCEPT !.revoked = TRUE]
                                                             ELSE roster[c]]
       /\ table' = table
  BY <1>2 DEF OfflineRevoke
 <2>2. roster' \in [Fleet -> RosterRow] /\ \A d \in Fleet : roster'[d].name = roster[d].name
  BY <1>0, <2>1 DEF RosterRow
 <2>0. PICK C \in SUBSET Fleet : C = {}
  OBVIOUS
 <2>3. \A d \in Fleet : roster'[d].name = IF d \in C THEN new ELSE roster[d].name
  BY <2>0, <2>2
 <2>4. /\ table' \in [RuleNos -> RuleRow]
       /\ \A r \in RuleNos : /\ table'[r].client = table[r].client
                             /\ table[r].client \in C => table'[r].name = new
                             /\ table[r].client \notin C => table'[r] = table[r]
  BY <1>0, <2>0, <2>1
 <2> QED BY ONLY NamesInv, Remember(Restored), new \in Labels, <1>0, <1>1, <2>2, <2>3, <2>4,
   C \in SUBSET Fleet, CommandKeeps
<1>3. ASSUME NEW c \in Fleet, OfflineRename(c, new) PROVE NamesInv'
 <2>1. roster' = [roster EXCEPT ![c].name = new] /\ table' = RenamedRows(c, new)
  BY <1>3 DEF OfflineRename
 <2>2. /\ roster' \in [Fleet -> RosterRow] /\ \A d \in Fleet : d # c => roster'[d] = roster[d]
       /\ roster'[c].name = new
  BY <1>0, <2>1 DEF RosterRow
 <2>3. /\ table' \in [RuleNos -> RuleRow]
       /\ \A r \in RuleNos : /\ table'[r].client = table[r].client
                             /\ table'[r].name = IF table[r].client = c THEN new ELSE table[r].name
                             /\ table[r].client # c => table'[r] = table[r]
  <3>1. \A r \in RuleNos : table[r] \in RuleRow
   BY <1>0
  <3>2. table' = [r \in RuleNos |-> IF table[r].client = c THEN [table[r] EXCEPT !.name = new] ELSE table[r]]
   BY <2>1 DEF RenamedRows
  <3> QED BY <3>1, <3>2 DEF RuleRow
 <2>4. \A d \in Fleet : roster'[d].name = IF d \in {c} THEN new ELSE roster[d].name
  BY <2>2
 <2>5. /\ {c} \in SUBSET Fleet
       /\ \A r \in RuleNos : /\ table'[r].client = table[r].client
                             /\ table[r].client \in {c} => table'[r].name = new
                             /\ table[r].client \notin {c} => table'[r] = table[r]
  BY <2>3
 <2> QED BY <1>0, <1>1, <2>2, <2>3, <2>4, <2>5, CommandKeeps
<1> QED BY <1>2, <1>3

----
(* The invariant *)

\* A database with one client's rule and code.
LEMMA NamesInit ==
    ASSUME AdminInit PROVE NamesInv
<1>1. PICK c \in Fleet, n \in Labels :
          /\ OnRoster(c)
          /\ codes = {[client |-> c, name |-> n, address |-> Nobody]}
          /\ bearers = [m \in Labels |-> {d \in Fleet : roster[d].name = m} \cup IF m = n THEN {c} ELSE {}]
          /\ table = [r \in RuleNos |-> IF r = 1 THEN [client |-> c, name |-> roster[c].name] ELSE NoRuleRow]
 BY DEF AdminInit
<1>2. /\ running = TRUE /\ live = [d \in Fleet |-> NoSession] /\ memory = table /\ nextNo = 2
      /\ asks = [a \in Admins |-> Done] /\ asked = 0 /\ sent = {} /\ astray = {}
      /\ roster \in [Fleet -> {NoRosterRow} \cup {RowOf(m, v) : m \in Labels, v \in BOOLEAN}]
 BY DEF AdminInit
<1>3. roster \in [Fleet -> RosterRow] /\ roster[c].name \in Labels
 <2>1. \A m \in Labels, v \in BOOLEAN : RowOf(m, v) \in RosterRow
  BY DEF RowOf, RosterRow
 <2>2. {NoRosterRow} \cup {RowOf(m, v) : m \in Labels, v \in BOOLEAN} \subseteq RosterRow
  BY <2>1, NothingFits
 <2>3. roster \in [Fleet -> RosterRow]
  BY <1>2, <2>2
 <2> QED BY <1>1, <2>3 DEF OnRoster, RosterRow
<1>4. /\ table \in [RuleNos -> RuleRow]
      /\ \A r \in RuleNos : \/ table[r] = NoRuleRow
                            \/ table[r].client = c /\ table[r].name = roster[c].name
 <2>1. [client |-> c, name |-> roster[c].name] \in RuleRow
  BY <1>3 DEF RuleRow
 <2> QED BY <1>1, <2>1, NothingFits
<1>5. \A d \in Fleet : live[d] = NoSession /\ live[d].stage = "none"
 BY <1>2 DEF NoSession
<1>6. \A a \in Admins : asks[a] = Done /\ asks[a].kind = "none" /\ asks[a].client = Nobody /\ ~NamesClient(asks[a])
 BY <1>2, DoneSays
<1>7. NamesType
 <2>1. codes \subseteq CodeRow
  BY <1>1 DEF CodeRow
 <2>2. \A r \in RuleNos : WholeRow(table[r])
  BY <1>3, <1>4, NothingFits DEF WholeRow, RuleRow
 <2>3. live \in [Fleet -> Session] /\ \A d \in Fleet : WholeSession(live[d])
  BY <1>2, NothingFits
 <2>4. asks \in [Admins -> RequestSlots] /\ \A a \in Admins : AskFits(asks[a])
  BY <1>2, NothingFits
 <2>5. nextNo \in 1 .. MaxRuleNo + 1 /\ asked \in 0 .. MaxAsks /\ running \in BOOLEAN
  BY <1>2, RosterFacts
 <2> QED BY <1>2, <1>3, <1>4, <2>1, <2>2, <2>3, <2>4, <2>5 DEF NamesType
<1>8. BorneInv
 <2>1. bearers \in [Labels -> SUBSET Fleet]
  BY <1>1
 <2>2. \A d \in Fleet : OnRoster(d) => roster[d].name \in Labels /\ d \in bearers[roster[d].name]
  BY <1>1, <1>3 DEF OnRoster, RosterRow
 <2>3. ASSUME NEW r \in RuleNos, table[r].client \in Fleet PROVE table[r].client \in bearers[table[r].name]
  <3>1. NoRuleRow.client \notin Fleet
   BY RosterFacts DEF NoRuleRow
  <3>2. table[r].client = c /\ table[r].name = roster[c].name
   BY <1>4, <2>3, <3>1
  <3>3. c \in bearers[roster[c].name]
   BY <1>1, <2>2
  <3> QED BY <3>2, <3>3
 <2>4. \A r \in RuleNos : table[r].client \in Fleet => table[r].client \in bearers[table[r].name]
  BY <2>3
 <2>5. \A a \in Admins : ~NamesClient(asks[a]) /\ asks[a].kind # "push"
  BY <1>6
 <2> QED BY <1>2, <1>5, <2>1, <2>2, <2>4, <2>5 DEF BorneInv
<1>9. OneName
 <2>1. ASSUME NEW d \in Fleet PROVE ~Contended(d) /\ \E m \in Labels : Bears(d, m)
  <3>1. ~Contended(d)
   BY <1>6 DEF Contended, RenamingNow
  <3>2. PICK m \in Labels : roster[d].name \in {m, Nobody} /\ (d = c => m = roster[c].name)
   BY <1>3 DEF RosterRow
  <3>3. \A r \in RuleNos : table[r].client = d => table[r].name = m
   BY <1>4, <3>2, RosterFacts DEF NoRuleRow
  <3>4. \A a \in Admins : asks[a].client # d
   BY <1>6, RosterFacts
  <3>5. Bears(d, m)
   BY <1>2, <1>5, <3>2, <3>3, <3>4 DEF Bears
  <3> QED BY <3>1, <3>5
 <2> QED BY <2>1 DEF OneName
<1> QED BY <1>2, <1>7, <1>8, <1>9 DEF NamesInv, QuietInv, DeliveredByName, RemovalTold

\* Every step of the requests, the sessions and the server keeps the names in step.
LEMMA NamesNext ==
    ASSUME NamesInv, AdminNext PROVE NamesInv'
<1>0. AdminStep /\ Remember(Restored)
 BY DEF AdminNext
<1> USE <1>0
<1>1. ASSUME running, running' = running, Served PROVE NamesInv'
 <2> USE <1>1
 <2>1. ASSUME NEW a \in Admins, NEW role \in Roles, NEW c \in Fleet,
         \/ \E n \in Labels, addr \in {"ip", "url"} : PostClientEnrollments(a, role, c, n, addr)
         \/ \E addr \in {"host", "host and port"} : PutClient(a, role, c, addr)
         \/ \E n \in Labels : PatchClientName(a, role, c, n)
         \/ PostClientReenrollment(a, role, c)
         \/ PostRevoke(a, role, c)
         \/ DeleteClient(a, role, c)
       PROVE  NamesInv'
  <3>1. {"ip", "url"} \subseteq Address /\ {"host", "host and port"} \subseteq Address
   BY DEF Address
  <3>2. CASE \E n \in Labels, addr \in {"ip", "url"} : PostClientEnrollments(a, role, c, n, addr)
   BY <3>1, <3>2, ReadsKeep DEF PostClientEnrollments
  <3>3. CASE \E addr \in {"host", "host and port"} : PutClient(a, role, c, addr)
   BY <3>1, <3>3, UpdateKeeps DEF PutClient
  <3>4. CASE \E n \in Labels : PatchClientName(a, role, c, n)
   BY <3>4, RenameKeeps DEF PatchClientName
  <3>5. CASE PostClientReenrollment(a, role, c) \/ PostRevoke(a, role, c) \/ DeleteClient(a, role, c)
   BY <3>5, ReadsKeep DEF PostClientReenrollment, PostRevoke, DeleteClient
  <3> QED BY <2>1, <3>2, <3>3, <3>4, <3>5
 <2>2. ASSUME NEW a \in Admins,
         \/ ReenrollCreate(a) \/ RevokeRow(a) \/ DisconnectClient(a) \/ DeleteRosterRow(a)
         \/ RenameRead(a) \/ RenameMemory(a)
       PROVE  NamesInv'
  BY <2>2, CreateKeeps, RevokeKeeps, DisconnectKeeps, DeleteKeeps, RenameReadKeeps,
   RenameMemoryKeeps
 <2>3. ASSUME NEW a \in Admins,
         \/ PushId(a) \/ PushMemory(a) \/ PushRow(a) \/ PushSent(a) \/ RemoveRow(a) \/ RemoveSent(a)
         \/ \E n \in Labels, c \in Fleet : PushHandles(a, n, c)
         \/ \E r \in RuleNos : RemoveMemory(a, r)
         \/ \E k \in codes : RedeemCode(a, k)
       PROVE  NamesInv'
  BY <2>3, PushLooks, PushMemoryKeeps, RuleRowKeeps, SentKeeps, RemoveMemoryKeeps, RedeemKeeps
 <2>4. ASSUME NEW c \in Fleet, Verify(c) \/ RegisterSession(c) \/ SessionEnds(c) PROVE NamesInv'
  BY <2>4, SessionsKeep
 <2> QED BY <2>1, <2>2, <2>3, <2>4 DEF Served
<1>2. CASE StopServer
 BY <1>2, StopKeeps
<1>3. CASE StartServer
 BY <1>3, StartKeeps
<1>4. ASSUME NEW n \in Labels, OfflineRevoke(n) \/ \E c \in Fleet : OfflineRename(c, n) PROVE NamesInv'
 BY <1>4, OfflineKeeps
<1> QED BY <1>1, <1>2, <1>3, <1>4 DEF AdminStep

\* A step that changes nothing.
LEMMA NamesStutter ==
    ASSUME NamesInv, UNCHANGED adminVars PROVE NamesInv'
  BY DEF adminVars, NamesInv, NamesType, BorneInv, QuietInv, DeliveredByName, RemovalTold, OneName,
   Bears, Contended, RenamingNow, About, OnRoster, WholeSession, WholeRow, AskFits, NamesClient

\* The invariant gives what the runs check.
LEMMA NamesInvSound ==
    ASSUME NamesInv PROVE NamesSound
<1>1. AdminTypeOK
 BY DEF NamesInv, NamesType, AdminTypeOK, RosterRow, CodeRow, Session, RuleRow
<1>2. LockStep
 <2>1. ASSUME NEW c \in Fleet \ astray, OnRoster(c), NEW r \in RuleNos
       PROVE  /\ table[r].client = c => table[r].name = roster[c].name
              /\ memory[r].client = c /\ RenamingNow(c) = {} => memory[r].name = roster[c].name
  <3>1. PICK n \in Labels : Bears(c, n)
   BY DEF NamesInv, OneName
  <3>2. roster[c].name = n
   BY <2>1, <3>1 DEF Bears, OnRoster
  <3>3. RenamingNow(c) = {} => \A a \in Admins : ~(asks[a].kind = "rename" /\ asks[a].client = c)
   BY DEF RenamingNow
  <3> QED BY <3>1, <3>2, <3>3 DEF Bears
 <2> QED BY <2>1 DEF LockStep
<1> QED BY <1>1, <1>2 DEF NamesInv, NamesSound

\* Every behaviour of the roster keeps the display names in step with the stable
\* ids: what is sent for a rule reaches only clients that bore the rule's name, a
\* removal leaves a connected client untold only after a rename or a restore under
\* its feet, and a client renamed alone has one name in rows and memory.
THEOREM NamesAreSound == AdminSpec => []NamesSound
<1>1. AdminInit => NamesInv
 BY NamesInit
<1>2. NamesInv /\ [AdminNext]_adminVars => NamesInv'
 BY NamesNext, NamesStutter
<1>3. NamesInv => NamesSound
 BY NamesInvSound
<1> QED BY <1>1, <1>2, <1>3, PTL DEF AdminSpec
=============================================================================
