----------------------------- MODULE QuotaHandle -----------------------------
(***************************************************************************)
(* The client's budget of one (user, client) pair at the level of its two  *)
(* atomics, remaining and exhausted (forwarder/quota/mod.rs), and the data *)
(* paths that draw from it: TCP copy loops, which debit a chunk before     *)
(* they write it; the batched UDP listener, which debits a datagram before *)
(* it is queued and gives back what the kernel did not take; and whatever  *)
(* else sends UDP datagrams, which debits them after they were sent.       *)
(* Every atomic operation is a step of its own.  The scope manager         *)
(* replaces the contents of the handle while all of this is going on.      *)
(***************************************************************************)
EXTENDS Integers

CONSTANTS TcpCopies,   \* copy directions of TCP connections
          UdpSends,    \* tasks that send UDP datagrams
          DrawSizes,       \* bytes of a chunk or datagram
          Budgets,     \* budgets the server installs
          MaxInstalls, \* bound: replacements of the contents
          MaxUnpaid    \* bound: unpaid bytes after which no more replies come

ASSUME QuotaSizes == DrawSizes \subseteq Nat \ {0}
ASSUME QuotaBudgets == Budgets \subseteq Nat
ASSUME QuotaInstalls == MaxInstalls \in Nat /\ MaxUnpaid \in Nat
ASSUME QuotaUsersDiffer == TcpCopies \cap UdpSends = {}

VARIABLES remaining,   \* AtomicI64
          exhausted,   \* AtomicBool
          user,        \* what each data path is doing
          setter,      \* replace(): the state it carries and how far it is
          installs,    \* replacements so far
          account      \* history: bytes installed, granted, lost, delivered, unpaid

quotaVars == <<remaining, exhausted, user, setter, installs, account>>

Consumers == TcpCopies \cup UdpSends

AtLeastZero(n) == IF n < 0 THEN 0 ELSE n

\* A data path at pc with n bytes in hand; consume() has not looked yet.
Phase(pc, n) == [pc |-> pc, n |-> n, cur |-> 0, granted |-> FALSE, prepaid |-> TRUE]

\* QuotaHandle::new, and no draw in progress.
QuotaInit ==
    /\ remaining \in Budgets
    /\ exhausted = (remaining = 0)
    /\ user = [u \in Consumers |-> Phase(IF u \in TcpCopies THEN "top" ELSE "idle", 0)]
    /\ setter = [pc |-> "idle", exhausted |-> FALSE]
    /\ installs = 0
    /\ account = [installed |-> remaining, spent |-> 0, lost |-> 0,
                  delivered |-> 0, unpaid |-> 0]

-----------------------------------------------------------------------------
(* consume(n) *)

\* What the caller does with the outcome: a copy loop writes the chunk or
\* half-closes; the listener queues the datagram or drops it; after a send
\* the outcome is ignored, and what was sent stays unpaid if refused.
Outcome(u, pc) ==
    IF u \in TcpCopies THEN IF pc = "Granted" THEN Phase("write", user[u].n) ELSE Phase("closed", 0)
    ELSE IF user[u].prepaid /\ pc = "Granted" THEN Phase("queued", user[u].n) ELSE Phase("idle", 0)

\* The bytes already sent that this grant pays for.
Paid(u) == IF user[u].prepaid THEN 0 ELSE user[u].n

\* Fast path: the flag is read first.
ConsumeFlag(u) ==
    /\ user[u].pc = "flag"
    /\ IF exhausted
       THEN user' = [user EXCEPT ![u] = Outcome(u, "Exhausted")]
       ELSE user' = [user EXCEPT ![u].pc = "load"]
    /\ UNCHANGED <<remaining, exhausted, setter, installs, account>>

ConsumeLoad(u) ==
    /\ user[u].pc = "load"
    /\ user' = [user EXCEPT ![u].pc = "cas", ![u].cur = remaining]
    /\ UNCHANGED <<remaining, exhausted, setter, installs, account>>

\* Slip: an unconditional store in place of the compare-and-swap.
ConsumeStore(u) ==
    /\ user[u].pc = "cas"
    /\ LET c == user[u]  new == AtLeastZero(c.cur - c.n)  fits == c.n <= c.cur IN
       IF c.cur <= 0
       THEN /\ user' = [user EXCEPT ![u].pc = "mark", ![u].granted = FALSE]
            /\ UNCHANGED <<remaining, account>>
       ELSE /\ remaining' = new
            /\ account' = [account EXCEPT !.spent = @ + (IF fits THEN c.n ELSE 0),
                                          !.unpaid = @ - (IF fits THEN Paid(u) ELSE 0),
                                          !.lost = @ + (IF fits THEN 0 ELSE c.cur)]
            /\ user' = [user EXCEPT ![u] = IF new = 0
                          THEN [c EXCEPT !.pc = "mark", !.granted = fits]
                          ELSE Outcome(u, "Granted")]
    /\ UNCHANGED <<exhausted, setter, installs>>

\* One round of the loop: nothing left, or the saturating compare-and-swap,
\* which hands the current value to the next round when it fails.
ConsumeCas(u) ==
    /\ user[u].pc = "cas"
    /\ LET c == user[u]  new == AtLeastZero(c.cur - c.n)  fits == c.n <= c.cur IN
       IF c.cur <= 0
       THEN /\ user' = [user EXCEPT ![u].pc = "mark", ![u].granted = FALSE]
            /\ UNCHANGED <<remaining, account>>
       ELSE IF remaining = c.cur
       THEN /\ remaining' = new
            /\ account' = [account EXCEPT !.spent = @ + (IF fits THEN c.n ELSE 0),
                                          !.unpaid = @ - (IF fits THEN Paid(u) ELSE 0),
                                          !.lost = @ + (IF fits THEN 0 ELSE c.cur)]
            /\ user' = [user EXCEPT ![u] = IF new = 0
                          THEN [c EXCEPT !.pc = "mark", !.granted = fits]
                          ELSE Outcome(u, "Granted")]
       ELSE /\ user' = [user EXCEPT ![u].cur = remaining]
            /\ UNCHANGED <<remaining, account>>
    /\ UNCHANGED <<exhausted, setter, installs>>

\* mark_exhausted, then consume returns.
ConsumeMark(u) ==
    /\ user[u].pc = "mark"
    /\ exhausted' = TRUE
    /\ user' = [user EXCEPT ![u] = Outcome(u, IF user[u].granted THEN "Granted" ELSE "Exhausted")]
    /\ UNCHANGED <<remaining, setter, installs, account>>

-----------------------------------------------------------------------------
(* TCP: copy_one_dir, and the same order of steps in copy_with_cap and in   *)
(* the splice loop.                                                         *)

CopyTop(u) ==
    /\ u \in TcpCopies /\ user[u].pc = "top"
    /\ user' = [user EXCEPT ![u].pc = IF exhausted THEN "closed" ELSE "read"]
    /\ UNCHANGED <<remaining, exhausted, setter, installs, account>>

CopyRead(u) ==
    /\ user[u].pc = "read"
    /\ \/ \E n \in DrawSizes : user' = [user EXCEPT ![u] = Phase("flag", n)]
       \/ user' = [user EXCEPT ![u].pc = "closed"]
    /\ UNCHANGED <<remaining, exhausted, setter, installs, account>>

\* write_all of a granted chunk; an error ends the copy after the debit.
CopyWrite(u) ==
    /\ user[u].pc = "write"
    /\ \/ /\ user' = [user EXCEPT ![u] = Phase("top", 0)]
          /\ account' = [account EXCEPT !.delivered = @ + user[u].n]
       \/ /\ user' = [user EXCEPT ![u] = Phase("closed", 0)]
          /\ UNCHANGED account
    /\ UNCHANGED <<remaining, exhausted, setter, installs>>

\* The next connection of the rule clones the same handle.
CopyOpen(u) ==
    /\ user[u].pc = "closed"
    /\ user' = [user EXCEPT ![u].pc = "top"]
    /\ UNCHANGED <<remaining, exhausted, setter, installs, account>>

-----------------------------------------------------------------------------
(* UDP: process_batch, flush_run; the single sends of handle_datagram, the  *)
(* cold path, the demux and the multi-target path.                          *)

\* A datagram of a live flow is debited before it joins the pending run.
SendDatagram(u) ==
    /\ u \in UdpSends /\ user[u].pc = "idle"
    /\ \E n \in DrawSizes :
         user' = [user EXCEPT ![u] = Phase("flag", n)]
    /\ UNCHANGED <<remaining, exhausted, setter, installs, account>>

\* The batch is sent, or the datagram is in the part that is not (a short
\* count, an error, or bandwidth that ran out) and its bytes are given back.
FlushRun(u) ==
    /\ user[u].pc = "queued"
    /\ \/ /\ user' = [user EXCEPT ![u] = Phase("idle", 0)]
          /\ account' = [account EXCEPT !.delivered = @ + user[u].n]
       \/ /\ user' = [user EXCEPT ![u].pc = "restore"]
          /\ UNCHANGED account
    /\ UNCHANGED <<remaining, exhausted, setter, installs>>

\* restore(n): fetch_add ...
RestoreAdd(u) ==
    /\ user[u].pc = "restore"
    /\ remaining' = remaining + user[u].n
    /\ account' = [account EXCEPT !.spent = @ - user[u].n]
    /\ user' = [user EXCEPT ![u].pc = "clear"]
    /\ UNCHANGED <<exhausted, setter, installs>>

\* ... then the flag is cleared, the sum being positive.
RestoreClear(u) ==
    /\ user[u].pc = "clear"
    /\ exhausted' = FALSE
    /\ user' = [user EXCEPT ![u].pc = "single"]
    /\ UNCHANGED <<remaining, setter, installs, account>>

\* quota_allows: the flag is read, and the send follows across an await.
CheckSingle(u) ==
    /\ u \in UdpSends /\ user[u].pc = "idle"
    /\ ~exhausted
    /\ \E n \in DrawSizes : user' = [user EXCEPT ![u] = Phase("single", n)]
    /\ UNCHANGED <<remaining, exhausted, setter, installs, account>>

\* The demux forwards a reply without a look at the budget.
DemuxReply(u) ==
    /\ u \in UdpSends /\ user[u].pc = "idle"
    /\ account.unpaid < MaxUnpaid
    /\ \E n \in DrawSizes : user' = [user EXCEPT ![u] = Phase("single", n)]
    /\ UNCHANGED <<remaining, exhausted, setter, installs, account>>

\* One datagram is sent alone (checked or not, or the first one that a batch
\* left unsent); if it goes out it is debited afterwards.
SendSingle(u) ==
    /\ user[u].pc = "single"
    /\ \/ /\ user' = [user EXCEPT ![u].pc = "flag", ![u].prepaid = FALSE]
          /\ account' = [account EXCEPT !.delivered = @ + user[u].n, !.unpaid = @ + user[u].n]
       \/ /\ user' = [user EXCEPT ![u] = Phase("idle", 0)]
          /\ UNCHANGED account
    /\ UNCHANGED <<remaining, exhausted, setter, installs>>

-----------------------------------------------------------------------------
(* replace(), under the write lock of QuotaScopeManager *)

\* The budget is stored first ...
ReplaceBudget ==
    /\ setter.pc = "idle" /\ installs < MaxInstalls
    /\ \E b \in Budgets, ex \in BOOLEAN :
         /\ remaining' = b
         /\ account' = [account EXCEPT !.installed = @ + b, !.lost = @ + remaining]
         /\ setter' = [pc |-> "flag", exhausted |-> ex \/ b = 0]
    /\ installs' = installs + 1
    /\ UNCHANGED <<exhausted, user>>

\* ... and the flag in a second store.
ReplaceFlag ==
    /\ setter.pc = "flag"
    /\ exhausted' = setter.exhausted
    /\ setter' = [setter EXCEPT !.pc = "idle"]
    /\ UNCHANGED <<remaining, user, installs, account>>

QuotaNext ==
    \/ \E u \in Consumers :
         \/ ConsumeFlag(u) \/ ConsumeLoad(u) \/ ConsumeCas(u) \/ ConsumeMark(u)
         \/ CopyTop(u) \/ CopyRead(u) \/ CopyWrite(u) \/ CopyOpen(u)
         \/ SendDatagram(u) \/ FlushRun(u) \/ RestoreAdd(u) \/ RestoreClear(u)
         \/ CheckSingle(u) \/ DemuxReply(u) \/ SendSingle(u)
    \/ ReplaceBudget \/ ReplaceFlag

QuotaSpec == QuotaInit /\ [][QuotaNext]_quotaVars

-----------------------------------------------------------------------------
(* Properties *)

Budget == INSTANCE QuotaBudget WITH
            left <- remaining, spent <- account.spent,
            lost <- account.lost, installed <- account.installed

\* consume, restore and replace, interleaved atomic by atomic, implement the
\* budget of QuotaBudget: every granted byte is taken from what is left, once,
\* and no lost update of remaining grants a byte twice (quota/mod.rs consume).
BudgetRefined == Budget!BudgetSpec

\* What the copy loops and the batches put on the wire was granted, for any
\* number of connections on the handle and whatever is restored or replaced
\* meanwhile (quota/copy.rs: "over-delivery is bounded to 0").  Single datagrams
\* are debited after the send: those whose debit was refused are the unpaid
\* ones, and of their number nothing is claimed.
NeverOverdelivered == account.delivered <= account.spent + account.unpaid

\* The handle is an atomic budget, and what is debited before it is sent stays
\* within it (quota/mod.rs, quota/copy.rs).
BudgetSound == BudgetRefined /\ []NeverOverdelivered
=============================================================================
