---------------------------- MODULE BillingPeriod ----------------------------
(***************************************************************************)
(* The billing periods of a traffic quota: calendar months that start on   *)
(* the anniversary of the billing anchor, clamped to the last day of short *)
(* months (traffic_quotas/mod.rs), as the rollover tick advances them.     *)
(* An instant is a day counted from 1 January of FirstYear; the time of    *)
(* day of the anchor is the same in every period and is left out.          *)
(***************************************************************************)
EXTENDS Integers, FiniteSetsExt

CONSTANTS FirstYear,    \* year of day 1
          Months,       \* months of the calendar that is looked at
          AnchorDays,   \* days of the month an anchor may fall on
          AnchorGap,    \* bound: days between the anchor and the request
          Outages       \* bound: days that pass between two ticks

ASSUME BillingCalendar == FirstYear \in Nat /\ Months \in Nat /\ Months > 2
ASSUME BillingDays == AnchorDays \subseteq 1 .. 31 /\ AnchorGap \in Nat

VARIABLES billingAnchor,   \* [month, day] of the first period
          periodStart,     \* current_period_started_at
          today,           \* the wall clock
          ticked           \* has the rollover tick run since the clock moved

billingVars == <<billingAnchor, periodStart, today, ticked>>

LeapYear(y) == (y % 4 = 0 /\ y % 100 # 0) \/ y % 400 = 0

\* last_day_of_month; k counts months from January of FirstYear.
LastDayOfMonth(k) ==
    LET m == (k % 12) + 1  y == FirstYear + (k \div 12) IN
    IF m = 2 THEN IF LeapYear(y) THEN 29 ELSE 28
    ELSE IF m \in {4, 6, 9, 11} THEN 30 ELSE 31

DaysBefore[k \in 0 .. Months] == IF k = 0 THEN 0 ELSE DaysBefore[k - 1] + LastDayOfMonth(k - 1)

\* Slip: each period is counted from the one before, so a short month shortens
\* all that follow.
PeriodStartChained(a, n) ==
    DaysBefore[a.month + n] + Min({a.day} \cup {LastDayOfMonth(k) : k \in a.month .. a.month + n})

\* period_start_at: n months after the anchor, on its day or the last there is.
PeriodStartAt(a, n) ==
    DaysBefore[a.month + n] + Min({a.day, LastDayOfMonth(a.month + n)})

\* The period numbers the calendar has room for.
Numbers(a) == 0 .. Months - a.month - 1

\* compute_period_end: the start of the period after the one that starts then.
ComputePeriodEnd(a, started) ==
    LET n == CHOOSE n \in Numbers(a) : PeriodStartAt(a, n) = started IN PeriodStartAt(a, n + 1)

\* advance_period_if_due: the number of the current period, or of the one it
\* falls in, and from there as long as the next one has begun.
AdvancePeriodIfDue(a, started, now) ==
    LET here == Max({n \in Numbers(a) : PeriodStartAt(a, n) <= started} \cup {0})
        last == Max({n \in Numbers(a) : n >= here /\ \A i \in here + 1 .. n : PeriodStartAt(a, i) <= now})
    IN  IF last > here THEN PeriodStartAt(a, last) ELSE started

NoQuota == [month |-> 0, day |-> 0]

BillingInit == billingAnchor = NoQuota /\ periodStart = 0 /\ today = 0 /\ ticked = FALSE

\* put_quota: the first period starts at the anchor, which may lie in the past
\* or in the future, here up to AnchorGap days.
PutAnchor ==
    /\ billingAnchor = NoQuota
    /\ billingAnchor' \in [month : 0 .. 1, day : AnchorDays]
    /\ billingAnchor'.day <= LastDayOfMonth(billingAnchor'.month)
    /\ periodStart' = PeriodStartAt(billingAnchor', 0)
    /\ today' \in Max({0, periodStart' - AnchorGap}) .. periodStart' + AnchorGap
    /\ UNCHANGED ticked

\* rollover.rs: the row advances, however long the server was down.
RolloverTick ==
    /\ billingAnchor # NoQuota /\ ~ticked
    /\ periodStart' = AdvancePeriodIfDue(billingAnchor, periodStart, today)
    /\ ticked' = TRUE
    /\ UNCHANGED <<billingAnchor, today>>

DaysPass ==
    /\ ticked
    /\ \E d \in Outages :
         /\ today + d <= DaysBefore[Months - 1]
         /\ today' = today + d
    /\ ticked' = FALSE
    /\ UNCHANGED <<billingAnchor, periodStart>>

BillingNext == PutAnchor \/ RolloverTick \/ DaysPass

BillingSpec == BillingInit /\ [][BillingNext]_billingVars

-----------------------------------------------------------------------------
(* Properties *)

\* A day that starts a period: the anchor's day, or the last of a shorter month.
IsAnniversary(day) ==
    \E k \in billingAnchor.month .. Months - 1 :
      \/ day = DaysBefore[k] + billingAnchor.day /\ billingAnchor.day <= LastDayOfMonth(k)
      \/ day = DaysBefore[k] + LastDayOfMonth(k) /\ billingAnchor.day > LastDayOfMonth(k)

\* After a tick the row is in the period of today, of which the frame to the
\* client states the end: it starts on an anniversary of the anchor, today is in
\* it and no other anniversary is, after any outage and any run of short months
\* (mod.rs: "so the day-of-month never drifts").  A row whose anchor is still to
\* come waits in its first period, which ends a month after the anchor.
PeriodIsCurrent ==
    LET first == PeriodStartAt(billingAnchor, 0) IN
    ticked =>
      /\ IsAnniversary(periodStart)
      /\ today < ComputePeriodEnd(billingAnchor, periodStart)
      /\ IF today < first THEN periodStart = first
         ELSE periodStart <= today /\ \A d \in periodStart + 1 .. today : ~IsAnniversary(d)
=============================================================================
