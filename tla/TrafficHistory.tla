--------------------------- MODULE TrafficHistory ---------------------------
(***************************************************************************)
(* The traffic history of one (user, client) pair: minute samples, their   *)
(* hourly rollup behind a persistent watermark, the two retention sweeps   *)
(* and the query over them (traffic_quotas/samples.rs, rollup.rs,          *)
(* quota_http.rs serve_traffic).  The server may stop between any two      *)
(* statements and stay down for any time.                                  *)
(*                                                                         *)
(* Time is counted in minutes.  The first two hours are the epoch's and    *)
(* hold no samples: a watermark of 0 means "never rolled up".              *)
(***************************************************************************)
EXTENDS Integers, FiniteSetsExt

CONSTANTS Hour,         \* minutes in an hour
          Retention1m,  \* minutes the minute samples are kept
          Retention1h,  \* minutes the hourly rows are kept
          Lag,          \* minutes a report may take from its time stamp to its write
          MaxClock,     \* bound: minutes that pass
          MaxReports,   \* bound: reports that carry bytes
          MaxCrashes    \* bound: times the server stops

\* run_forever waits for the first minute of the hour to be over.
ASSUME HistoryTiming == Hour \in Nat /\ Hour > Lag /\ Lag \in {0, 1}
ASSUME HistoryRetention == Retention1m >= Hour + Lag /\ Retention1h >= Retention1m

VARIABLES clock,      \* the wall clock
          samples1m,  \* traffic_samples_1m: bytes by minute
          samples1h,  \* traffic_samples_1h: bytes by hour, -1 where there is no row
          watermark,  \* traffic_rollup_state.last_rolled_up_hour
          rollup,     \* run_once: where it is, its now and the next hour
          report,     \* the aggregator: minute of a delta not yet written, or -1
          up,         \* does the server run
          seen        \* history: bytes by minute, first hour rolled, reports, crashes

historyVars == <<clock, samples1m, samples1h, watermark, rollup, report, up, seen>>

Minutes == 0 .. MaxClock
Hours == {h \in Minutes : h % Hour = 0}
HourOf(t) == t - (t % Hour)
Asleep == [pc |-> "asleep", now |-> 0, next |-> 0]

Total(f, S) == MapThenSumSet(LAMBDA t : f[t], S)

HistoryInit ==
    /\ clock = 2 * Hour
    /\ samples1m = [t \in Minutes |-> 0]
    /\ samples1h = [h \in Hours |-> -1]
    /\ watermark = 0
    /\ rollup = Asleep
    /\ report = -1
    /\ up = TRUE
    /\ seen = [bytes |-> [t \in Minutes |-> 0], first |-> -1, reports |-> 0, crashes |-> 0]

-----------------------------------------------------------------------------
(* The aggregator's samples *)

\* A delta is stamped when the report is handled ...
StampReport ==
    /\ up /\ report = -1 /\ seen.reports < MaxReports
    /\ report' = clock
    /\ seen' = [seen EXCEPT !.reports = @ + 1]
    /\ UNCHANGED <<clock, samples1m, samples1h, watermark, rollup, up>>

\* ... and added to the row of its minute.
UpsertMinute ==
    /\ up /\ report # -1
    /\ samples1m' = [samples1m EXCEPT ![report] = @ + 1]
    /\ seen' = [seen EXCEPT !.bytes[report] = @ + 1]
    /\ report' = -1
    /\ UNCHANGED <<clock, samples1h, watermark, rollup, up>>

-----------------------------------------------------------------------------
(* rollup.rs *)

\* run_forever wakes one minute into the hour, or at any later time when the
\* server was started or delayed; run_once reads the watermark.
RollupBegins ==
    /\ up /\ rollup.pc = "asleep" /\ clock % Hour >= 1
    /\ rollup' = [pc |-> "roll", now |-> clock,
                  next |-> IF watermark = 0 THEN HourOf(clock) - Hour ELSE watermark + Hour]
    /\ UNCHANGED <<clock, samples1m, samples1h, watermark, report, up, seen>>

MinutesOf(h) == {t \in Minutes : h <= t /\ t < h + Hour}

\* Slip: the hour that is still open is rolled up too.
OpenHourIsClosed == rollup.next <= HourOf(rollup.now)

\* Only hours that are over.
HourIsClosed == rollup.next < HourOf(rollup.now)

\* INSERT .. SELECT SUM .. ON CONFLICT DO UPDATE: no row for an empty hour.
RollupHour ==
    /\ up /\ rollup.pc = "roll" /\ HourIsClosed
    /\ LET h == rollup.next  sum == Total(samples1m, MinutesOf(h)) IN
       samples1h' = [samples1h EXCEPT ![h] = IF sum = 0 THEN @ ELSE sum]
    /\ rollup' = [rollup EXCEPT !.pc = "mark"]
    /\ UNCHANGED <<clock, samples1m, watermark, report, up, seen>>

\* The watermark follows the row it stands for.
AdvanceWatermark ==
    /\ up /\ rollup.pc = "mark"
    /\ watermark' = rollup.next
    /\ rollup' = [rollup EXCEPT !.pc = "roll", !.next = @ + Hour]
    /\ seen' = [seen EXCEPT !.first = IF @ = -1 THEN rollup.next ELSE @]
    /\ UNCHANGED <<clock, samples1m, samples1h, report, up>>

\* Once no closed hour is left, the minutes past retention go ...
PruneMinutes ==
    /\ up /\ rollup.pc = "roll" /\ ~HourIsClosed
    /\ samples1m' = [t \in Minutes |-> IF t < rollup.now - Retention1m THEN 0 ELSE samples1m[t]]
    /\ rollup' = [rollup EXCEPT !.pc = "hours"]
    /\ UNCHANGED <<clock, samples1h, watermark, report, up, seen>>

\* ... and then the hours.
PruneHours ==
    /\ up /\ rollup.pc = "hours"
    /\ samples1h' = [h \in Hours |-> IF h < rollup.now - Retention1h THEN -1 ELSE samples1h[h]]
    /\ rollup' = Asleep
    /\ UNCHANGED <<clock, samples1m, watermark, report, up, seen>>

-----------------------------------------------------------------------------
(* Environment *)

\* A statement that fails ends run_once early; a crash ends everything.
RollupFails ==
    /\ up /\ rollup.pc # "asleep" /\ seen.crashes < MaxCrashes
    /\ rollup' = Asleep
    /\ seen' = [seen EXCEPT !.crashes = @ + 1]
    /\ UNCHANGED <<clock, samples1m, samples1h, watermark, report, up>>

Crash ==
    /\ up /\ seen.crashes < MaxCrashes
    /\ up' = FALSE /\ rollup' = Asleep /\ report' = -1
    /\ seen' = [seen EXCEPT !.crashes = @ + 1]
    /\ UNCHANGED <<clock, samples1m, samples1h, watermark>>

HistoryRestart ==
    /\ ~up
    /\ up' = TRUE
    /\ UNCHANGED <<clock, samples1m, samples1h, watermark, rollup, report, seen>>

\* A report is written within Lag minutes, and a rollup takes less than one.
Minute ==
    /\ clock < MaxClock
    /\ report # -1 => clock < report + Lag
    /\ rollup.pc = "asleep"
    /\ clock' = clock + 1
    /\ UNCHANGED <<samples1m, samples1h, watermark, rollup, report, up, seen>>

HistoryNext ==
    \/ StampReport \/ UpsertMinute
    \/ RollupBegins \/ RollupHour \/ AdvanceWatermark \/ PruneMinutes \/ PruneHours
    \/ RollupFails \/ Crash \/ HistoryRestart \/ Minute

HistorySpec == HistoryInit /\ [][HistoryNext]_historyVars

-----------------------------------------------------------------------------
(* Properties *)

\* serve_traffic refuses a range that starts before the retention of its bucket.
Accepted(bucket, from) == from >= clock - (IF bucket = "1m" THEN Retention1m ELSE Retention1h)

\* query_samples: the rows of the bucket's table in a range, open at its end.
\* (A row of the hours may be missing: -1.)
QuerySamples(bucket, from, to) ==
    LET table == IF bucket = "1m" THEN samples1m ELSE samples1h
    IN  [ts \in {t \in from .. to - 1 : t \in DOMAIN table /\ table[t] >= 0} |-> table[ts]]

\* A query the server accepts returns every byte that was recorded in its
\* range: from the minutes at once, from the hours once they are rolled up,
\* however often the rollup was interrupted or the server was down
\* (rollup.rs run_once: rows, watermark, retention sweeps, in this order).
\* Rows are returned one by one, so ranges of one row stand for all of them.
AcceptedQueryExact ==
    /\ \A t \in 0 .. clock :
         Accepted("1m", t) => QuerySamples("1m", t, t + 1)[t] = seen.bytes[t]
    /\ seen.first >= 0 => \A h \in Hours :
         h <= watermark /\ h >= seen.first /\ Accepted("1h", h) =>
           LET rows == QuerySamples("1h", h, h + 1)
           IN  (IF h \in DOMAIN rows THEN rows[h] ELSE 0) = Total(seen.bytes, MinutesOf(h))
=============================================================================
