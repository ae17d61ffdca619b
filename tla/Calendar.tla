------------------------------ MODULE Calendar ------------------------------
(***************************************************************************)
(* Civil time in the one configured timezone, in whole seconds.  Second 0 *)
(* is midnight of day 0, and a day has 86400 seconds: the deployment's     *)
(* timezone (Asia/Taipei) has no daylight saving.  The constants are the   *)
(* values written in the code, so they are definitions and not parameters. *)
(***************************************************************************)
EXTENDS Integers

DAY == 86400

\* ScheduleJob.START_TIME (13:40) and ScheduleJob.DEADLINE (15:00).
START_TIME == 49200
DEADLINE == 54000
POLL_INTERVAL_SECONDS == 300

\* How long LINE remembers an X-Line-Retry-Key.
RETENTION == 86400

date(t) == t \div DAY
time(t) == t % DAY

Least(a, b) == IF a <= b THEN a ELSE b
AtLeastZero(a) == IF a >= 0 THEN a ELSE 0

\* _seconds_until: the time left today until a time of day, never negative.
_seconds_until(t, target) == AtLeastZero(target - time(t))

\* _retry_delay: min(2 ** (attempt - 1), 4) for attempt = 1, 2, 3, ...
_retry_delay(attempt) == IF attempt > 2 THEN 4 ELSE attempt
=============================================================================
