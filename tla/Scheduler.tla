----------------------------- MODULE Scheduler -----------------------------
(***************************************************************************)
(* scheduler_loop and next_run: the resident process that starts the job   *)
(* of the day.  The wall clock may be set, in either direction; a host     *)
(* that was suspended looks the same, since time.sleep does not count the  *)
(* suspended time.  The process may be killed and started again.           *)
(***************************************************************************)
EXTENDS Calendar

CONSTANTS
  Instants,  \* the instants the clock may show
  Settings   \* those it may be set to

ASSUME SchedulerInstants == Instants \subseteq Nat /\ Instants # {}
ASSUME SettingsAssumption == Settings \subseteq Instants

VARIABLES
  now,       \* the wall clock
  phase,     \* where scheduler_loop is; "down" when no such process exists
  last_run,  \* last_run, in the memory of the process
  left,      \* what is left of the current sleep
  launches,  \* the days for which this process decided to start the job
  overdue    \* a stopwatch the code does not have: time a due day has waited

schedulerVars == <<phase, last_run, left, launches, overdue>>
vars == <<now, phase, last_run, left, launches, overdue>>

RUN_AT == 48900      \* wall_time(13, 35)
LAST_START == 54000  \* wall_time(15)
MAX_SLEEP == 60
NoRun == -1          \* last_run is None

Phases == {"down", "deciding", "asleep", "launching", "job"}

Startable(t) == RUN_AT <= time(t) /\ time(t) < LAST_START

\* Nothing keeps the process from starting the job of today, and neither it
\* nor a job of a later day was started (the clock may have been set back).
Due ==
  /\ phase \in {"deciding", "asleep"}
  /\ Startable(now)
  /\ \A d \in launches : d < date(now)

-----------------------------------------------------------------------------
Later(a, b) == IF a >= b THEN a ELSE b

\* Mutant: only the day of the last run itself is skipped.
next_run_same_day(t, last) ==
  LET day == IF date(t) = last \/ time(t) >= LAST_START THEN date(t) + 1 ELSE date(t)
  IN  Later(t, day * DAY + RUN_AT)

\* Mutant: no catching up, a scheduler that is late waits for tomorrow.
next_run_on_time(t, last) ==
  LET day == IF last # NoRun /\ date(t) <= last THEN last + 1
             ELSE IF time(t) > RUN_AT THEN date(t) + 1
             ELSE date(t)
  IN  Later(t, day * DAY + RUN_AT)

\* Mutant: after a run it is always tomorrow's turn.
next_run_tomorrow(t, last) ==
  LET day == IF last # NoRun \/ time(t) >= LAST_START THEN date(t) + 1 ELSE date(t)
  IN  Later(t, day * DAY + RUN_AT)

\* next_run: today's 13:35, or at once if that has passed, or tomorrow's 13:35
\* from 15:00 on; after a run, not before the day after it.
next_run(t, last) ==
  LET day == IF last # NoRun /\ date(t) <= last THEN last + 1
             ELSE IF time(t) >= LAST_START THEN date(t) + 1
             ELSE date(t)
  IN  Later(t, day * DAY + RUN_AT)

wait == next_run(now, last_run) - now

\* Mutant: one sleep for the whole wait.
SleepThroughout ==
  /\ phase = "deciding" /\ wait > 0
  /\ phase' = "asleep" /\ left' = wait
  /\ UNCHANGED <<last_run, launches, overdue>>

\* The head of the loop, when the time has not come: a sleep of a minute at
\* most, so that a clock that was set is noticed.
Sleep ==
  /\ phase = "deciding" /\ wait > 0
  /\ phase' = "asleep" /\ left' = Least(wait, MAX_SLEEP)
  /\ UNCHANGED <<last_run, launches, overdue>>

Wake ==
  /\ phase = "asleep" /\ left = 0
  /\ phase' = "deciding"
  /\ UNCHANGED <<last_run, left, launches, overdue>>

\* The head of the loop, when it has come.
Decide ==
  /\ phase = "deciding" /\ wait <= 0
  /\ phase' = "launching" /\ overdue' = 0
  /\ last_run' = date(now) /\ launches' = launches \cup {date(now)}
  /\ UNCHANGED left

\* subprocess.call: the job runs, however long, until it ends with any status;
\* a process that cannot be started raises, and ends the scheduler.
JobStarts ==
  /\ phase = "launching" /\ phase' = "job"
  /\ UNCHANGED <<last_run, left, launches, overdue>>

\* Mutant: last_run is set when the job has ended.
JobEndsToday ==
  /\ phase = "job" /\ phase' = "deciding" /\ last_run' = date(now)
  /\ UNCHANGED <<left, launches, overdue>>

JobEnds ==
  /\ phase = "job" /\ phase' = "deciding"
  /\ UNCHANGED <<last_run, left, launches, overdue>>

\* The end of the process, by a signal or an exception, and its next start:
\* last_run is in memory only.
Stop ==
  /\ phase # "down" /\ phase' = "down"
  /\ last_run' = NoRun /\ left' = 0 /\ launches' = {} /\ overdue' = 0

Start ==
  /\ phase = "down" /\ phase' = "deciding"
  /\ UNCHANGED <<last_run, left, launches, overdue>>

Loop == Sleep \/ Wake \/ Decide \/ JobStarts \/ JobEnds

-----------------------------------------------------------------------------
\* Time passes while nobody computes; a sleep ends when it should.
TimePasses ==
  /\ phase \in {"down", "asleep", "job"}
  /\ \E t \in Instants :
     /\ t > now /\ (phase = "asleep" => t - now <= left)
     /\ now' = t
     /\ left' = IF phase = "asleep" THEN left - (t - now) ELSE left
     /\ overdue' = IF Due THEN overdue + (t - now) ELSE 0
  /\ UNCHANGED <<phase, last_run, launches>>

\* The clock is set, or the host was suspended.
ClockIsSet ==
  /\ now' \in Settings
  /\ UNCHANGED <<phase, last_run, left, launches>>
  /\ overdue' = IF Due /\ Due' THEN overdue ELSE 0

Init ==
  /\ now \in Instants
  /\ phase = "down" /\ last_run = NoRun /\ left = 0
  /\ launches = {} /\ overdue = 0

Next ==
  \/ (Loop \/ Stop \/ Start) /\ UNCHANGED now
  \/ TimePasses
  \/ ClockIsSet

Spec == Init /\ [][Next]_vars

TypeOK ==
  /\ now \in Instants
  /\ phase \in Phases
  /\ last_run \in Nat \cup {NoRun}
  /\ left \in 0..MAX_SLEEP
  /\ launches \subseteq Nat
  /\ overdue \in Nat

-----------------------------------------------------------------------------
\* Once a day's job could be started, it is within a minute of running time,
\* however the clock was set, the process was restarted or an earlier day's
\* job came to an end (the sleeps of scheduler_loop, "catch up" of next_run).
NeverOverdue == overdue <= MAX_SLEEP

\* What scheduler_loop does is what DailyTrigger allows: one job at a time, in
\* the window, and for a day at most once in the life of the process, even if
\* the clock is set back to that day or before it.
Trigger == INSTANCE DailyTrigger WITH idle <- phase \in {"deciding", "asleep"}
DailyTriggered == Trigger!Spec
=============================================================================
