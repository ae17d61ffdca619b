---------------------------- MODULE DailyTrigger ----------------------------
(***************************************************************************)
(* What the scheduler promises the rest of the bot, without sleeps,        *)
(* targets or last_run: when the job of a day may be started.              *)
(***************************************************************************)
EXTENDS Calendar

VARIABLES
  now,       \* the wall clock
  idle,      \* a scheduler exists and runs no job
  launches   \* the days whose job it started

Init == idle = FALSE /\ launches = {}

\* On a day after every day launched so far, between 13:35 and 15:00.
Launch ==
  /\ idle /\ idle' = FALSE
  /\ 48900 <= time(now) /\ time(now) < 54000
  /\ \A d \in launches : d < date(now)
  /\ launches' = launches \cup {date(now)}
  /\ UNCHANGED now

Return == ~idle /\ idle' = TRUE /\ UNCHANGED <<now, launches>>

\* The scheduler ends and is forgotten; the one that follows knows no day.
Forget == idle' = FALSE /\ launches' = {} /\ UNCHANGED now

Clock == UNCHANGED <<idle, launches>>

Next == Launch \/ Return \/ Forget \/ Clock

Spec == Init /\ [][Next]_<<now, idle, launches>>
=============================================================================
