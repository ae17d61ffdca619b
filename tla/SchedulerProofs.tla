-------------------------- MODULE SchedulerProofs --------------------------
(***************************************************************************)
(* The scheduler, for every set of instants and of settings of its clock:  *)
(* it starts a day's job within a minute of running time, and never twice  *)
(* in its life.                                                            *)
(***************************************************************************)
EXTENDS Scheduler, TLAPS

\* last_run is the latest day launched, and what is left of a sleep bounds how
\* much longer a day that is due will wait.
SchedulerInvariant ==
  /\ TypeOK
  /\ last_run = NoRun => launches = {}
  /\ last_run # NoRun => last_run \in launches /\ \A d \in launches : d <= last_run
  /\ phase = "asleep" /\ Due => overdue + left <= MAX_SLEEP
  /\ overdue <= MAX_SLEEP

LEMMA Days ==
  ASSUME NEW t \in Nat
  PROVE  /\ date(t) \in Nat /\ time(t) \in Nat /\ time(t) < 86400
         /\ t = 86400 * date(t) + time(t)
  BY DEF date, time, DAY

LEMMA NowIsNat == ASSUME TypeOK PROVE now \in Nat
  BY SchedulerInstants DEF TypeOK

\* next_run is a time, and it is now exactly if the day's job may start now.
LEMMA NextRun ==
  ASSUME TypeOK
  PROVE  /\ wait \in Nat
         /\ wait = 0 <=> /\ Startable(now)
                         /\ last_run = NoRun \/ last_run < date(now)
<1> DEFINE D == date(now)
           T == time(now)
<1>1. D \in Nat /\ T \in Nat /\ T < 86400 /\ now = 86400 * D + T /\ now \in Nat
  BY NowIsNat, Days
<1>2. last_run \in Nat \cup {-1}
  BY DEF TypeOK, NoRun
<1>3. wait = Later(now, (IF last_run # -1 /\ D <= last_run THEN last_run + 1
                         ELSE IF T >= 54000 THEN D + 1 ELSE D) * 86400 + 48900) - now
  BY DEF wait, next_run, NoRun, LAST_START, RUN_AT, DAY
<1>4. Startable(now) <=> 48900 <= T /\ T < 54000
  BY DEF Startable, RUN_AT, LAST_START
<1> HIDE DEF D, T
<1>5. CASE last_run # -1 /\ D <= last_run
  <2>1. wait = Later(now, (last_run + 1) * 86400 + 48900) - now
    BY <1>3, <1>5
  <2>2. (last_run + 1) * 86400 + 48900 > now
    BY <1>1, <1>2, <1>5
  <2>3. wait \in Nat /\ wait > 0
    BY <2>1, <2>2, <1>1, <1>2, <1>5 DEF Later
  <2> QED
    BY <2>3, <1>2, <1>1, <1>4, <1>5 DEF NoRun, D
<1>6. CASE ~(last_run # -1 /\ D <= last_run) /\ T >= 54000
  <2>1. wait = Later(now, (D + 1) * 86400 + 48900) - now
    BY <1>3, <1>6
  <2>2. wait \in Nat /\ wait > 0
    BY <2>1, <1>1 DEF Later
  <2> QED
    BY <2>2, <1>4, <1>6, <1>1
<1>7. CASE ~(last_run # -1 /\ D <= last_run) /\ T < 54000
  <2>1. wait = Later(now, D * 86400 + 48900) - now
    BY <1>3, <1>7, <1>1
  <2>2. wait \in Nat /\ (wait = 0 <=> T >= 48900)
    BY <2>1, <1>1 DEF Later
  <2>3. last_run = -1 \/ last_run < D
    BY <1>7, <1>1, <1>2
  <2> QED
    BY <2>2, <2>3, <1>4, <1>7, <1>1 DEF NoRun, D
<1> QED
  BY <1>5, <1>6, <1>7, <1>1

\* While a day is due, the loop does not go back to sleep.
LEMMA DueIsStarted ==
  ASSUME SchedulerInvariant, Due
  PROVE  wait = 0
<1>1. last_run = NoRun \/ last_run < date(now)
  BY DEF SchedulerInvariant, Due
<1> QED
  BY <1>1, NextRun DEF SchedulerInvariant, Due

LEMMA TypeStep ==
  ASSUME TypeOK, [Next]_vars
  PROVE  TypeOK'
<1>1. CASE Sleep /\ UNCHANGED now
  <2>1. Least(wait, MAX_SLEEP) \in 0..MAX_SLEEP
    BY <1>1, NextRun DEF Sleep, Least, MAX_SLEEP
  <2> QED
    BY <1>1, <2>1 DEF Sleep, TypeOK, Phases
<1>2. CASE Decide /\ UNCHANGED now
  <2>1. date(now) \in Nat
    BY NowIsNat, Days
  <2> QED
    BY <1>2, <2>1 DEF Decide, TypeOK, Phases
<1>3. CASE (Wake \/ JobStarts \/ JobEnds \/ Start) /\ UNCHANGED now
  <2>1. phase' \in Phases /\ UNCHANGED <<last_run, left, launches, overdue, now>>
    BY <1>3 DEF Wake, JobStarts, JobEnds, Start, Phases
  <2> QED
    BY <2>1 DEF TypeOK
<1>7. CASE Stop /\ UNCHANGED now
  <2>1. 0 \in 0..MAX_SLEEP
    BY DEF MAX_SLEEP
  <2> QED
    BY <1>7, <2>1 DEF Stop, TypeOK, Phases
<1>4. CASE TimePasses
  <2>1. PICK t \in Instants :
          /\ t > now /\ (phase = "asleep" => t - now <= left)
          /\ now' = t
          /\ left' = IF phase = "asleep" THEN left - (t - now) ELSE left
          /\ overdue' = IF Due THEN overdue + (t - now) ELSE 0
    BY <1>4 DEF TimePasses
  <2>2. t \in Nat /\ now \in Nat
    BY SchedulerInstants, NowIsNat
  <2>3. left' \in 0..MAX_SLEEP /\ overdue' \in Nat
    BY <2>1, <2>2 DEF TypeOK, MAX_SLEEP
  <2> QED
    BY <1>4, <2>1, <2>3 DEF TimePasses, TypeOK
<1>5. CASE ClockIsSet
  <2>1. now' \in Instants /\ overdue' \in Nat
    BY <1>5, SettingsAssumption DEF ClockIsSet, TypeOK
  <2> QED
    BY <1>5, <2>1 DEF ClockIsSet, TypeOK
<1>6. CASE UNCHANGED vars
  BY <1>6 DEF vars, TypeOK
<1> QED
  BY <1>1, <1>2, <1>3, <1>4, <1>5, <1>6, <1>7 DEF Next, Loop

\* last_run is the latest day launched.
LEMMA LastRunStep ==
  ASSUME SchedulerInvariant, [Next]_vars
  PROVE  /\ last_run' = NoRun => launches' = {}
         /\ last_run' # NoRun => last_run' \in launches' /\ \A d \in launches' : d <= last_run'
<1>1. CASE Decide /\ UNCHANGED now
  <2>1. date(now) \in Nat
    BY NowIsNat, Days DEF SchedulerInvariant
  <2>2. last_run = NoRun \/ last_run < date(now)
    BY <1>1, NextRun DEF Decide, SchedulerInvariant
  <2>3. \A d \in launches : d <= date(now)
    BY <2>1, <2>2 DEF SchedulerInvariant, TypeOK, NoRun
  <2> QED
    BY <1>1, <2>1, <2>3 DEF Decide, NoRun
<1>2. CASE Stop
  BY <1>2 DEF Stop
<1>3. CASE UNCHANGED <<last_run, launches>>
  BY <1>3 DEF SchedulerInvariant
<1> QED
  BY <1>1, <1>2, <1>3 DEF Next, Loop, Sleep, Wake, JobStarts, JobEnds, Start,
                          TimePasses, ClockIsSet, vars

\* A sleep that began before a day was due ends within a minute after.
LEMMA OverdueStep ==
  ASSUME SchedulerInvariant, [Next]_vars
  PROVE  /\ phase' = "asleep" /\ Due' => overdue' + left' <= MAX_SLEEP
         /\ overdue' <= MAX_SLEEP
<1>1. CASE Sleep /\ UNCHANGED now
  <2>1. ~Due
    BY <1>1, DueIsStarted, NextRun DEF Sleep, SchedulerInvariant
  <2>2. ~Due'
    BY <1>1, <2>1 DEF Sleep, Due
  <2> QED
    BY <1>1, <2>2 DEF Sleep, SchedulerInvariant
<1>2. CASE (Wake \/ Decide \/ JobStarts \/ JobEnds \/ Stop \/ Start) /\ UNCHANGED now
  BY <1>2 DEF Wake, Decide, JobStarts, JobEnds, Stop, Start, SchedulerInvariant, MAX_SLEEP
<1>3. CASE TimePasses
  <2>1. PICK t \in Instants :
          /\ t > now /\ (phase = "asleep" => t - now <= left)
          /\ now' = t
          /\ left' = IF phase = "asleep" THEN left - (t - now) ELSE left
          /\ overdue' = IF Due THEN overdue + (t - now) ELSE 0
    BY <1>3 DEF TimePasses
  <2>2. t \in Nat /\ now \in Nat /\ left \in 0..60 /\ overdue \in Nat /\ MAX_SLEEP = 60
    BY SchedulerInstants, NowIsNat DEF SchedulerInvariant, TypeOK, MAX_SLEEP
  <2>3. CASE Due
    <3>1. phase = "asleep"
      BY <1>3, <2>3 DEF TimePasses, Due
    <3> QED
      BY <2>1, <2>2, <2>3, <3>1 DEF SchedulerInvariant
  <2>4. CASE ~Due
    <3>1. phase' = phase
      BY <1>3 DEF TimePasses
    <3> QED
      BY <2>1, <2>2, <2>4, <3>1
  <2> QED
    BY <2>3, <2>4
<1>4. CASE ClockIsSet
  <2>1. left \in 0..60 /\ overdue \in Nat /\ MAX_SLEEP = 60
    BY DEF SchedulerInvariant, TypeOK, MAX_SLEEP
  <2>2. left' = left /\ phase' = phase /\ overdue' = IF Due /\ Due' THEN overdue ELSE 0
    BY <1>4 DEF ClockIsSet
  <2> QED
    BY <2>1, <2>2 DEF SchedulerInvariant
<1>5. CASE UNCHANGED vars
  BY <1>5 DEF vars, SchedulerInvariant, Due
<1> QED
  BY <1>1, <1>2, <1>3, <1>4, <1>5 DEF Next, Loop

LEMMA SchedulerInvariance == Spec => []SchedulerInvariant
<1>1. Init => SchedulerInvariant
  BY DEF Init, SchedulerInvariant, TypeOK, Phases, MAX_SLEEP, NoRun
<1>2. SchedulerInvariant /\ [Next]_vars => SchedulerInvariant'
  <2>1. ASSUME SchedulerInvariant, [Next]_vars PROVE TypeOK'
    BY <2>1, TypeStep DEF SchedulerInvariant
  <2>2. ASSUME SchedulerInvariant, [Next]_vars PROVE SchedulerInvariant'
    BY <2>1, <2>2, LastRunStep, OverdueStep DEF SchedulerInvariant
  <2> QED
    BY <2>2
<1> QED
  BY <1>1, <1>2, PTL DEF Spec

\* Every variable of the scheduler keeps its type: last_run is a day, and no
\* sleep is longer than a minute.
THEOREM SchedulerTypeCorrect == Spec => []TypeOK
<1>1. SchedulerInvariant => TypeOK
  BY DEF SchedulerInvariant
<1> QED
  BY <1>1, SchedulerInvariance, PTL

\* Once the job of a day could be started it is, within a minute of running
\* time, however the clock was set and whenever the process was started.
THEOREM StartedWithinAMinute == Spec => []NeverOverdue
<1>1. SchedulerInvariant => NeverOverdue
  BY DEF SchedulerInvariant, NeverOverdue
<1> QED
  BY <1>1, SchedulerInvariance, PTL

-----------------------------------------------------------------------------
\* A decision to run is a launch that DailyTrigger allows.
LEMMA DecideIsLaunch ==
  ASSUME SchedulerInvariant, Decide, UNCHANGED now
  PROVE  Trigger!Launch
<1>1. wait = 0
  BY NextRun DEF Decide, SchedulerInvariant
<1>2. Startable(now) /\ (last_run = NoRun \/ last_run < date(now))
  BY <1>1, NextRun DEF SchedulerInvariant
<1>3. date(now) \in Nat
  BY NowIsNat, Days DEF SchedulerInvariant
<1>4. \A d \in launches : d < date(now)
  BY <1>2, <1>3 DEF SchedulerInvariant, TypeOK, NoRun
<1> QED
  BY <1>2, <1>4 DEF Decide, Trigger!Launch, Startable, RUN_AT, LAST_START,
                    Trigger!date, Trigger!time, Trigger!DAY, date, time, DAY

\* scheduler_loop implements DailyTrigger: one job at a time, only between
\* 13:35 and 15:00, each day at most once in the life of the process and never
\* again after a later one.
THEOREM SchedulerImplementsTrigger == Spec => DailyTriggered
<1>1. Init => Trigger!Init
  BY DEF Init, Trigger!Init
<1>2. SchedulerInvariant /\ [Next]_vars => [Trigger!Next]_<<now, phase \in {"deciding", "asleep"}, launches>>
  <2> SUFFICES ASSUME SchedulerInvariant, [Next]_vars
               PROVE  \/ Trigger!Next
                      \/ UNCHANGED <<now, phase \in {"deciding", "asleep"}, launches>>
    OBVIOUS
  <2>1. CASE (Sleep \/ Wake \/ JobStarts) /\ UNCHANGED now
    BY <2>1 DEF Sleep, Wake, JobStarts
  <2>2. CASE Decide /\ UNCHANGED now
    BY <2>2, DecideIsLaunch DEF Trigger!Next
  <2>3. CASE (JobEnds \/ Start) /\ UNCHANGED now
    BY <2>3 DEF JobEnds, Start, Trigger!Next, Trigger!Return
  <2>4. CASE Stop /\ UNCHANGED now
    BY <2>4 DEF Stop, Trigger!Next, Trigger!Forget
  <2>5. CASE TimePasses \/ ClockIsSet
    BY <2>5 DEF TimePasses, ClockIsSet, Trigger!Next, Trigger!Clock
  <2>6. CASE UNCHANGED vars
    BY <2>6 DEF vars
  <2> QED
    BY <2>1, <2>2, <2>3, <2>4, <2>5, <2>6 DEF Next, Loop
<1> QED
  BY <1>1, <1>2, SchedulerInvariance, PTL DEF Spec, DailyTriggered, Trigger!Spec
=============================================================================
