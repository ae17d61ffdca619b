-------------------------------- MODULE Bot --------------------------------
(***************************************************************************)
(* The container: the scheduler, the runs it starts, the runs an operator  *)
(* starts beside them, the clock and LINE.  Every step is one of Scheduler *)
(* or of Broadcasting, or one of each; what is new is who starts whom, and *)
(* that a stopped container takes the run of its scheduler with it.        *)
(***************************************************************************)
EXTENDS Broadcasting

CONSTANTS
  Settings,  \* the instants at which a suspended host may wake up
  Attended,  \* bound: the instants at which an operator may start a run
  Healthy,   \* iCHEF and LINE answer, and ...
  Published  \* ... iCHEF has the menu of a day from this time of day on

ASSUME BotSettings == Settings \subseteq Instants /\ Attended \subseteq Instants
ASSUME HealthyAssumption == Healthy \in BOOLEAN /\ Published \in Nat

VARIABLES
  phase, last_run, left, launches, overdue,  \* those of Scheduler
  job,    \* the run scheduler_loop waits for, or NoJob
  failed  \* the days whose run of the scheduler was skipped, or killed alone

Sched == INSTANCE Scheduler

NoJob == NoDate
ASSUME NoJobAssumption == NoJob \notin Proc

scheduler == <<phase, last_run, left, launches, overdue>>
botVars == <<vars, scheduler, job, failed>>

Live(p) == pc[p] \notin {"idle", "done"}

-----------------------------------------------------------------------------
\* scheduler_loop up to and after subprocess.call.
Schedules ==
  /\ Sched!Sleep \/ Sched!Wake \/ Sched!Decide
  /\ UNCHANGED <<vars, job, failed>>

JobStarts ==
  /\ Sched!JobStarts
  /\ \E p \in Proc : LaunchAutomatic(p) /\ job' = p
  /\ UNCHANGED failed

\* Whatever the exit status is: 0 for a run that found the lock busy, too.
JobEnds ==
  /\ phase = "job" /\ pc[job] = "done"
  /\ Sched!JobEnds /\ job' = NoJob
  /\ failed' = IF run[job].ending \in {"skipped", "killed"}
                 THEN failed \cup {last_run} ELSE failed
  /\ UNCHANGED vars

\* Mutant: the scheduler ends and leaves a run that nobody waits for.
StopLeavingJob == Sched!Stop /\ UNCHANGED <<vars, job, failed>>

\* The scheduler ends, by itself or with its container.
Stop == Sched!Stop /\ job' = NoJob /\ UNCHANGED <<vars, failed>>

\* Mutant: the container is started again while the old run is still there.
StartBesideOrphan ==
  Sched!Start /\ UNCHANGED <<vars, job, failed>>

\* A scheduler starts with its container, which starts when the processes of
\* its predecessor are gone: supervise kills the group of the scheduler before
\* it returns (Supervisor's NoSurvivors).
Start ==
  /\ \A p \in Proc : Automatic(p) => ~Live(p)
  /\ Sched!Start /\ UNCHANGED <<vars, job, failed>>

\* In a healthy world no request fails, and a menu that is published fits.
Healthily(p) ==
  /\ pc'[p] # "backoff"
  /\ run'[p].ending \notin {"menu_data", "ichef", "too_long", "line", "request_error",
                             "rejected"}
  /\ run'[p].menu # "too_long"
  /\ (pc'[p] = "fetched" /\ time(now) >= Published) => run'[p].menu = "fits"

RunSteps ==
  \E p \in Proc :
    /\ Step(p) /\ (Healthy => Healthily(p))
    /\ UNCHANGED <<scheduler, job, failed>>

RunDies == \E p \in Proc : Die(p) /\ UNCHANGED <<scheduler, job, failed>>

\* An operator starts a run by hand.
OperatorStarts ==
  /\ now \in Attended
  /\ \E p \in Proc : LaunchManual(p) /\ UNCHANGED <<scheduler, job, failed>>

LineServes ==
  /\ LineStep
  /\ Healthy => \A m \in requests \ requests' :
                  AwaitsAnswer(m) => run'[m.by].answer \in {"success", "conflict"}
  /\ UNCHANGED <<scheduler, job, failed>>

-----------------------------------------------------------------------------
\* Nobody who could compute is kept waiting.
Quiet ==
  /\ phase = "down" \/ (phase = "asleep" /\ left > 0) \/ (phase = "job" /\ Live(job))
  /\ \A p \in Proc : pc[p] \in {"idle", "done"} \/ (pc[p] \in {"waiting", "backoff"} /\ ~Awake(p))

\* From one instant of the model to the next, with the host running or, where
\* Settings has the next one, suspended.
TimePasses ==
  /\ Quiet
  /\ \E t \in Instants :
     /\ t > now /\ \A u \in Instants : u <= now \/ t <= u
     /\ now' = t
  /\ Sched!TimePasses \/ Sched!ClockIsSet
  /\ UNCHANGED <<holders, pc, run, requests, accepted, job, failed>>

BotInit ==
  Init /\ Sched!Init /\ job = NoJob /\ failed = {}

BotNext ==
  \/ Schedules \/ JobStarts \/ JobEnds \/ Stop \/ Start
  \/ RunSteps \/ RunDies \/ OperatorStarts \/ LineServes
  \/ TimePasses

BotSpec == BotInit /\ [][BotNext]_botVars

\* The types; and a scheduler that waits knows its run, and no other does.
BotTypeOK ==
  /\ TypeOK /\ Sched!TypeOK
  /\ job \in Proc \cup {NoJob} /\ (phase = "job" <=> job \in Proc)
  /\ failed \subseteq Nat

-----------------------------------------------------------------------------
\* The run of the scheduler finds the lock busy only if an operator's run has
\* it: across stops and starts of the container it is never kept from its
\* work by a run of its own or of its predecessor.
NeverBlockedByItself ==
  [][\A p \in Proc :
       run[p].ending # "skipped" /\ run'[p].ending = "skipped" /\ Automatic(p)
       => \E q \in holders : run[q].mode = "manual"]_botVars

\* What the next property needs of the host, on every day on which the clock
\* shows an instant before the deadline: it runs for a minute that ends when
\* the job may start, and once more five minutes after a poll that came too
\* early.
RunsForAMinute(d) ==
  \E u, v \in Instants :
    /\ date(u) = d /\ date(v) = d /\ u + Sched!MAX_SLEEP <= v /\ Sched!Startable(v)
    /\ \A t \in Settings : t <= u \/ v < t

RunsAtNextPoll(t) ==
  \E u \in Instants :
    /\ InWindow(date(t), u)
    /\ time(t) < Published => t + POLL_INTERVAL_SECONDS <= u

HostAttends ==
  \A t \in Instants : time(t) < DEADLINE => RunsForAMinute(date(t)) /\ RunsAtNextPoll(t)

\* If iCHEF has the menu in time and both services answer, and the scheduler
\* is up when the window closes, then everybody has got the schedule of that
\* day: whenever the container was stopped and started before, in the middle
\* of a run or of a broadcast too.  Only an operator who spends the key of the
\* day on another date takes its place.  Exempt is a day whose run of the
\* scheduler was killed alone, or found an operator's run at work and was
\* skipped.
DayServed ==
  [][\A d \in {date(t) : t \in Instants} :
       /\ date(now) = d /\ time(now) < DEADLINE /\ d * DAY + DEADLINE <= now'
       /\ phase # "down" /\ d \notin failed
       => \E a \in accepted : a.date = d \/ a.key = daily_retry_key(d)]_botVars
=============================================================================
