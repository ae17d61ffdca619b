----------------------------- MODULE BotProofs -----------------------------
(***************************************************************************)
(* The container: no run of the scheduler bars the way of another, and each *)
(* day is served.                                                          *)
(***************************************************************************)
EXTENDS Bot, BroadcastingProofs

SchedulerFacts == INSTANCE SchedulerProofs

\* The scheduler has at most one run at work; while it waits for no run there
\* is none, unless the scheduler has ended and left it behind.
OneRunAtWork ==
  /\ phase \in {"launching", "job"} => last_run \in Nat
  /\ phase = "job" => Automatic(job) /\ pc[job] # "idle"
  /\ \A p \in Proc : Live(p) => run[p].mode \in {"automatic", "manual"}
  /\ \A p \in Proc : Live(p) /\ Automatic(p) =>
       /\ phase \in {"down", "job"} /\ (phase = "job" => job = p)
       /\ \A q \in Proc : Live(q) /\ Automatic(q) => q = p

\* Day d is served or its key is spent, or its window is over.
Settled(d) ==
  \/ \E a \in accepted : a.date = d \/ a.key = daily_retry_key(d)
  \/ d * DAY + DEADLINE <= now

\* Run p was started on day d, and is for that day or a later one.
RunOfDay(p, d) ==
  /\ run[p].run_day = NoDate \/ d <= run[p].run_day
  /\ run[p].date = NoDate \/ d <= run[p].date
  /\ pc[p] = "done" => run[p].ending \in {"skipped", "killed"} \/ Settled(d)

\* A run that found no menu did so before it was published, and its wait ends
\* while the window is open; it is never kept waiting by an error, nor held up
\* after its last check.
Timely(p) ==
  Automatic(p) =>
    /\ pc[p] # "backoff"
    /\ pc[p] \in {"fetched", "checked"} /\ run[p].menu = "none" => time(now) < Published
    /\ pc[p] = "checked" => time(now) < DEADLINE /\ date(now) = run[p].run_day
    /\ pc[p] = "waiting" =>
         \E u \in Instants : InWindow(run[p].date, u) /\ run[p].wake <= u

\* The days launched have come, and a scheduler that ended forgot them.
LaunchesPast ==
  /\ \A d \in launches : d <= date(now)
  /\ phase = "down" => last_run = Sched!NoRun

\* The run of a day has settled it when the scheduler goes on, or the day is
\* one of those exempt.
DaySettled ==
  phase \in {"deciding", "asleep"} /\ last_run # Sched!NoRun =>
    last_run \in failed \/ Settled(last_run)

ServiceInvariant ==
  /\ LaunchesPast
  /\ phase = "job" => RunOfDay(job, last_run)
  /\ DaySettled
  /\ \A p \in Proc : Timely(p)

\* From u to v the host runs for a minute of day d, and the job may start at v.
UpFrom(u, v, d) ==
  /\ u \in Instants /\ v \in Instants /\ date(u) = d /\ date(v) = d
  /\ u + 60 <= v /\ 48900 <= time(v) /\ time(v) < 54000
  /\ \A t \in Settings : t <= u \/ v < t

\* From then on the scheduler sleeps only because the job of the day was
\* started, or for no longer than until v.
UpAt(u, v) ==
  phase = "asleep" /\ u <= now /\ now < date(v) * DAY + DEADLINE =>
    date(v) \in launches \/ left = 0 \/ now + left <= v

\* For every minute that RunsForAMinute can name.
UpInTime == \A u, v \in Instants, d \in Nat : UpFrom(u, v, d) => UpAt(u, v)

-----------------------------------------------------------------------------
\* A step of the container, seen from the runs, the clock and LINE.
LEMMA StepOfRuns ==
  ASSUME [BotNext]_botVars
  PROVE  [Next]_vars
<1>1. CASE Schedules \/ JobEnds \/ Stop \/ Start
  BY <1>1 DEF Schedules, JobEnds, Stop, Start
<1>2. CASE JobStarts
  BY <1>2 DEF JobStarts, Next, Launch
<1>3. CASE RunSteps \/ RunDies
  BY <1>3 DEF RunSteps, RunDies, Next
<1>4. CASE OperatorStarts
  BY <1>4 DEF OperatorStarts, Next, Launch
<1>5. CASE LineServes
  BY <1>5 DEF LineServes, Next
<1>6. CASE TimePasses
  <2>1. \A p \in Proc : pc[p] \notin {"post", "checked"}
    BY <1>6 DEF TimePasses, Quiet
  <2>2. Tick
    BY <1>6, <2>1 DEF TimePasses, Tick
  <2> QED
    BY <2>2 DEF Next
<1>7. CASE UNCHANGED botVars
  BY <1>7 DEF botVars
<1> QED
  BY <1>1, <1>2, <1>3, <1>4, <1>5, <1>6, <1>7 DEF BotNext

\* A run does not move the clock.
LEMMA JobKeepsClock ==
  ASSUME NEW p \in Proc, JobStep(p)
  PROVE  now' = now
<1>1. ASSUME NEW e, Finish(p, e) PROVE now' = now
  BY <1>1 DEF Finish
<1>2. ASSUME NEW l, NEW r, Advance(p, l, r) PROVE now' = now
  BY <1>2 DEF Advance
<1>3. RetryLater(p) => now' = now
  BY <1>2 DEF RetryLater, Sleep
<1>4. ASSUME NEW key, broadcast(p, key) PROVE now' = now
  BY <1>1, <1>2, <1>4 DEF broadcast
<1>5. CASE Begin(p) \/ before_request(p) \/ Resume(p)
  BY <1>1, <1>2, <1>5 DEF Begin, before_request, Resume
<1>6. CASE CrossedMidnight(p) \/ WaitForWindow(p) \/ StartedTooLate(p) \/ Poll(p)
  BY <1>1, <1>2, <1>6 DEF CrossedMidnight, WaitForWindow, StartedTooLate, Poll, Sleep
<1>7. CASE FetchStep(p)
  BY <1>1, <1>2, <1>3, <1>7
     DEF FetchStep, PostToIChef, IChefFails, IChefAnswersNonsense, IChefBreaksOff,
         HoursReceived, ItemsReceived
<1>8. CASE BroadcastStep(p)
  BY <1>1, <1>3, <1>8
     DEF BroadcastStep, PostToLine, LineFails, LineRaises, LineBreaksOff, LineConfirms
<1>9. CASE RecheckDeadline(p) \/ EvaluateAutomatic(p) \/ EvaluateManual(p) \/ EvaluatePreview(p)
  BY <1>1, <1>2, <1>4, <1>9
     DEF RecheckDeadline, EvaluateAutomatic, EvaluateManual, EvaluatePreview, Sleep
<1> QED
  BY <1>5, <1>6, <1>7, <1>8, <1>9 DEF JobStep

\* The same step, seen from the scheduler.
LEMMA StepOfScheduler ==
  ASSUME TypeOK, [BotNext]_botVars
  PROVE  [Sched!Next]_Sched!vars
<1>1. CASE Schedules \/ Stop \/ Start
  BY <1>1 DEF Schedules, Stop, Start, Sched!Next, Sched!Loop, vars
<1>2. CASE JobEnds
  BY <1>2 DEF JobEnds, Sched!Next, Sched!Loop, vars
<1>3. CASE JobStarts
  BY <1>3 DEF JobStarts, LaunchAutomatic, Advance, Sched!Next, Sched!Loop
<1>4. CASE RunSteps \/ RunDies \/ OperatorStarts \/ LineServes
  <2>1. UNCHANGED scheduler
    BY <1>4 DEF RunSteps, RunDies, OperatorStarts, LineServes
  <2>2. now' = now
    <3>1. ASSUME NEW p \in Proc, JobStep(p) PROVE now' = now
      BY <3>1, JobKeepsClock
    <3>2. ASSUME NEW p \in Proc, Step(p) PROVE now' = now
      BY <3>1, <3>2 DEF Step, AcquireLock, SkipBusy, LockUnusable, Finish
    <3>3. LineStep => now' = now
      BY DEF LineStep, LineAccepts, LineReportsConflict, LineRefuses, Reply
    <3> QED
      BY <1>4, <3>2, <3>3
         DEF RunSteps, RunDies, OperatorStarts, LineServes, Die, LaunchManual, Finish, Advance
  <2> QED
    BY <2>1, <2>2 DEF scheduler, Sched!vars
<1>5. CASE TimePasses
  BY <1>5 DEF TimePasses, Sched!Next
<1>6. CASE UNCHANGED botVars
  BY <1>6 DEF botVars, vars, scheduler, Sched!vars
<1> QED
  BY <1>1, <1>2, <1>3, <1>4, <1>5, <1>6 DEF BotNext

\* SchedulerProofs is about the scheduler of the container: the assumptions it
\* makes are among those of the container, and the state and the steps are the
\* same.
LEMMA SchedulerAssumptions ==
  /\ Instants \subseteq Nat /\ Instants # {}
  /\ Settings \subseteq Instants
BY InstantsAssumption, BotSettings

LEMMA SameStart == Sched!Init <=> SchedulerFacts!Init
BY DEF Sched!Init, SchedulerFacts!Init, Sched!NoRun, SchedulerFacts!NoRun

LEMMA SameWait == Sched!wait = SchedulerFacts!wait
BY DEF Sched!wait, SchedulerFacts!wait, Sched!next_run, SchedulerFacts!next_run,
       Sched!Later, SchedulerFacts!Later, Sched!NoRun, SchedulerFacts!NoRun,
       Sched!LAST_START, SchedulerFacts!LAST_START, Sched!RUN_AT, SchedulerFacts!RUN_AT,
       Sched!date, SchedulerFacts!date, Sched!time, SchedulerFacts!time,
       Sched!DAY, SchedulerFacts!DAY

LEMMA SameStep ==
  [Sched!Next]_Sched!vars <=> [SchedulerFacts!Next]_SchedulerFacts!vars
<1>2. Sched!Loop <=> SchedulerFacts!Loop
  BY SameWait DEF Sched!Loop, SchedulerFacts!Loop, Sched!Sleep, SchedulerFacts!Sleep,
              Sched!Wake, SchedulerFacts!Wake, Sched!Decide, SchedulerFacts!Decide,
              Sched!JobStarts, SchedulerFacts!JobStarts,
              Sched!JobEnds, SchedulerFacts!JobEnds,
              Sched!MAX_SLEEP, SchedulerFacts!MAX_SLEEP, Sched!Least, SchedulerFacts!Least,
              Sched!date, SchedulerFacts!date, Sched!DAY, SchedulerFacts!DAY
<1>3. (Sched!Stop \/ Sched!Start) <=> (SchedulerFacts!Stop \/ SchedulerFacts!Start)
  BY DEF Sched!Stop, SchedulerFacts!Stop, Sched!Start, SchedulerFacts!Start,
         Sched!NoRun, SchedulerFacts!NoRun
<1>4. Sched!Due <=> SchedulerFacts!Due
  BY DEF Sched!Due, SchedulerFacts!Due, Sched!Startable, SchedulerFacts!Startable,
         Sched!LAST_START, SchedulerFacts!LAST_START, Sched!RUN_AT, SchedulerFacts!RUN_AT,
         Sched!date, SchedulerFacts!date, Sched!time, SchedulerFacts!time,
         Sched!DAY, SchedulerFacts!DAY
<1>5. Sched!Due' <=> SchedulerFacts!Due'
  BY DEF Sched!Due, SchedulerFacts!Due, Sched!Startable, SchedulerFacts!Startable,
         Sched!LAST_START, SchedulerFacts!LAST_START, Sched!RUN_AT, SchedulerFacts!RUN_AT,
         Sched!date, SchedulerFacts!date, Sched!time, SchedulerFacts!time,
         Sched!DAY, SchedulerFacts!DAY
<1>6. Sched!TimePasses <=> SchedulerFacts!TimePasses
  BY <1>4 DEF Sched!TimePasses, SchedulerFacts!TimePasses
<1>7. Sched!ClockIsSet <=> SchedulerFacts!ClockIsSet
  BY <1>4, <1>5 DEF Sched!ClockIsSet, SchedulerFacts!ClockIsSet
<1>8. Sched!vars = SchedulerFacts!vars /\ Sched!vars' = SchedulerFacts!vars'
  BY DEF Sched!vars, SchedulerFacts!vars
<1> QED
  BY <1>2, <1>3, <1>6, <1>7, <1>8 DEF Sched!Next, SchedulerFacts!Next

-----------------------------------------------------------------------------
\* What is proved of the runs holds of them in the container.
LEMMA RunsOfBot == BotSpec => Spec
<1>1. BotInit => Init
  BY DEF BotInit
<1>2. [BotNext]_botVars => [Next]_vars
  BY StepOfRuns
<1> QED
  BY <1>1, <1>2, PTL DEF BotSpec, Spec

\* And so does what is proved of the scheduler.
LEMMA SchedulerOfBot == BotSpec => SchedulerFacts!Spec
<1>1. BotInit => SchedulerFacts!Init
  BY SameStart DEF BotInit
<1>2. TypeOK /\ [BotNext]_botVars => [SchedulerFacts!Next]_SchedulerFacts!vars
  BY StepOfScheduler, SameStep
<1> QED
  BY <1>1, <1>2, RunsOfBot, TypeCorrect, PTL DEF BotSpec, SchedulerFacts!Spec

-----------------------------------------------------------------------------
\* What is known of the runs and of the scheduler, each by itself.
RunsKnown ==
  TypeOK /\ WindowInvariant /\ MessageInvariant /\ SuccessInvariant /\ LockInvariant

SchedulerKnown ==
  /\ Sched!TypeOK
  /\ last_run = Sched!NoRun => launches = {}
  /\ last_run # Sched!NoRun => last_run \in launches /\ \A d \in launches : d <= last_run

LEMMA SchedulerIsKnown == SchedulerFacts!SchedulerInvariant => SchedulerKnown
BY DEF SchedulerFacts!SchedulerInvariant, SchedulerFacts!TypeOK, SchedulerFacts!NoRun,
       SchedulerFacts!Phases, SchedulerFacts!MAX_SLEEP,
       SchedulerKnown, Sched!TypeOK, Sched!NoRun, Sched!Phases, Sched!MAX_SLEEP

LEMMA AllKnown == BotSpec => [](RunsKnown /\ SchedulerKnown)
<1>1. SchedulerFacts!Spec => []SchedulerFacts!SchedulerInvariant
  BY SchedulerAssumptions, SchedulerFacts!SchedulerInvariance
<1>2. TypeOK /\ WindowInvariant /\ MessageInvariant /\ SuccessInvariant /\ LockInvariant
        => RunsKnown
  BY DEF RunsKnown
<1> QED
  BY <1>1, <1>2, RunsOfBot, SchedulerOfBot, SchedulerIsKnown, DeliveryInvariance,
     LockIsInductive, PTL

-----------------------------------------------------------------------------
\* What the steps of the container do to the processes.
\* A run goes on or ends; nobody else moves.
LEMMA RunMoves ==
  ASSUME RunsKnown, NEW p \in Proc, Step(p) \/ Die(p)
  PROVE  /\ OthersStay(p) /\ now' = now
         /\ Live(p) /\ pc'[p] # "idle" /\ run'[p].mode = run[p].mode
<1>1. TypeOK /\ MessageInvariant /\ SuccessInvariant /\ WindowInvariant
  BY DEF RunsKnown
<1>2. ASSUME NEW e, Finish(p, e)
      PROVE  /\ OthersStay(p) /\ now' = now
             /\ pc'[p] # "idle" /\ run'[p].mode = run[p].mode
  <2>1. /\ OthersStay(p) /\ now' = now /\ pc'[p] = "done"
        /\ run'[p] = [Blank EXCEPT !.mode = run[p].mode, !.date = run[p].date,
                                   !.key = run[p].key, !.ending = e]
    BY <1>1, <1>2, FinishEffect
  <2>2. run'[p].mode = run[p].mode
    BY <2>1 DEF Blank
  <2> QED
    BY <2>1, <2>2
<1>3. CASE Die(p)
  BY <1>2, <1>3 DEF Die, Live
<1>4. CASE SkipBusy(p) \/ LockUnusable(p)
  BY <1>2, <1>4 DEF SkipBusy, LockUnusable, Live
<1>5. CASE AcquireLock(p)
  BY <1>1, <1>5 DEF AcquireLock, Become, OthersStay, TypeOK, Live
<1>6. CASE JobStep(p)
  <2>1. Live(p) /\ OthersStay(p) /\ pc'[p] # "idle"
    BY <1>1, <1>6, JobShape DEF Live, GoesOn, Ends
  <2>2. run'[p].mode = run[p].mode
    BY <1>1, <1>6, <2>1, JobLasting DEF Live, Lasting
  <2> QED
    BY <1>6, <2>1, <2>2, JobKeepsClock
<1> QED
  BY <1>3, <1>4, <1>5, <1>6 DEF Step

\* A launch turns an idle process into one before the lock.
LEMMA LaunchMoves ==
  ASSUME RunsKnown, NEW p \in Proc, LaunchAutomatic(p) \/ LaunchManual(p)
  PROVE  /\ OthersStay(p) /\ UNCHANGED <<now, accepted>>
         /\ pc[p] = "idle" /\ pc'[p] = "lock" /\ run'[p].ending = "none"
         /\ LaunchManual(p) => run'[p].mode = "manual"
         /\ LaunchAutomatic(p) => /\ run'[p].mode = "automatic"
                                  /\ run'[p].date = NoDate /\ run'[p].run_day = NoDate
<1>1. TypeOK
  BY DEF RunsKnown
<1>2. ASSUME LaunchAutomatic(p)
      PROVE  /\ OthersStay(p) /\ UNCHANGED <<now, accepted>>
             /\ pc[p] = "idle" /\ pc'[p] = "lock" /\ run'[p].ending = "none"
             /\ run'[p].mode = "automatic"
             /\ run'[p].date = NoDate /\ run'[p].run_day = NoDate
  BY <1>1, <1>2, AdvanceEffect DEF LaunchAutomatic, Blank
<1>3. ASSUME LaunchManual(p)
      PROVE  /\ OthersStay(p) /\ UNCHANGED <<now, accepted>>
             /\ pc[p] = "idle" /\ pc'[p] = "lock" /\ run'[p].ending = "none"
             /\ run'[p].mode = "manual"
  <2>1. PICK d, k : Advance(p, "lock",
            [Blank EXCEPT !.mode = "manual", !.date = d, !.key = k])
    BY <1>3 DEF LaunchManual
  <2>2. pc[p] = "idle"
    BY <1>3 DEF LaunchManual
  <2> DEFINE r == [Blank EXCEPT !.mode = "manual", !.date = d, !.key = k]
  <2>3. r.mode = "manual" /\ r.ending = "none"
    BY DEF Blank
  <2> HIDE DEF r
  <2>4. /\ pc'[p] = "lock" /\ run'[p] = r
        /\ OthersStay(p) /\ UNCHANGED <<now, accepted>>
    BY <1>1, <2>1, AdvanceEffect DEF r
  <2> QED
    BY <2>2, <2>3, <2>4
<1> QED
  BY <1>2, <1>3

\* LINE changes nothing in a run but the answer it reads.
LEMMA LineMoves ==
  ASSUME RunsKnown, LineStep
  PROVE  /\ pc' = pc /\ now' = now
         /\ \A p \in Proc : /\ run'[p].mode = run[p].mode
                            /\ run'[p].ending = run[p].ending
                            /\ run'[p] = run[p] \/ pc[p] = "reply"
<1>1. PICK m \in requests, answer \in Answers : Reply(m, answer)
  BY LineCases DEF RunsKnown
<1>2. TypeOK
  BY DEF RunsKnown
<1> QED
  BY <1>1, <1>2, ReplyEffect DEF Reply, AwaitsAnswer

\* Nobody starts; who was started stays so, in the same mode.
NobodyStarts ==
  \A q \in Proc :
    /\ pc[q] # "idle" => pc'[q] # "idle" /\ run'[q].mode = run[q].mode
    /\ Live(q)' => Live(q)

LEMMA RunsStartNobody ==
  ASSUME RunsKnown, RunSteps \/ RunDies
  PROVE  NobodyStarts /\ now' = now
<1>1. PICK p \in Proc : Step(p) \/ Die(p)
  BY DEF RunSteps, RunDies
<1>2. /\ OthersStay(p) /\ now' = now
      /\ Live(p) /\ pc'[p] # "idle" /\ run'[p].mode = run[p].mode
  BY <1>1, RunMoves
<1> QED
  BY <1>2 DEF NobodyStarts, OthersStay, Live

LEMMA OthersStartNobody ==
  ASSUME RunsKnown,
         Schedules \/ JobEnds \/ Stop \/ Start \/ LineServes \/ TimePasses \/ UNCHANGED botVars
  PROVE  NobodyStarts
<1>1. CASE LineServes
  BY <1>1, LineMoves DEF LineServes, NobodyStarts, Live
<1>2. CASE Schedules \/ JobEnds \/ Stop \/ Start \/ TimePasses \/ UNCHANGED botVars
  <2>1. pc' = pc /\ run' = run
    BY <1>2 DEF Schedules, JobEnds, Stop, Start, TimePasses, botVars, vars
  <2> QED
    BY <2>1 DEF NobodyStarts, Live
<1> QED
  BY <1>1, <1>2

-----------------------------------------------------------------------------
\* The run the scheduler waits for is known, and is its only one.
JobKnown ==
  /\ job \in Proc \cup {NoJob} /\ (phase = "job" <=> job \in Proc)
  /\ failed \subseteq Nat

LEMMA SchedulerStays ==
  ASSUME RunSteps \/ RunDies \/ OperatorStarts \/ LineServes \/ TimePasses \/ UNCHANGED botVars
  PROVE  UNCHANGED <<phase, last_run, launches, job, failed>>
<1>1. CASE RunSteps \/ RunDies \/ OperatorStarts \/ LineServes
  BY <1>1 DEF RunSteps, RunDies, OperatorStarts, LineServes, scheduler
<1>2. CASE TimePasses
  BY <1>2 DEF TimePasses, Sched!TimePasses, Sched!ClockIsSet
<1>3. CASE UNCHANGED botVars
  BY <1>3 DEF botVars, scheduler
<1> QED
  BY <1>1, <1>2, <1>3

LEMMA JobKnownStep ==
  ASSUME JobKnown, OneRunAtWork, [BotNext]_botVars
  PROVE  JobKnown'
<1>1. CASE RunSteps \/ RunDies \/ OperatorStarts \/ LineServes \/ TimePasses \/ UNCHANGED botVars
  BY <1>1, SchedulerStays DEF JobKnown
<1>2. CASE Schedules
  BY <1>2 DEF Schedules, Sched!Sleep, Sched!Wake, Sched!Decide, JobKnown
<1>3. CASE JobStarts
  BY <1>3 DEF JobStarts, Sched!JobStarts, JobKnown
<1>4. CASE JobEnds
  BY <1>4, NoJobAssumption DEF JobEnds, Sched!JobEnds, JobKnown, OneRunAtWork
<1>5. CASE Stop
  BY <1>5, NoJobAssumption DEF Stop, Sched!Stop, JobKnown
<1>6. CASE Start
  BY <1>6 DEF Start, Sched!Start, JobKnown
<1> QED
  BY <1>1, <1>2, <1>3, <1>4, <1>5, <1>6 DEF BotNext

\* Where no run is started, the scheduler has no more of them than before.
LEMMA NoMoreAtWork ==
  ASSUME OneRunAtWork, JobKnown, NobodyStarts,
         UNCHANGED <<phase, last_run, job>>
  PROVE  OneRunAtWork'
<1>1. phase = "job" => job \in Proc
  BY DEF JobKnown
<1>2. \A q \in Proc : Live(q) => pc[q] # "idle"
  BY DEF Live
<1>3. phase' \in {"launching", "job"} => last_run' \in Nat
  BY DEF OneRunAtWork
<1>4. phase' = "job" => Automatic(job)' /\ pc'[job'] # "idle"
  BY <1>1 DEF OneRunAtWork, NobodyStarts, Automatic
<1>5. ASSUME NEW q \in Proc, Live(q)'
      PROVE  Live(q) /\ run'[q].mode = run[q].mode
  BY <1>2, <1>5 DEF NobodyStarts
<1>6. ASSUME NEW q \in Proc, Live(q)' PROVE run'[q].mode \in {"automatic", "manual"}
  BY <1>5, <1>6 DEF OneRunAtWork
<1>7. ASSUME NEW q \in Proc, Live(q)', Automatic(q)'
      PROVE  Live(q) /\ Automatic(q)
  BY <1>5, <1>7 DEF Automatic
<1>8. ASSUME NEW q \in Proc, Live(q)', Automatic(q)'
      PROVE  /\ phase' \in {"down", "job"} /\ (phase' = "job" => job' = q)
             /\ \A r \in Proc : Live(r)' /\ Automatic(r)' => r = q
  BY <1>7, <1>8 DEF OneRunAtWork
<1> QED
  BY <1>3, <1>4, <1>6, <1>8 DEF OneRunAtWork

\* Where none is live, any phase will do.
LEMMA NoneAtWork ==
  ASSUME OneRunAtWork, NobodyStarts,
         \A q \in Proc : Live(q) => ~Automatic(q),
         phase' # "job", phase' = "launching" => last_run' \in Nat
  PROVE  OneRunAtWork'
<1>1. \A q \in Proc : Live(q) => pc[q] # "idle"
  BY DEF Live
<1>2. ASSUME NEW q \in Proc, Live(q)'
      PROVE  Live(q) /\ run'[q].mode = run[q].mode
  BY <1>1, <1>2 DEF NobodyStarts
<1>3. ASSUME NEW q \in Proc, Live(q)'
      PROVE  run'[q].mode \in {"automatic", "manual"} /\ ~Automatic(q)'
  BY <1>2, <1>3 DEF OneRunAtWork, Automatic
<1> QED
  BY <1>3 DEF OneRunAtWork

\* A launch adds one run: its own, and it is the only one of the scheduler.
LEMMA OneMoreAtWork ==
  ASSUME RunsKnown, OneRunAtWork, JobKnown, NEW p \in Proc,
         \/ LaunchAutomatic(p) /\ phase = "launching" /\ phase' = "job" /\ job' = p
         \/ LaunchManual(p) /\ UNCHANGED <<phase, job>>,
         last_run' = last_run
  PROVE  OneRunAtWork'
<1>1. /\ OthersStay(p) /\ pc[p] = "idle" /\ pc'[p] = "lock"
      /\ LaunchAutomatic(p) => run'[p].mode = "automatic"
      /\ LaunchManual(p) => run'[p].mode = "manual"
  BY LaunchMoves
<1>2. \A q \in Proc \ {p} : (Live(q)' <=> Live(q)) /\ (Automatic(q)' <=> Automatic(q))
  BY <1>1 DEF OthersStay, Live, Automatic
<1>3. \A q \in Proc \ {p} : pc'[q] = pc[q] /\ run'[q].mode = run[q].mode
  BY <1>1 DEF OthersStay
<1>4. run'[p].mode \in {"automatic", "manual"}
  BY <1>1
<1>5. \A q \in Proc : Live(q)' => run'[q].mode \in {"automatic", "manual"}
  BY <1>2, <1>3, <1>4 DEF OneRunAtWork
<1>6. phase' \in {"launching", "job"} => last_run' \in Nat
  BY DEF OneRunAtWork
<1>7. CASE LaunchAutomatic(p) /\ phase = "launching" /\ phase' = "job" /\ job' = p
  <2>1. Automatic(p)' /\ pc'[p] # "idle"
    BY <1>1, <1>7 DEF Automatic
  <2>2. \A q \in Proc \ {p} : Live(q)' => ~Automatic(q)'
    BY <1>2, <1>7 DEF OneRunAtWork
  <2>3. \A q \in Proc : Live(q)' /\ Automatic(q)' => q = p
    BY <2>2
  <2>4. phase' = "job" => Automatic(job)' /\ pc'[job'] # "idle"
    BY <1>1, <1>7 DEF Automatic
  <2> QED
    BY <1>5, <1>6, <1>7, <2>3, <2>4 DEF OneRunAtWork
<1>8. CASE LaunchManual(p) /\ UNCHANGED <<phase, job>>
  <2>1. ~Automatic(p)'
    BY <1>1, <1>8 DEF Automatic
  <2>2. \A q \in Proc : Live(q)' /\ Automatic(q)' => Live(q) /\ Automatic(q)
    BY <1>2, <2>1
  <2>3. phase = "job" => job # p /\ job \in Proc
    BY <1>1 DEF OneRunAtWork, JobKnown
  <2>4. phase' = "job" => Automatic(job)' /\ pc'[job'] # "idle"
    BY <1>3, <1>8, <2>3 DEF OneRunAtWork, Automatic
  <2> QED
    BY <1>5, <1>6, <1>8, <2>2, <2>4 DEF OneRunAtWork
<1> QED
  BY <1>7, <1>8 DEF OneRunAtWork

LEMMA OneRunAtWorkStep ==
  ASSUME RunsKnown, SchedulerKnown, JobKnown, OneRunAtWork, [BotNext]_botVars
  PROVE  OneRunAtWork'
<1>1. CASE RunSteps \/ RunDies \/ LineServes \/ TimePasses \/ UNCHANGED botVars
  BY <1>1, SchedulerStays, RunsStartNobody, OthersStartNobody, NoMoreAtWork
<1>2. CASE OperatorStarts
  <2>1. PICK p \in Proc : LaunchManual(p)
    BY <1>2 DEF OperatorStarts
  <2> QED
    BY <1>2, <2>1, SchedulerStays, OneMoreAtWork
<1>3. CASE JobStarts
  <2>1. PICK p \in Proc : LaunchAutomatic(p) /\ job' = p
    BY <1>3 DEF JobStarts
  <2> QED
    BY <1>3, <2>1, OneMoreAtWork DEF JobStarts, Sched!JobStarts
<1>4. CASE Schedules
  <2>1. phase \in {"deciding", "asleep"} /\ phase' # "job"
    BY <1>4 DEF Schedules, Sched!Sleep, Sched!Wake, Sched!Decide
  <2>2. phase' = "launching" => last_run' \in Nat
    <3>1. date(now) \in Nat
      BY InstantsAreNat, Division DEF RunsKnown
    <3>2. Sched!date(now) = date(now)
      BY DEF Sched!date, date, Sched!DAY, DAY
    <3> QED
      BY <1>4, <3>1, <3>2 DEF Schedules, Sched!Sleep, Sched!Wake, Sched!Decide
  <2>3. \A q \in Proc : Live(q) => ~Automatic(q)
    BY <2>1 DEF OneRunAtWork
  <2> QED
    BY <1>4, <2>1, <2>2, <2>3, OthersStartNobody, NoneAtWork
<1>5. CASE JobEnds
  <2>1. phase = "job" /\ pc[job] = "done" /\ phase' = "deciding"
    BY <1>5 DEF JobEnds, Sched!JobEnds
  <2>2. \A q \in Proc : Live(q) => ~Automatic(q)
    BY <2>1 DEF OneRunAtWork, Live
  <2> QED
    BY <1>5, <2>1, <2>2, OthersStartNobody, NoneAtWork
<1>6. CASE Stop
  <2>1. phase' = "down" /\ pc' = pc /\ run' = run
    BY <1>6 DEF Stop, Sched!Stop, vars
  <2> QED
    BY <2>1 DEF OneRunAtWork, Live, Automatic
<1>7. CASE Start
  <2>1. phase' = "deciding" /\ \A q \in Proc : Live(q) => ~Automatic(q)
    BY <1>7 DEF Start, Sched!Start
  <2> QED
    BY <1>7, <2>1, OthersStartNobody, NoneAtWork
<1> QED
  BY <1>1, <1>2, <1>3, <1>4, <1>5, <1>6, <1>7 DEF BotNext

LEMMA AtWorkInvariance == BotSpec => [](JobKnown /\ OneRunAtWork)
<1>1. BotInit => JobKnown /\ OneRunAtWork
  BY NoJobAssumption
     DEF BotInit, Sched!Init, Init, JobKnown, OneRunAtWork, Live
<1>2. RunsKnown /\ SchedulerKnown /\ JobKnown /\ OneRunAtWork /\ [BotNext]_botVars
        => JobKnown' /\ OneRunAtWork'
  BY JobKnownStep, OneRunAtWorkStep
<1> QED
  BY <1>1, <1>2, AllKnown, PTL DEF BotSpec

\* Every variable of the container keeps its type, and the scheduler waits for
\* a run exactly if it knows which.
THEOREM BotTypeCorrect == BotSpec => []BotTypeOK
<1>1. RunsKnown /\ SchedulerKnown /\ JobKnown => BotTypeOK
  BY DEF RunsKnown, SchedulerKnown, JobKnown, BotTypeOK
<1> QED
  BY <1>1, AllKnown, AtWorkInvariance, PTL

\* Only a run that finds the lock busy is skipped.
LEMMA SkippedAtLock ==
  ASSUME RunsKnown, NEW p \in Proc, [BotNext]_botVars,
         run[p].ending # "skipped", run'[p].ending = "skipped"
  PROVE  SkipBusy(p)
<1>1. TypeOK
  BY DEF RunsKnown
<1>2. ~LineServes
  BY LineMoves DEF LineServes
<1>3. ~JobStarts /\ ~OperatorStarts
  <2>1. ASSUME NEW q \in Proc, LaunchAutomatic(q) \/ LaunchManual(q) PROVE FALSE
    BY <2>1, LaunchMoves DEF OthersStay
  <2> QED
    BY <2>1 DEF JobStarts, OperatorStarts
<1>4. run' # run
  OBVIOUS
<1>5. PICK q \in Proc : Step(q) \/ Die(q)
  BY <1>2, <1>3, <1>4
     DEF BotNext, Schedules, JobEnds, Stop, Start, TimePasses, RunSteps, RunDies, botVars, vars
<1>6. q = p
  BY <1>5, RunMoves DEF OthersStay
<1>7. ~Die(p) /\ ~LockUnusable(p)
  BY <1>1, FinishEnding DEF Die, LockUnusable
<1>8. ~AcquireLock(p)
  BY <1>1 DEF AcquireLock, Become, TypeOK
<1>9. ~JobStep(p)
  BY <1>1, JobEnding, FinishEnding DEF KeepsEnding, Failures, LineConfirms
<1> QED
  BY <1>5, <1>6, <1>7, <1>8, <1>9 DEF Step

\* Across stops and starts of the container, a run of the scheduler finds the
\* lock busy only if an operator's run has it.
THEOREM NotBlockedByItself == BotSpec => NeverBlockedByItself
<1>1. ASSUME RunsKnown, OneRunAtWork, [BotNext]_botVars, NEW p \in Proc,
             run[p].ending # "skipped", run'[p].ending = "skipped", Automatic(p)
      PROVE  \E q \in holders : run[q].mode = "manual"
  <2>1. pc[p] = "lock" /\ holders # {}
    BY <1>1, SkippedAtLock DEF SkipBusy
  <2>2. PICK q \in Proc : q \in holders
    BY <1>1, <2>1 DEF RunsKnown, TypeOK
  <2>3. Live(q) /\ pc[q] # "lock"
    BY <1>1, <2>2 DEF RunsKnown, LockInvariant, OneBroadcaster, Critical, Live
  <2>4. q # p /\ Live(p)
    BY <2>1, <2>3 DEF Live
  <2>5. ~Automatic(q)
    BY <1>1, <2>3, <2>4 DEF OneRunAtWork
  <2>6. run[q].mode = "manual"
    BY <1>1, <2>3, <2>5 DEF OneRunAtWork, Automatic
  <2> QED
    BY <2>2, <2>6
<1>2. RunsKnown /\ OneRunAtWork /\ [BotNext]_botVars =>
        [\A p \in Proc :
           run[p].ending # "skipped" /\ run'[p].ending = "skipped" /\ Automatic(p)
           => \E q \in holders : run[q].mode = "manual"]_botVars
  BY <1>1
<1> QED
  BY <1>2, AllKnown, AtWorkInvariance, PTL DEF BotSpec, NeverBlockedByItself

-----------------------------------------------------------------------------
\* The clock is not set back, and what LINE accepted stays accepted.
LEMMA ClockRuns ==
  ASSUME RunsKnown, [BotNext]_botVars
  PROVE  /\ now \in Nat /\ now' \in Nat /\ now <= now'
         /\ TimePasses \/ now' = now
<1>1. now \in Nat
  BY InstantsAreNat DEF RunsKnown
<1>2. CASE TimePasses
  <2>1. PICK t \in Instants : t > now /\ now' = t
    BY <1>2 DEF TimePasses
  <2> QED
    BY <1>1, <1>2, <2>1, InstantsAssumption
<1>3. CASE RunSteps \/ RunDies
  BY <1>1, <1>3, RunsStartNobody
<1>4. CASE LineServes
  BY <1>1, <1>4, LineMoves DEF LineServes
<1>5. CASE JobStarts \/ OperatorStarts
  BY <1>1, <1>5, LaunchMoves DEF JobStarts, OperatorStarts
<1>6. CASE Schedules \/ JobEnds \/ Stop \/ Start \/ UNCHANGED botVars
  BY <1>1, <1>6 DEF Schedules, JobEnds, Stop, Start, botVars, vars
<1> QED
  BY <1>2, <1>3, <1>4, <1>5, <1>6 DEF BotNext

LEMMA SettledStays ==
  ASSUME RunsKnown, [BotNext]_botVars, NEW d \in Nat, Settled(d)
  PROVE  Settled(d)'
<1>1. accepted \subseteq accepted'
  BY StepOfRuns, EveryStepLasts, AcceptedGrows DEF RunsKnown
<1>2. CASE \E a \in accepted : a.date = d \/ a.key = daily_retry_key(d)
  BY <1>1, <1>2 DEF Settled
<1>3. CASE d * DAY + DEADLINE <= now
  <2>1. d * 86400 + 54000 <= now'
    BY <1>3, ClockRuns DEF DAY, DEADLINE
  <2> QED
    BY <2>1 DEF Settled, DAY, DEADLINE
<1> QED
  BY <1>2, <1>3 DEF Settled

LEMMA LaunchesPastStep ==
  ASSUME RunsKnown, SchedulerKnown, LaunchesPast, [BotNext]_botVars
  PROVE  LaunchesPast'
<1>1. /\ now \in Nat /\ now' \in Nat /\ date(now) \in Nat /\ date(now') \in Nat
      /\ date(now) <= date(now')
  BY ClockRuns, Division, DaysPass
<1>2. launches \subseteq Nat
  BY DEF SchedulerKnown, Sched!TypeOK
<1>3. \A d \in launches : d <= date(now')
  BY <1>1, <1>2 DEF LaunchesPast
<1>4. CASE RunSteps \/ RunDies \/ OperatorStarts \/ LineServes \/ TimePasses \/ UNCHANGED botVars
  BY <1>3, <1>4, SchedulerStays DEF LaunchesPast
<1>5. CASE Schedules
  <2>1. Sched!date(now) = date(now) /\ now' = now
    BY <1>5 DEF Schedules, vars, Sched!date, date, Sched!DAY, DAY
  <2> QED
    BY <1>1, <1>3, <1>5, <2>1
       DEF Schedules, Sched!Sleep, Sched!Wake, Sched!Decide, LaunchesPast
<1>6. CASE JobStarts \/ JobEnds \/ Start
  <2>1. phase' # "down" /\ launches' = launches
    BY <1>6 DEF JobStarts, JobEnds, Start, Sched!JobStarts, Sched!JobEnds, Sched!Start
  <2> QED
    BY <1>3, <2>1 DEF LaunchesPast
<1>7. CASE Stop
  BY <1>7 DEF Stop, Sched!Stop, LaunchesPast
<1> QED
  BY <1>4, <1>5, <1>6, <1>7 DEF BotNext

\* What is kept waiting in a healthy world waits for a poll of its window.
LEMMA WaitsTimely ==
  ASSUME RunsKnown, HostAttends, NEW p \in Proc, Automatic(p), Timely(p),
         JobStep(p), pc'[p] = "waiting"
  PROVE  \E u \in Instants : InWindow(run'[p].date, u) /\ run'[p].wake <= u
<1>1. TypeOK /\ WindowInvariant /\ now \in Instants
  BY DEF RunsKnown, TypeOK
<1>2. time(now) < 54000 =>
        \E u \in Instants : InWindow(date(now), u) /\ (time(now) < Published => now + 300 <= u)
  BY <1>1 DEF HostAttends, RunsAtNextPoll, DEADLINE, POLL_INTERVAL_SECONDS
<1>3. now \in Nat /\ date(now) \in Nat /\ time(now) \in Nat
  BY <1>1, InstantsAreNat, Division
<1>4. run'[p].wake \in Nat
  <2>1. TypeOK'
    BY <1>1, JobType
  <2> QED
    BY <2>1 DEF TypeOK, Runs
<1>5. CASE WaitForWindow(p)
  <2>4. time(now) < 54000
    BY <1>1, <1>3, <1>5, OpeningWait
  <2>1. PICK u \in Instants : InWindow(date(now), u)
    BY <1>2, <2>4
  <2>2. u \in Nat /\ date(u) = date(now) /\ time(u) >= 49200 /\ u = 86400 * date(u) + time(u)
        /\ time(u) \in Nat
    BY <2>1, InstantsAssumption, Division DEF InWindow, START_TIME
  <2>3. run'[p].wake <= date(now) * 86400 + 49200 /\ run'[p].date = date(now)
    BY <1>1, <1>5, OpeningWait
  <2>5. run'[p].wake <= u
    BY <1>3, <1>4, <2>2, <2>3
  <2> QED
    BY <2>1, <2>3, <2>5
<1>6. CASE EvaluateAutomatic(p)
  <2>1. /\ run[p].menu = "none" /\ time(now) < 54000
        /\ run'[p].date = date(now) /\ run'[p].wake <= now + 300
    <3>1. time(now) < 54000 /\ run[p].run_day = date(now)
      BY <1>6 DEF Timely, EvaluateAutomatic, DEADLINE
    <3>2. run[p].date = date(now)
      BY <1>1, <1>3, <1>6, <3>1, PollWait
    <3> QED
      BY <1>1, <1>6, <3>1, <3>2, PollWait
  <2>2. time(now) < Published
    BY <1>6, <2>1 DEF Timely, EvaluateAutomatic
  <2>3. PICK u \in Instants : InWindow(date(now), u) /\ now + 300 <= u
    BY <1>2, <2>1, <2>2
  <2>4. u \in Nat
    BY InstantsAssumption
  <2>5. run'[p].wake <= u
    BY <1>3, <1>4, <2>1, <2>3, <2>4
  <2> QED
    BY <2>1, <2>3, <2>5
<1> QED
  BY <1>1, <1>5, <1>6, WaitBegins

\* Only the check after a fetch leads to where the next sleep is chosen.
LEMMA CheckedAfterFetch ==
  ASSUME TypeOK, NEW p \in Proc, JobStep(p), pc'[p] = "checked"
  PROVE  /\ pc[p] = "fetched" /\ run'[p] = run[p]
         /\ time(now) < DEADLINE /\ date(now) = run[p].run_day
<1>1. \A e : ~Finish(p, e)
  BY FinishEffect
<1>2. \A l \in Labels \ {"checked"} : \A r : ~Advance(p, l, r)
  BY AdvanceEffect
<1>3. /\ ~RetryLater(p) /\ ~Resume(p) /\ ~before_request(p) /\ ~Begin(p)
      /\ ~Poll(p) /\ ~WaitForWindow(p) /\ ~CrossedMidnight(p) /\ ~StartedTooLate(p)
  BY <1>1, <1>2 DEF RetryLater, Sleep, Resume, before_request, Begin, Poll, WaitForWindow,
     CrossedMidnight, StartedTooLate, Labels
<1>4. ~FetchStep(p)
  BY <1>1, <1>2, <1>3 DEF FetchStep, PostToIChef, IChefFails, IChefAnswersNonsense,
     IChefBreaksOff, HoursReceived, ItemsReceived, Labels
<1>5. ~PostToLine(p)
  BY DEF PostToLine, Become, TypeOK
<1>6. ~BroadcastStep(p)
  BY <1>1, <1>3, <1>5 DEF BroadcastStep, LineFails, LineRaises, LineBreaksOff, LineConfirms
<1>7. \A key : ~broadcast(p, key)
  BY <1>1, <1>2 DEF broadcast, Labels
<1>8. ~EvaluateManual(p) /\ ~EvaluateAutomatic(p)
  BY <1>1, <1>2, <1>7 DEF EvaluateManual, EvaluateAutomatic, Sleep, Labels
<1>9. ~EvaluatePreview(p)
  BY <1>1 DEF EvaluatePreview, TypeOK, Runs, Menus
<1>10. RecheckDeadline(p)
  BY <1>3, <1>4, <1>6, <1>8, <1>9 DEF JobStep
<1> QED
  BY <1>1, <1>10, AdvanceEffect DEF RecheckDeadline, check_deadline_passes

LEMMA RunTimely ==
  ASSUME RunsKnown, HostAttends, NEW p \in Proc, Timely(p), Step(p), Healthily(p)
  PROVE  Timely(p)'
<1>1. TypeOK
  BY DEF RunsKnown
<1>2. now' = now /\ run'[p].mode = run[p].mode
  BY RunMoves
<1>3. time(now) \in Nat /\ Published \in Nat
  BY <1>1, InstantsAreNat, Division, HealthyAssumption
<1>4. pc'[p] # "backoff"
  BY DEF Healthily
<1>5. pc'[p] = "fetched" /\ run'[p].menu = "none" => time(now') < Published
  BY <1>2, <1>3 DEF Healthily
<1>6. pc'[p] \in {"waiting", "checked"} => JobStep(p)
  <2>1. \A e : Finish(p, e) => pc'[p] = "done"
    BY <1>1, FinishEffect
  <2>2. AcquireLock(p) => pc'[p] = "begin"
    BY <1>1 DEF AcquireLock, Become, TypeOK
  <2> QED
    BY <2>1, <2>2 DEF Step, SkipBusy, LockUnusable
<1>7. ASSUME Automatic(p), pc'[p] = "waiting"
      PROVE  \E u \in Instants : InWindow(run'[p].date, u) /\ run'[p].wake <= u
  BY <1>6, <1>7, WaitsTimely
<1>8. ASSUME Automatic(p), pc'[p] = "checked"
      PROVE  /\ run'[p].menu = "none" => time(now') < Published
             /\ time(now') < DEADLINE /\ date(now') = run'[p].run_day
  BY <1>1, <1>2, <1>6, <1>8, CheckedAfterFetch DEF Timely
<1> QED
  BY <1>2, <1>4, <1>5, <1>7, <1>8 DEF Timely, Automatic

LEMMA TimelyStep ==
  ASSUME RunsKnown, Healthy, HostAttends, \A p \in Proc : Timely(p), [BotNext]_botVars
  PROVE  \A p \in Proc : Timely(p)'
<1>1. ASSUME NEW p \in Proc, Timely(p)', OthersStay(p), now' = now
      PROVE  \A q \in Proc : Timely(q)'
  BY <1>1 DEF OthersStay, Timely, Automatic
<1>2. CASE RunSteps
  <2>1. PICK p \in Proc : Step(p) /\ Healthily(p)
    BY <1>2 DEF RunSteps
  <2>2. OthersStay(p) /\ now' = now
    BY <2>1, RunMoves
  <2> QED
    BY <1>1, <2>1, <2>2, RunTimely
<1>3. CASE RunDies
  <2>1. PICK p \in Proc : Die(p)
    BY <1>3 DEF RunDies
  <2>2. pc'[p] = "done"
    BY <2>1, FinishEffect DEF Die, RunsKnown
  <2>3. OthersStay(p) /\ now' = now
    BY <2>1, RunMoves
  <2> QED
    BY <1>1, <2>2, <2>3 DEF Timely
<1>4. CASE JobStarts \/ OperatorStarts
  <2>1. PICK p \in Proc : LaunchAutomatic(p) \/ LaunchManual(p)
    BY <1>4 DEF JobStarts, OperatorStarts
  <2>2. pc'[p] = "lock" /\ OthersStay(p) /\ now' = now
    BY <2>1, LaunchMoves
  <2> QED
    BY <1>1, <2>2 DEF Timely
<1>5. CASE LineServes
  <2>1. /\ pc' = pc /\ now' = now
        /\ \A p \in Proc : /\ run'[p].mode = run[p].mode
                           /\ run'[p] = run[p] \/ pc[p] = "reply"
    BY <1>5, LineMoves DEF LineServes
  <2> QED
    BY <2>1 DEF Timely, Automatic
<1>6. CASE TimePasses
  <2>1. \A p \in Proc : pc[p] \in {"idle", "done", "waiting", "backoff"}
    BY <1>6 DEF TimePasses, Quiet
  <2>2. pc' = pc /\ run' = run
    BY <1>6 DEF TimePasses
  <2> QED
    BY <2>1, <2>2 DEF Timely, Automatic
<1>7. CASE Schedules \/ JobEnds \/ Stop \/ Start \/ UNCHANGED botVars
  <2>1. pc' = pc /\ run' = run /\ now' = now
    BY <1>7 DEF Schedules, JobEnds, Stop, Start, botVars, vars
  <2> QED
    BY <2>1 DEF Timely, Automatic
<1> QED
  BY <1>2, <1>3, <1>4, <1>5, <1>6, <1>7 DEF BotNext

-----------------------------------------------------------------------------
\* How an automatic run ends.
LEMMA AutomaticEnds ==
  ASSUME TypeOK, WindowInvariant, NEW p \in Proc, JobStep(p), Automatic(p), pc'[p] = "done"
  PROVE  /\ \/ ~check_deadline_passes(p) \/ LineConfirms(p)
            \/ run'[p].ending \in {"menu_data", "too_long", "line", "request_error"}
         /\ Started(p) /\ run'[p].run_day = NoDate /\ run'[p].date = run[p].date
<1>1. ~LoopHead(p) /\ ~Resume(p)
  BY LoopHeadIsNoEnd, AdvanceIsNoEnd DEF Resume, Labels
<1>2. ~RetryLater(p)
  BY AdvanceIsNoEnd DEF RetryLater, Sleep, Labels
<1>3. ~PostToLine(p)
  BY DEF PostToLine, Become, TypeOK
<1>4. BroadcastStep(p) =>
        LineConfirms(p) \/ Finish(p, "line") \/ Finish(p, "request_error")
  BY <1>2, <1>3 DEF BroadcastStep, LineFails, LineRaises, LineBreaksOff
<1>5. before_request(p) => ~check_deadline_passes(p) /\ Finish(p, "deadline")
  BY AdvanceIsNoEnd DEF before_request, Labels
<1>6. /\ EvaluateAutomatic(p) => Finish(p, "too_long")
      /\ RecheckDeadline(p) => ~check_deadline_passes(p) /\ Finish(p, "deadline")
  <2>1. \A key : broadcast(p, key) => Finish(p, "too_long")
    BY AdvanceIsNoEnd DEF broadcast, Labels
  <2>2. \A r, t : ~Sleep(p, "waiting", r, t)
    BY AdvanceIsNoEnd DEF Sleep, Labels
  <2>3. \A r : ~Advance(p, "checked", r)
    BY AdvanceIsNoEnd DEF Labels
  <2> QED
    BY <2>1, <2>2, <2>3 DEF EvaluateAutomatic, RecheckDeadline
<1>7. ~EvaluateManual(p) /\ ~EvaluatePreview(p)
  BY DEF EvaluateManual, EvaluatePreview, Automatic
<1>8. FetchStep(p) => Finish(p, "menu_data") \/ Finish(p, "request_error")
  <2>1. ~PostToIChef(p) /\ ~HoursReceived(p) /\ ~ItemsReceived(p) /\ ~IChefFails(p)
    BY <1>2, AdvanceIsNoEnd
       DEF PostToIChef, HoursReceived, ItemsReceived, IChefFails, Labels
  <2> QED
    BY <2>1 DEF FetchStep, IChefAnswersNonsense, IChefBreaksOff
<1>9. CrossedMidnight(p) \/ StartedTooLate(p) =>
        ~check_deadline_passes(p) /\ Finish(p, "deadline")
  BY LoopEnds DEF CrossedMidnight, StartedTooLate
<1>10. /\ \/ ~check_deadline_passes(p) \/ LineConfirms(p)
          \/ \E e \in {"menu_data", "too_long", "line", "request_error"} : Finish(p, e)
       /\ \E e : Finish(p, e)
  BY <1>1, <1>4, <1>5, <1>6, <1>7, <1>8, <1>9 DEF JobStep, LoopHead, LineConfirms
<1>11. \/ ~check_deadline_passes(p) \/ LineConfirms(p)
       \/ run'[p].ending \in {"menu_data", "too_long", "line", "request_error"}
  BY <1>10, FinishEnding
<1>12. run'[p].run_day = NoDate /\ run'[p].date = run[p].date
  <2>1. PICK e : run'[p] = [Blank EXCEPT !.mode = run[p].mode, !.date = run[p].date,
                                         !.key = run[p].key, !.ending = e]
    BY <1>10, FinishEffect
  <2> QED
    BY <2>1 DEF Blank
<1>13. Started(p)
  <2>1. pc[p] # "begin"
    BY <1>1, <1>7
       DEF JobStep, LoopHead, CrossedMidnight, StartedTooLate, before_request, FetchStep,
           PostToIChef, IChefFails, IChefAnswersNonsense, IChefBreaksOff, HoursReceived,
           ItemsReceived, Fetching, BroadcastStep, PostToLine, LineFails, LineRaises,
           LineBreaksOff, LineConfirms, AwaitingLine, RecheckDeadline, EvaluateAutomatic
  <2>2. pc[p] \notin {"idle", "lock", "done"} /\ pc[p] \in Labels
    BY JobShape DEF TypeOK
  <2> QED
    BY <2>1, <2>2 DEF Started, Working, Labels
<1> QED
  BY <1>11, <1>12, <1>13

\* A run that ends by itself in a healthy world has settled the day.
LEMMA EndSettles ==
  ASSUME RunsKnown, NEW p \in Proc, NEW d \in Nat, Automatic(p), RunOfDay(p, d),
         JobStep(p), Healthily(p), pc'[p] = "done"
  PROVE  Settled(d)
<1>1. TypeOK /\ WindowInvariant /\ DaysInOrder(p) /\ AnswersAreTrue(p) /\ Phases(p)
  BY DEF RunsKnown, WindowInvariant, MessageInvariant
<1>2. /\ now \in Nat /\ date(now) \in Nat /\ time(now) \in Nat
      /\ now = 86400 * date(now) + time(now)
  BY <1>1, InstantsAreNat, Division
<1>3. run[p].run_day \in Nat /\ run[p].run_day <= date(now) /\ d <= run[p].run_day
  BY <1>1, AutomaticEnds DEF DaysInOrder, RunOfDay, NoDate
<1>4. CASE ~check_deadline_passes(p)
  <2> SUFFICES d * 86400 + 54000 <= now
    BY DEF Settled, DAY, DEADLINE
  <2>1. date(now) = run[p].run_day => time(now) >= 54000
    BY <1>2, <1>4 DEF check_deadline_passes, DEADLINE
  <2>2. CASE date(now) = run[p].run_day
    <3>1. d <= date(now) /\ time(now) >= 54000
      BY <1>3, <2>1, <2>2
    <3> QED
      BY <1>2, <3>1
  <2>3. CASE date(now) # run[p].run_day
    <3>1. d < date(now)
      BY <1>2, <1>3, <2>3
    <3> QED
      BY <1>2, <3>1
  <2> QED
    BY <2>2, <2>3
<1>5. CASE LineConfirms(p)
  <2>1. Delivered(p) /\ Working(p) /\ pc[p] # "loop"
    BY <1>1, <1>5 DEF LineConfirms, AwaitingLine, AnswersAreTrue, Working
  <2>2. PICK a \in accepted : a.key = daily_retry_key(run[p].date)
    <3>1. run[p].key = daily_retry_key(run[p].date)
      BY <1>1, <1>5 DEF LineConfirms, AwaitingLine, Phases, Automatic
    <3> QED
      BY <2>1, <3>1 DEF Delivered
  <2>3. run[p].run_day <= run[p].date /\ run[p].date <= date(now)
    BY <1>1, <2>1 DEF DaysInOrder, Started
  <2>4. run[p].date \in Int
    BY <1>1 DEF TypeOK, Runs, Dates, NoDate
  <2>5. run[p].date = d \/ d * 86400 + 54000 <= now
    BY <1>2, <1>3, <2>3, <2>4
  <2> QED
    BY <2>2, <2>5 DEF Settled, DAY, DEADLINE
<1>6. run'[p].ending \notin {"menu_data", "too_long", "line", "request_error"}
  BY DEF Healthily
<1> QED
  BY <1>1, <1>4, <1>5, <1>6, AutomaticEnds

\* The loop takes its days from the clock.
LEMMA LoopTakesDays ==
  ASSUME TypeOK, NEW p \in Proc, Automatic(p), LoopHead(p)
  PROVE  /\ run'[p].run_day \in {run[p].run_day, date(now)}
         /\ run'[p].date \in {run[p].date, date(now)}
         /\ pc'[p] # "done"
<1>1. run[p] \in Runs
  BY DEF TypeOK
<1>2. CASE Begin(p)
  <2>1. run'[p] = [run[p] EXCEPT !.run_day = date(now)]
    BY <1>2, AdvanceEffect DEF Begin, Automatic
  <2> QED
    BY <1>1, <1>2, <2>1, LoopHeadIsNoEnd DEF Runs
<1> DEFINE s == [run[p] EXCEPT !.date = Today(p)]
<1>3. s \in Runs /\ s.run_day = run[p].run_day /\ s.date = Today(p)
  BY <1>1, TodayKnown DEF Runs
<1>4. Today(p) \in {run[p].date, date(now)}
  BY DEF Today
<1> HIDE DEF s
<1>5. CASE WaitForWindow(p)
  <2>1. PICK w : run'[p] = [s EXCEPT !.wake = w]
    BY <1>5, AdvanceEffect DEF WaitForWindow, Sleep, s
  <2> QED
    BY <1>3, <1>4, <1>5, <2>1, WakeField, LoopHeadIsNoEnd
<1>6. CASE Poll(p)
  <2>1. run'[p] = Attempt(s, "hours")
    BY <1>6, AdvanceEffect DEF Poll, s
  <2> QED
    BY <1>3, <1>4, <1>6, <2>1, AttemptFields, LoopHeadIsNoEnd
<1> QED
  BY <1>2, <1>5, <1>6 DEF LoopHead

\* A step of the run itself keeps it a run of the day it was started on.
LEMMA RunStaysOfDay ==
  ASSUME RunsKnown, [BotNext]_botVars, NEW p \in Proc, NEW d \in Nat, Automatic(p),
         d <= date(now), RunOfDay(p, d), (Step(p) /\ Healthily(p)) \/ Die(p)
  PROVE  RunOfDay(p, d)'
<1>1. TypeOK /\ WindowInvariant
  BY DEF RunsKnown
<1>2. ASSUME NEW e, Finish(p, e)
      PROVE  run'[p].run_day = NoDate /\ run'[p].date = run[p].date /\ run'[p].ending = e
  <2>1. run'[p] = [Blank EXCEPT !.mode = run[p].mode, !.date = run[p].date,
                                !.key = run[p].key, !.ending = e]
    BY <1>1, <1>2, FinishEffect
  <2> QED
    BY <2>1 DEF Blank
<1>3. CASE Die(p) \/ SkipBusy(p)
  BY <1>2, <1>3 DEF Die, SkipBusy, RunOfDay
<1>4. ~LockUnusable(p) \/ Die(p)
  BY <1>2 DEF LockUnusable, Healthily
<1>5. CASE AcquireLock(p)
  <2>1. run'[p] = run[p] /\ pc'[p] = "begin"
    BY <1>1, <1>5 DEF AcquireLock, Become, TypeOK
  <2> QED
    BY <2>1 DEF RunOfDay
<1>6. CASE JobStep(p) /\ LoopHead(p)
  BY <1>1, <1>6, LoopTakesDays DEF RunOfDay
<1>7. CASE JobStep(p) /\ ~LoopHead(p) /\ pc'[p] # "done"
  BY <1>1, <1>7, OnwardStep DEF RunOfDay, Onward, SameDays
<1>8. CASE JobStep(p) /\ Healthily(p) /\ pc'[p] = "done"
  <2>1. Settled(d)'
    BY <1>8, EndSettles, SettledStays
  <2> QED
    BY <1>1, <1>8, <2>1, AutomaticEnds DEF RunOfDay
<1> QED
  BY <1>3, <1>4, <1>5, <1>6, <1>7, <1>8 DEF Step

LEMMA JobOfDayStep ==
  ASSUME RunsKnown, SchedulerKnown, JobKnown, OneRunAtWork, LaunchesPast, Healthy,
         phase = "job" => RunOfDay(job, last_run), [BotNext]_botVars, phase' = "job"
  PROVE  RunOfDay(job, last_run)'
<1>1. CASE JobStarts
  <2>1. PICK p \in Proc : LaunchAutomatic(p) /\ job' = p
    BY <1>1 DEF JobStarts
  <2>2. pc'[p] = "lock" /\ run'[p].date = NoDate /\ run'[p].run_day = NoDate
    BY <2>1, LaunchMoves
  <2> QED
    BY <2>1, <2>2 DEF RunOfDay
<1>2. CASE Schedules \/ JobEnds \/ Stop \/ Start
  BY <1>2 DEF Schedules, Sched!Sleep, Sched!Wake, Sched!Decide, JobEnds, Sched!JobEnds,
              Stop, Sched!Stop, Start, Sched!Start
<1>3. CASE RunSteps \/ RunDies \/ OperatorStarts \/ LineServes \/ TimePasses \/ UNCHANGED botVars
  <2>1. phase = "job" /\ job' = job /\ last_run' = last_run
    BY <1>3, SchedulerStays
  <2>2. PICK p \in Proc : p = job
    BY <2>1 DEF JobKnown
  <2>3. PICK d \in Nat : d = last_run
    BY <2>1 DEF OneRunAtWork
  <2> SUFFICES RunOfDay(p, d)'
    BY <2>1, <2>2, <2>3 DEF RunOfDay, Settled
  <2>4. RunOfDay(p, d) /\ Automatic(p) /\ pc[p] # "idle"
    BY <2>1, <2>2, <2>3 DEF OneRunAtWork
  <2>5. d <= date(now)
    BY <2>3 DEF SchedulerKnown, LaunchesPast, Sched!NoRun
  <2>6. Settled(d) => Settled(d)'
    BY SettledStays
  <2>7. ASSUME /\ pc'[p] = pc[p]
               /\ run'[p].run_day = run[p].run_day /\ run'[p].date = run[p].date
               /\ run'[p].ending = run[p].ending
        PROVE  RunOfDay(p, d)'
    BY <2>4, <2>6, <2>7 DEF RunOfDay
  <2>8. CASE RunSteps \/ RunDies
    <3>1. PICK q \in Proc : (Step(q) /\ Healthily(q)) \/ Die(q)
      BY <2>8 DEF RunSteps, RunDies
    <3>2. CASE q = p
      BY <2>4, <2>5, <3>1, <3>2, RunStaysOfDay
    <3>3. CASE q # p
      <4>1. pc'[p] = pc[p] /\ run'[p] = run[p]
        BY <3>1, <3>3, RunMoves DEF OthersStay
      <4> QED
        BY <2>7, <4>1
    <3> QED
      BY <3>2, <3>3
  <2>9. CASE OperatorStarts
    <3>1. PICK q \in Proc : LaunchManual(q)
      BY <2>9 DEF OperatorStarts
    <3>2. pc'[p] = pc[p] /\ run'[p] = run[p]
      BY <2>4, <3>1, LaunchMoves DEF OthersStay
    <3> QED
      BY <2>7, <3>2
  <2>10. CASE LineServes
    <3>1. SameDays(p)
      BY <2>10, LineKeepsDays DEF LineServes, RunsKnown
    <3>2. pc' = pc /\ run'[p].ending = run[p].ending
      BY <2>10, LineMoves DEF LineServes
    <3> QED
      BY <2>7, <3>1, <3>2 DEF SameDays
  <2>11. CASE TimePasses \/ UNCHANGED botVars
    <3>1. pc' = pc /\ run' = run
      BY <2>11 DEF TimePasses, botVars, vars
    <3> QED
      BY <2>7, <3>1
  <2> QED
    BY <1>3, <2>8, <2>9, <2>10, <2>11
<1> QED
  BY <1>1, <1>2, <1>3 DEF BotNext

LEMMA DaySettledStep ==
  ASSUME RunsKnown, SchedulerKnown, JobKnown, OneRunAtWork, LaunchesPast, DaySettled,
         phase = "job" => RunOfDay(job, last_run), [BotNext]_botVars
  PROVE  DaySettled'
<1> SUFFICES ASSUME phase' \in {"deciding", "asleep"}, last_run' # Sched!NoRun
             PROVE  \E d \in Nat : d = last_run' /\ (d \in failed' \/ Settled(d)')
  BY DEF DaySettled, Settled
<1>1. CASE RunSteps \/ RunDies \/ OperatorStarts \/ LineServes \/ TimePasses \/ UNCHANGED botVars
           \/ Schedules
  <2>1. /\ phase \in {"deciding", "asleep"} /\ last_run' = last_run /\ failed' = failed
    BY <1>1, SchedulerStays DEF Schedules, Sched!Sleep, Sched!Wake, Sched!Decide
  <2>2. PICK d \in Nat : d = last_run
    BY <2>1 DEF SchedulerKnown, Sched!TypeOK
  <2>3. d \in failed \/ Settled(d)
    BY <2>1, <2>2 DEF DaySettled
  <2>4. Settled(d) => Settled(d)'
    BY SettledStays
  <2> QED
    BY <2>1, <2>2, <2>3, <2>4
<1>2. CASE JobStarts \/ Stop \/ Start
  BY <1>2 DEF JobStarts, Sched!JobStarts, Stop, Sched!Stop, Start, Sched!Start, LaunchesPast
<1>3. CASE JobEnds
  <2>1. /\ phase = "job" /\ pc[job] = "done" /\ last_run' = last_run
        /\ run[job].ending \in {"skipped", "killed"} => last_run \in failed'
    BY <1>3 DEF JobEnds, Sched!JobEnds
  <2>2. PICK d \in Nat : d = last_run
    BY <2>1 DEF OneRunAtWork
  <2>3. last_run \in failed' \/ Settled(d)
    BY <2>1, <2>2 DEF RunOfDay
  <2>4. Settled(d) => Settled(d)'
    BY SettledStays
  <2> QED
    BY <2>1, <2>2, <2>3, <2>4
<1> QED
  BY <1>1, <1>2, <1>3 DEF BotNext

-----------------------------------------------------------------------------
\* The loop goes to sleep in that time only if the job of the day was started,
\* or until it may be.
LEMMA SleepsUntilDue ==
  ASSUME RunsKnown, SchedulerFacts!SchedulerInvariant, SchedulerKnown, LaunchesPast,
         NEW u, NEW v, NEW d, UpFrom(u, v, d), Sched!Sleep, now' = now
  PROVE  UpAt(u, v)'
<1>1. /\ now \in Nat /\ date(now) \in Nat /\ time(now) \in Nat /\ time(now) < 86400
      /\ now = 86400 * date(now) + time(now)
  BY InstantsAreNat, Division DEF RunsKnown
<1>2. /\ u \in Nat /\ v \in Nat /\ d \in Nat
      /\ v = 86400 * d + time(v) /\ u = 86400 * d + time(u)
      /\ time(u) \in Nat /\ time(v) \in Nat /\ date(v) = d
  BY InstantsAssumption, Division DEF UpFrom
<1>3. launches' = launches /\ left' = Sched!Least(Sched!wait, 60) /\ Sched!wait > 0
  BY DEF Sched!Sleep, Sched!MAX_SLEEP
<1>4. SUFFICES ASSUME u <= now, now < d * 86400 + 54000, d \notin launches
               PROVE  now + left' <= v
  BY <1>2, <1>3 DEF UpAt, DAY, DEADLINE
<1>5. date(now) = d
  <2>1. d <= date(now)
    BY <1>1, <1>2, <1>4, DaysPass DEF UpFrom
  <2>2. date(now) <= d
    BY <1>1, <1>2, <1>4
  <2> QED
    BY <1>1, <1>2, <2>1, <2>2
<1>6. last_run = -1 \/ (last_run \in Nat /\ last_run < d)
  <2>1. last_run = -1 \/ (last_run \in launches /\ last_run \in Nat)
    BY DEF SchedulerKnown, Sched!NoRun, Sched!TypeOK
  <2> QED
    BY <1>2, <1>4, <1>5, <2>1 DEF LaunchesPast
<1>7. time(now) < 48900
  <2>1. Sched!wait \in Nat /\ Sched!wait # 0
    BY <1>3, SameWait, SchedulerAssumptions, SchedulerFacts!NextRun
       DEF SchedulerFacts!SchedulerInvariant
  <2>2. ~(SchedulerFacts!Startable(now) /\ (last_run = -1 \/ last_run < SchedulerFacts!date(now)))
    BY <2>1, SameWait, SchedulerAssumptions, SchedulerFacts!NextRun
       DEF SchedulerFacts!SchedulerInvariant, SchedulerFacts!NoRun
  <2>3. ~(48900 <= time(now) /\ time(now) < 54000)
    BY <1>5, <1>6, <2>2
       DEF SchedulerFacts!Startable, SchedulerFacts!RUN_AT, SchedulerFacts!LAST_START,
           SchedulerFacts!date, SchedulerFacts!time, SchedulerFacts!DAY, date, time, DAY
  <2> QED
    BY <1>1, <1>4, <1>5, <2>3
<1> DEFINE w == d * 86400 + 48900
<1>8. w \in Int /\ w <= v /\ w > now
  BY <1>1, <1>2, <1>5, <1>7 DEF UpFrom
<1>9. Sched!wait = w - now
  <2>1. ~(last_run # -1 /\ d <= last_run) /\ ~(time(now) >= 54000)
    BY <1>1, <1>2, <1>6, <1>7
  <2>2. Sched!date(now) = d /\ Sched!time(now) = time(now)
    BY <1>5 DEF Sched!date, Sched!time, Sched!DAY, date, time, DAY
  <2>3. Sched!next_run(now, last_run) = Sched!Later(now, w)
    BY <2>1, <2>2 DEF Sched!next_run, Sched!NoRun, Sched!LAST_START, Sched!RUN_AT, Sched!DAY
  <2> HIDE DEF w
  <2>4. Sched!Later(now, w) = w
    BY <1>1, <1>8 DEF Sched!Later
  <2> QED
    BY <2>3, <2>4 DEF Sched!wait
<1>10. PICK l \in Int : l = left' /\ l <= w - now
  BY <1>1, <1>3, <1>8, <1>9 DEF Sched!Least
<1>11. PICK W \in Int, N \in Int, V \in Int : W = w /\ N = now /\ V = v
  BY <1>1, <1>2, <1>8
<1> HIDE DEF w
<1>12. l <= W - N /\ W <= V
  BY <1>8, <1>10, <1>11
<1>13. N + l <= V
  BY <1>12
<1> QED
  BY <1>10, <1>11, <1>13, Zenon

\* Nor does a sleep last longer, be it from before that time or in it.
LEMMA SleepsOn ==
  ASSUME RunsKnown, SchedulerKnown, NEW u, NEW v, NEW d, UpFrom(u, v, d),
         UpAt(u, v), TimePasses
  PROVE  UpAt(u, v)'
<1> SUFFICES ASSUME phase' = "asleep", u <= now', now' < date(v) * DAY + DEADLINE,
                    date(v) \notin launches'
             PROVE  left' = 0 \/ now' + left' <= v
  BY DEF UpAt
<1>1. PICK t \in Instants : /\ t > now /\ now' = t
                            /\ \A w \in Instants : w <= now \/ t <= w
  BY DEF TimePasses
<1>2. /\ phase = "asleep" /\ launches' = launches
      /\ \/ t - now <= left /\ left' = left - (t - now)
         \/ t \in Settings /\ left' = left
  BY <1>1 DEF TimePasses, Sched!TimePasses, Sched!ClockIsSet
<1>3. left > 0
  BY <1>2 DEF TimePasses, Quiet
<1>4. now \in Nat /\ t \in Nat /\ u \in Nat /\ v \in Nat /\ left \in 0..60
  BY <1>1, InstantsAreNat, InstantsAssumption
     DEF RunsKnown, UpFrom, SchedulerKnown, Sched!TypeOK, Sched!MAX_SLEEP
<1>5. /\ u <= now \/ t <= u
      /\ v <= now \/ t <= v
      /\ t \in Settings => t <= u \/ v < t
      /\ u + 60 <= v
  BY <1>1 DEF UpFrom
<1>6. CASE u <= now
  <2>1. now < date(v) * DAY + DEADLINE
    <3>1. PICK e \in Int : e = date(v) * DAY + DEADLINE
      <4>1. date(v) \in Nat
        BY <1>4, Division
      <4> QED
        BY <4>1 DEF DAY, DEADLINE
    <3>2. now < e
      BY <1>1, <1>4, <3>1
    <3> QED
      BY <3>1, <3>2
  <2>2. now + left <= v
    BY <1>2, <1>3, <1>4, <1>6, <2>1 DEF UpAt
  <2> QED
    BY <1>1, <1>2, <1>3, <1>4, <1>5, <1>6, <2>2
<1>7. CASE ~(u <= now)
  BY <1>1, <1>2, <1>4, <1>5, <1>7
<1> QED
  BY <1>6, <1>7

LEMMA UpAtStep ==
  ASSUME RunsKnown, SchedulerFacts!SchedulerInvariant, SchedulerKnown, LaunchesPast,
         NEW u, NEW v, NEW d, UpFrom(u, v, d), UpAt(u, v), [BotNext]_botVars
  PROVE  UpAt(u, v)'
<1>1. CASE Schedules
  <2>1. now' = now
    BY <1>1 DEF Schedules, vars
  <2>2. CASE Sched!Sleep
    BY <2>1, <2>2, SleepsUntilDue
  <2>3. CASE Sched!Wake \/ Sched!Decide
    BY <2>3 DEF Sched!Wake, Sched!Decide, UpAt
  <2> QED
    BY <1>1, <2>2, <2>3 DEF Schedules
<1>2. CASE JobStarts \/ JobEnds \/ Stop \/ Start
  BY <1>2 DEF JobStarts, JobEnds, Stop, Start, Sched!JobStarts, Sched!JobEnds,
              Sched!Stop, Sched!Start, UpAt
<1>3. CASE TimePasses
  BY <1>3, SleepsOn
<1>4. CASE RunSteps \/ RunDies \/ OperatorStarts \/ LineServes \/ UNCHANGED botVars
  <2>1. UNCHANGED <<phase, left, launches>>
    BY <1>4 DEF RunSteps, RunDies, OperatorStarts, LineServes, botVars, scheduler
  <2>2. now' = now
    <3>1. CASE RunSteps \/ RunDies
      BY <3>1, RunsStartNobody
    <3>2. CASE OperatorStarts
      BY <3>2, LaunchMoves DEF OperatorStarts
    <3>3. CASE LineServes
      BY <3>3, LineMoves DEF LineServes
    <3> QED
      BY <1>4, <3>1, <3>2, <3>3 DEF botVars, vars
  <2> QED
    BY <2>1, <2>2 DEF UpAt
<1> QED
  BY <1>1, <1>2, <1>3, <1>4 DEF BotNext
-----------------------------------------------------------------------------
\* All of the above, together.
LEMMA ServiceInvariance ==
  ASSUME Healthy, HostAttends
  PROVE  BotSpec => []ServiceInvariant
<1>1. BotInit => ServiceInvariant
  BY DEF BotInit, Sched!Init, Init, ServiceInvariant, LaunchesPast, DaySettled, Timely
<1>2. ASSUME RunsKnown, SchedulerKnown, JobKnown, OneRunAtWork, ServiceInvariant,
             [BotNext]_botVars
      PROVE  ServiceInvariant'
  <2>1. LaunchesPast'
    BY <1>2, LaunchesPastStep DEF ServiceInvariant
  <2>2. phase' = "job" => RunOfDay(job, last_run)'
    BY <1>2, JobOfDayStep DEF ServiceInvariant
  <2>3. DaySettled'
    BY <1>2, DaySettledStep DEF ServiceInvariant
  <2>4. \A p \in Proc : Timely(p)'
    BY <1>2, TimelyStep DEF ServiceInvariant
  <2> QED
    BY <2>1, <2>2, <2>3, <2>4 DEF ServiceInvariant
<1>3. RunsKnown /\ SchedulerKnown /\ JobKnown /\ OneRunAtWork /\ ServiceInvariant
        /\ [BotNext]_botVars => ServiceInvariant'
  BY <1>2
<1> QED
  BY <1>1, <1>3, AllKnown, AtWorkInvariance, PTL DEF BotSpec

LEMMA UpInvariance ==
  ASSUME Healthy, HostAttends
  PROVE  BotSpec => []UpInTime
<1>1. BotInit => UpInTime
  BY DEF BotInit, Sched!Init, UpInTime, UpAt
<1>2. ASSUME RunsKnown, SchedulerFacts!SchedulerInvariant, ServiceInvariant, UpInTime,
             [BotNext]_botVars
      PROVE  UpInTime'
  <2> SUFFICES ASSUME NEW u \in Instants, NEW v \in Instants, NEW d \in Nat, UpFrom(u, v, d)
               PROVE  UpAt(u, v)'
    BY DEF UpInTime, UpFrom
  <2> QED
    BY <1>2, UpAtStep, SchedulerIsKnown DEF UpInTime, ServiceInvariant
<1>3. RunsKnown /\ SchedulerFacts!SchedulerInvariant /\ ServiceInvariant /\ UpInTime
        /\ [BotNext]_botVars => UpInTime'
  BY <1>2
<1>4. SchedulerFacts!Spec => []SchedulerFacts!SchedulerInvariant
  BY SchedulerAssumptions, SchedulerFacts!SchedulerInvariance
<1> QED
  BY <1>1, <1>3, <1>4, AllKnown, ServiceInvariance, SchedulerOfBot, PTL DEF BotSpec

\* The window of a day closes: between two instants, and nobody was at work.
LEMMA ServedWhenItCloses ==
  ASSUME RunsKnown, SchedulerKnown, JobKnown, OneRunAtWork, ServiceInvariant, UpInTime,
         HostAttends, [BotNext]_botVars, NEW d \in Nat, date(now) = d, time(now) < DEADLINE,
         d * DAY + DEADLINE <= now', phase # "down", d \notin failed
  PROVE  \E a \in accepted : a.date = d \/ a.key = daily_retry_key(d)
<1>1. /\ now \in Nat /\ now \in Instants /\ time(now) \in Nat
      /\ now = 86400 * d + time(now) /\ now < d * 86400 + 54000
  <2>1. TypeOK /\ now \in Instants
    BY DEF RunsKnown, TypeOK
  <2>2. now \in Nat /\ time(now) \in Nat /\ now = 86400 * d + time(now)
    BY <2>1, InstantsAreNat, Division
  <2>3. time(now) < 54000
    BY DEF DEADLINE
  <2> QED
    BY <2>1, <2>2, <2>3
<1>2. TimePasses
  BY <1>1, ClockRuns DEF DAY, DEADLINE
<1>3. /\ now' \in Nat /\ d * 86400 + 54000 <= now'
      /\ \A w \in Instants : w < d * 86400 + 54000 => w <= now
  <2>1. PICK t \in Instants : t > now /\ now' = t /\ \A w \in Instants : w <= now \/ t <= w
    BY <1>2 DEF TimePasses
  <2> QED
    BY <1>1, <2>1, InstantsAssumption DEF DAY, DEADLINE
<1>4. CASE phase = "asleep" /\ left > 0
  <2>1. PICK u, v \in Instants :
          /\ date(u) = d /\ date(v) = d /\ u + 60 <= v /\ Sched!Startable(v)
          /\ \A t \in Settings : t <= u \/ v < t
    BY <1>1 DEF HostAttends, RunsForAMinute, Sched!MAX_SLEEP
  <2>2. 48900 <= time(v) /\ time(v) < 54000
    BY <2>1 DEF Sched!Startable, Sched!RUN_AT, Sched!LAST_START, Sched!time, Sched!DAY, time, DAY
  <2>3. UpFrom(u, v, d)
    BY <2>1, <2>2 DEF UpFrom
  <2>4. u \in Nat /\ v \in Nat /\ v <= now /\ u <= now
    <3>1. u \in Nat /\ v \in Nat /\ time(v) \in Nat /\ v = 86400 * d + time(v)
      BY <2>1, InstantsAssumption, Division
    <3>2. v <= now
      BY <1>3, <2>2, <3>1
    <3> QED
      BY <1>1, <2>1, <3>1, <3>2
  <2>5. left \in Nat
    BY DEF SchedulerKnown, Sched!TypeOK, Sched!MAX_SLEEP
  <2>6. d \in launches
    <3>1. UpAt(u, v)
      BY <2>3 DEF UpInTime
    <3>2. d \in launches \/ left = 0 \/ now + left <= v
      BY <1>1, <1>4, <2>1, <2>4, <3>1 DEF UpAt, DAY, DEADLINE
    <3> QED
      BY <1>1, <1>4, <2>4, <2>5, <3>2
  <2>7. last_run = d /\ last_run # Sched!NoRun
    BY <2>6 DEF SchedulerKnown, ServiceInvariant, LaunchesPast, Sched!TypeOK
  <2>8. Settled(d)
    BY <1>4, <2>7 DEF ServiceInvariant, DaySettled
  <2> QED
    BY <1>1, <2>8 DEF Settled, DAY, DEADLINE
<1>5. CASE phase = "job" /\ Live(job)
  <2>1. PICK p \in Proc : p = job /\ Automatic(p)
    BY <1>5 DEF JobKnown, OneRunAtWork
  <2>2. pc[p] = "waiting" /\ ~Awake(p)
    BY <1>2, <1>5, <2>1 DEF TimePasses, Quiet, Live, ServiceInvariant, Timely
  <2>3. PICK u \in Instants : InWindow(run[p].date, u) /\ run[p].wake <= u
    BY <2>1, <2>2 DEF ServiceInvariant, Timely
  <2>4. run[p].date <= d
    BY <2>1, <2>2 DEF RunsKnown, WindowInvariant, DaysInOrder, Working, Started
  <2>5. u <= now
    <3>1. time(u) < 54000 /\ date(u) <= d
      BY <2>3, <2>4 DEF InWindow, DEADLINE
    <3>2. u \in Nat /\ date(u) \in Nat /\ time(u) \in Nat /\ u = 86400 * date(u) + time(u)
      BY InstantsAssumption, Division
    <3>3. u < d * 86400 + 54000
      BY <3>1, <3>2
    <3> QED
      BY <1>3, <3>3
  <2>6. run[p].wake \in Nat
    BY DEF RunsKnown, TypeOK, Runs
  <2>7. run[p].wake <= now
    BY <1>1, <2>3, <2>5, <2>6, InstantsAssumption
  <2> QED
    BY <2>2, <2>7 DEF Awake
<1> QED
  BY <1>2, <1>4, <1>5 DEF TimePasses, Quiet

\* If iCHEF has the menu in time, both services answer and the host attends,
\* and the scheduler is up when the window of a day closes, then everybody has
\* got the schedule of that day, or its key was spent on another date.
THEOREM EveryDayServed ==
  ASSUME Healthy, HostAttends
  PROVE  BotSpec => DayServed
<1>1. RunsKnown /\ SchedulerKnown /\ JobKnown /\ OneRunAtWork /\ ServiceInvariant
        /\ UpInTime /\ [BotNext]_botVars =>
        [\A d \in {date(t) : t \in Instants} :
           /\ date(now) = d /\ time(now) < DEADLINE /\ d * DAY + DEADLINE <= now'
           /\ phase # "down" /\ d \notin failed
           => \E a \in accepted : a.date = d \/ a.key = daily_retry_key(d)]_botVars
  <2>1. {date(t) : t \in Instants} \subseteq Nat
    BY InstantsAssumption, Division
  <2> QED
    BY <2>1, ServedWhenItCloses
<1> QED
  BY <1>1, AllKnown, AtWorkInvariance, ServiceInvariance, UpInvariance, PTL
     DEF BotSpec, DayServed
=============================================================================
