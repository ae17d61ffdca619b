------------------------ MODULE BroadcastingProofs ------------------------
(***************************************************************************)
(* Theorems about Broadcasting, for every value of its constants: types,   *)
(* the lock, the window, delivery and the promise to LINE's friends,       *)
(* polling, the end of every run, and the contract of the lock.            *)
(***************************************************************************)
EXTENDS BroadcastingInvariant, TLAPS

\* The wall clock of every instance shows natural numbers.
LEMMA InstantsAreNat == ASSUME TypeOK PROVE now \in Nat
  BY InstantsAssumption DEF TypeOK

LEMMA RetryDelayType == ASSUME NEW a \in 1..max_attempts PROVE _retry_delay(a) \in Nat
  BY AttemptsAssumption DEF _retry_delay

\* A step that moves one process to a label with well-typed locals.
LEMMA BecomeType ==
  ASSUME TypeOK, NEW p \in Proc, NEW l \in Labels, NEW r \in Runs, Become(p, l, r)
  PROVE  pc' \in [Proc -> Labels] /\ run' \in [Proc -> Runs]
  BY DEF TypeOK, Become

LEMMA AdvanceType ==
  ASSUME TypeOK, NEW p \in Proc, NEW l \in Labels, NEW r \in Runs, Advance(p, l, r)
  PROVE  TypeOK'
  BY BecomeType DEF TypeOK, Advance

LEMMA BlankType == Blank \in Runs
  BY AttemptsAssumption DEF Blank, Runs, Dates, NoDate, Keys, NoKey, Operations, Menus, Answers, Endings

LEMMA FinishType ==
  ASSUME TypeOK, NEW p \in Proc, NEW e \in Endings, Finish(p, e)
  PROVE  TypeOK'
<1> DEFINE r == [Blank EXCEPT !.mode = run[p].mode, !.date = run[p].date,
                              !.key = run[p].key, !.ending = e]
<1>1. r \in Runs
  BY BlankType DEF TypeOK, Runs
<1>2. Become(p, "done", r)
  BY DEF Finish
<1>3. pc' \in [Proc -> Labels] /\ run' \in [Proc -> Runs]
  BY <1>1, <1>2, BecomeType DEF Labels
<1> QED
  BY <1>3 DEF Finish, TypeOK

LEMMA RetryType ==
  ASSUME TypeOK, NEW p \in Proc, RetryLater(p)
  PROVE  TypeOK'
<1> DEFINE s == [run[p] EXCEPT !.attempt = @ + 1, !.answer = "none"]
           r == [s EXCEPT !.wake = now + _retry_delay(run[p].attempt)]
<1>1. run[p] \in Runs /\ run[p].attempt \in 1..max_attempts
  BY DEF TypeOK, Runs
<1>2. now + _retry_delay(run[p].attempt) \in Nat
  BY <1>1, InstantsAreNat, RetryDelayType
<1>3. run[p].attempt < max_attempts
  BY DEF RetryLater
<1>4. run[p].attempt + 1 \in 1..max_attempts
  BY <1>1, <1>3, AttemptsAssumption
<1>5. s \in Runs
  BY <1>1, <1>4 DEF Runs, Answers
<1>6. r \in Runs
  BY <1>2, <1>5 DEF Runs
<1> QED
  BY <1>6, AdvanceType DEF RetryLater, Sleep, Labels

LEMMA SleepType ==
  ASSUME TypeOK, NEW p \in Proc, NEW l \in Labels, NEW r \in Runs,
         NEW s \in Int, s >= 0, Sleep(p, l, r, s)
  PROVE  TypeOK'
<1>1. now + s \in Nat
  BY InstantsAreNat
<1>2. [r EXCEPT !.wake = now + s] \in Runs
  BY <1>1 DEF Runs
<1> QED
  BY <1>2, AdvanceType DEF Sleep

\* Division with remainder by the length of a day.
LEMMA Division ==
  ASSUME NEW t \in Nat
  PROVE  /\ date(t) \in Nat /\ time(t) \in Nat /\ time(t) < 86400
         /\ t = 86400 * date(t) + time(t)
  BY DEF date, time, DAY

LEMMA AttemptType ==
  ASSUME NEW r \in Runs, NEW operation \in Operations
  PROVE  Attempt(r, operation) \in Runs
<1>1. 1 \in 1..max_attempts
  BY AttemptsAssumption
<1> QED
  BY <1>1 DEF Attempt, Runs, Answers

LEMMA ReplyType ==
  ASSUME TypeOK, NEW m \in requests, NEW answer \in Answers, Reply(m, answer)
  PROVE  /\ requests' \subseteq Broadcasts /\ run' \in [Proc -> Runs]
         /\ UNCHANGED <<now, holders, pc>>
<1>1. m.by \in Proc
  BY DEF TypeOK, Broadcasts
<1>2. [run[m.by] EXCEPT !.answer = answer] \in Runs
  BY <1>1 DEF TypeOK, Runs
<1> QED
  BY <1>1, <1>2 DEF Reply, TypeOK

LEMMA LaunchType ==
  ASSUME TypeOK, NEW p \in Proc, Launch(p)
  PROVE  TypeOK'
<1> USE BlankType
<1>1. CASE LaunchAutomatic(p)
  <2>1. [Blank EXCEPT !.mode = "automatic"] \in Runs
    BY <1>1 DEF LaunchAutomatic, Runs
  <2> QED
    BY <1>1, <2>1, AdvanceType DEF LaunchAutomatic, Labels
<1>2. CASE LaunchManual(p)
  <2>1. PICK d \in {date(t) : t \in Instants} :
          \E key \in {NoKey} \cup ExplicitKeys(p) :
            Advance(p, "lock",
                    [Blank EXCEPT !.mode = "manual", !.date = d, !.key = key])
    BY <1>2 DEF LaunchManual
  <2>2. d \in Dates
    BY Division, InstantsAssumption DEF Dates
  <2>3. ExplicitKeys(p) \subseteq Keys
    <3>1. \A t \in Instants : date(t) \in Dates
      BY Division, InstantsAssumption DEF Dates
    <3> QED
      BY <3>1 DEF ExplicitKeys, daily_retry_key, Keys, TypeOK, Runs
  <2>4. PICK key \in Keys :
          Advance(p, "lock",
                  [Blank EXCEPT !.mode = "manual", !.date = d, !.key = key])
    BY <2>1, <2>3 DEF Keys
  <2>5. [Blank EXCEPT !.mode = "manual", !.date = d, !.key = key] \in Runs
    BY <1>2, <2>2 DEF LaunchManual, Runs
  <2> QED
    BY <2>4, <2>5, AdvanceType DEF Labels
<1>3. CASE LaunchPreview(p)
  <2>1. PICK d \in {date(t) : t \in Instants} :
          Advance(p, "guard", [Blank EXCEPT !.mode = "dry_run", !.date = d])
    BY <1>3 DEF LaunchPreview
  <2>2. d \in Dates
    BY Division, InstantsAssumption DEF Dates
  <2>3. [Blank EXCEPT !.mode = "dry_run", !.date = d] \in Runs
    BY <1>3, <2>2 DEF LaunchPreview, Runs
  <2> QED
    BY <2>1, <2>3, AdvanceType DEF Labels
<1>4. CASE Reject(p)
  BY <1>4, FinishType DEF Reject, Endings
<1> QED
  BY <1>1, <1>2, <1>3, <1>4 DEF Launch

LEMMA FetchType ==
  ASSUME TypeOK, NEW p \in Proc, FetchStep(p)
  PROVE  TypeOK'
<1>1. run[p] \in Runs
  BY DEF TypeOK
<1>2. [run[p] EXCEPT !.menu = "none"] \in Runs
  BY <1>1 DEF Runs, Menus
<1>3. CASE PostToIChef(p)
  BY <1>1, <1>3, AdvanceType DEF PostToIChef, Labels
<1>4. CASE IChefFails(p)
  <2>1. CASE RetryLater(p)
    BY <2>1, RetryType
  <2>2. CASE Advance(p, "fetched", [run[p] EXCEPT !.menu = "none"])
    BY <1>2, <2>2, AdvanceType DEF Labels
  <2>3. CASE Finish(p, "ichef")
    BY <2>3, FinishType DEF Endings
  <2> QED
    BY <1>4, <2>1, <2>2, <2>3 DEF IChefFails
<1>5. CASE IChefAnswersNonsense(p) \/ IChefBreaksOff(p)
  BY <1>5, FinishType DEF IChefAnswersNonsense, IChefBreaksOff, Endings
<1>6. CASE HoursReceived(p)
  <2>1. Attempt(run[p], "items") \in Runs
    BY <1>1, AttemptType DEF Operations
  <2> QED
    BY <1>2, <1>6, <2>1, AdvanceType DEF HoursReceived, Labels
<1>7. CASE ItemsReceived(p)
  <2>1. \A menu \in Menus : [run[p] EXCEPT !.menu = menu] \in Runs
    BY <1>1 DEF Runs
  <2> QED
    BY <1>7, <2>1, AdvanceType DEF ItemsReceived, Labels
<1> QED
  BY <1>3, <1>4, <1>5, <1>6, <1>7 DEF FetchStep

LEMMA BroadcastType ==
  ASSUME TypeOK, NEW p \in Proc, BroadcastStep(p)
  PROVE  TypeOK'
<1>1. CASE PostToLine(p)
  <2>1. run[p] \in Runs /\ now \in Nat
    BY InstantsAreNat DEF TypeOK
  <2>2. [by |-> p, attempt |-> run[p].attempt, key |-> run[p].key,
         date |-> run[p].date, posted |-> now] \in Broadcasts
    BY <2>1 DEF Runs, Broadcasts
  <2>3. pc' \in [Proc -> Labels] /\ run' \in [Proc -> Runs]
    BY <1>1, <2>1, BecomeType DEF PostToLine, Labels
  <2> QED
    BY <1>1, <2>2, <2>3 DEF PostToLine, TypeOK
<1>2. CASE LineFails(p)
  BY <1>2, RetryType, FinishType DEF LineFails, Endings
<1>3. CASE LineRaises(p) \/ LineBreaksOff(p)
  BY <1>3, FinishType DEF LineRaises, LineBreaksOff, Endings
<1>4. CASE LineConfirms(p)
  BY <1>4, FinishType DEF LineConfirms, Endings
<1> QED
  BY <1>1, <1>2, <1>3, <1>4 DEF BroadcastStep

LEMMA StartBroadcastType ==
  ASSUME TypeOK, NEW p \in Proc, NEW key \in Keys, broadcast(p, key)
  PROVE  TypeOK'
<1>1. [run[p] EXCEPT !.key = key] \in Runs
  BY DEF TypeOK, Runs
<1>2. Attempt([run[p] EXCEPT !.key = key], "line") \in Runs
  BY <1>1, AttemptType DEF Operations
<1> QED
  BY <1>2, AdvanceType, FinishType DEF broadcast, Labels, Endings

LEMMA LoopType ==
  ASSUME TypeOK, NEW p \in Proc, WaitForWindow(p) \/ Poll(p)
  PROVE  TypeOK'
<1>1. run[p] \in Runs /\ now \in Nat
  BY InstantsAreNat DEF TypeOK
<1>2. Today(p) \in Dates
  <2>1. date(now) \in Dates
    BY <1>1, Division DEF Dates
  <2>2. run[p].date \in Dates
    BY <1>1 DEF Runs
  <2> QED
    BY <2>1, <2>2 DEF Today
<1>3. [run[p] EXCEPT !.date = Today(p)] \in Runs
  BY <1>1, <1>2 DEF Runs
<1>4. CASE WaitForWindow(p)
  <2> DEFINE s == Least(POLL_INTERVAL_SECONDS, _seconds_until(now, START_TIME))
  <2>1. s \in Int /\ s >= 0
    BY <1>1, Division DEF Least, AtLeastZero, _seconds_until, START_TIME, POLL_INTERVAL_SECONDS
  <2> QED
    BY <1>3, <1>4, <2>1, SleepType DEF WaitForWindow, Labels
<1>5. CASE Poll(p)
  <2>1. Attempt([run[p] EXCEPT !.date = Today(p)], "hours") \in Runs
    BY <1>3, AttemptType DEF Operations
  <2> QED
    BY <1>5, <2>1, AdvanceType DEF Poll, Labels
<1> QED
  BY <1>4, <1>5

LEMMA EvaluateType ==
  ASSUME TypeOK, NEW p \in Proc,
         RecheckDeadline(p) \/ EvaluateAutomatic(p) \/ EvaluateManual(p) \/ EvaluatePreview(p)
  PROVE  TypeOK'
<1>1. run[p] \in Runs /\ now \in Nat
  BY InstantsAreNat DEF TypeOK
<1>2. CASE EvaluateAutomatic(p)
  <2> DEFINE s == Least(POLL_INTERVAL_SECONDS, _seconds_until(now, DEADLINE))
  <2>1. s \in Int /\ s >= 0
    BY <1>1, Division DEF Least, AtLeastZero, _seconds_until, DEADLINE, POLL_INTERVAL_SECONDS
  <2>2. Attempt(run[p], "hours") \in Runs
    BY <1>1, AttemptType DEF Operations
  <2>3. daily_retry_key(run[p].date) \in Keys
    BY <1>1 DEF daily_retry_key, Keys, Runs
  <2>4. CASE broadcast(p, daily_retry_key(run[p].date))
    BY <2>3, <2>4, StartBroadcastType
  <2>5. CASE Sleep(p, "waiting", Attempt(run[p], "hours"), s)
    BY <2>1, <2>2, <2>5, SleepType DEF Labels
  <2> QED
    BY <1>2, <2>4, <2>5 DEF EvaluateAutomatic
<1>3. CASE EvaluateManual(p)
  BY <1>1, <1>3, StartBroadcastType, FinishType DEF EvaluateManual, Runs, Endings
<1>4. CASE EvaluatePreview(p)
  <2>1. run[p].menu \in Menus
    BY <1>1 DEF Runs
  <2>2. Finish(p, "unavailable") \/ Finish(p, "too_long") \/ Finish(p, "previewed")
    BY <1>4, <2>1 DEF EvaluatePreview, Menus
  <2> QED
    BY <2>2, FinishType DEF Endings
<1>5. CASE RecheckDeadline(p)
  BY <1>1, <1>5, AdvanceType, FinishType DEF RecheckDeadline, Labels, Endings
<1> QED
  BY <1>2, <1>3, <1>4, <1>5

LEMMA BeginType ==
  ASSUME TypeOK, NEW p \in Proc, Begin(p)
  PROVE  TypeOK'
<1>1. run[p] \in Runs /\ now \in Nat
  BY InstantsAreNat DEF TypeOK
<1>2. CASE Advance(p, "loop", [run[p] EXCEPT !.run_day = date(now)])
  <2>1. date(now) \in Dates
    BY <1>1, Division DEF Dates
  <2>2. [run[p] EXCEPT !.run_day = date(now)] \in Runs
    BY <1>1, <2>1 DEF Runs
  <2> QED
    BY <1>2, <2>2, AdvanceType DEF Labels
<1>3. CASE Advance(p, "guard",
        [run[p] EXCEPT !.key = IF @ = NoKey THEN manual_retry_key(p) ELSE @])
  <2> DEFINE k == IF run[p].key = NoKey THEN manual_retry_key(p) ELSE run[p].key
  <2>1. k \in Keys
    BY <1>1 DEF Runs, Keys, manual_retry_key
  <2>2. [run[p] EXCEPT !.key = k] \in Runs
    BY <1>1, <2>1 DEF Runs
  <2> QED
    BY <1>3, <2>2, AdvanceType DEF Labels
<1> QED
  BY <1>2, <1>3 DEF Begin

LEMMA JobType ==
  ASSUME TypeOK, NEW p \in Proc, JobStep(p)
  PROVE  TypeOK'
<1>1. run[p] \in Runs
  BY DEF TypeOK
<1>2. CASE CrossedMidnight(p) \/ StartedTooLate(p)
  BY <1>2, FinishType DEF CrossedMidnight, StartedTooLate, Endings
<1>3. CASE before_request(p)
  BY <1>1, <1>3, AdvanceType, FinishType DEF before_request, Labels, Endings
<1>4. CASE Resume(p)
  <2>1. [run[p] EXCEPT !.wake = 0] \in Runs
    BY <1>1 DEF Runs
  <2> QED
    BY <1>4, <2>1, AdvanceType DEF Resume, Labels
<1> QED
  BY <1>2, <1>3, <1>4, BeginType, LoopType, FetchType, BroadcastType, EvaluateType
     DEF JobStep

LEMMA LineType ==
  ASSUME TypeOK, LineStep
  PROVE  TypeOK'
<1>1. PICK m \in requests :
        LineAccepts(m) \/ LineReportsConflict(m) \/ LineRefuses(m)
  BY DEF LineStep
<1>2. PICK answer \in Answers : Reply(m, answer)
  BY <1>1 DEF LineAccepts, LineReportsConflict, LineRefuses, Answers
<1>3. /\ requests' \subseteq Broadcasts /\ run' \in [Proc -> Runs]
      /\ UNCHANGED <<now, holders, pc>>
  BY <1>2, ReplyType
<1>4. accepted' \subseteq Acceptances
  <2>1. [by |-> m.by, attempt |-> m.attempt, key |-> m.key,
         date |-> m.date, posted |-> m.posted, at |-> now] \in Acceptances
    BY InstantsAreNat DEF TypeOK, Broadcasts, Acceptances
  <2> QED
    BY <1>1, <2>1 DEF LineAccepts, LineReportsConflict, LineRefuses, TypeOK
<1> QED
  BY <1>3, <1>4 DEF TypeOK

LEMMA StepType ==
  ASSUME TypeOK, [Next]_vars
  PROVE  TypeOK'
<1>1. ASSUME NEW p \in Proc, Launch(p) PROVE TypeOK'
  BY <1>1, LaunchType
<1>2. ASSUME NEW p \in Proc, Step(p) PROVE TypeOK'
  <2>1. CASE AcquireLock(p)
    <3>1. run[p] \in Runs
      BY DEF TypeOK
    <3>2. pc' \in [Proc -> Labels] /\ run' \in [Proc -> Runs]
      BY <2>1, <3>1, BecomeType DEF AcquireLock, Labels
    <3> QED
      BY <2>1, <3>2 DEF AcquireLock, TypeOK
  <2>2. CASE SkipBusy(p) \/ LockUnusable(p)
    BY <2>2, FinishType DEF SkipBusy, LockUnusable, Endings
  <2> QED
    BY <1>2, <2>1, <2>2, JobType DEF Step
<1>3. ASSUME NEW p \in Proc, Die(p) PROVE TypeOK'
  BY <1>3, FinishType DEF Die, Endings
<1>4. CASE Tick
  BY <1>4 DEF Tick, TypeOK
<1>5. CASE UNCHANGED vars
  BY <1>5 DEF vars, TypeOK
<1> QED
  BY <1>1, <1>2, <1>3, <1>4, <1>5, LineType DEF Next, Ended

\* Every variable keeps its type: no run makes more than max_attempts attempts
\* at one request, and every request and broadcast is one a run could make.
THEOREM TypeCorrect == Spec => []TypeOK
<1>1. Init => TypeOK
  BY BlankType, InstantsAssumption DEF Init, TypeOK, Labels
<1>2. TypeOK /\ [Next]_vars => TypeOK'
  BY StepType
<1> QED
  BY <1>1, <1>2, PTL DEF Spec

-----------------------------------------------------------------------------
\* What one step of a running job does to the control state of the others and
\* to its own mode: it goes on, or it ends and releases its lock.
OthersStay(p) ==
  \A q \in Proc \ {p} : pc'[q] = pc[q] /\ run'[q] = run[q]

GoesOn(p) ==
  /\ pc'[p] \in Labels \ {"idle", "lock", "done"}
  /\ run'[p].mode = run[p].mode
  /\ holders' = holders

Ends(p) == pc'[p] = "done" /\ holders' = holders \ {p}

LEMMA FinishShape ==
  ASSUME TypeOK, NEW p \in Proc, NEW e, Finish(p, e)
  PROVE  OthersStay(p) /\ Ends(p)
  BY DEF TypeOK, Finish, Become, OthersStay, Ends

LEMMA AdvanceShape ==
  ASSUME TypeOK, NEW p \in Proc, NEW l \in Labels \ {"idle", "lock", "done"},
         NEW r, Advance(p, l, r), r.mode = run[p].mode
  PROVE  OthersStay(p) /\ GoesOn(p)
  BY DEF TypeOK, Advance, Become, OthersStay, GoesOn

LEMMA AttemptMode ==
  ASSUME NEW r \in Runs, NEW operation
  PROVE  Attempt(r, operation).mode = r.mode
  BY DEF Attempt, Runs

LEMMA RetryShape ==
  ASSUME TypeOK, NEW p \in Proc, RetryLater(p)
  PROVE  OthersStay(p) /\ GoesOn(p)
  BY AdvanceShape DEF RetryLater, Sleep, TypeOK, Runs, Labels

LEMMA StartBroadcastShape ==
  ASSUME TypeOK, NEW p \in Proc, NEW key \in Keys, broadcast(p, key)
  PROVE  OthersStay(p) /\ (GoesOn(p) \/ Ends(p))
<1>1. [run[p] EXCEPT !.key = key] \in Runs
  BY DEF TypeOK, Runs
<1>2. Attempt([run[p] EXCEPT !.key = key], "line").mode = run[p].mode
  BY <1>1, AttemptMode DEF TypeOK, Runs
<1> QED
  BY <1>2, FinishShape, AdvanceShape DEF broadcast, Labels

LEMMA JobShape ==
  ASSUME TypeOK, NEW p \in Proc, JobStep(p)
  PROVE  /\ pc[p] \notin {"idle", "lock", "done"}
         /\ OthersStay(p)
         /\ GoesOn(p) \/ Ends(p)
<1> USE FinishShape DEF Labels
<1>1. run[p] \in Runs
  BY DEF TypeOK
<1>2. CASE Begin(p)
  BY <1>1, <1>2, AdvanceShape DEF Begin, Runs
<1>3. CASE CrossedMidnight(p) \/ StartedTooLate(p)
  BY <1>3 DEF CrossedMidnight, StartedTooLate
<1>4. CASE WaitForWindow(p)
  BY <1>1, <1>4, AdvanceShape DEF WaitForWindow, Sleep, Runs
<1>5. CASE Poll(p)
  <2> DEFINE r == [run[p] EXCEPT !.date = Today(p)]
  <2>1. Attempt(r, "hours").mode = run[p].mode
    BY <1>1 DEF Attempt, Runs
  <2> QED
    BY <1>5, <2>1, AdvanceShape DEF Poll
<1>6. CASE before_request(p)
  BY <1>1, <1>6, AdvanceShape DEF before_request
<1>7. CASE Resume(p)
  BY <1>1, <1>7, AdvanceShape DEF Resume, Runs
<1>8. CASE FetchStep(p)
  <2>1. /\ Attempt(run[p], "items").mode = run[p].mode
        /\ \A menu : [run[p] EXCEPT !.menu = menu].mode = run[p].mode
    BY <1>1, AttemptMode DEF Runs
  <2> QED
    BY <1>8, <2>1, AdvanceShape, RetryShape
       DEF FetchStep, Fetching, PostToIChef, IChefFails, IChefAnswersNonsense,
           IChefBreaksOff, HoursReceived, ItemsReceived
<1>9. CASE BroadcastStep(p)
  <2>1. CASE PostToLine(p)
    BY <1>1, <2>1 DEF PostToLine, Become, OthersStay, GoesOn, TypeOK
  <2>2. CASE LineFails(p) \/ LineRaises(p) \/ LineBreaksOff(p) \/ LineConfirms(p)
    BY <2>2, RetryShape DEF LineFails, LineRaises, LineBreaksOff, LineConfirms, AwaitingLine
  <2> QED
    BY <1>9, <2>1, <2>2 DEF BroadcastStep
<1>10. CASE EvaluateAutomatic(p)
  <2>1. daily_retry_key(run[p].date) \in Keys
    BY <1>1 DEF daily_retry_key, Keys, Runs
  <2>2. Attempt(run[p], "hours").mode = run[p].mode /\ Attempt(run[p], "hours") \in Runs
    BY <1>1, AttemptMode, AttemptType DEF Operations
  <2>3. \A w : [Attempt(run[p], "hours") EXCEPT !.wake = w].mode = run[p].mode
    BY <2>2 DEF Runs
  <2> QED
    BY <1>10, <2>1, <2>3, AdvanceShape, StartBroadcastShape DEF EvaluateAutomatic, Sleep
<1>11. CASE EvaluateManual(p)
  BY <1>1, <1>11, StartBroadcastShape DEF EvaluateManual, Runs
<1>12. CASE EvaluatePreview(p)
  BY <1>1, <1>12 DEF EvaluatePreview, Runs, Menus
<1>13. CASE RecheckDeadline(p)
  BY <1>1, <1>13, AdvanceShape DEF RecheckDeadline
<1> QED
  BY <1>2, <1>3, <1>4, <1>5, <1>6, <1>7, <1>8, <1>9, <1>10, <1>11, <1>12, <1>13 DEF JobStep

LEMMA LockStep ==
  ASSUME TypeOK, LockInvariant, [Next]_vars
  PROVE  LockInvariant'
<1>1. ASSUME NEW p \in Proc, Launch(p) PROVE LockInvariant'
  <2>1. pc[p] = "idle" /\ p \notin holders
    BY <1>1 DEF Launch, LaunchAutomatic, LaunchManual, LaunchPreview, Reject,
                LockInvariant, OneBroadcaster, Critical
  <2>2. OthersStay(p) /\ holders' = holders
    BY <1>1, <2>1, FinishShape
       DEF Launch, LaunchAutomatic, LaunchManual, LaunchPreview, Reject, TypeOK,
           Advance, Become, OthersStay, Ends
  <2>3. \/ pc'[p] = "done"
        \/ pc'[p] = "lock" /\ run'[p].mode # "dry_run"
        \/ pc'[p] # "lock" /\ run'[p].mode = "dry_run"
    BY <1>1 DEF Launch, LaunchAutomatic, LaunchManual, LaunchPreview, Reject,
                Finish, Advance, Become, TypeOK, Blank
  <2> QED
    BY <2>1, <2>2, <2>3 DEF LockInvariant, OneBroadcaster, Critical, OthersStay
<1>2. ASSUME NEW p \in Proc, JobStep(p) PROVE LockInvariant'
  BY <1>2, JobShape DEF LockInvariant, OneBroadcaster, Critical, OthersStay, GoesOn, Ends
<1>3. ASSUME NEW p \in Proc, AcquireLock(p) PROVE LockInvariant'
  BY <1>3 DEF AcquireLock, Become, LockInvariant, OneBroadcaster, Critical, TypeOK
<1>4. ASSUME NEW p \in Proc, SkipBusy(p) \/ LockUnusable(p) \/ Die(p)
      PROVE LockInvariant'
  BY <1>4, FinishShape DEF SkipBusy, LockUnusable, Die, LockInvariant, OneBroadcaster, Critical,
                           OthersStay, Ends
<1>5. CASE LineStep
  <2>1. PICK m \in requests, answer \in Answers : Reply(m, answer)
    BY <1>5 DEF LineStep, LineAccepts, LineReportsConflict, LineRefuses, Answers
  <2>2. \A p \in Proc : run'[p].mode = run[p].mode
    BY <2>1 DEF Reply, TypeOK, Runs, Broadcasts
  <2> QED
    BY <2>1, <2>2 DEF Reply, LockInvariant, OneBroadcaster, Critical
<1>6. CASE Tick \/ UNCHANGED vars
  BY <1>6 DEF Tick, vars, LockInvariant, OneBroadcaster, Critical
<1> QED
  BY <1>1, <1>2, <1>3, <1>4, <1>5, <1>6 DEF Next, Step, Ended

\* A preview never reaches the lock, and the lock holds for everybody else
\* (main, job_lock).
THEOREM LockIsInductive == Spec => []LockInvariant
<1>1. Init => LockInvariant
  BY DEF Init, LockInvariant, OneBroadcaster, Critical
<1>2. TypeOK /\ LockInvariant /\ [Next]_vars => LockInvariant'
  BY LockStep
<1> QED
  BY <1>1, <1>2, TypeCorrect, PTL DEF Spec

\* At most one run at a time is past the lock, and a run that ended or was
\* killed holds nothing (job_lock).
THEOREM MutualExclusion == Spec => []OneBroadcaster
<1>1. LockInvariant => OneBroadcaster
  BY DEF LockInvariant
<1> QED
  BY <1>1, LockIsInductive, PTL

-----------------------------------------------------------------------------
\* Days only pass.
LEMMA DaysPass ==
  ASSUME NEW t \in Nat, NEW u \in Nat, t <= u
  PROVE  date(t) <= date(u)
  BY Division

LEMMA AdvanceEffect ==
  ASSUME TypeOK, NEW p \in Proc, NEW l, NEW r, Advance(p, l, r)
  PROVE  /\ pc'[p] = l /\ run'[p] = r
         /\ OthersStay(p) /\ UNCHANGED <<now, requests, accepted>>
  BY DEF TypeOK, Advance, Become, OthersStay

LEMMA FinishEffect ==
  ASSUME TypeOK, NEW p \in Proc, NEW e, Finish(p, e)
  PROVE  /\ pc'[p] = "done"
         /\ run'[p] = [Blank EXCEPT !.mode = run[p].mode, !.date = run[p].date,
                                    !.key = run[p].key, !.ending = e]
         /\ OthersStay(p) /\ UNCHANGED <<now, requests, accepted>>
  BY DEF TypeOK, Finish, Become, OthersStay

\* The steps of the loop head, and all others: only the former set the date.
LoopHead(p) == Begin(p) \/ WaitForWindow(p) \/ Poll(p)

SameDays(p) ==
  /\ run'[p].mode = run[p].mode
  /\ run'[p].run_day = run[p].run_day /\ run'[p].date = run[p].date

\* Where a step other than those of the loop head may lead.
Onward(p) ==
  /\ OthersStay(p) /\ now' = now
  /\ \/ pc'[p] = "done"
     \/ SameDays(p) /\ Working(p) /\ (Working(p)' \/ pc'[p] = "waiting")
     \/ SameDays(p) /\ pc[p] = "waiting" /\ pc'[p] = "loop"

\* The end of a sleep is not one of the fields the invariants speak of.
LEMMA WakeField ==
  ASSUME NEW r \in Runs, NEW w
  PROVE  LET s == [r EXCEPT !.wake = w]
         IN  /\ s.mode = r.mode /\ s.run_day = r.run_day /\ s.date = r.date
             /\ s.key = r.key /\ s.op = r.op /\ s.answer = r.answer
  BY DEF Runs

LEMMA AttemptFields ==
  ASSUME NEW r \in Runs, NEW operation
  PROVE  LET s == Attempt(r, operation)
         IN  /\ s.mode = r.mode /\ s.run_day = r.run_day /\ s.date = r.date
             /\ s.key = r.key /\ s.op = operation /\ s.answer = "none"
  BY DEF Attempt, Runs

LEMMA RetryEffect ==
  ASSUME TypeOK, NEW p \in Proc, RetryLater(p)
  PROVE  /\ SameDays(p) /\ pc'[p] = "backoff"
         /\ OthersStay(p) /\ UNCHANGED <<now, requests, accepted>>
         /\ run'[p].key = run[p].key /\ run'[p].op = run[p].op
         /\ run'[p].answer = "none"
<1> DEFINE s == [run[p] EXCEPT !.attempt = @ + 1, !.answer = "none"]
           r == [s EXCEPT !.wake = now + _retry_delay(run[p].attempt)]
<1>1. run'[p] = r /\ pc'[p] = "backoff"
      /\ OthersStay(p) /\ UNCHANGED <<now, requests, accepted>>
  BY AdvanceEffect DEF RetryLater, Sleep
<1>2. /\ s.mode = run[p].mode /\ s.run_day = run[p].run_day /\ s.date = run[p].date
      /\ s.key = run[p].key /\ s.op = run[p].op /\ s.answer = "none"
  BY DEF TypeOK, Runs
<1>3. /\ r.mode = s.mode /\ r.run_day = s.run_day /\ r.date = s.date
      /\ r.key = s.key /\ r.op = s.op /\ r.answer = s.answer
  BY DEF TypeOK, Runs
<1> QED
  BY <1>1, <1>2, <1>3 DEF SameDays

LEMMA StartBroadcastEffect ==
  ASSUME TypeOK, NEW p \in Proc, NEW key \in Keys, broadcast(p, key)
  PROVE  \/ Finish(p, "too_long")
         \/ /\ SameDays(p) /\ pc'[p] = "guard" /\ run'[p].key = key
            /\ run'[p].op = "line" /\ run'[p].answer = "none"
            /\ OthersStay(p) /\ UNCHANGED <<now, requests, accepted>>
<1> DEFINE r == [run[p] EXCEPT !.key = key]
<1>1. r \in Runs /\ r.key = key /\ r.mode = run[p].mode
      /\ r.run_day = run[p].run_day /\ r.date = run[p].date
  BY DEF TypeOK, Runs
<1>2. Attempt(r, "line").key = key /\ Attempt(r, "line").mode = run[p].mode
      /\ Attempt(r, "line").run_day = run[p].run_day
      /\ Attempt(r, "line").date = run[p].date
      /\ Attempt(r, "line").op = "line" /\ Attempt(r, "line").answer = "none"
  BY <1>1 DEF Attempt, Runs
<1> QED
  BY <1>2, AdvanceEffect DEF broadcast, SameDays

LEMMA FinishOnward ==
  ASSUME TypeOK, NEW p \in Proc, NEW e, Finish(p, e)
  PROVE  Onward(p)
  BY FinishEffect DEF Onward

LEMMA AdvanceOnward ==
  ASSUME TypeOK, NEW p \in Proc, NEW r, Working(p),
         NEW l \in {"guard", "post", "reply", "backoff", "fetched", "checked", "waiting"},
         r.mode = run[p].mode, r.run_day = run[p].run_day, r.date = run[p].date,
         Advance(p, l, r)
  PROVE  Onward(p)
<1>1. pc'[p] = l /\ run'[p] = r /\ OthersStay(p) /\ now' = now
  BY AdvanceEffect
<1> QED
  BY <1>1 DEF Onward, SameDays, Working

LEMMA FetchOnward ==
  ASSUME TypeOK, NEW p \in Proc, FetchStep(p)
  PROVE  Onward(p)
<1>1. run[p] \in Runs
  BY DEF TypeOK
<1>2. Working(p)
  BY DEF FetchStep, PostToIChef, IChefFails, IChefAnswersNonsense, IChefBreaksOff,
         HoursReceived, ItemsReceived, Fetching, Working
<1>3. ASSUME NEW menu, Advance(p, "fetched", [run[p] EXCEPT !.menu = menu])
      PROVE  Onward(p)
  <2>1. /\ [run[p] EXCEPT !.menu = menu].mode = run[p].mode
        /\ [run[p] EXCEPT !.menu = menu].run_day = run[p].run_day
        /\ [run[p] EXCEPT !.menu = menu].date = run[p].date
    BY <1>1 DEF Runs
  <2> QED
    BY <1>2, <1>3, <2>1, AdvanceOnward
<1>4. CASE PostToIChef(p)
  BY <1>2, <1>4, AdvanceOnward DEF PostToIChef
<1>5. CASE IChefFails(p)
  <2>1. CASE RetryLater(p)
    BY <1>2, <2>1, RetryEffect DEF Onward, Working
  <2> QED
    BY <1>3, <1>5, <2>1, FinishOnward DEF IChefFails
<1>6. CASE IChefAnswersNonsense(p) \/ IChefBreaksOff(p)
  BY <1>6, FinishOnward DEF IChefAnswersNonsense, IChefBreaksOff
<1>7. CASE HoursReceived(p)
  <2> DEFINE r == Attempt(run[p], "items")
  <2>1. r.mode = run[p].mode /\ r.run_day = run[p].run_day /\ r.date = run[p].date
    BY <1>1, AttemptFields
  <2>2. CASE Advance(p, "guard", r)
    BY <1>2, <2>1, <2>2, AdvanceOnward
  <2> QED
    BY <1>3, <1>7, <2>2 DEF HoursReceived
<1>8. CASE ItemsReceived(p)
  BY <1>3, <1>8 DEF ItemsReceived
<1> QED
  BY <1>4, <1>5, <1>6, <1>7, <1>8 DEF FetchStep

LEMMA StartBroadcastOnward ==
  ASSUME TypeOK, NEW p \in Proc, NEW key \in Keys, Working(p), broadcast(p, key)
  PROVE  Onward(p)
<1>1. CASE Finish(p, "too_long")
  BY <1>1, FinishOnward
<1> QED
  BY <1>1, StartBroadcastEffect DEF Onward, Working

LEMMA OnwardStep ==
  ASSUME TypeOK, NEW p \in Proc, JobStep(p), ~LoopHead(p)
  PROVE  Onward(p)
<1>1. run[p] \in Runs
  BY DEF TypeOK
<1>2. CASE CrossedMidnight(p) \/ StartedTooLate(p)
  BY <1>2, FinishOnward DEF CrossedMidnight, StartedTooLate
<1>3. CASE before_request(p)
  BY <1>3, AdvanceOnward, FinishOnward DEF before_request, Working
<1>4. CASE Resume(p)
  <2> DEFINE r == [run[p] EXCEPT !.wake = 0]
  <2>1. r.mode = run[p].mode /\ r.run_day = run[p].run_day /\ r.date = run[p].date
    BY <1>1 DEF Runs
  <2> HIDE DEF r
  <2>2. CASE pc[p] = "backoff" /\ Advance(p, "guard", r)
    <3>1. Working(p)
      BY <2>2 DEF Working
    <3> QED
      BY <2>1, <2>2, <3>1, AdvanceOnward
  <2>3. CASE pc[p] = "waiting" /\ Advance(p, "loop", r)
    BY <2>1, <2>3, AdvanceEffect DEF Onward, SameDays
  <2> QED
    BY <1>4, <2>2, <2>3 DEF Resume, r
<1>5. CASE BroadcastStep(p)
  <2>1. Working(p)
    BY <1>5 DEF BroadcastStep, PostToLine, LineFails, LineRaises, LineBreaksOff,
                LineConfirms, AwaitingLine, Working
  <2>2. CASE PostToLine(p)
    <3>1. pc'[p] = "reply" /\ run'[p] = run[p] /\ OthersStay(p) /\ now' = now
      BY <2>2 DEF PostToLine, Become, OthersStay, TypeOK
    <3> QED
      BY <2>1, <3>1 DEF Onward, SameDays, Working
  <2>3. CASE RetryLater(p)
    BY <2>1, <2>3, RetryEffect DEF Onward, Working
  <2> QED
    BY <1>5, <2>2, <2>3, FinishOnward
       DEF BroadcastStep, LineFails, LineRaises, LineBreaksOff, LineConfirms
<1>6. CASE EvaluateAutomatic(p)
  <2> DEFINE r == Attempt(run[p], "hours")
  <2>1. daily_retry_key(run[p].date) \in Keys
    BY <1>1 DEF daily_retry_key, Keys, Runs
  <2>2. r \in Runs /\ r.mode = run[p].mode /\ r.run_day = run[p].run_day
        /\ r.date = run[p].date
    BY <1>1, AttemptFields, AttemptType DEF Operations
  <2>3. Working(p)
    BY <1>6 DEF EvaluateAutomatic, Working
  <2>4. ASSUME NEW s, Sleep(p, "waiting", r, s) PROVE Onward(p)
    <3> DEFINE w == [r EXCEPT !.wake = now + s]
    <3>1. w.mode = r.mode /\ w.run_day = r.run_day /\ w.date = r.date
      BY <2>2 DEF Runs
    <3>2. Advance(p, "waiting", w)
      BY <2>4 DEF Sleep
    <3> HIDE DEF w, r
    <3> QED
      BY <2>2, <2>3, <3>1, <3>2, AdvanceOnward
  <2> QED
    BY <1>6, <2>1, <2>3, <2>4, StartBroadcastOnward DEF EvaluateAutomatic
<1>7. CASE EvaluateManual(p)
  BY <1>1, <1>7, StartBroadcastOnward, FinishOnward DEF EvaluateManual, Runs, Working
<1>8. CASE EvaluatePreview(p)
  BY <1>1, <1>8, FinishOnward DEF EvaluatePreview, Runs, Menus
<1>9. CASE RecheckDeadline(p)
  BY <1>9, AdvanceOnward, FinishOnward DEF RecheckDeadline, Working
<1> QED
  BY <1>2, <1>3, <1>4, <1>5, <1>6, <1>7, <1>8, <1>9, FetchOnward DEF JobStep, LoopHead

LEMMA LineKeepsDays ==
  ASSUME TypeOK, LineStep
  PROVE  /\ UNCHANGED <<now, pc>>
         /\ \A p \in Proc : SameDays(p)
<1>1. PICK m \in requests, answer \in Answers : Reply(m, answer)
  BY DEF LineStep, LineAccepts, LineReportsConflict, LineRefuses, Answers
<1> QED
  BY <1>1 DEF Reply, SameDays, TypeOK, Runs, Broadcasts

\* What every step keeps of the order of a process's days and of the clock.
LEMMA DaysKept ==
  ASSUME TypeOK, NEW p \in Proc, DaysInOrder(p), SameDays(p), pc'[p] = pc[p],
         now' \in Nat, now <= now'
  PROVE  DaysInOrder(p)'
<1>1. date(now) <= date(now') /\ date(now) \in Nat /\ date(now') \in Nat
  BY InstantsAreNat, DaysPass, Division
<1>2. run[p].date \in Int /\ run[p].run_day \in Int
  BY DEF TypeOK, Runs, Dates, NoDate
<1> QED
  BY <1>1, <1>2, InstantsAreNat DEF DaysInOrder, SameDays, Automatic, Working, Started, START_TIME

LEMMA FinishDays ==
  ASSUME TypeOK, NEW p \in Proc, NEW e, Finish(p, e)
  PROVE  OthersStay(p) /\ now' = now /\ DaysInOrder(p)' /\ pc'[p] \notin {"post", "checked"}
<1>1. pc'[p] = "done" /\ OthersStay(p) /\ now' = now
  BY FinishEffect
<1> QED
  BY <1>1 DEF DaysInOrder, Started, Working

LEMMA LaunchDays ==
  ASSUME TypeOK, NEW p \in Proc, Launch(p)
  PROVE  OthersStay(p) /\ now' = now /\ DaysInOrder(p)' /\ pc'[p] \notin {"post", "checked"}
<1>1. CASE LaunchAutomatic(p)
  <2>1. pc'[p] = "lock" /\ run'[p] = [Blank EXCEPT !.mode = "automatic"]
        /\ OthersStay(p) /\ now' = now
    BY <1>1, AdvanceEffect DEF LaunchAutomatic
  <2>2. run'[p].date = NoDate
    BY <2>1 DEF Blank
  <2> QED
    BY <2>1, <2>2 DEF DaysInOrder, Started, Working
<1>2. CASE LaunchManual(p)
  <2>1. PICK d, key : Advance(p, "lock",
                        [Blank EXCEPT !.mode = "manual", !.date = d, !.key = key])
    BY <1>2 DEF LaunchManual
  <2>2. /\ pc'[p] = "lock" /\ OthersStay(p) /\ now' = now
        /\ run'[p] = [Blank EXCEPT !.mode = "manual", !.date = d, !.key = key]
    BY <2>1, AdvanceEffect
  <2>3. run'[p].mode = "manual"
    BY <2>2 DEF Blank
  <2> QED
    BY <2>2, <2>3 DEF DaysInOrder, Automatic
<1>3. CASE LaunchPreview(p)
  <2>1. PICK d : Advance(p, "guard", [Blank EXCEPT !.mode = "dry_run", !.date = d])
    BY <1>3 DEF LaunchPreview
  <2>2. /\ pc'[p] = "guard" /\ OthersStay(p) /\ now' = now
        /\ run'[p] = [Blank EXCEPT !.mode = "dry_run", !.date = d]
    BY <2>1, AdvanceEffect
  <2>3. run'[p].mode = "dry_run"
    BY <2>2 DEF Blank
  <2> QED
    BY <2>2, <2>3 DEF DaysInOrder, Automatic
<1>4. CASE Reject(p)
  BY <1>4, FinishDays DEF Reject
<1> QED
  BY <1>1, <1>2, <1>3, <1>4 DEF Launch

LEMMA BeginDays ==
  ASSUME TypeOK, NEW p \in Proc, DaysInOrder(p), Begin(p)
  PROVE  OthersStay(p) /\ now' = now /\ DaysInOrder(p)' /\ pc'[p] \notin {"post", "checked"}
<1>1. run[p] \in Runs
  BY DEF TypeOK
<1>2. CASE /\ Automatic(p)
           /\ Advance(p, "loop", [run[p] EXCEPT !.run_day = date(now)])
  <2>1. pc'[p] = "loop" /\ run'[p] = [run[p] EXCEPT !.run_day = date(now)]
        /\ OthersStay(p) /\ now' = now
    BY <1>2, AdvanceEffect
  <2>2. run'[p].run_day = date(now) /\ run'[p].date = NoDate
    BY <1>1, <1>2, <2>1 DEF Runs, DaysInOrder, Begin
  <2>3. date(now) \in Nat
    BY InstantsAreNat, Division
  <2> QED
    BY <2>1, <2>2, <2>3 DEF DaysInOrder, Started, Working
<1>3. CASE run[p].mode = "manual" /\ Advance(p, "guard",
        [run[p] EXCEPT !.key = IF @ = NoKey THEN manual_retry_key(p) ELSE @])
  <2> DEFINE k == IF run[p].key = NoKey THEN manual_retry_key(p) ELSE run[p].key
  <2>1. pc'[p] = "guard" /\ run'[p] = [run[p] EXCEPT !.key = k]
        /\ OthersStay(p) /\ now' = now
    BY <1>3, AdvanceEffect
  <2>2. run'[p].mode = "manual"
    BY <1>1, <1>3, <2>1 DEF Runs
  <2> QED
    BY <2>1, <2>2 DEF DaysInOrder, Automatic
<1> QED
  BY <1>2, <1>3 DEF Begin

LEMMA LoopDays ==
  ASSUME TypeOK, NEW p \in Proc, DaysInOrder(p), WaitForWindow(p) \/ Poll(p)
  PROVE  OthersStay(p) /\ now' = now /\ DaysInOrder(p)' /\ pc'[p] \notin {"post", "checked"}
<1> DEFINE r == [run[p] EXCEPT !.date = Today(p)]
<1>1. /\ r.mode = run[p].mode /\ r.run_day = run[p].run_day /\ r.date = Today(p)
      /\ r \in Runs
  <2>1. date(now) \in Dates
    BY InstantsAreNat, Division DEF Dates
  <2>2. run[p] \in Runs /\ run[p].date \in Dates
    BY DEF TypeOK, Runs
  <2>3. Today(p) \in Dates
    BY <2>1, <2>2 DEF Today
  <2> QED
    BY <2>2, <2>3 DEF Runs
<1>2. pc[p] = "loop" /\ Today(p) = date(now)
  BY DEF WaitForWindow, Poll, InWindow
<1>3. CASE WaitForWindow(p)
  <2>1. PICK s : Advance(p, "waiting", [r EXCEPT !.wake = s])
    BY <1>3 DEF WaitForWindow, Sleep
  <2> HIDE DEF r
  <2>2. pc'[p] = "waiting" /\ run'[p] = [r EXCEPT !.wake = s]
        /\ OthersStay(p) /\ now' = now
    BY <2>1, AdvanceEffect
  <2>3. run'[p].mode = run[p].mode /\ run'[p].run_day = run[p].run_day
        /\ run'[p].date = date(now)
    BY <1>1, <1>2, <2>2 DEF Runs
  <2>4. date(now) \in Nat
    BY InstantsAreNat, Division
  <2> QED
    BY <1>2, <2>2, <2>3, <2>4 DEF DaysInOrder, Automatic, Started, Working
<1>4. CASE Poll(p)
  <2>1. Advance(p, "guard", Attempt(r, "hours"))
    BY <1>4 DEF Poll
  <2> HIDE DEF r
  <2>2. pc'[p] = "guard" /\ run'[p] = Attempt(r, "hours")
        /\ OthersStay(p) /\ now' = now
    BY <2>1, AdvanceEffect
  <2>3. run'[p].mode = run[p].mode /\ run'[p].run_day = run[p].run_day
        /\ run'[p].date = date(now)
    BY <1>1, <1>2, <2>2, AttemptFields
  <2>4. date(now) \in Nat /\ date(now) * 86400 + START_TIME <= now
    BY <1>4, InstantsAreNat, Division DEF Poll, InWindow, START_TIME
  <2> QED
    BY <1>2, <2>2, <2>3, <2>4 DEF DaysInOrder, Automatic, Started, Working
<1> QED
  BY <1>3, <1>4

LEMMA OnwardDays ==
  ASSUME TypeOK, NEW p \in Proc, DaysInOrder(p), Onward(p)
  PROVE  DaysInOrder(p)'
<1>1. run[p].date \in Int /\ run[p].run_day \in Int
  BY DEF TypeOK, Runs, Dates, NoDate
<1> QED
  BY <1>1 DEF Onward, DaysInOrder, SameDays, Automatic, Started, Working

\* Only a check leads to the labels at which GuardHolds speaks of it.
LEMMA PostIsGuarded ==
  ASSUME TypeOK, NEW p \in Proc, JobStep(p), pc'[p] \in {"post", "checked"}
  PROVE  before_request(p) \/ RecheckDeadline(p)
<1>1. CASE before_request(p) \/ RecheckDeadline(p)
  BY <1>1
<1>2. ASSUME NEW e, Finish(p, e) PROVE FALSE
  BY <1>2, FinishEffect
<1>3. ASSUME NEW l, NEW r, l # "post", l # "checked", Advance(p, l, r) PROVE FALSE
  BY <1>3, AdvanceEffect
<1>4. CASE Begin(p) \/ CrossedMidnight(p) \/ WaitForWindow(p) \/ StartedTooLate(p)
             \/ Poll(p)
  BY <1>2, <1>3, <1>4 DEF Begin, CrossedMidnight, WaitForWindow, StartedTooLate, Poll, Sleep
<1>5. CASE Resume(p)
  BY <1>3, <1>5 DEF Resume
<1>6. CASE FetchStep(p)
  <2>1. ASSUME RetryLater(p) PROVE FALSE
    BY <1>3, <2>1 DEF RetryLater, Sleep
  <2>2. CASE PostToIChef(p) \/ HoursReceived(p) \/ ItemsReceived(p)
    BY <1>3, <2>2 DEF PostToIChef, HoursReceived, ItemsReceived
  <2>3. CASE IChefFails(p) \/ IChefAnswersNonsense(p) \/ IChefBreaksOff(p)
    BY <1>2, <1>3, <2>1, <2>3 DEF IChefFails, IChefAnswersNonsense, IChefBreaksOff
  <2> QED
    BY <1>6, <2>2, <2>3 DEF FetchStep
<1>7. CASE PostToLine(p)
  BY <1>7 DEF PostToLine, Become, TypeOK
<1>8. CASE LineFails(p) \/ LineRaises(p) \/ LineBreaksOff(p) \/ LineConfirms(p)
  BY <1>2, <1>3, <1>8 DEF LineFails, LineRaises, LineBreaksOff, LineConfirms, RetryLater, Sleep
<1>9. CASE EvaluateAutomatic(p) \/ EvaluateManual(p)
  BY <1>2, <1>3, <1>9 DEF EvaluateAutomatic, EvaluateManual, broadcast, Sleep
<1>10. CASE EvaluatePreview(p)
  BY <1>2, <1>10 DEF EvaluatePreview, TypeOK, Runs, Menus
<1> QED
  BY <1>1, <1>4, <1>5, <1>6, <1>7, <1>8, <1>9, <1>10 DEF JobStep, BroadcastStep

LEMMA GuardEffect ==
  ASSUME TypeOK, NEW p \in Proc, before_request(p) \/ RecheckDeadline(p), pc'[p] # "done"
  PROVE  /\ run'[p] = run[p] /\ now' = now
         /\ Automatic(p) => check_deadline_passes(p)
  BY AdvanceEffect, FinishEffect DEF before_request, RecheckDeadline

\* An invariant of every process follows for a step of one process p from what
\* p does and from the others and the clock standing still.
LEMMA OthersWindow ==
  ASSUME TypeOK, WindowInvariant, NEW p \in Proc, OthersStay(p), now' = now,
         DaysInOrder(p)', ~Preemption => GuardHolds(p)'
  PROVE  WindowInvariant'
<1> SUFFICES ASSUME NEW q \in Proc, q # p
             PROVE  DaysInOrder(q)' /\ (~Preemption => GuardHolds(q)')
  BY DEF WindowInvariant
<1>1. pc'[q] = pc[q] /\ run'[q] = run[q]
  BY DEF OthersStay
<1>2. DaysInOrder(q) /\ (~Preemption => GuardHolds(q))
  BY DEF WindowInvariant
<1> QED
  BY <1>1, <1>2 DEF DaysInOrder, GuardHolds, Automatic, Started, Working,
                    check_deadline_passes

LEMMA WindowStep ==
  ASSUME TypeOK, WindowInvariant, [Next]_vars
  PROVE  WindowInvariant'
<1>1. ASSUME NEW p \in Proc PROVE DaysInOrder(p)
  BY DEF WindowInvariant
<1>2. ASSUME NEW p \in Proc, NEW e, Finish(p, e) PROVE WindowInvariant'
  <2>1. GuardHolds(p)'
    BY <1>2, FinishDays DEF GuardHolds
  <2> QED
    BY <1>2, <2>1, FinishDays, OthersWindow
<1>3. ASSUME NEW p \in Proc, Launch(p) PROVE WindowInvariant'
  <2>1. GuardHolds(p)'
    BY <1>3, LaunchDays DEF GuardHolds
  <2> QED
    BY <1>3, <2>1, LaunchDays, OthersWindow
<1>4. ASSUME NEW p \in Proc, LoopHead(p) PROVE WindowInvariant'
  <2>1. OthersStay(p) /\ now' = now /\ DaysInOrder(p)' /\ pc'[p] \notin {"post", "checked"}
    BY <1>1, <1>4, BeginDays, LoopDays DEF LoopHead
  <2> QED
    BY <2>1, OthersWindow DEF GuardHolds
<1>5. ASSUME NEW p \in Proc, JobStep(p), ~LoopHead(p) PROVE WindowInvariant'
  <2>1. Onward(p)
    BY <1>5, OnwardStep
  <2>2. DaysInOrder(p)' /\ OthersStay(p) /\ now' = now
    BY <1>1, <2>1, OnwardDays DEF Onward
  <2>3. GuardHolds(p)'
    <3> SUFFICES ASSUME pc'[p] \in {"post", "checked"}, Automatic(p)'
                 PROVE  check_deadline_passes(p)'
      BY DEF GuardHolds
    <3>1. before_request(p) \/ RecheckDeadline(p)
      BY <1>5, PostIsGuarded
    <3>2. /\ run'[p] = run[p] /\ now' = now
          /\ Automatic(p) => check_deadline_passes(p)
      BY <3>1, GuardEffect
    <3> QED
      BY <3>2 DEF Automatic, check_deadline_passes
  <2> QED
    BY <2>2, <2>3, OthersWindow
<1>6. ASSUME NEW p \in Proc, AcquireLock(p) PROVE WindowInvariant'
  <2>1. pc[p] = "lock" /\ pc'[p] = "begin" /\ run' = run /\ now' = now /\ OthersStay(p)
    BY <1>6 DEF AcquireLock, Become, OthersStay, TypeOK
  <2>2. DaysInOrder(p)' /\ GuardHolds(p)'
    BY <1>1, <2>1 DEF DaysInOrder, GuardHolds, Automatic, Started, Working
  <2> QED
    BY <2>1, <2>2, OthersWindow
<1>7. CASE LineStep \/ UNCHANGED vars
  <2>1. UNCHANGED <<now, pc>> /\ \A p \in Proc : SameDays(p)
    BY <1>7, LineKeepsDays DEF vars, SameDays
  <2>2. ASSUME NEW p \in Proc PROVE DaysInOrder(p)'
    BY <1>1, <2>1, DaysKept, InstantsAreNat
  <2>3. ASSUME NEW p \in Proc, GuardHolds(p) PROVE GuardHolds(p)'
    BY <2>1, <2>3 DEF GuardHolds, SameDays, Automatic, check_deadline_passes
  <2> QED
    BY <2>2, <2>3 DEF WindowInvariant
<1>8. CASE Tick
  <2>1. now' \in Nat /\ now <= now' /\ UNCHANGED <<pc, run>>
    BY <1>8, InstantsAreNat, InstantsAssumption DEF Tick
  <2>2. ASSUME NEW p \in Proc PROVE DaysInOrder(p)'
    BY <1>1, <2>1, DaysKept DEF SameDays
  <2>3. ASSUME NEW p \in Proc, ~Preemption PROVE GuardHolds(p)'
    BY <1>8, <2>3 DEF Tick, GuardHolds
  <2> QED
    BY <2>2, <2>3 DEF WindowInvariant
<1> QED
  BY <1>2, <1>3, <1>4, <1>5, <1>6, <1>7, <1>8
     DEF Next, Step, SkipBusy, LockUnusable, Die, Ended

\* An automatic run works on a day that has come and not before its window
\* opens; unless it is preempted, what check_deadline found still holds when
\* the request is sent, or the sleep chosen.
THEOREM WindowIsInductive == Spec => []WindowInvariant
<1>1. Init => WindowInvariant
  BY DEF Init, WindowInvariant, DaysInOrder, GuardHolds, Started, Working
<1>2. TypeOK /\ WindowInvariant /\ [Next]_vars => WindowInvariant'
  BY WindowStep
<1> QED
  BY <1>1, <1>2, TypeCorrect, PTL DEF Spec

LEMMA WindowInvariance == Spec => [](TypeOK /\ WindowInvariant)
  BY WindowIsInductive, TypeCorrect, PTL

\* A process that is about to send a request of an automatic run is in the
\* window of its date.
LEMMA PostInWindow ==
  ASSUME TypeOK, WindowInvariant, ~Preemption, NEW p \in Proc,
         pc[p] = "post", Automatic(p)
  PROVE  InWindow(run[p].date, now)
<1>1. /\ date(now) = run[p].run_day /\ time(now) < DEADLINE
      /\ run[p].run_day <= run[p].date /\ run[p].date <= date(now)
      /\ run[p].date * 86400 + START_TIME <= now
  BY DEF WindowInvariant, DaysInOrder, GuardHolds, Started, Working, check_deadline_passes
<1>2. run[p].date \in Int
  BY DEF TypeOK, Runs, Dates, NoDate
<1>3. date(now) \in Nat /\ time(now) \in Nat /\ now = 86400 * date(now) + time(now)
  BY InstantsAreNat, Division
<1>4. run[p].date = date(now)
  BY <1>1, <1>2, <1>3
<1> QED
  BY <1>1, <1>2, <1>3, <1>4 DEF InWindow, START_TIME

\* If the clock stands still between a guard and its request, no automatic
\* run sends a request outside the window of its date (check_deadline).
THEOREM RequestsInWindow ==
  ASSUME ~Preemption
  PROVE  Spec => WindowedRequests
<1>1. TypeOK /\ WindowInvariant /\ [Next]_vars =>
        [\A p \in Proc : Sends(p) /\ Automatic(p) => InWindow(run[p].date, now)]_vars
  BY PostInWindow DEF Sends
<1> QED
  BY <1>1, WindowInvariance, PTL DEF Spec, WindowedRequests

-----------------------------------------------------------------------------
\* Steps of a running job that keep its key and date, and what they do to the
\* request in progress and to LINE's answer.
SameMessage(p) ==
  /\ run'[p].mode = run[p].mode
  /\ run'[p].key = run[p].key /\ run'[p].date = run[p].date

Progress(p) ==
  \/ pc'[p] = "done" /\ run'[p].op = "hours"
  \/ /\ Working(p) /\ pc'[p] \in {"guard", "post", "reply", "backoff"}
     /\ run'[p].op = run[p].op
  \/ /\ Working(p) /\ pc'[p] \in {"guard", "fetched", "checked", "waiting"}
     /\ pc'[p] = "waiting" => Automatic(p)
     /\ run[p].op # "line" /\ run'[p].op # "line"
  \/ pc[p] = "waiting" /\ pc'[p] = "loop" /\ run'[p].op = run[p].op

AnswerUsed(p) ==
  \/ run'[p].answer = "none"
  \/ run'[p].answer = run[p].answer /\ (pc[p] # "reply" \/ run[p].op # "line")

Steady(p) ==
  /\ OthersStay(p) /\ UNCHANGED <<now, accepted>>
  /\ requests' = requests \/ PostToLine(p)
  /\ SameMessage(p) /\ Progress(p) /\ AnswerUsed(p)

StartsBroadcast(p, key) ==
  /\ OthersStay(p) /\ UNCHANGED <<now, requests, accepted>>
  /\ run'[p].mode = run[p].mode /\ run'[p].date = run[p].date /\ run'[p].key = key
  /\ pc[p] \in {"fetched", "checked"} /\ pc'[p] = "guard"
  /\ run'[p].op = "line" /\ run'[p].answer = "none"

LEMMA FinishSteady ==
  ASSUME TypeOK, NEW p \in Proc, NEW e, Finish(p, e)
  PROVE  Steady(p)
<1> DEFINE r == [Blank EXCEPT !.mode = run[p].mode, !.date = run[p].date,
                              !.key = run[p].key, !.ending = e]
<1>1. /\ pc'[p] = "done" /\ run'[p] = r
      /\ OthersStay(p) /\ UNCHANGED <<now, requests, accepted>>
  BY FinishEffect
<1>2. /\ r.mode = run[p].mode /\ r.date = run[p].date /\ r.key = run[p].key
      /\ r.op = "hours" /\ r.answer = "none"
  BY DEF Blank
<1> QED
  BY <1>1, <1>2 DEF Steady, SameMessage, Progress, AnswerUsed

LEMMA RetrySteady ==
  ASSUME TypeOK, NEW p \in Proc, Working(p), RetryLater(p)
  PROVE  Steady(p)
  BY RetryEffect DEF Steady, SameMessage, SameDays, Progress, AnswerUsed

LEMMA AdvanceSteady ==
  ASSUME TypeOK, NEW p \in Proc, NEW l, NEW r, Advance(p, l, r),
         r.mode = run[p].mode, r.key = run[p].key, r.date = run[p].date,
         r.op = run[p].op, r.answer = run[p].answer,
         pc[p] # "reply" \/ run[p].op # "line",
         \/ Working(p) /\ l \in {"guard", "post", "reply", "backoff"}
         \/ Working(p) /\ l \in {"fetched", "checked"} /\ run[p].op # "line"
         \/ pc[p] = "waiting" /\ l = "loop"
  PROVE  Steady(p)
<1>1. /\ pc'[p] = l /\ run'[p] = r
      /\ OthersStay(p) /\ UNCHANGED <<now, requests, accepted>>
  BY AdvanceEffect
<1> QED
  BY <1>1 DEF Steady, SameMessage, Progress, AnswerUsed

LEMMA FetchSteady ==
  ASSUME TypeOK, NEW p \in Proc, FetchStep(p)
  PROVE  Steady(p)
<1>1. run[p] \in Runs
  BY DEF TypeOK
<1>2. Working(p) /\ run[p].op # "line"
  BY DEF FetchStep, PostToIChef, IChefFails, IChefAnswersNonsense, IChefBreaksOff,
         HoursReceived, ItemsReceived, Fetching, Working
<1>3. ASSUME NEW menu, Advance(p, "fetched", [run[p] EXCEPT !.menu = menu])
      PROVE  Steady(p)
  <2> DEFINE r == [run[p] EXCEPT !.menu = menu]
  <2>1. /\ r.mode = run[p].mode /\ r.key = run[p].key /\ r.date = run[p].date
        /\ r.op = run[p].op /\ r.answer = run[p].answer
    BY <1>1 DEF Runs
  <2>2. Advance(p, "fetched", r)
    BY <1>3
  <2> HIDE DEF r
  <2> QED
    BY <1>2, <2>1, <2>2, AdvanceSteady
<1>4. CASE PostToIChef(p)
  BY <1>2, <1>4, AdvanceSteady DEF PostToIChef
<1>5. CASE IChefFails(p)
  BY <1>2, <1>3, <1>5, RetrySteady, FinishSteady DEF IChefFails
<1>6. CASE IChefAnswersNonsense(p) \/ IChefBreaksOff(p)
  BY <1>6, FinishSteady DEF IChefAnswersNonsense, IChefBreaksOff
<1>7. CASE HoursReceived(p)
  <2> DEFINE r == Attempt(run[p], "items")
  <2>1. r.mode = run[p].mode /\ r.key = run[p].key /\ r.date = run[p].date
        /\ r.op = "items" /\ r.answer = "none"
    BY <1>1, AttemptFields
  <2>2. CASE Advance(p, "guard", r)
    <3>1. /\ pc'[p] = "guard" /\ run'[p] = r
          /\ OthersStay(p) /\ UNCHANGED <<now, requests, accepted>>
      BY <2>2, AdvanceEffect
    <3> HIDE DEF r
    <3> QED
      BY <1>2, <2>1, <3>1 DEF Steady, SameMessage, Progress, AnswerUsed
  <2> QED
    BY <1>3, <1>7, <2>2 DEF HoursReceived
<1>8. CASE ItemsReceived(p)
  BY <1>3, <1>8 DEF ItemsReceived
<1> QED
  BY <1>4, <1>5, <1>6, <1>7, <1>8 DEF FetchStep

LEMMA BroadcastSteady ==
  ASSUME TypeOK, NEW p \in Proc, BroadcastStep(p)
  PROVE  Steady(p)
<1>1. Working(p)
  BY DEF BroadcastStep, PostToLine, LineFails, LineRaises, LineBreaksOff, LineConfirms,
         AwaitingLine, Working
<1>2. CASE PostToLine(p)
  <2>1. /\ pc[p] = "post" /\ pc'[p] = "reply" /\ run'[p] = run[p]
        /\ OthersStay(p) /\ UNCHANGED <<now, accepted>>
    BY <1>2 DEF PostToLine, Become, OthersStay, TypeOK
  <2> QED
    BY <1>1, <1>2, <2>1 DEF Steady, SameMessage, Progress, AnswerUsed
<1> QED
  BY <1>1, <1>2, RetrySteady, FinishSteady
     DEF BroadcastStep, LineFails, LineRaises, LineBreaksOff, LineConfirms

LEMMA StartBroadcastCases ==
  ASSUME TypeOK, NEW p \in Proc, NEW key \in Keys, pc[p] \in {"fetched", "checked"},
         broadcast(p, key)
  PROVE  Steady(p) \/ StartsBroadcast(p, key)
<1>1. CASE Finish(p, "too_long")
  BY <1>1, FinishSteady
<1> QED
  BY <1>1, StartBroadcastEffect DEF StartsBroadcast, SameDays

LEMMA EvaluateCases ==
  ASSUME TypeOK, NEW p \in Proc, Phases(p),
         RecheckDeadline(p) \/ EvaluateAutomatic(p) \/ EvaluateManual(p) \/ EvaluatePreview(p)
  PROVE  \/ Steady(p)
         \/ Automatic(p) /\ StartsBroadcast(p, daily_retry_key(run[p].date))
         \/ run[p].mode = "manual" /\ StartsBroadcast(p, run[p].key)
<1>1. run[p] \in Runs
  BY DEF TypeOK
<1>2. pc[p] \in {"fetched", "checked"} /\ run[p].op # "line"
  BY DEF RecheckDeadline, EvaluateAutomatic, EvaluateManual, EvaluatePreview, Phases
<1>3. CASE EvaluateAutomatic(p)
  <2> DEFINE r == Attempt(run[p], "hours")
  <2>1. daily_retry_key(run[p].date) \in Keys
    BY <1>1 DEF daily_retry_key, Keys, Runs
  <2>2. /\ r \in Runs /\ r.mode = run[p].mode /\ r.key = run[p].key
        /\ r.date = run[p].date /\ r.op = "hours" /\ r.answer = "none"
    BY <1>1, AttemptFields, AttemptType DEF Operations
  <2>3. ASSUME NEW s, Sleep(p, "waiting", r, s) PROVE Steady(p)
    <3> DEFINE w == [r EXCEPT !.wake = now + s]
    <3>1. /\ w.mode = r.mode /\ w.key = r.key /\ w.date = r.date
          /\ w.op = r.op /\ w.answer = r.answer
      BY <2>2 DEF Runs
    <3>2. Advance(p, "waiting", w)
      BY <2>3 DEF Sleep
    <3> HIDE DEF w, r
    <3>3. /\ pc'[p] = "waiting" /\ run'[p] = w
          /\ OthersStay(p) /\ UNCHANGED <<now, requests, accepted>>
      BY <3>2, AdvanceEffect
    <3>4. Working(p) /\ Automatic(p)
      BY <1>2, <1>3 DEF Working, EvaluateAutomatic
    <3> QED
      BY <1>2, <2>2, <3>1, <3>3, <3>4 DEF Steady, SameMessage, Progress, AnswerUsed
  <2> QED
    BY <1>2, <1>3, <2>1, <2>3, StartBroadcastCases DEF EvaluateAutomatic
<1>4. CASE EvaluateManual(p)
  BY <1>1, <1>2, <1>4, StartBroadcastCases, FinishSteady DEF EvaluateManual, Runs
<1>5. CASE EvaluatePreview(p)
  BY <1>1, <1>5, FinishSteady DEF EvaluatePreview, Runs, Menus
<1>6. CASE RecheckDeadline(p)
  BY <1>2, <1>6, AdvanceSteady, FinishSteady DEF RecheckDeadline, Working
<1> QED
  BY <1>3, <1>4, <1>5, <1>6

LEMMA JobCases ==
  ASSUME TypeOK, NEW p \in Proc, Phases(p), JobStep(p), ~LoopHead(p)
  PROVE  \/ Steady(p)
         \/ Automatic(p) /\ StartsBroadcast(p, daily_retry_key(run[p].date))
         \/ run[p].mode = "manual" /\ StartsBroadcast(p, run[p].key)
<1>1. run[p] \in Runs
  BY DEF TypeOK
<1>2. CASE CrossedMidnight(p) \/ StartedTooLate(p)
  BY <1>2, FinishSteady DEF CrossedMidnight, StartedTooLate
<1>3. CASE before_request(p)
  BY <1>3, AdvanceSteady, FinishSteady DEF before_request, Working
<1>4. CASE Resume(p)
  <2> DEFINE r == [run[p] EXCEPT !.wake = 0]
  <2>1. /\ r.mode = run[p].mode /\ r.key = run[p].key /\ r.date = run[p].date
        /\ r.op = run[p].op /\ r.answer = run[p].answer
    BY <1>1 DEF Runs
  <2>2. \/ pc[p] = "backoff" /\ Advance(p, "guard", r)
        \/ pc[p] = "waiting" /\ Advance(p, "loop", r)
    BY <1>4 DEF Resume
  <2>3. Working(p) \/ pc[p] = "waiting"
    BY <2>2 DEF Working
  <2> HIDE DEF r
  <2> QED
    BY <2>1, <2>2, <2>3, AdvanceSteady DEF Working
<1> QED
  BY <1>2, <1>3, <1>4, FetchSteady, BroadcastSteady, EvaluateCases DEF JobStep, LoopHead

\* What the loop head and run_manual do to key and date.
LEMMA LoopHeadCases ==
  ASSUME TypeOK, NEW p \in Proc, Phases(p), LoopHead(p)
  PROVE  /\ OthersStay(p) /\ UNCHANGED <<now, requests, accepted>>
         /\ run'[p].mode = run[p].mode /\ AnswerUsed(p)
         /\ \/ /\ Automatic(p) /\ pc[p] \in {"begin", "loop"}
               /\ pc'[p] \in {"loop", "waiting", "guard"}
               /\ run'[p].key = run[p].key /\ run'[p].op \in {run[p].op, "hours"}
            \/ /\ run[p].mode = "manual" /\ pc[p] = "begin" /\ pc'[p] = "guard"
               /\ run'[p].date = run[p].date /\ run'[p].op = run[p].op
               /\ run'[p].key = IF run[p].key = NoKey THEN manual_retry_key(p)
                                                      ELSE run[p].key
<1>1. run[p] \in Runs
  BY DEF TypeOK
<1>2. CASE Begin(p)
  <2>1. CASE Automatic(p) /\ Advance(p, "loop", [run[p] EXCEPT !.run_day = date(now)])
    <3> DEFINE r == [run[p] EXCEPT !.run_day = date(now)]
    <3>1. /\ r.mode = run[p].mode /\ r.key = run[p].key /\ r.date = run[p].date
          /\ r.op = run[p].op /\ r.answer = run[p].answer
      BY <1>1 DEF Runs
    <3>2. Advance(p, "loop", r) /\ Automatic(p) /\ pc[p] = "begin"
      BY <1>2, <2>1 DEF Begin
    <3> HIDE DEF r
    <3> QED
      BY <3>1, <3>2, AdvanceEffect DEF AnswerUsed
  <2>2. CASE run[p].mode = "manual" /\ Advance(p, "guard",
        [run[p] EXCEPT !.key = IF @ = NoKey THEN manual_retry_key(p) ELSE @])
    <3> DEFINE k == IF run[p].key = NoKey THEN manual_retry_key(p) ELSE run[p].key
               r == [run[p] EXCEPT !.key = k]
    <3>1. /\ r.mode = run[p].mode /\ r.key = k /\ r.date = run[p].date
          /\ r.op = run[p].op /\ r.answer = run[p].answer
      BY <1>1 DEF Runs
    <3>2. Advance(p, "guard", r) /\ run[p].mode = "manual" /\ pc[p] = "begin"
      BY <1>2, <2>2 DEF Begin
    <3> HIDE DEF r
    <3>3. /\ pc'[p] = "guard" /\ run'[p] = r
          /\ OthersStay(p) /\ UNCHANGED <<now, requests, accepted>>
      BY <3>2, AdvanceEffect
    <3> QED
      BY <3>1, <3>2, <3>3 DEF AnswerUsed
  <2> QED
    BY <1>2, <2>1, <2>2 DEF Begin
<1>3. ASSUME WaitForWindow(p) \/ Poll(p), Automatic(p)
      PROVE  /\ OthersStay(p) /\ UNCHANGED <<now, requests, accepted>>
             /\ run'[p].mode = run[p].mode /\ AnswerUsed(p)
             /\ pc[p] = "loop" /\ pc'[p] \in {"waiting", "guard"}
             /\ run'[p].key = run[p].key /\ run'[p].op \in {run[p].op, "hours"}
  <2> DEFINE d == [run[p] EXCEPT !.date = Today(p)]
  <2>1. Today(p) \in Dates
    <3>1. date(now) \in Dates
      BY InstantsAreNat, Division DEF Dates
    <3>2. run[p].date \in Dates
      BY <1>1 DEF Runs
    <3> QED
      BY <3>1, <3>2 DEF Today
  <2>2. /\ d \in Runs /\ d.mode = run[p].mode /\ d.key = run[p].key
        /\ d.op = run[p].op /\ d.answer = run[p].answer
    BY <1>1, <2>1 DEF Runs
  <2>3. pc[p] = "loop"
    BY <1>3 DEF WaitForWindow, Poll
  <2>4. CASE WaitForWindow(p)
    <3>1. PICK s : Advance(p, "waiting", [d EXCEPT !.wake = s])
      BY <2>4 DEF WaitForWindow, Sleep
    <3> DEFINE r == [d EXCEPT !.wake = s]
    <3> HIDE DEF d
    <3>2. r.mode = d.mode /\ r.key = d.key /\ r.op = d.op /\ r.answer = d.answer
      BY <2>2 DEF Runs
    <3>3. Advance(p, "waiting", r)
      BY <3>1
    <3> HIDE DEF r
    <3> QED
      BY <2>2, <2>3, <3>2, <3>3, AdvanceEffect DEF AnswerUsed
  <2>5. CASE Poll(p)
    <3> DEFINE r == Attempt(d, "hours")
    <3>1. Advance(p, "guard", r)
      BY <2>5 DEF Poll
    <3> HIDE DEF d
    <3>2. r.mode = d.mode /\ r.key = d.key /\ r.op = "hours" /\ r.answer = "none"
      BY <2>2, AttemptFields
    <3> HIDE DEF r
    <3> QED
      BY <2>2, <2>3, <3>1, <3>2, AdvanceEffect DEF AnswerUsed
  <2> QED
    BY <1>3, <2>4, <2>5
<1>4. WaitForWindow(p) \/ Poll(p) => Automatic(p)
  BY DEF WaitForWindow, Poll, Phases
<1> QED
  BY <1>2, <1>3, <1>4 DEF LoopHead

-----------------------------------------------------------------------------
\* Phases and AnswersAreTrue for the process that takes a step.
Truthful(p) == Phases(p) /\ AnswersAreTrue(p)

LEMMA SteadyTruthful ==
  ASSUME TypeOK, NEW p \in Proc, Truthful(p), Steady(p)
  PROVE  Truthful(p)'
<1>1. Phases(p)'
  BY DEF Truthful, Steady, Phases, SameMessage, Progress, Working, Automatic
<1>2. AnswersAreTrue(p)'
  BY DEF Truthful, Steady, AnswersAreTrue, AnswerUsed
<1> QED
  BY <1>1, <1>2 DEF Truthful

LEMMA StartsTruthful ==
  ASSUME TypeOK, NEW p \in Proc, Truthful(p),
         \/ Automatic(p) /\ StartsBroadcast(p, daily_retry_key(run[p].date))
         \/ run[p].mode = "manual" /\ StartsBroadcast(p, run[p].key)
  PROVE  Truthful(p)'
<1>1. Phases(p)'
  <2>1. CASE Automatic(p) /\ StartsBroadcast(p, daily_retry_key(run[p].date))
    <3>1. daily_retry_key(run[p].date) # NoKey
      BY DEF daily_retry_key, NoKey
    <3> QED
      BY <2>1, <3>1 DEF Truthful, StartsBroadcast, Phases, Working, Automatic
  <2>2. CASE run[p].mode = "manual" /\ StartsBroadcast(p, run[p].key)
    BY <2>2 DEF Truthful, StartsBroadcast, Phases, Working, Automatic
  <2> QED
    BY <2>1, <2>2
<1>2. AnswersAreTrue(p)'
  BY DEF StartsBroadcast, AnswersAreTrue
<1> QED
  BY <1>1, <1>2 DEF Truthful

LEMMA LoopHeadTruthful ==
  ASSUME TypeOK, NEW p \in Proc, Truthful(p), LoopHead(p)
  PROVE  Truthful(p)'
<1>1. Phases(p)
  BY DEF Truthful
<1>2. run[p].op # "line" /\ pc[p] \in {"begin", "loop"}
  BY <1>1, LoopHeadCases DEF Phases, Working
<1>3. Phases(p)'
  <2>1. manual_retry_key(p) # NoKey
    BY DEF manual_retry_key, NoKey
  <2> QED
    BY <1>1, <1>2, <2>1, LoopHeadCases DEF Phases, Working, Automatic
<1>4. run[p].answer \notin {"success", "conflict"}
  BY <1>2 DEF Truthful, AnswersAreTrue
<1>5. AnswersAreTrue(p)'
  BY <1>1, <1>4, LoopHeadCases DEF AnswerUsed, AnswersAreTrue
<1> QED
  BY <1>3, <1>5 DEF Truthful

LEMMA LaunchTruthful ==
  ASSUME TypeOK, NEW p \in Proc, Truthful(p),
         LaunchAutomatic(p) \/ LaunchManual(p) \/ LaunchPreview(p)
  PROVE  /\ Truthful(p)' /\ OthersStay(p) /\ UNCHANGED <<now, requests, accepted>>
         /\ run[p].key = NoKey /\ run[p].op # "line" /\ pc[p] = "idle"
         /\ run'[p].key = NoKey \/ (run'[p].key \in ExplicitKeys(p) /\ pc'[p] = "lock")
<1>1. pc[p] = "idle" /\ run[p] = Blank
  BY DEF LaunchAutomatic, LaunchManual, LaunchPreview, Truthful, Phases
<1>2. run[p].key = NoKey /\ run[p].op # "line"
  BY <1>1 DEF Blank
<1>3. CASE LaunchAutomatic(p)
  <2> DEFINE r == [Blank EXCEPT !.mode = "automatic"]
  <2>1. r.mode = "automatic" /\ r.key = NoKey /\ r.op = "hours" /\ r.answer = "none"
    BY DEF Blank
  <2>2. Advance(p, "lock", r)
    BY <1>3 DEF LaunchAutomatic
  <2> HIDE DEF r
  <2>3. /\ pc'[p] = "lock" /\ run'[p] = r
        /\ OthersStay(p) /\ UNCHANGED <<now, requests, accepted>>
    BY <2>2, AdvanceEffect
  <2> QED
    BY <1>1, <1>2, <2>1, <2>3 DEF Truthful, Phases, AnswersAreTrue, Automatic, Working
<1>4. CASE LaunchManual(p)
  <2>1. PICK d \in {date(t) : t \in Instants} :
          /\ target_allowed(d)
          /\ \E key \in {NoKey} \cup ExplicitKeys(p) :
               Advance(p, "lock",
                       [Blank EXCEPT !.mode = "manual", !.date = d, !.key = key])
    BY <1>4 DEF LaunchManual
  <2>2. PICK key \in {NoKey} \cup ExplicitKeys(p) :
          Advance(p, "lock", [Blank EXCEPT !.mode = "manual", !.date = d, !.key = key])
    BY <2>1
  <2> DEFINE r == [Blank EXCEPT !.mode = "manual", !.date = d, !.key = key]
  <2>3. /\ r.mode = "manual" /\ r.key = key /\ r.date = d /\ r.op = "hours"
        /\ r.answer = "none"
    BY DEF Blank
  <2>4. Advance(p, "lock", r)
    BY <2>2
  <2> HIDE DEF r
  <2>5. /\ pc'[p] = "lock" /\ run'[p] = r
        /\ OthersStay(p) /\ UNCHANGED <<now, requests, accepted>>
    BY <2>4, AdvanceEffect
  <2>6. d <= date(now)
    BY <2>1 DEF target_allowed
  <2> QED
    BY <1>1, <1>2, <2>2, <2>3, <2>5, <2>6
       DEF Truthful, Phases, AnswersAreTrue, Automatic, Working
<1>5. CASE LaunchPreview(p)
  <2>1. PICK d : Advance(p, "guard", [Blank EXCEPT !.mode = "dry_run", !.date = d])
    BY <1>5 DEF LaunchPreview
  <2> DEFINE r == [Blank EXCEPT !.mode = "dry_run", !.date = d]
  <2>2. r.mode = "dry_run" /\ r.key = NoKey /\ r.op = "hours" /\ r.answer = "none"
    BY DEF Blank
  <2>3. Advance(p, "guard", r)
    BY <2>1
  <2> HIDE DEF r
  <2>4. /\ pc'[p] = "guard" /\ run'[p] = r
        /\ OthersStay(p) /\ UNCHANGED <<now, requests, accepted>>
    BY <2>3, AdvanceEffect
  <2> QED
    BY <1>1, <1>2, <2>2, <2>4 DEF Truthful, Phases, AnswersAreTrue, Automatic, Working
<1> QED
  BY <1>3, <1>4, <1>5

LEMMA OthersTruthful ==
  ASSUME TypeOK, NEW p \in Proc, \A q \in Proc : Truthful(q),
         OthersStay(p), now' = now, accepted' = accepted, Truthful(p)'
  PROVE  \A q \in Proc : Truthful(q)'
<1> SUFFICES ASSUME NEW q \in Proc, q # p PROVE Truthful(q)'
  OBVIOUS
<1>1. pc'[q] = pc[q] /\ run'[q] = run[q] /\ Truthful(q)
  BY DEF OthersStay
<1> QED
  BY <1>1 DEF Truthful, Phases, AnswersAreTrue, Delivered, Working, Automatic

\* A step after which no run is back before its keys are made, newly past the
\* lock, or no longer over.
Forwards ==
  \A q \in Proc : /\ pc'[q] \in {"idle", "lock", "begin"} => pc[q] \in {"idle", "lock", "begin"}
                  /\ pc[q] = "done" => pc'[q] = "done"
                  /\ Critical(q)' => Critical(q)

\* Keys as they are, or chosen by one process that had no key.
LEMMA KeysKept ==
  ASSUME \A p \in Proc : KeyHasMaker(p), Forwards,
         \A p \in Proc : run'[p].key = run[p].key
  PROVE  \A p \in Proc : KeyHasMaker(p)'
  BY DEF KeyHasMaker, Forwards, manual_retry_key

\* A step of a job goes forwards.
JobGoesOn(p) ==
  /\ OthersStay(p) /\ pc[p] # "done"
  /\ pc'[p] = "done" \/ (pc[p] \notin {"idle", "lock"} /\ run'[p].mode = run[p].mode)
  /\ pc'[p] \notin {"idle", "lock", "begin"}

LEMMA OthersKeysKept ==
  ASSUME \A q \in Proc : KeyHasMaker(q), NEW p \in Proc, JobGoesOn(p),
         run'[p].key = run[p].key
  PROVE  \A q \in Proc : KeyHasMaker(q)'
<1>1. Forwards
  BY DEF Forwards, JobGoesOn, OthersStay, Critical
<1>2. \A q \in Proc : run'[q].key = run[q].key
  BY DEF JobGoesOn, OthersStay
<1> QED
  BY <1>1, <1>2, KeysKept

\* No fresh key, one of its own, or, before it has the lock, that of another.
ChoosesKey(p) ==
  \/ \A q \in Proc : run'[p].key # manual_retry_key(q)
  \/ run'[p].key = manual_retry_key(p) /\ pc'[p] \notin {"idle", "lock", "begin"}
  \/ ~Critical(p)' /\ \E q \in Proc \ {p} : run[q].key = run'[p].key

LEMMA KeyChosen ==
  ASSUME \A q \in Proc : KeyHasMaker(q), NEW p \in Proc, OthersStay(p),
         run[p].key = NoKey, ChoosesKey(p)
  PROVE  \A q \in Proc : KeyHasMaker(q)'
<1>1. \A q \in Proc : run[q].key # manual_retry_key(p)
  BY DEF KeyHasMaker, NoKey, manual_retry_key
<1>2. \A q \in Proc \ {p} : run'[q] = run[q] /\ pc'[q] = pc[q]
  BY DEF OthersStay
<1>3. \A q \in Proc : manual_retry_key(q) = manual_retry_key(p) => q = p
  BY DEF manual_retry_key
<1> SUFFICES ASSUME NEW m \in Proc, NEW q \in Proc, run'[q].key = manual_retry_key(m)
             PROVE  /\ run'[m].key = manual_retry_key(m)
                    /\ pc'[m] \notin {"idle", "lock", "begin"}
                    /\ m # q /\ Critical(q)' => pc'[m] = "done"
  BY DEF KeyHasMaker, manual_retry_key
<1>4. CASE q # p
  <2>1. run[q].key = manual_retry_key(m) /\ m # p
    BY <1>1, <1>2, <1>4
  <2>2. Critical(q)' => Critical(q)
    BY <1>2, <1>4 DEF Critical
  <2> QED
    BY <1>2, <2>1, <2>2 DEF KeyHasMaker
<1>5. CASE q = p /\ m = p
  BY <1>1, <1>5 DEF ChoosesKey
<1>6. CASE q = p /\ m # p
  <2>1. ~Critical(p)' /\ \E r \in Proc \ {p} : run[r].key = manual_retry_key(m)
    BY <1>3, <1>6 DEF ChoosesKey
  <2> QED
    BY <1>2, <1>6, <2>1 DEF KeyHasMaker
<1> QED
  BY <1>4, <1>5, <1>6

\* What is no fresh key.
LEMMA OtherKeys ==
  \A p \in Proc : \A d : manual_retry_key(p) # NoKey /\ manual_retry_key(p) # daily_retry_key(d)
  BY DEF manual_retry_key, daily_retry_key, NoKey

\* The keys of one step of a running job.
LEMMA StepKeys ==
  ASSUME TypeOK, NEW p \in Proc, \A q \in Proc : KeyHasMaker(q) /\ Truthful(q),
         JobStep(p)
  PROVE  \A q \in Proc : KeyHasMaker(q)'
<1>1. Phases(p) /\ OthersStay(p) /\ pc[p] \notin {"idle", "lock", "done"}
  BY JobShape DEF Truthful
<1>2. CASE Steady(p)
  BY <1>1, <1>2, OthersKeysKept DEF Steady, SameMessage, Progress, JobGoesOn
<1>3. CASE Automatic(p) /\ StartsBroadcast(p, daily_retry_key(run[p].date))
  <2>1. run[p].key = NoKey
    BY <1>1, <1>3 DEF Phases, StartsBroadcast
  <2>2. ChoosesKey(p)
    BY <1>3, OtherKeys DEF ChoosesKey, StartsBroadcast
  <2> QED
    BY <1>1, <2>1, <2>2, KeyChosen
<1>4. CASE run[p].mode = "manual" /\ StartsBroadcast(p, run[p].key)
  BY <1>1, <1>4, OthersKeysKept DEF StartsBroadcast, JobGoesOn
<1>5. CASE LoopHead(p)
  <2>1. CASE Automatic(p)
    <3>1. run'[p].key = run[p].key /\ JobGoesOn(p)
      BY <1>1, <1>5, <2>1, LoopHeadCases DEF Automatic, JobGoesOn
    <3> QED
      BY <3>1, OthersKeysKept
  <2>2. CASE run[p].mode = "manual" /\ run[p].key = NoKey
    <3>1. run'[p].key = manual_retry_key(p) /\ pc'[p] = "guard"
      BY <1>1, <1>5, <2>2, LoopHeadCases DEF Automatic
    <3> QED
      BY <1>1, <2>2, <3>1, KeyChosen DEF ChoosesKey
  <2>3. CASE run[p].mode = "manual" /\ run[p].key # NoKey
    <3>1. run'[p].key = run[p].key /\ JobGoesOn(p)
      BY <1>1, <1>5, <2>3, LoopHeadCases DEF Automatic, JobGoesOn
    <3> QED
      BY <3>1, OthersKeysKept
  <2> QED
    BY <1>1, <1>5, <2>1, <2>2, <2>3, LoopHeadCases
<1> QED
  BY <1>1, <1>2, <1>3, <1>4, <1>5, JobCases

-----------------------------------------------------------------------------
\* The messages of a step that sends none: their runs keep key, date and mode.
KeepsMessages(p) ==
  \/ pc[p] # "done" /\ run[p].op # "line"
  \/ SameMessage(p) /\ (pc'[p] = "done" \/ run'[p].op = "line")

\* The maker of a fresh key is a run.
LEMMA MakerType ==
  ASSUME TypeOK, NEW m \in Messages, m.key.kind = "uuid4"
  PROVE  m.key.of \in Proc /\ m.key = manual_retry_key(m.key.of)
  BY DEF TypeOK, Messages, Broadcasts, Acceptances, Keys, NoKey, manual_retry_key

LEMMA OldMessages ==
  ASSUME TypeOK, MessageInvariant, NEW p \in Proc, OthersStay(p), now' = now,
         pc[p] # "done" \/ pc'[p] = "done", KeepsMessages(p), NEW m \in Messages
  PROVE  MatchesRun(m)' /\ SentInTime(m)'
<1>1. MatchesRun(m) /\ SentInTime(m) /\ m.by \in Proc
  BY DEF MessageInvariant, Messages, TypeOK, Broadcasts, Acceptances
<1>2. m.key.kind = "uuid4" /\ m.key.of # m.by => pc'[m.key.of] = "done"
  BY <1>1, MakerType DEF SentInTime, OthersStay
<1>3. CASE m.by # p
  <2>1. pc'[m.by] = pc[m.by] /\ run'[m.by] = run[m.by]
    BY <1>1, <1>3 DEF OthersStay
  <2> QED
    BY <1>1, <1>2, <2>1 DEF MatchesRun, SentInTime, Automatic
<1>4. CASE m.by = p
  <2>1. SameMessage(p) /\ (pc'[p] = "done" \/ run'[p].op = "line")
    BY <1>1, <1>4 DEF MatchesRun, KeepsMessages
  <2> QED
    BY <1>1, <1>2, <1>4, <2>1 DEF MatchesRun, SentInTime, SameMessage, Automatic
<1> QED
  BY <1>3, <1>4

MessagesGood ==
  /\ \A m \in Messages : MatchesRun(m) /\ SentInTime(m)
  /\ \A a \in accepted : AcceptedInTime(a)

LEMMA QuietMessages ==
  ASSUME TypeOK, MessageInvariant, NEW p \in Proc, OthersStay(p), KeepsMessages(p),
         pc[p] # "done" \/ pc'[p] = "done", UNCHANGED <<now, requests, accepted>>
  PROVE  MessagesGood'
  BY OldMessages DEF MessagesGood, Messages, MessageInvariant, AcceptedInTime

LEMMA PostedMessage ==
  ASSUME TypeOK, WindowInvariant, MessageInvariant, NEW p \in Proc, PostToLine(p)
  PROVE  MessagesGood'
<1>1. /\ pc[p] = "post" /\ run[p].op = "line" /\ run' = run
      /\ OthersStay(p) /\ UNCHANGED <<now, accepted>>
  BY DEF PostToLine, Become, OthersStay, TypeOK
<1>2. PICK m : /\ requests' = requests \cup {m}
               /\ m.by = p /\ m.key = run[p].key /\ m.date = run[p].date
               /\ m.posted = now
  <2> DEFINE n == [by |-> p, attempt |-> run[p].attempt, key |-> run[p].key,
                   date |-> run[p].date, posted |-> now]
  <2>1. requests' = requests \cup {n}
    BY DEF PostToLine
  <2>2. n.by = p /\ n.key = run[p].key /\ n.date = run[p].date /\ n.posted = now
    OBVIOUS
  <2> HIDE DEF n
  <2> QED
    BY <2>1, <2>2
<1>3. Messages' = Messages \cup {m}
  BY <1>1, <1>2 DEF Messages
<1>4. KeepsMessages(p)
  BY <1>1 DEF KeepsMessages, SameMessage
<1>5. Phases(p) /\ DaysInOrder(p) /\ Working(p)
  BY <1>1 DEF MessageInvariant, WindowInvariant, Working
<1>6. /\ run[p].key # NoKey
      /\ run[p].mode = "manual" \/ (Automatic(p) /\ run[p].key = daily_retry_key(run[p].date))
  BY <1>1, <1>5 DEF Phases
<1>7. run[p].date <= date(now)
  BY <1>1, <1>5, <1>6 DEF Phases, DaysInOrder, Started, Automatic
<1>8. Automatic(p) /\ ~Preemption => InWindow(run[p].date, now)
  BY <1>1, PostInWindow
<1>9. MatchesRun(m)'
  BY <1>1, <1>2, <1>6 DEF MatchesRun
<1>10. SentInTime(m)'
  <2>1. now \in Nat
    BY InstantsAreNat
  <2>2. ASSUME m.key.kind = "uuid4", m.key.of # m.by PROVE pc'[m.key.of] = "done"
    <3>1. m.key.of \in Proc /\ run[p].key = manual_retry_key(m.key.of)
      BY <1>2, <2>2 DEF TypeOK, Runs, Keys, NoKey, manual_retry_key
    <3>2. Critical(p)
      BY <1>1, <1>6 DEF Critical, Automatic
    <3>3. pc[m.key.of] = "done"
      BY <1>2, <2>2, <3>1, <3>2 DEF MessageInvariant, KeyHasMaker
    <3> QED
      BY <1>1, <1>2, <2>2, <3>1, <3>3 DEF OthersStay
  <2>3. Automatic(p) => run[p].key = daily_retry_key(run[p].date)
    BY <1>6 DEF Automatic
  <2> QED
    BY <1>1, <1>2, <1>7, <1>8, <2>1, <2>2, <2>3 DEF SentInTime, Automatic
<1>11. \A n \in Messages : MatchesRun(n)' /\ SentInTime(n)'
  BY <1>1, <1>4, OldMessages
<1> QED
  BY <1>1, <1>3, <1>9, <1>10, <1>11 DEF MessagesGood, MessageInvariant, AcceptedInTime

\* A step of a running job.
LEMMA JobMessages ==
  ASSUME TypeOK, WindowInvariant, MessageInvariant, NEW p \in Proc, JobStep(p)
  PROVE  MessageInvariant'
<1>1. \A q \in Proc : KeyHasMaker(q) /\ Truthful(q)
  BY DEF MessageInvariant, Truthful
<1>2. pc[p] # "done" /\ OthersStay(p) /\ Phases(p)
  BY <1>1, JobShape DEF Truthful
<1>3. UNCHANGED <<now, accepted>> /\ (requests' = requests \/ PostToLine(p))
  BY <1>1, <1>2, JobCases, LoopHeadCases DEF Steady, StartsBroadcast
<1>4. Truthful(p)'
  BY <1>1, <1>2, JobCases, SteadyTruthful, StartsTruthful, LoopHeadTruthful
<1>5. \A q \in Proc : Truthful(q)'
  BY <1>1, <1>2, <1>3, <1>4, OthersTruthful
<1>6. \A q \in Proc : KeyHasMaker(q)'
  BY <1>1, StepKeys
<1>7. MessagesGood'
  <2>1. CASE PostToLine(p)
    BY <2>1, PostedMessage
  <2>2. CASE requests' = requests
    <3>1. KeepsMessages(p)
      <4>1. CASE run[p].op = "line"
        <5>1. ~LoopHead(p) /\ pc[p] \notin {"fetched", "checked", "waiting"}
          BY <1>2, <4>1, LoopHeadCases DEF Phases, Working
        <5>2. Steady(p)
          BY <1>2, <5>1, JobCases DEF StartsBroadcast
        <5> QED
          BY <4>1, <5>1, <5>2 DEF Steady, Progress, KeepsMessages
      <4> QED
        BY <1>2, <4>1 DEF KeepsMessages
    <3> QED
      BY <1>2, <1>3, <2>2, <3>1, QuietMessages
  <2> QED
    BY <1>3, <2>1, <2>2
<1> QED
  BY <1>5, <1>6, <1>7 DEF MessageInvariant, MessagesGood, Truthful

\* A process that ends, in whatever way.
LEMMA FinishMessages ==
  ASSUME TypeOK, MessageInvariant, NEW p \in Proc, NEW e, Finish(p, e)
  PROVE  MessageInvariant'
<1>1. /\ Steady(p) /\ pc'[p] = "done" /\ OthersStay(p)
      /\ UNCHANGED <<now, requests, accepted>>
  BY FinishSteady, FinishEffect
<1>2. \A q \in Proc : KeyHasMaker(q) /\ Truthful(q)
  BY DEF MessageInvariant, Truthful
<1>3. \A q \in Proc : Truthful(q)'
  BY <1>1, <1>2, SteadyTruthful, OthersTruthful
<1>4. \A q \in Proc : KeyHasMaker(q)'
  <2>1. Forwards
    BY <1>1 DEF Forwards, OthersStay, Critical
  <2>2. \A q \in Proc : run'[q].key = run[q].key
    BY <1>1 DEF Steady, SameMessage, OthersStay
  <2> QED
    BY <1>2, <2>1, <2>2, KeysKept
<1>5. MessagesGood'
  BY <1>1, QuietMessages DEF KeepsMessages, Steady
<1> QED
  BY <1>3, <1>4, <1>5 DEF MessageInvariant, MessagesGood, Truthful

LEMMA LaunchMessages ==
  ASSUME TypeOK, MessageInvariant, NEW p \in Proc,
         LaunchAutomatic(p) \/ LaunchManual(p) \/ LaunchPreview(p)
  PROVE  MessageInvariant'
<1>1. \A q \in Proc : KeyHasMaker(q) /\ Truthful(q)
  BY DEF MessageInvariant, Truthful
<1>2. /\ Truthful(p)' /\ OthersStay(p) /\ UNCHANGED <<now, requests, accepted>>
      /\ run[p].key = NoKey /\ run[p].op # "line" /\ pc[p] = "idle"
      /\ run'[p].key = NoKey \/ (run'[p].key \in ExplicitKeys(p) /\ pc'[p] = "lock")
  BY <1>1, LaunchTruthful
<1>3. \A q \in Proc : Truthful(q)'
  BY <1>1, <1>2, OthersTruthful
<1>4. ChoosesKey(p)
  BY <1>2, OtherKeys DEF ChoosesKey, ExplicitKeys, Critical
<1>5. \A q \in Proc : KeyHasMaker(q)'
  BY <1>1, <1>2, <1>4, KeyChosen
<1>6. MessagesGood'
  BY <1>2, QuietMessages DEF KeepsMessages
<1> QED
  BY <1>3, <1>5, <1>6 DEF MessageInvariant, MessagesGood, Truthful

\* An answer of LINE reaches at most the run that awaits it.
LEMMA ReplyEffect ==
  ASSUME TypeOK, NEW m \in requests, NEW answer, Reply(m, answer), NEW p \in Proc
  PROVE  /\ run'[p].mode = run[p].mode /\ run'[p].key = run[p].key
         /\ run'[p].date = run[p].date /\ run'[p].op = run[p].op
         /\ run'[p].ending = run[p].ending
         /\ \/ run'[p] = run[p]
            \/ p = m.by /\ AwaitsAnswer(m) /\ run'[p].answer = answer
<1>1. run[p] \in Runs /\ m.by \in Proc
  BY DEF TypeOK, Broadcasts
<1>2. CASE AwaitsAnswer(m) /\ p = m.by
  <2>1. run'[p] = [run[p] EXCEPT !.answer = answer]
    BY <1>1, <1>2 DEF Reply, TypeOK
  <2> QED
    BY <1>1, <1>2, <2>1 DEF Runs
<1>3. CASE ~(AwaitsAnswer(m) /\ p = m.by)
  BY <1>1, <1>3 DEF Reply, TypeOK
<1> QED
  BY <1>2, <1>3

\* The acceptance that m becomes.
Accepted(m, a) ==
  /\ a.by = m.by /\ a.key = m.key /\ a.date = m.date /\ a.posted = m.posted /\ a.at = now

LEMMA LineCases ==
  ASSUME TypeOK, LineStep
  PROVE  \E m \in requests, answer \in Answers :
           /\ Reply(m, answer)
           /\ \/ /\ Served(m) /\ ~Remembered(m.key) /\ answer # "conflict"
                 /\ \E a : accepted' = accepted \cup {a} /\ Accepted(m, a)
              \/ /\ accepted' = accepted /\ answer # "success"
                 /\ answer = "conflict" => Remembered(m.key)
<1>1. PICK m \in requests : LineAccepts(m) \/ LineReportsConflict(m) \/ LineRefuses(m)
  BY DEF LineStep
<1>2. CASE LineAccepts(m)
  <2>1. PICK answer \in {"success", "retryable", "none"} : Reply(m, answer)
    BY <1>2 DEF LineAccepts
  <2>2. PICK a : accepted' = accepted \cup {a} /\ a =
          [by |-> m.by, attempt |-> m.attempt, key |-> m.key,
           date |-> m.date, posted |-> m.posted, at |-> now]
    BY <1>2 DEF LineAccepts
  <2>3. Accepted(m, a)
    BY <2>2 DEF Accepted
  <2> QED
    BY <1>2, <2>1, <2>2, <2>3 DEF LineAccepts, Answers
<1>3. CASE LineReportsConflict(m)
  BY <1>3 DEF LineReportsConflict, Answers
<1>4. CASE LineRefuses(m)
  BY <1>4 DEF LineRefuses, Answers
<1> QED
  BY <1>1, <1>2, <1>3, <1>4

LEMMA LineMessages ==
  ASSUME TypeOK, MessageInvariant, LineStep
  PROVE  MessageInvariant'
<1>1. PICK m \in requests, answer \in Answers :
        /\ Reply(m, answer)
        /\ \/ /\ Served(m) /\ ~Remembered(m.key) /\ answer # "conflict"
              /\ \E a : accepted' = accepted \cup {a} /\ Accepted(m, a)
           \/ /\ accepted' = accepted /\ answer # "success"
              /\ answer = "conflict" => Remembered(m.key)
  BY LineCases
<1>2. /\ UNCHANGED <<now, pc>> /\ requests' = requests \ {m}
      /\ m.by \in Proc /\ m \in Messages
  BY <1>1 DEF Reply, TypeOK, Broadcasts, Messages
<1>3. MatchesRun(m) /\ SentInTime(m)
  BY <1>2 DEF MessageInvariant
<1>4. \A p \in Proc : /\ run'[p].mode = run[p].mode /\ run'[p].key = run[p].key
                      /\ run'[p].date = run[p].date /\ run'[p].op = run[p].op
                      /\ \/ run'[p] = run[p]
                         \/ p = m.by /\ AwaitsAnswer(m) /\ run'[p].answer = answer
  BY <1>1, ReplyEffect
<1>5. accepted \subseteq accepted'
  BY <1>1
<1>6. ASSUME NEW p \in Proc PROVE Phases(p)'
  <2>1. Phases(p) /\ (pc[p] = "idle" => run'[p] = run[p])
    BY <1>4 DEF MessageInvariant, AwaitsAnswer
  <2> QED
    BY <1>2, <1>4, <2>1 DEF Phases, Automatic, Working
<1>7. ASSUME NEW p \in Proc PROVE AnswersAreTrue(p)'
  <2>1. CASE run'[p] = run[p]
    BY <1>2, <1>5, <2>1 DEF MessageInvariant, AnswersAreTrue, Delivered
  <2>2. CASE p = m.by /\ AwaitsAnswer(m) /\ run'[p].answer = answer
    <3>1. pc'[p] = "reply" /\ run'[p].op = "line"
      BY <1>2, <1>4, <2>2 DEF AwaitsAnswer
    <3>2. run'[p].key = m.key /\ run'[p].date = m.date /\ m.key # NoKey
      BY <1>3, <1>4, <2>2 DEF MatchesRun
    <3>3. CASE answer = "success"
      BY <1>1, <2>2, <3>1, <3>2, <3>3 DEF Accepted, AnswersAreTrue, Delivered
    <3>4. CASE answer = "conflict"
      <4>1. PICK a \in accepted : a.key = m.key
        BY <1>1, <3>4 DEF Remembered
      <4>2. m.key = manual_retry_key(p) => a.by = p
        <5>1. SentInTime(a)
          BY DEF MessageInvariant, Messages
        <5> QED
          BY <1>2, <3>1, <4>1, <5>1 DEF SentInTime, manual_retry_key
      <4> QED
        BY <1>5, <3>1, <3>2, <4>1, <4>2 DEF AnswersAreTrue, Delivered
    <3>5. CASE answer \notin {"success", "conflict"}
      BY <2>2, <3>5 DEF AnswersAreTrue
    <3> QED
      BY <3>3, <3>4, <3>5
  <2> QED
    BY <1>4, <2>1, <2>2
<1>8. \A p \in Proc : KeyHasMaker(p)'
  <2>1. Forwards
    BY <1>2, <1>4 DEF Forwards, Critical
  <2> QED
    BY <1>4, <2>1, KeysKept DEF MessageInvariant
<1>9. ASSUME NEW n \in Messages PROVE MatchesRun(n)' /\ SentInTime(n)'
  <2>1. MatchesRun(n) /\ SentInTime(n) /\ n.by \in Proc
    BY DEF MessageInvariant, Messages, TypeOK, Broadcasts, Acceptances
  <2> QED
    BY <1>2, <1>4, <2>1 DEF MatchesRun, SentInTime, Automatic
<1>10. ASSUME NEW a, Accepted(m, a), Served(m)
       PROVE  MatchesRun(a)' /\ SentInTime(a)' /\ AcceptedInTime(a)'
  <2>1. MatchesRun(m)' /\ SentInTime(m)'
    BY <1>2, <1>9
  <2>2. MatchesRun(a)' /\ SentInTime(a)'
    BY <1>10, <2>1 DEF Accepted, MatchesRun, SentInTime, Automatic
  <2>3. now \in Nat
    BY InstantsAreNat
  <2>4. AcceptedInTime(a)'
    BY <1>2, <1>3, <1>10, <2>3 DEF Accepted, Served, SentInTime, AcceptedInTime
  <2> QED
    BY <2>2, <2>4
<1>11. \A a \in accepted : AcceptedInTime(a)'
  BY <1>2 DEF MessageInvariant, AcceptedInTime
<1>12. \A a \in accepted' : (a \in accepted \/ (Accepted(m, a) /\ Served(m)))
  BY <1>1
<1> QED
  BY <1>2, <1>6, <1>7, <1>8, <1>9, <1>10, <1>11, <1>12 DEF MessageInvariant, Messages

LEMMA StillMessages ==
  ASSUME TypeOK, MessageInvariant, UNCHANGED <<run, requests, accepted>>,
         now' \in Nat, now <= now', \A p \in Proc : KeyHasMaker(p)',
         \A p \in Proc : (pc'[p] = pc[p] \/ (pc[p] = "lock" /\ pc'[p] = "begin"))
  PROVE  MessageInvariant'
<1>1. now \in Nat /\ date(now) \in Nat /\ date(now') \in Nat /\ date(now) <= date(now')
  BY InstantsAreNat, DaysPass, Division
<1>2. ASSUME NEW p \in Proc PROVE Phases(p)' /\ AnswersAreTrue(p)'
  <2>1. Phases(p) /\ AnswersAreTrue(p)
    BY DEF MessageInvariant
  <2>2. run[p].date \in Int
    BY DEF TypeOK, Runs, Dates, NoDate
  <2>3. Phases(p)'
    BY <1>1, <2>1, <2>2 DEF Phases, Working, Automatic
  <2>4. AnswersAreTrue(p)'
    BY <2>1 DEF AnswersAreTrue, Delivered
  <2> QED
    BY <2>3, <2>4
<1>3. ASSUME NEW m \in Messages PROVE MatchesRun(m)' /\ SentInTime(m)'
  <2>1. MatchesRun(m) /\ SentInTime(m) /\ m.by \in Proc /\ m.posted \in Nat
    BY DEF MessageInvariant, Messages, TypeOK, Broadcasts, Acceptances
  <2> QED
    BY <1>1, <2>1, MakerType DEF MatchesRun, SentInTime, Automatic
<1>4. ASSUME NEW a \in accepted PROVE AcceptedInTime(a)'
  <2>1. AcceptedInTime(a) /\ a.at \in Nat
    BY DEF MessageInvariant, TypeOK, Acceptances
  <2> QED
    BY <1>1, <2>1 DEF AcceptedInTime
<1> QED
  BY <1>2, <1>3, <1>4 DEF MessageInvariant, Messages

\* A run that takes the lock may use a key of another: its maker is over.
LEMMA AcquireKeys ==
  ASSUME TypeOK, LockInvariant, MessageInvariant, NEW p \in Proc, AcquireLock(p)
  PROVE  \A q \in Proc : KeyHasMaker(q)'
<1>1. /\ pc[p] = "lock" /\ holders = {} /\ run' = run
      /\ \A q \in Proc \ {p} : pc'[q] = pc[q]
  BY DEF AcquireLock, Become, TypeOK
<1>2. \A q \in Proc : ~Critical(q)
  BY <1>1 DEF LockInvariant, OneBroadcaster
<1> SUFFICES ASSUME NEW m \in Proc, NEW q \in Proc, run[q].key = manual_retry_key(m)
             PROVE  /\ run[m].key = manual_retry_key(m)
                    /\ pc'[m] \notin {"idle", "lock", "begin"}
                    /\ m # q /\ Critical(q)' => pc'[m] = "done"
  BY <1>1 DEF KeyHasMaker, manual_retry_key
<1>3. run[m].key = manual_retry_key(m) /\ pc[m] \notin {"idle", "lock", "begin"}
  BY DEF MessageInvariant, KeyHasMaker
<1>4. pc'[m] = pc[m]
  BY <1>1, <1>3
<1>5. run[m].mode # "dry_run"
  BY <1>3, OtherKeys DEF MessageInvariant, Phases, Automatic
<1> QED
  BY <1>2, <1>3, <1>4, <1>5 DEF Critical

LEMMA MessageStep ==
  ASSUME TypeOK, LockInvariant, WindowInvariant, MessageInvariant, [Next]_vars
  PROVE  MessageInvariant'
<1>1. now \in Nat /\ now' \in Nat
  BY InstantsAreNat, StepType, InstantsAssumption DEF TypeOK
<1>2. CASE Tick
  <2>1. now <= now' /\ UNCHANGED <<run, requests, accepted>>
    BY <1>1, <1>2, InstantsAssumption DEF Tick
  <2>2. \A q \in Proc : pc'[q] = pc[q]
    BY <1>2 DEF Tick
  <2>3. \A q \in Proc : KeyHasMaker(q)'
    BY <2>1, <2>2, KeysKept DEF Forwards, Critical, MessageInvariant
  <2> QED
    BY <1>1, <2>1, <2>2, <2>3, StillMessages
<1>3. CASE UNCHANGED vars
  <2>1. now <= now' /\ UNCHANGED <<run, requests, accepted>>
    BY <1>1, <1>3 DEF vars
  <2>2. \A q \in Proc : pc'[q] = pc[q]
    BY <1>3 DEF vars
  <2>3. \A q \in Proc : KeyHasMaker(q)'
    BY <2>1, <2>2, KeysKept DEF Forwards, Critical, MessageInvariant
  <2> QED
    BY <1>1, <2>1, <2>2, <2>3, StillMessages
<1>4. ASSUME NEW p \in Proc, AcquireLock(p) PROVE MessageInvariant'
  <2>1. run' = run /\ UNCHANGED <<now, requests, accepted>> /\ now <= now'
    BY <1>1, <1>4 DEF AcquireLock, Become, TypeOK
  <2>2. \A q \in Proc : (pc'[q] = pc[q] \/ (pc[q] = "lock" /\ pc'[q] = "begin"))
    BY <1>4 DEF AcquireLock, Become, TypeOK
  <2> QED
    BY <1>1, <1>4, <2>1, <2>2, AcquireKeys, StillMessages
<1>5. ASSUME NEW p \in Proc, Launch(p) PROVE MessageInvariant'
  BY <1>5, LaunchMessages, FinishMessages DEF Launch, Reject
<1>6. ASSUME NEW p \in Proc, SkipBusy(p) \/ LockUnusable(p) \/ Die(p)
      PROVE  MessageInvariant'
  BY <1>6, FinishMessages DEF SkipBusy, LockUnusable, Die
<1> QED
  BY <1>2, <1>3, <1>4, <1>5, <1>6, JobMessages, LineMessages DEF Next, Step, Ended

\* Every broadcast request carries the key and the date of its run, a fresh key
\* is its maker's until that is over, and an answer that confirms has a
\* broadcast under its key behind it.
THEOREM MessageIsInductive == Spec => []MessageInvariant
<1>1. Init => MessageInvariant
  BY DEF Init, MessageInvariant, Messages, Phases, KeyHasMaker, AnswersAreTrue, Blank,
         NoKey, manual_retry_key, Automatic
<1>2. /\ TypeOK /\ LockInvariant /\ WindowInvariant /\ MessageInvariant /\ [Next]_vars
      => MessageInvariant'
  BY MessageStep
<1> QED
  BY <1>1, <1>2, WindowInvariance, LockIsInductive, PTL DEF Spec

-----------------------------------------------------------------------------
\* What reaches LINE's friends, how a run waits and gives up, and that it ends.

\* A key that was used for its day d, and so not before it, is forgotten no
\* earlier than the last automatic request for day d can still be served: that
\* request is never the second of its key for d.
LEMMA FirstOfItsDay ==
  ASSUME TypeOK, MessageInvariant, ~Preemption, NEW m \in requests,
         Automatic(m.by), Served(m), ~Remembered(m.key)
  PROVE  \A b \in accepted : b.key = m.key => b.date # m.date
<1> SUFFICES ASSUME NEW b \in accepted, b.key = m.key, b.date = m.date PROVE FALSE
  OBVIOUS
<1>1. SentInTime(b) /\ AcceptedInTime(b) /\ SentInTime(m)
  BY DEF MessageInvariant, Messages
<1>2. b.at \in Nat /\ b.posted \in Nat /\ b.date \in Int /\ b.by \in Proc
  BY DEF TypeOK, Acceptances, Dates, NoDate
<1>3. m.posted \in Nat /\ m.date \in Int /\ m.by \in Proc
  BY DEF TypeOK, Broadcasts, Dates, NoDate
<1>4. now \in Nat /\ b.at + RETENTION <= now
  BY <1>2, InstantsAreNat DEF Remembered, RETENTION
<1>5. date(m.posted) = m.date /\ time(m.posted) < 54000
  BY <1>1 DEF SentInTime, InWindow, DEADLINE
<1>6. m.posted < 86400 * m.date + 54000
  <2>1. PICK t \in Nat : t = m.posted
    BY <1>3
  <2>2. t = 86400 * date(t) + time(t) /\ date(t) \in Nat /\ time(t) \in Nat
    BY Division
  <2>3. date(t) = m.date /\ time(t) < 54000
    BY <1>5, <2>1
  <2> QED
    BY <1>3, <2>1, <2>2, <2>3, SMT
<1>7. 86400 * b.date <= b.posted
  <2>1. PICK t \in Nat : t = b.posted
    BY <1>2
  <2>2. t = 86400 * date(t) + time(t) /\ date(t) \in Nat /\ time(t) \in Nat
    BY Division
  <2>3. b.date <= date(t)
    BY <1>1, <2>1 DEF SentInTime
  <2> QED
    BY <1>2, <2>1, <2>2, <2>3, SMT
<1>8. MaxDelay \in Nat /\ 54000 + MaxDelay <= 86400
  BY DelayAssumption DEF DEADLINE, RETENTION
<1>9. now <= m.posted + MaxDelay
  BY DEF Served
<1>10. b.posted <= b.at
  BY <1>1 DEF AcceptedInTime
<1> QED
  BY <1>2, <1>3, <1>4, <1>6, <1>7, <1>8, <1>9, <1>10 DEF RETENTION

\* A run that was launched keeps its mode, and until it has a 2xx or a 409 in
\* hand, or is that run, it does not become a completed one; inside the lock it
\* is neither skipped nor rejected.
Failures == {"previewed", "deadline", "menu_data", "ichef", "unavailable", "too_long", "line",
             "request_error"}

KeepsEnding(p) == run'[p].ending \in {run[p].ending} \cup Failures

LEMMA FinishEnding ==
  ASSUME TypeOK, NEW p \in Proc, NEW e, Finish(p, e)
  PROVE  run'[p].ending = e
<1>1. run'[p] = [Blank EXCEPT !.mode = run[p].mode, !.date = run[p].date,
                              !.key = run[p].key, !.ending = e]
  BY FinishEffect
<1> QED
  BY <1>1 DEF Blank

LEMMA AdvanceEnding ==
  ASSUME TypeOK, NEW p \in Proc, NEW l, NEW r, Advance(p, l, r),
         r.ending = run[p].ending
  PROVE  KeepsEnding(p)
  BY AdvanceEffect DEF KeepsEnding

\* The records a run makes of its locals have its ending.
LEMMA EndingFields ==
  ASSUME NEW r \in Runs, NEW v, NEW o
  PROVE  /\ [r EXCEPT !.run_day = v].ending = r.ending
         /\ [r EXCEPT !.date = v].ending = r.ending
         /\ [r EXCEPT !.menu = v].ending = r.ending
         /\ [r EXCEPT !.wake = v].ending = r.ending
         /\ [r EXCEPT !.key = v].ending = r.ending
         /\ Attempt(r, o).ending = r.ending
  BY DEF Runs, Attempt

LEMMA RetryEnding ==
  ASSUME TypeOK, NEW p \in Proc, RetryLater(p)
  PROVE  KeepsEnding(p)
<1> DEFINE s == [run[p] EXCEPT !.attempt = @ + 1, !.answer = "none"]
           r == [s EXCEPT !.wake = now + _retry_delay(run[p].attempt)]
<1>1. s.ending = run[p].ending /\ r.ending = s.ending
  BY DEF TypeOK, Runs
<1>2. Advance(p, "backoff", r)
  BY DEF RetryLater, Sleep
<1> HIDE DEF r
<1> QED
  BY <1>1, <1>2, AdvanceEnding

LEMMA FetchEnding ==
  ASSUME TypeOK, NEW p \in Proc, FetchStep(p)
  PROVE  KeepsEnding(p)
<1>1. run[p] \in Runs
  BY DEF TypeOK
<1>2. ASSUME NEW menu, Advance(p, "fetched", [run[p] EXCEPT !.menu = menu])
      PROVE  KeepsEnding(p)
  BY <1>1, <1>2, EndingFields, AdvanceEnding
<1>3. CASE PostToIChef(p)
  BY <1>3, AdvanceEnding DEF PostToIChef
<1>4. CASE IChefFails(p)
  BY <1>2, <1>4, RetryEnding, FinishEnding DEF IChefFails, KeepsEnding, Failures
<1>5. CASE IChefAnswersNonsense(p) \/ IChefBreaksOff(p)
  BY <1>5, FinishEnding DEF IChefAnswersNonsense, IChefBreaksOff, KeepsEnding, Failures
<1>6. CASE HoursReceived(p)
  <2>1. Attempt(run[p], "items").ending = run[p].ending
    BY <1>1, EndingFields
  <2> QED
    BY <1>2, <1>6, <2>1, AdvanceEnding DEF HoursReceived
<1>7. CASE ItemsReceived(p)
  BY <1>2, <1>7 DEF ItemsReceived
<1> QED
  BY <1>3, <1>4, <1>5, <1>6, <1>7 DEF FetchStep

LEMMA BroadcastEnding ==
  ASSUME TypeOK, NEW p \in Proc, BroadcastStep(p)
  PROVE  KeepsEnding(p) \/ LineConfirms(p)
<1>1. CASE PostToLine(p)
  BY <1>1 DEF PostToLine, Become, KeepsEnding, TypeOK
<1>2. CASE LineFails(p) \/ LineRaises(p) \/ LineBreaksOff(p)
  BY <1>2, RetryEnding, FinishEnding
     DEF LineFails, LineRaises, LineBreaksOff, KeepsEnding, Failures
<1> QED
  BY <1>1, <1>2 DEF BroadcastStep

LEMMA StartEnding ==
  ASSUME TypeOK, NEW p \in Proc, NEW key \in Keys, broadcast(p, key)
  PROVE  KeepsEnding(p)
<1> DEFINE s == [run[p] EXCEPT !.key = key]
<1>1. s \in Runs /\ s.ending = run[p].ending
  BY DEF TypeOK, Runs
<1>2. Attempt(s, "line").ending = run[p].ending
  BY <1>1, EndingFields
<1> QED
  BY <1>2, AdvanceEnding, FinishEnding DEF broadcast, KeepsEnding, Failures

LEMMA EvaluateEnding ==
  ASSUME TypeOK, NEW p \in Proc,
         RecheckDeadline(p) \/ EvaluateAutomatic(p) \/ EvaluateManual(p) \/ EvaluatePreview(p)
  PROVE  KeepsEnding(p)
<1>1. run[p] \in Runs
  BY DEF TypeOK
<1>2. ASSUME NEW e \in Failures, Finish(p, e) PROVE KeepsEnding(p)
  BY <1>2, FinishEnding DEF KeepsEnding
<1>3. CASE EvaluateAutomatic(p)
  <2> DEFINE s == Attempt(run[p], "hours")
             d == Least(POLL_INTERVAL_SECONDS, _seconds_until(now, DEADLINE))
  <2>1. CASE Sleep(p, "waiting", s, d)
    <3>1. s \in Runs /\ s.ending = run[p].ending
      BY <1>1, AttemptType, EndingFields DEF Operations
    <3>2. [s EXCEPT !.wake = now + d].ending = run[p].ending
      BY <3>1, EndingFields
    <3> QED
      BY <2>1, <3>2, AdvanceEnding DEF Sleep
  <2>2. daily_retry_key(run[p].date) \in Keys
    BY <1>1 DEF daily_retry_key, Keys, Runs
  <2> QED
    BY <1>3, <2>1, <2>2, StartEnding DEF EvaluateAutomatic
<1>4. CASE EvaluateManual(p)
  BY <1>1, <1>2, <1>4, StartEnding DEF EvaluateManual, Failures, Runs
<1>5. CASE EvaluatePreview(p)
  <2>1. Finish(p, "unavailable") \/ Finish(p, "too_long") \/ Finish(p, "previewed")
    BY <1>1, <1>5 DEF EvaluatePreview, Runs, Menus
  <2> QED
    BY <1>2, <2>1 DEF Failures
<1>6. CASE RecheckDeadline(p)
  BY <1>2, <1>6, AdvanceEnding DEF RecheckDeadline, Failures
<1> QED
  BY <1>3, <1>4, <1>5, <1>6

LEMMA LoopEnding ==
  ASSUME TypeOK, NEW p \in Proc, LoopHead(p)
  PROVE  KeepsEnding(p)
<1>1. run[p] \in Runs /\ Today(p) \in Dates
  <2>1. run[p] \in Runs /\ run[p].date \in Dates
    BY DEF TypeOK, Runs
  <2>2. date(now) \in Dates
    BY InstantsAreNat, Division DEF Dates
  <2> QED
    BY <2>1, <2>2 DEF Today
<1>2. CASE Begin(p)
  <2>1. \A v : /\ [run[p] EXCEPT !.run_day = v].ending = run[p].ending
               /\ [run[p] EXCEPT !.key = v].ending = run[p].ending
    BY <1>1, EndingFields
  <2> QED
    BY <1>2, <2>1, AdvanceEnding DEF Begin
<1> DEFINE s == [run[p] EXCEPT !.date = Today(p)]
<1>3. s \in Runs /\ s.ending = run[p].ending
  BY <1>1 DEF Runs
<1>4. CASE WaitForWindow(p)
  <2> DEFINE w == now + Least(POLL_INTERVAL_SECONDS, _seconds_until(now, START_TIME))
  <2>1. [s EXCEPT !.wake = w].ending = run[p].ending
    BY <1>3, EndingFields
  <2> QED
    BY <1>4, <2>1, AdvanceEnding DEF WaitForWindow, Sleep
<1>5. CASE Poll(p)
  <2>1. Attempt(s, "hours").ending = run[p].ending
    BY <1>3, EndingFields
  <2> QED
    BY <1>5, <2>1, AdvanceEnding DEF Poll
<1> QED
  BY <1>2, <1>4, <1>5 DEF LoopHead

LEMMA JobEnding ==
  ASSUME TypeOK, NEW p \in Proc, JobStep(p)
  PROVE  KeepsEnding(p) \/ LineConfirms(p)
<1>1. run[p] \in Runs
  BY DEF TypeOK
<1>2. ASSUME NEW e \in Failures, Finish(p, e) PROVE KeepsEnding(p)
  BY <1>2, FinishEnding DEF KeepsEnding
<1>3. CASE CrossedMidnight(p) \/ StartedTooLate(p)
  BY <1>2, <1>3 DEF CrossedMidnight, StartedTooLate, Failures
<1>4. CASE before_request(p)
  BY <1>2, <1>4, AdvanceEnding DEF before_request, Failures
<1>5. CASE Resume(p)
  <2>1. [run[p] EXCEPT !.wake = 0].ending = run[p].ending
    BY <1>1, EndingFields
  <2> QED
    BY <1>5, <2>1, AdvanceEnding DEF Resume
<1> QED
  BY <1>3, <1>4, <1>5, LoopEnding, FetchEnding, BroadcastEnding, EvaluateEnding
     DEF JobStep, LoopHead

-----------------------------------------------------------------------------
\* What no step does: move a completed run, complete a run that LINE did not
\* confirm, or change the mode of a run that was launched.
Lasting(p) ==
  /\ run[p].ending = "completed" => run'[p] = run[p] /\ pc'[p] = pc[p]
  /\ run'[p].ending = "completed" => run'[p] = run[p] \/ LineConfirms(p)
  /\ pc[p] # "idle" => run'[p].mode = run[p].mode

LEMMA FinishLasting ==
  ASSUME TypeOK, SuccessInvariant, NEW p \in Proc, NEW e, e # "completed",
         pc[p] # "done", Finish(p, e)
  PROVE  Lasting(p) /\ OthersStay(p) /\ accepted' = accepted
<1>1. run'[p].ending = e /\ OthersStay(p) /\ accepted' = accepted
  BY FinishEnding, FinishEffect
<1>2. run'[p].mode = run[p].mode
  BY FinishSteady DEF Steady, SameMessage
<1> QED
  BY <1>1, <1>2 DEF Lasting, SuccessInvariant

LEMMA JobLasting ==
  ASSUME TypeOK, MessageInvariant, SuccessInvariant, NEW p \in Proc, JobStep(p)
  PROVE  Lasting(p) /\ OthersStay(p) /\ accepted' = accepted
<1>1. Phases(p) /\ OthersStay(p) /\ pc[p] \notin {"idle", "done"}
  BY JobShape DEF MessageInvariant
<1>2. run'[p].mode = run[p].mode /\ accepted' = accepted
  BY <1>1, JobCases, LoopHeadCases DEF Steady, StartsBroadcast, SameMessage
<1>3. run[p].ending # "completed"
  BY <1>1 DEF SuccessInvariant
<1> QED
  BY <1>1, <1>2, <1>3, JobEnding DEF Lasting, KeepsEnding, Failures

LEMMA LaunchLasting ==
  ASSUME TypeOK, MessageInvariant, SuccessInvariant, NEW p \in Proc, Launch(p)
  PROVE  Lasting(p) /\ OthersStay(p) /\ accepted' = accepted
<1>1. CASE Reject(p)
  BY <1>1, FinishLasting DEF Reject
<1>2. CASE LaunchAutomatic(p) \/ LaunchManual(p) \/ LaunchPreview(p)
  <2>1. OthersStay(p) /\ accepted' = accepted /\ pc[p] = "idle"
    BY <1>2, LaunchTruthful DEF MessageInvariant, Truthful
  <2>2. run'[p].ending = "none"
    <3>1. CASE LaunchAutomatic(p)
      BY <3>1, AdvanceEffect DEF LaunchAutomatic, Blank
    <3>2. CASE LaunchManual(p)
      <4>1. PICK d, k : Advance(p, "lock",
                [Blank EXCEPT !.mode = "manual", !.date = d, !.key = k])
        BY <3>2 DEF LaunchManual
      <4>2. run'[p] = [Blank EXCEPT !.mode = "manual", !.date = d, !.key = k]
        BY <4>1, AdvanceEffect
      <4> QED
        BY <4>2 DEF Blank
    <3>3. CASE LaunchPreview(p)
      <4>1. PICK d : Advance(p, "guard", [Blank EXCEPT !.mode = "dry_run", !.date = d])
        BY <3>3 DEF LaunchPreview
      <4>2. run'[p] = [Blank EXCEPT !.mode = "dry_run", !.date = d]
        BY <4>1, AdvanceEffect
      <4> QED
        BY <4>2 DEF Blank
    <3> QED
      BY <1>2, <3>1, <3>2, <3>3
  <2>3. run[p].ending # "completed"
    BY <2>1 DEF SuccessInvariant
  <2> QED
    BY <2>1, <2>2, <2>3 DEF Lasting
<1> QED
  BY <1>1, <1>2 DEF Launch

LEMMA LineLasting ==
  ASSUME TypeOK, SuccessInvariant, LineStep, NEW p \in Proc
  PROVE  Lasting(p)
<1>1. PICK m \in requests, answer \in Answers : Reply(m, answer)
  BY LineCases
<1>2. /\ pc' = pc /\ run'[p].mode = run[p].mode /\ run'[p].ending = run[p].ending
      /\ run'[p] = run[p] \/ (p = m.by /\ AwaitsAnswer(m))
  BY <1>1, ReplyEffect DEF Reply
<1>3. run[p].ending = "completed" => pc[p] = "done"
  BY DEF SuccessInvariant
<1> QED
  BY <1>2, <1>3 DEF Lasting, AwaitsAnswer

\* Every step, seen from LINE.
LEMMA EveryStepLasts ==
  ASSUME TypeOK, MessageInvariant, SuccessInvariant, [Next]_vars
  PROVE  (LineStep \/ accepted' = accepted) /\ \A p \in Proc : Lasting(p)
<1>1. ASSUME NEW p \in Proc, Lasting(p), OthersStay(p) PROVE \A q \in Proc : Lasting(q)
  BY <1>1 DEF Lasting, OthersStay
<1>2. ASSUME UNCHANGED <<run, accepted>>,
             \A p \in Proc : (pc'[p] = pc[p] \/ pc[p] # "done")
      PROVE  accepted' = accepted /\ \A p \in Proc : Lasting(p)
  BY <1>2 DEF Lasting, SuccessInvariant
<1>3. ASSUME NEW p \in Proc, AcquireLock(p)
      PROVE  accepted' = accepted /\ \A q \in Proc : Lasting(q)
  <2>1. run' = run /\ accepted' = accepted
    BY <1>3 DEF AcquireLock, Become, TypeOK
  <2>2. \A q \in Proc : (pc'[q] = pc[q] \/ pc[q] # "done")
    BY <1>3 DEF AcquireLock, Become, TypeOK
  <2> QED
    BY <1>2, <2>1, <2>2
<1>4. ASSUME NEW p \in Proc, SkipBusy(p) \/ LockUnusable(p) \/ Die(p)
      PROVE  accepted' = accepted /\ \A q \in Proc : Lasting(q)
  BY <1>1, <1>4, FinishLasting DEF SkipBusy, LockUnusable, Die
<1>5. ASSUME NEW p \in Proc, Launch(p) \/ JobStep(p)
      PROVE  accepted' = accepted /\ \A q \in Proc : Lasting(q)
  BY <1>1, <1>5, LaunchLasting, JobLasting
<1>6. CASE LineStep
  BY <1>6, LineLasting
<1>7. CASE Tick \/ UNCHANGED vars
  BY <1>2, <1>7 DEF Tick, vars
<1> QED
  BY <1>3, <1>4, <1>5, <1>6, <1>7 DEF Next, Step, Ended

LEMMA AcceptedGrows ==
  ASSUME TypeOK, LineStep \/ accepted' = accepted
  PROVE  accepted \subseteq accepted'
<1>1. CASE LineStep
  BY <1>1, LineCases
<1> QED
  BY <1>1

LEMMA SuccessStep ==
  ASSUME TypeOK, MessageInvariant, SuccessInvariant, [Next]_vars
  PROVE  SuccessInvariant'
<1> SUFFICES ASSUME NEW p \in Proc, run'[p].ending = "completed"
             PROVE  pc'[p] = "done" /\ Delivered(p)'
  BY DEF SuccessInvariant
<1>1. Lasting(p) /\ accepted \subseteq accepted'
  BY EveryStepLasts, AcceptedGrows
<1>2. CASE run'[p] = run[p]
  BY <1>1, <1>2 DEF Lasting, SuccessInvariant, Delivered
<1>3. CASE LineConfirms(p)
  <2>1. Delivered(p)
    BY <1>3 DEF LineConfirms, AwaitingLine, MessageInvariant, AnswersAreTrue
  <2>2. pc'[p] = "done" /\ SameMessage(p)
    BY <1>3, FinishEffect, FinishSteady DEF LineConfirms, Steady
  <2> QED
    BY <1>1, <2>1, <2>2 DEF Delivered, SameMessage
<1> QED
  BY <1>1, <1>2, <1>3 DEF Lasting

LEMMA DeliveryInvariance ==
  Spec => [](TypeOK /\ WindowInvariant /\ MessageInvariant /\ SuccessInvariant)
<1>1. Init => SuccessInvariant
  BY DEF Init, SuccessInvariant, Blank
<1>2. TypeOK /\ MessageInvariant /\ SuccessInvariant /\ [Next]_vars => SuccessInvariant'
  BY SuccessStep
<1> QED
  BY <1>1, <1>2, WindowInvariance, MessageIsInductive, PTL DEF Spec

\* A run that reports success after broadcasting, on a 2xx or on a 409, is
\* right: LINE has accepted a broadcast under its key, and one of its date, or
\* an operator gave that key with a date it was not made for.
THEOREM SuccessIsDelivery == Spec => []SuccessMeansDelivered
<1>1. ASSUME TypeOK, MessageInvariant, SuccessInvariant PROVE SuccessMeansDelivered
  <2> SUFFICES ASSUME NEW p \in Proc, run[p].ending = "completed"
               PROVE  \E a \in accepted :
                        a.key = run[p].key /\ (a.date = run[p].date \/ Misused(run[p].key))
    BY DEF SuccessMeansDelivered
  <2>1. PICK a \in accepted : a.key = run[p].key
    BY <1>1 DEF SuccessInvariant, Delivered
  <2>2. MatchesRun(a) /\ a.by \in Proc
    BY <1>1 DEF MessageInvariant, Messages, TypeOK, Acceptances
  <2>3. ASSUME NEW q \in Proc, run[q].key = a.key, run[q].date # MadeFor(a.key)
        PROVE  Misused(run[p].key)
    <3>1. \/ run[q].mode = "manual"
          \/ run[q].key = daily_retry_key(run[q].date)
      BY <1>1, <2>2, <2>3 DEF MatchesRun, MessageInvariant, Phases
    <3>2. run[q].key # daily_retry_key(run[q].date)
      BY <2>3 DEF MadeFor, daily_retry_key
    <3> QED
      BY <2>1, <2>3, <3>1, <3>2 DEF Misused
  <2>4. CASE a.date # run[p].date
    <3>1. run[p].date # MadeFor(a.key) \/ run[a.by].date # MadeFor(a.key)
      BY <2>2, <2>4 DEF MatchesRun
    <3> QED
      BY <2>1, <2>2, <2>3, <3>1 DEF MatchesRun
  <2> QED
    BY <2>1, <2>4
<1> QED
  BY <1>1, DeliveryInvariance, PTL

\* A run by hand that makes its own key and reports success has sent its
\* schedule itself, although others may be given that key (manual_retry_key,
\* job_lock).
THEOREM OwnKeysAreSent == Spec => []OwnKeyIsSent
<1>1. ASSUME TypeOK, MessageInvariant, SuccessInvariant PROVE OwnKeyIsSent
  <2> SUFFICES ASSUME NEW p \in Proc, run[p].ending = "completed",
                      run[p].key = manual_retry_key(p)
               PROVE  \E a \in accepted : a.by = p /\ a.date = run[p].date
    BY DEF OwnKeyIsSent
  <2>1. PICK a \in accepted : a.by = p
    BY <1>1 DEF SuccessInvariant, Delivered
  <2>2. MatchesRun(a)
    BY <1>1 DEF MessageInvariant, Messages
  <2> QED
    BY <2>1, <2>2 DEF MatchesRun
<1> QED
  BY <1>1, DeliveryInvariance, PTL

\* If the clock stands still between a guard and its request, automatic runs
\* deliver each date at most once, whatever is retried, lost, repeated or
\* served late (daily_retry_key, check_deadline).
THEOREM AtMostOneDelivery ==
  ASSUME ~Preemption
  PROVE  Spec => []AtMostOneAutomaticDelivery
<1>1. Init => AtMostOneAutomaticDelivery
  BY DEF Init, AtMostOneAutomaticDelivery
<1>2. ASSUME TypeOK, MessageInvariant, SuccessInvariant, AtMostOneAutomaticDelivery,
             [Next]_vars
      PROVE  AtMostOneAutomaticDelivery'
  <2>1. (LineStep \/ accepted' = accepted) /\ \A p \in Proc : Lasting(p)
    BY <1>2, EveryStepLasts
  <2>2. ASSUME NEW a \in accepted PROVE Automatic(a.by)' <=> Automatic(a.by)
    <3>1. MatchesRun(a) /\ a.by \in Proc
      BY <1>2 DEF MessageInvariant, Messages, TypeOK, Acceptances
    <3>2. pc[a.by] # "idle"
      BY <1>2, <3>1 DEF MatchesRun, MessageInvariant, Phases, Working
    <3> QED
      BY <2>1, <3>1, <3>2 DEF Lasting, Automatic
  <2>3. CASE accepted' = accepted
    BY <1>2, <2>2, <2>3 DEF AtMostOneAutomaticDelivery
  <2>4. CASE LineStep /\ accepted' # accepted
    <3>0. PICK m \in requests :
            /\ Served(m) /\ ~Remembered(m.key) /\ \E answer : Reply(m, answer)
            /\ \E n : accepted' = accepted \cup {n} /\ Accepted(m, n)
      BY <1>2, <2>4, LineCases
    <3>1. PICK n : accepted' = accepted \cup {n} /\ Accepted(m, n)
      BY <3>0
    <3>2. ASSUME NEW b \in accepted, Automatic(b.by), Automatic(n.by)', b.date = n.date
          PROVE  FALSE
      <4>1. MatchesRun(m) /\ m.by \in Proc /\ SentInTime(m) /\ SentInTime(b)
        BY <1>2 DEF MessageInvariant, Messages, TypeOK, Broadcasts
      <4>2. Automatic(m.by)
        BY <1>2, <3>0, <3>1, <3>2, <4>1, ReplyEffect DEF Accepted, Automatic
      <4>3. b.key = m.key
        BY <3>1, <3>2, <4>1, <4>2 DEF SentInTime, Accepted
      <4> QED
        BY <1>2, <3>0, <3>1, <3>2, <4>2, <4>3, FirstOfItsDay DEF Accepted
    <3> QED
      BY <1>2, <2>2, <3>1, <3>2 DEF AtMostOneAutomaticDelivery
  <2> QED
    BY <2>1, <2>3, <2>4
<1> QED
  BY <1>1, <1>2, DeliveryInvariance, PTL DEF Spec

-----------------------------------------------------------------------------
\* The runs, the clock and LINE implement DailyBroadcast.

\* The mapped state of DailyBroadcast.
Scheduled == {a \in accepted : Automatic(a.by)}
ByHand == {a \in accepted : ~Automatic(a.by) /\ a.key = daily_retry_key(a.date)}
Astray == {a \in accepted : a.key.kind = "daily" /\ a.key # daily_retry_key(a.date)}
Completed(p) == Automatic(p) /\ run[p].ending = "completed"
Reported == {run[p].date : p \in {q \in Proc : Completed(q)}}

\* The times of both specifications are the same.
LEMMA SameCalendar ==
  ASSUME NEW d, NEW t
  PROVE  Daily!InTime(d, t) = InWindow(d, t) /\ Daily!date(t) = date(t)
  BY DEF Daily!InTime, InWindow, Daily!date, date, Daily!time, time, Daily!DAY, DAY,
         Daily!START_TIME, START_TIME, Daily!DEADLINE, DEADLINE

LEMMA MakersKnown ==
  ASSUME TypeOK, MessageInvariant, NEW m \in Messages
  PROVE  m.by \in Proc /\ pc[m.by] # "idle"
<1>1. MatchesRun(m) /\ m.by \in Proc
  BY DEF MessageInvariant, Messages, TypeOK, Broadcasts, Acceptances
<1> QED
  BY <1>1 DEF MatchesRun, MessageInvariant, Phases, Working

LEMMA ModesLast ==
  ASSUME TypeOK, MessageInvariant, SuccessInvariant, [Next]_vars, NEW m \in Messages
  PROVE  Automatic(m.by)' <=> Automatic(m.by)
  BY MakersKnown, EveryStepLasts DEF Lasting, Automatic

LEMMA StillReported ==
  ASSUME SuccessInvariant, \A p \in Proc : Lasting(p) /\ ~LineConfirms(p)
  PROVE  Reported' = Reported
<1>1. ASSUME NEW p \in Proc PROVE Completed(p)' <=> Completed(p)
  <2>1. CASE run'[p] = run[p]
    BY <2>1 DEF Completed, Automatic
  <2>2. CASE run'[p] # run[p]
    BY <2>2 DEF Completed, Lasting
  <2> QED
    BY <2>1, <2>2
<1>2. ASSUME NEW p \in Proc, Completed(p) PROVE run'[p].date = run[p].date
  BY <1>2 DEF Completed, Lasting
<1> QED
  BY <1>1, <1>2 DEF Reported

\* What a broadcast under the key of a day knows of those before it.
LEMMA PossibleStep ==
  ASSUME TypeOK, MessageInvariant, NEW m \in requests, NEW n, m.key.kind = "daily",
         Served(m), ~Remembered(m.key), Accepted(m, n)
  PROVE  Daily!Possible(n) /\ n \notin accepted
<1>1. m \in Messages /\ SentInTime(m)
  BY DEF MessageInvariant, Messages
<1>2. n.posted <= n.at /\ n.at <= n.posted + MaxDelay
  BY <1>1 DEF SentInTime, Accepted, Served
<1>3. ASSUME NEW e \in accepted, e.key = m.key PROVE e.at + RETENTION <= n.at
  BY <1>3, InstantsAreNat DEF Remembered, Accepted, RETENTION, TypeOK, Acceptances
<1>4. ASSUME NEW e \in accepted, e.key.kind = "daily", e.key.of = n.key.of
      PROVE  e.key = m.key
  <2>1. e.key \in [kind : {"daily"}, of : Dates] /\ m.key \in [kind : {"daily"}, of : Dates]
    BY <1>4 DEF TypeOK, Acceptances, Broadcasts, Keys, NoKey
  <2> QED
    BY <1>4, <2>1 DEF Accepted
<1>5. ASSUME NEW e \in Scheduled \cup ByHand \cup Astray
      PROVE  e \in accepted /\ e.key.kind = "daily"
  <2>1. e \in accepted /\ (Automatic(e.by) => e.key = daily_retry_key(e.date))
    BY DEF Scheduled, ByHand, Astray, MessageInvariant, Messages, SentInTime
  <2> QED
    BY <2>1 DEF Scheduled, ByHand, Astray, daily_retry_key
<1>6. \A e \in Daily!Under(n.key.of) : e.at + Daily!RETENTION <= n.at
  BY <1>3, <1>4, <1>5
     DEF Daily!Under, Scheduled, ByHand, Astray, Daily!RETENTION, RETENTION
<1>7. n \notin accepted
  <2>1. ASSUME n \in accepted PROVE FALSE
    <3>1. n.at + RETENTION <= n.at /\ n.at \in Nat
      BY <1>3, <2>1 DEF Accepted, TypeOK, Acceptances
    <3> QED
      BY <3>1 DEF RETENTION
  <2> QED
    BY <2>1
<1> QED
  BY <1>2, <1>6, <1>7 DEF Daily!Possible

LEMMA AnnounceStep ==
  ASSUME TypeOK, MessageInvariant, ~Preemption, NEW m \in requests, NEW n,
         Automatic(m.by), Served(m), ~Remembered(m.key), Accepted(m, n),
         Scheduled' = Scheduled \cup {n}, UNCHANGED <<ByHand, Astray, Reported>>
  PROVE  Daily!Announce(n)
<1>1. m \in Messages /\ SentInTime(m) /\ m.by \in Proc
  BY DEF MessageInvariant, Messages, TypeOK, Broadcasts
<1>2. m.key = daily_retry_key(m.date) /\ InWindow(m.date, m.posted)
  BY <1>1 DEF SentInTime
<1>3. Daily!Possible(n) /\ n \notin Scheduled /\ n.key.of = n.date
  BY <1>2, PossibleStep DEF daily_retry_key, Accepted, Scheduled
<1>4. ASSUME NEW e \in Scheduled \cup ByHand PROVE e.date # n.date
  <2>1. e \in accepted /\ e.key = daily_retry_key(e.date)
    BY DEF Scheduled, ByHand, Messages, MessageInvariant, SentInTime
  <2> QED
    BY <1>2, <2>1, FirstOfItsDay DEF Accepted
<1>5. Daily!InTime(n.date, n.posted)
  BY <1>2, SameCalendar DEF Accepted
<1> QED
  BY <1>3, <1>4, <1>5 DEF Daily!Announce, Scheduled, ByHand, Astray, Reported, Completed

LEMMA RepeatStep ==
  ASSUME TypeOK, MessageInvariant, NEW m \in requests, NEW n,
         m.key = daily_retry_key(m.date), Served(m), ~Remembered(m.key), Accepted(m, n),
         ByHand' = ByHand \cup {n}, UNCHANGED <<Scheduled, Astray, Reported>>
  PROVE  Daily!Repeat(n)
<1>1. m.date <= date(m.posted)
  BY DEF MessageInvariant, Messages, SentInTime
<1>2. Daily!Possible(n) /\ n \notin ByHand /\ n.key.of = n.date
  BY PossibleStep DEF daily_retry_key, Accepted, ByHand
<1>3. n.date <= Daily!date(n.posted)
  BY <1>1, SameCalendar DEF Accepted
<1> QED
  BY <1>2, <1>3 DEF Daily!Repeat, Scheduled, ByHand, Astray, Reported, Completed

LEMMA SpendStep ==
  ASSUME TypeOK, MessageInvariant, NEW m \in requests, NEW n,
         m.key.kind = "daily", m.key # daily_retry_key(m.date),
         Served(m), ~Remembered(m.key), Accepted(m, n),
         Astray' = Astray \cup {n}, UNCHANGED <<Scheduled, ByHand, Reported>>
  PROVE  Daily!Spend(n)
<1>1. m.date <= date(m.posted)
  BY DEF MessageInvariant, Messages, SentInTime
<1>2. Daily!Possible(n) /\ n \notin Astray
  BY PossibleStep DEF Astray
<1>3. n.key.of # n.date
  <2>1. m.key \in [kind : {"daily"}, of : Dates]
    BY DEF TypeOK, Broadcasts, Keys, NoKey
  <2> QED
    BY <2>1 DEF daily_retry_key, Accepted
<1>4. n.date <= Daily!date(n.posted)
  BY <1>1, SameCalendar DEF Accepted
<1> QED
  BY <1>2, <1>3, <1>4 DEF Daily!Spend, Scheduled, ByHand, Astray, Reported, Completed

LEMMA ReportStep ==
  ASSUME TypeOK, MessageInvariant, NEW p \in Proc, Automatic(p), Delivered(p),
         NEW d, d = run[p].date, run[p].key = daily_retry_key(d),
         Reported' = Reported \cup {d}, UNCHANGED <<Scheduled, ByHand, Astray>>
  PROVE  Daily!Report(d)
<1>1. PICK a \in accepted : a.key = daily_retry_key(d)
  BY DEF Delivered
<1>2. a \in Scheduled \cup ByHand \cup Astray /\ a.key.of = d
  BY <1>1 DEF Scheduled, ByHand, Astray, daily_retry_key
<1>3. Daily!Under(d) # {}
  BY <1>2 DEF Daily!Under, Scheduled, ByHand, Astray
<1> QED
  BY <1>3 DEF Daily!Report, Scheduled, ByHand, Astray, Reported, Completed

\* The run that LINE confirms to is the only one that moves.
LEMMA ConfirmEffect ==
  ASSUME TypeOK, MessageInvariant, SuccessInvariant, NEW p \in Proc, LineConfirms(p)
  PROVE  /\ OthersStay(p) /\ accepted' = accepted
         /\ run'[p].mode = run[p].mode /\ run'[p].date = run[p].date
         /\ run'[p].ending = "completed" /\ ~Completed(p)
         /\ Delivered(p)
         /\ Automatic(p) => run[p].key = daily_retry_key(run[p].date)
<1>1. Finish(p, "completed") /\ pc[p] = "reply" /\ run[p].op = "line"
      /\ run[p].answer \in {"success", "conflict"}
  BY DEF LineConfirms, AwaitingLine
<1>2. OthersStay(p) /\ accepted' = accepted /\ SameMessage(p)
  BY <1>1, FinishEffect, FinishSteady DEF Steady
<1>3. run'[p].ending = "completed"
  BY <1>1, FinishEnding
<1>4. Delivered(p) /\ ~Completed(p)
  BY <1>1 DEF MessageInvariant, AnswersAreTrue, SuccessInvariant, Completed
<1>5. Automatic(p) => run[p].key = daily_retry_key(run[p].date)
  BY <1>1 DEF MessageInvariant, Phases, Automatic
<1> QED
  BY <1>1, <1>2, <1>3, <1>4, <1>5 DEF SameMessage

LEMMA ReportedGrows ==
  ASSUME TypeOK, MessageInvariant, SuccessInvariant, NEW p \in Proc, LineConfirms(p)
  PROVE  Reported' = IF Automatic(p) THEN Reported \cup {run[p].date} ELSE Reported
<1>1. /\ OthersStay(p) /\ run'[p].mode = run[p].mode /\ run'[p].date = run[p].date
      /\ run'[p].ending = "completed" /\ ~Completed(p)
  BY ConfirmEffect
<1>2. ASSUME NEW q \in Proc, q # p
      PROVE  (Completed(q)' <=> Completed(q)) /\ run'[q].date = run[q].date
  BY <1>1, <1>2 DEF OthersStay, Completed, Automatic
<1>3. Completed(p)' <=> Automatic(p)
  BY <1>1 DEF Completed, Automatic
<1> QED
  BY <1>1, <1>2, <1>3 DEF Reported

LEMMA DailyStep ==
  ASSUME TypeOK, MessageInvariant, SuccessInvariant, ~Preemption, [Next]_vars
  PROVE  Daily!Next \/ UNCHANGED <<Scheduled, ByHand, Astray, Reported>>
<1>1. (LineStep \/ accepted' = accepted) /\ \A p \in Proc : Lasting(p)
  BY EveryStepLasts
<1>2. \A m \in Messages : (Automatic(m.by)' <=> Automatic(m.by))
  BY ModesLast
<1>3. ASSUME accepted' = accepted PROVE UNCHANGED <<Scheduled, ByHand, Astray>>
  BY <1>2, <1>3 DEF Scheduled, ByHand, Astray, Messages
<1>4. CASE \E p \in Proc : LineConfirms(p)
  <2>1. PICK p \in Proc : LineConfirms(p)
    BY <1>4
  <2>2. accepted' = accepted
    BY <2>1, ConfirmEffect
  <2>3. CASE Automatic(p)
    <3>1. PICK d : d = run[p].date
      OBVIOUS
    <3>2. Reported' = Reported \cup {d}
      BY <2>1, <2>3, <3>1, ReportedGrows
    <3>3. Daily!Report(d)
      BY <1>3, <2>1, <2>2, <2>3, <3>1, <3>2, ConfirmEffect, ReportStep
    <3>4. d \in {run[q].date : q \in {q \in Proc :
                   Automatic(q) /\ run[q].ending = "completed"}}'
      BY <3>2 DEF Reported, Completed
    <3> QED
      BY <3>3, <3>4 DEF Daily!Next
  <2>4. CASE ~Automatic(p)
    BY <1>3, <2>1, <2>2, <2>4, ReportedGrows
  <2> QED
    BY <2>3, <2>4
<1>5. CASE (\A p \in Proc : ~LineConfirms(p)) /\ accepted' = accepted
  BY <1>1, <1>3, <1>5, StillReported
<1>6. CASE (\A p \in Proc : ~LineConfirms(p)) /\ LineStep /\ accepted' # accepted
  <2>1. Reported' = Reported
    BY <1>1, <1>6, StillReported
  <2>0. PICK m \in requests :
          /\ Served(m) /\ ~Remembered(m.key)
          /\ \E n : accepted' = accepted \cup {n} /\ Accepted(m, n)
    BY <1>6, LineCases
  <2>2. PICK n : accepted' = accepted \cup {n} /\ Accepted(m, n)
    BY <2>0
  <2>3. m \in Messages /\ (Automatic(n.by)' <=> Automatic(m.by)) /\ n.key = m.key
    BY <1>2, <2>2 DEF Messages, Accepted, Automatic
  <2>4. Scheduled' = IF Automatic(m.by) THEN Scheduled \cup {n} ELSE Scheduled
    BY <1>2, <2>2, <2>3 DEF Scheduled, Messages
  <2>5. ByHand' = IF ~Automatic(m.by) /\ m.key = daily_retry_key(m.date)
                    THEN ByHand \cup {n} ELSE ByHand
    BY <1>2, <2>2, <2>3 DEF ByHand, Messages, Accepted
  <2>6. Astray' = IF m.key.kind = "daily" /\ m.key # daily_retry_key(m.date)
                    THEN Astray \cup {n} ELSE Astray
    BY <2>2, <2>3 DEF Astray, Accepted
  <2>7. CASE Automatic(m.by)
    <3>1. m.key = daily_retry_key(m.date)
      BY <2>3, <2>7 DEF MessageInvariant, SentInTime
    <3>2. Daily!Announce(n) /\ n \in Scheduled'
      BY <2>1, <2>2, <2>0, <2>4, <2>5, <2>6, <2>7, <3>1, AnnounceStep
    <3> QED
      BY <3>2 DEF Daily!Next, Scheduled
  <2>8. CASE ~Automatic(m.by) /\ m.key = daily_retry_key(m.date)
    <3>1. Daily!Repeat(n) /\ n \in ByHand'
      BY <2>1, <2>2, <2>0, <2>4, <2>5, <2>6, <2>8, RepeatStep
    <3> QED
      BY <3>1 DEF Daily!Next, ByHand
  <2>9. CASE ~Automatic(m.by) /\ m.key.kind = "daily" /\ m.key # daily_retry_key(m.date)
    <3>1. Daily!Spend(n) /\ n \in Astray'
      BY <2>1, <2>2, <2>0, <2>4, <2>5, <2>6, <2>9, SpendStep
    <3> QED
      BY <3>1 DEF Daily!Next, Astray
  <2>10. CASE ~Automatic(m.by) /\ m.key.kind # "daily" /\ m.key # daily_retry_key(m.date)
    BY <2>1, <2>4, <2>5, <2>6, <2>10
  <2> QED
    BY <2>7, <2>8, <2>9, <2>10
<1> QED
  BY <1>1, <1>4, <1>5, <1>6

\* If the clock stands still between a guard and its request, every behaviour
\* of the runs, the clock and LINE keeps the promise of DailyBroadcast.
THEOREM PromiseKept ==
  ASSUME ~Preemption
  PROVE  Spec => DailyPromise
<1>1. Init => Daily!Init
  BY DEF Init, Daily!Init, Blank
<1>2. TypeOK /\ MessageInvariant /\ SuccessInvariant /\ [Next]_vars =>
        [Daily!Next]_<<Scheduled, ByHand, Astray, Reported>>
  BY DailyStep
<1>3. Daily!Init /\ [][Daily!Next]_<<Scheduled, ByHand, Astray, Reported>> => DailyPromise
  BY DEF DailyPromise, Daily!Spec, Scheduled, ByHand, Astray, Reported, Completed
<1> QED
  BY <1>1, <1>2, <1>3, DeliveryInvariance, PTL DEF Spec

-----------------------------------------------------------------------------
\* How an automatic run waits and gives up.

\* What an end in this state, other than a kill, must be.
Excused(p) ==
  run'[p].ending \in {"menu_data", "request_error"} \/ ~check_deadline_passes(p)

LEMMA AdvanceIsNoEnd ==
  ASSUME TypeOK, NEW p \in Proc, NEW l \in Labels \ {"done"}, NEW r, Advance(p, l, r)
  PROVE  pc'[p] # "done"
  BY AdvanceEffect

LEMMA LoopHeadIsNoEnd ==
  ASSUME TypeOK, NEW p \in Proc, LoopHead(p)
  PROVE  pc'[p] # "done"
  BY AdvanceIsNoEnd DEF LoopHead, Begin, WaitForWindow, Poll, Sleep, Labels

LEMMA FetchEnds ==
  ASSUME TypeOK, NEW p \in Proc, FetchStep(p), Automatic(p), pc'[p] = "done"
  PROVE  Excused(p)
<1>1. ~RetryLater(p)
  BY AdvanceIsNoEnd DEF RetryLater, Sleep, Labels
<1>2. ~PostToIChef(p) /\ ~HoursReceived(p) /\ ~ItemsReceived(p)
  BY AdvanceIsNoEnd DEF PostToIChef, HoursReceived, ItemsReceived, Labels
<1>3. ~IChefFails(p)
  BY <1>1, AdvanceIsNoEnd DEF IChefFails, Labels
<1>4. IChefAnswersNonsense(p) \/ IChefBreaksOff(p)
  BY <1>2, <1>3 DEF FetchStep
<1> QED
  BY <1>4, FinishEnding DEF IChefAnswersNonsense, IChefBreaksOff, Excused

LEMMA LoopEnds ==
  ASSUME TypeOK, WindowInvariant, NEW p \in Proc, Automatic(p),
         CrossedMidnight(p) \/ StartedTooLate(p)
  PROVE  ~check_deadline_passes(p)
<1>1. CASE StartedTooLate(p)
  <2>1. time(now) >= DEADLINE /\ time(now) \in Nat
    BY <1>1, InstantsAreNat, Division DEF StartedTooLate
  <2> QED
    BY <2>1 DEF check_deadline_passes, DEADLINE
<1>2. CASE CrossedMidnight(p)
  <2>1. pc[p] = "loop" /\ run[p].date # NoDate /\ run[p].date # date(now)
    BY <1>2 DEF CrossedMidnight, Today
  <2>2. run[p].run_day <= run[p].date /\ run[p].date <= date(now)
    BY <2>1 DEF WindowInvariant, DaysInOrder, Started
  <2>3. run[p].date \in Int /\ run[p].run_day \in Int /\ date(now) \in Int
    <3>1. date(now) \in Int
      BY InstantsAreNat, Division
    <3> QED
      BY <3>1 DEF TypeOK, Runs, Dates, NoDate
  <2>4. date(now) # run[p].run_day
    BY <2>1, <2>2, <2>3
  <2> QED
    BY <2>4 DEF check_deadline_passes
<1> QED
  BY <1>1, <1>2

LEMMA JobGivesUp ==
  ASSUME TypeOK, WindowInvariant, NEW p \in Proc, JobStep(p), Automatic(p),
         pc'[p] = "done", run[p].op # "line", run[p].menu = "none"
  PROVE  Excused(p)
<1>1. ~LoopHead(p) /\ ~Resume(p)
  BY LoopHeadIsNoEnd, AdvanceIsNoEnd DEF Resume, Labels
<1>2. ~BroadcastStep(p)
  BY DEF BroadcastStep, PostToLine, LineFails, LineRaises, LineBreaksOff, LineConfirms,
         AwaitingLine
<1>3. before_request(p) => ~check_deadline_passes(p)
  BY AdvanceIsNoEnd DEF before_request, Labels
<1>4. RecheckDeadline(p) => ~check_deadline_passes(p)
  BY AdvanceIsNoEnd DEF RecheckDeadline, Labels
<1>5. ~EvaluateAutomatic(p)
  BY AdvanceIsNoEnd DEF EvaluateAutomatic, Sleep, Labels
<1>6. ~EvaluateManual(p) /\ ~EvaluatePreview(p)
  BY DEF EvaluateManual, EvaluatePreview, Automatic
<1> QED
  BY <1>1, <1>2, <1>3, <1>4, <1>5, <1>6, LoopEnds, FetchEnds DEF JobStep, LoopHead, Excused

\* An automatic run that is not killed and has no schedule yet gives up before
\* the deadline of its day only over a response that it cannot read or that
\* breaks off.
THEOREM OutagesPolledAway == Spec => OutagesArePolledAway
<1>1. ASSUME TypeOK, WindowInvariant, [Next]_vars, NEW p \in Proc,
             GivesUp(p), Automatic(p)
      PROVE  Excused(p)
  <2>1. pc[p] \notin {"idle", "lock", "done"} /\ pc'[p] # pc[p]
    BY <1>1 DEF GivesUp
  <2>2. ~LineStep /\ ~Tick /\ ~UNCHANGED vars
    BY <1>1, <2>1, LineKeepsDays DEF Tick, vars
  <2>3. PICK q \in Proc : Launch(q) \/ Step(q) \/ Die(q)
    BY <1>1, <2>2 DEF Next, Ended
  <2>4. OthersStay(q)
    <3>1. CASE Launch(q)
      BY <1>1, <3>1, LaunchDays
    <3>2. CASE AcquireLock(q)
      BY <1>1, <3>2 DEF AcquireLock, Become, OthersStay, TypeOK
    <3>3. CASE SkipBusy(q) \/ LockUnusable(q) \/ Die(q)
      BY <1>1, <3>3, FinishShape DEF SkipBusy, LockUnusable, Die
    <3>4. CASE JobStep(q)
      BY <1>1, <3>4, JobShape
    <3> QED
      BY <2>3, <3>1, <3>2, <3>3, <3>4 DEF Step
  <2>5. q = p
    BY <2>1, <2>4 DEF OthersStay
  <2>6. ~Die(p)
    BY <1>1, FinishEnding DEF Die, GivesUp
  <2>7. ~Launch(p) /\ ~AcquireLock(p) /\ ~SkipBusy(p) /\ ~LockUnusable(p)
    BY <2>1 DEF Launch, LaunchAutomatic, LaunchManual, LaunchPreview, Reject,
                AcquireLock, SkipBusy, LockUnusable
  <2>8. JobStep(p)
    BY <2>3, <2>5, <2>6, <2>7 DEF Step
  <2> QED
    BY <1>1, <2>8, JobGivesUp DEF GivesUp
<1>2. TypeOK /\ WindowInvariant /\ [Next]_vars =>
        [\A p \in Proc : GivesUp(p) /\ Automatic(p) =>
           run'[p].ending \in {"menu_data", "request_error"} \/ ~check_deadline_passes(p)]_vars
  BY <1>1 DEF Excused
<1> QED
  BY <1>2, WindowInvariance, PTL DEF Spec, OutagesArePolledAway

-----------------------------------------------------------------------------
\* NoOversleeping, of one run.
WakesInTime(p) ==
  pc[p] = "waiting" =>
    \/ run[p].wake <= now \/ run[p].date < date(now)
    \/ run[p].wake <= run[p].date * DAY +
         (IF now < run[p].date * DAY + START_TIME THEN START_TIME ELSE DEADLINE)

LEMMA SleepEffect ==
  ASSUME TypeOK, NEW p \in Proc, NEW r \in Runs, NEW s, Sleep(p, "waiting", r, s)
  PROVE  /\ run'[p].wake = now + s /\ run'[p].date = r.date /\ run'[p].mode = r.mode
         /\ OthersStay(p) /\ now' = now
<1>1. /\ run'[p] = [r EXCEPT !.wake = now + s] /\ OthersStay(p) /\ now' = now
  BY AdvanceEffect DEF Sleep
<1> QED
  BY <1>1 DEF Runs

LEMMA TodayKnown ==
  ASSUME TypeOK, NEW p \in Proc
  PROVE  Today(p) \in Dates /\ [run[p] EXCEPT !.date = Today(p)] \in Runs
<1>1. run[p] \in Runs /\ run[p].date \in Dates
  BY DEF TypeOK, Runs
<1>2. date(now) \in Dates
  BY InstantsAreNat, Division DEF Dates
<1>3. Today(p) \in Dates
  BY <1>1, <1>2 DEF Today
<1> QED
  BY <1>1, <1>3 DEF Runs

\* The wait for the window to open: until it opens at most.
LEMMA OpeningWait ==
  ASSUME TypeOK, NEW p \in Proc, WaitForWindow(p)
  PROVE  /\ now' = now /\ time(now) < 49200
         /\ run'[p].date = date(now) /\ run'[p].mode = run[p].mode
         /\ now < run'[p].wake /\ run'[p].wake <= date(now) * 86400 + 49200
<1> DEFINE s == Least(POLL_INTERVAL_SECONDS, _seconds_until(now, START_TIME))
           r == [run[p] EXCEPT !.date = Today(p)]
<1>1. r \in Runs /\ r.date = Today(p) /\ r.mode = run[p].mode
  BY TodayKnown DEF Runs, TypeOK
<1>2. /\ run'[p].wake = now + s /\ run'[p].date = date(now)
      /\ run'[p].mode = run[p].mode /\ now' = now
  BY <1>1, SleepEffect DEF WaitForWindow
<1>3. /\ now \in Nat /\ date(now) \in Nat /\ time(now) \in Nat
      /\ now = 86400 * date(now) + time(now) /\ time(now) < START_TIME
  BY InstantsAreNat, Division DEF WaitForWindow
<1>4. s \in Int /\ 0 < s /\ s <= 49200 - time(now)
  BY <1>3 DEF Least, _seconds_until, AtLeastZero, START_TIME, POLL_INTERVAL_SECONDS
<1> HIDE DEF s
<1>5. /\ now < now + s /\ now + s <= date(now) * 86400 + 49200
      /\ time(now) < 49200
  BY <1>3, <1>4, SMT DEF START_TIME
<1> QED
  BY <1>2, <1>5

\* The wait for the next poll: five minutes, and until the deadline at most;
\* past the deadline there is none.
LEMMA PollWait ==
  ASSUME TypeOK, WindowInvariant, NEW p \in Proc, EvaluateAutomatic(p), pc'[p] = "waiting"
  PROVE  /\ run[p].menu = "none" /\ now' = now /\ run'[p].mode = run[p].mode
         /\ run'[p].date = run[p].date /\ run[p].date \in Nat
         /\ run[p].run_day <= run[p].date /\ run[p].date <= date(now)
         /\ run[p].date * 86400 + 49200 <= now
         /\ now <= run'[p].wake /\ run'[p].wake <= now + 300
         /\ time(now) < 54000 =>
              now < run'[p].wake /\ run'[p].wake <= date(now) * 86400 + 54000
         /\ time(now) >= 54000 => run'[p].wake = now
<1> DEFINE s == Least(POLL_INTERVAL_SECONDS, _seconds_until(now, DEADLINE))
           r == Attempt(run[p], "hours")
<1>1. r \in Runs /\ r.date = run[p].date /\ r.mode = run[p].mode
  BY AttemptType, AttemptFields DEF TypeOK, Operations
<1>2. run[p].menu = "none" /\ Sleep(p, "waiting", r, s)
  <2> HIDE DEF r, s
  <2>1. \A e : ~Finish(p, e)
    BY FinishEffect
  <2>2. \A r1 : ~Advance(p, "guard", r1)
    BY AdvanceEffect
  <2>3. \A key : ~broadcast(p, key)
    BY <2>1, <2>2 DEF broadcast
  <2> QED
    BY <2>3 DEF EvaluateAutomatic, r, s
<1>3. /\ run'[p].wake = now + s /\ run'[p].date = run[p].date
      /\ run'[p].mode = run[p].mode /\ now' = now
  BY <1>1, <1>2, SleepEffect
<1>4. /\ now \in Nat /\ date(now) \in Nat /\ time(now) \in Nat
      /\ now = 86400 * date(now) + time(now)
  BY InstantsAreNat, Division
<1>5. /\ run[p].run_day \in Nat /\ run[p].run_day <= run[p].date
      /\ run[p].date <= date(now) /\ run[p].date * 86400 + 49200 <= now
  BY DEF WindowInvariant, DaysInOrder, Started, Working, EvaluateAutomatic, START_TIME
<1>6. run[p].date \in Nat
  BY <1>5 DEF TypeOK, Runs, Dates, NoDate
<1>7. /\ s \in Nat /\ s <= 300
      /\ time(now) < 54000 => 0 < s /\ s <= 54000 - time(now)
      /\ time(now) >= 54000 => s = 0
  BY <1>4 DEF Least, _seconds_until, AtLeastZero, DEADLINE, POLL_INTERVAL_SECONDS
<1> HIDE DEF s
<1>8. /\ now <= now + s /\ now + s <= now + 300
      /\ time(now) < 54000 => now < now + s /\ now + s <= date(now) * 86400 + 54000
      /\ time(now) >= 54000 => now + s = now
  BY <1>4, <1>7, SMT
<1> QED
  BY <1>2, <1>3, <1>5, <1>6, <1>8

LEMMA SleepersSleepOn ==
  ASSUME TypeOK, NEW p \in Proc, WakesInTime(p), now <= now', now' \in Nat,
         pc'[p] = "waiting" => pc[p] = "waiting" /\ run'[p] = run[p]
  PROVE  WakesInTime(p)'
<1> SUFFICES ASSUME pc'[p] = "waiting" PROVE WakesInTime(p)'
  BY DEF WakesInTime
<1>1. PICK w \in Int, d \in Int, u \in Nat, v \in Nat :
        /\ w = run[p].wake /\ d = run[p].date /\ u = now /\ v = now' /\ u <= v
  BY InstantsAreNat DEF TypeOK, Runs, Dates, NoDate
<1>2. \/ w <= u \/ d < date(u)
      \/ w <= d * 86400 + (IF u < d * 86400 + 49200 THEN 49200 ELSE 54000)
  BY <1>1 DEF WakesInTime, DAY, START_TIME, DEADLINE
<1>3. \/ w <= v \/ d < date(v)
      \/ w <= d * 86400 + (IF v < d * 86400 + 49200 THEN 49200 ELSE 54000)
  <2>1. date(u) <= date(v) /\ date(u) \in Int /\ date(v) \in Int
    BY <1>1, SMT DEF date, DAY
  <2> QED
    BY <1>1, <1>2, <2>1, SMT
<1> QED
  BY <1>1, <1>3 DEF WakesInTime, DAY, START_TIME, DEADLINE

\* There is no other wait.
LEMMA WaitBegins ==
  ASSUME TypeOK, NEW p \in Proc, JobStep(p), pc'[p] = "waiting"
  PROVE  WaitForWindow(p) \/ EvaluateAutomatic(p)
<1>1. \A e : ~Finish(p, e)
  BY FinishEffect
<1>2. \A l \in Labels \ {"waiting"} : \A r : ~Advance(p, l, r)
  BY AdvanceEffect
<1>3. ~RetryLater(p) /\ ~Resume(p) /\ ~before_request(p) /\ ~Begin(p) /\ ~Poll(p)
  BY <1>1, <1>2 DEF RetryLater, Sleep, Resume, before_request, Begin, Poll, Labels
<1>4. ~FetchStep(p)
  BY <1>1, <1>2, <1>3 DEF FetchStep, PostToIChef, IChefFails, IChefAnswersNonsense,
     IChefBreaksOff, HoursReceived, ItemsReceived, Labels
<1>5. ~PostToLine(p)
  BY DEF PostToLine, Become, TypeOK
<1>6. ~BroadcastStep(p)
  BY <1>1, <1>3, <1>5 DEF BroadcastStep, LineFails, LineRaises, LineBreaksOff,
     LineConfirms
<1>7. \A key : ~broadcast(p, key)
  BY <1>1, <1>2 DEF broadcast, Labels
<1>8. ~EvaluateManual(p) /\ ~CrossedMidnight(p) /\ ~StartedTooLate(p)
      /\ ~RecheckDeadline(p)
  BY <1>1, <1>2, <1>7 DEF EvaluateManual, CrossedMidnight, StartedTooLate,
     RecheckDeadline, Labels
<1>9. ~EvaluatePreview(p)
  BY <1>1 DEF EvaluatePreview, TypeOK, Runs, Menus
<1> QED
  BY <1>3, <1>4, <1>6, <1>8, <1>9 DEF JobStep

LEMMA JobWakes ==
  ASSUME TypeOK, WindowInvariant, NEW p \in Proc, JobStep(p)
  PROVE  WakesInTime(p)'
<1> SUFFICES ASSUME pc'[p] = "waiting" PROVE WakesInTime(p)'
  BY DEF WakesInTime
<1>1. /\ now \in Nat /\ date(now) \in Nat /\ time(now) \in Nat
      /\ now = 86400 * date(now) + time(now)
  BY InstantsAreNat, Division
<1>2. CASE WaitForWindow(p)
  <2>1. now < date(now) * 86400 + 49200
    BY <1>1, <1>2, OpeningWait
  <2> QED
    BY <1>2, <2>1, OpeningWait DEF WakesInTime, DAY, START_TIME
<1>3. CASE EvaluateAutomatic(p)
  <2>1. CASE run[p].date < date(now) \/ time(now) >= 54000
    BY <1>1, <1>3, <2>1, PollWait DEF WakesInTime
  <2>2. CASE run[p].date = date(now) /\ time(now) < 54000
    <3>1. ~(now < date(now) * 86400 + 49200)
      BY <1>1, <1>3, <2>2, PollWait
    <3> QED
      BY <1>3, <2>2, <3>1, PollWait DEF WakesInTime, DAY, START_TIME, DEADLINE
  <2> QED
    BY <1>1, <1>3, <2>1, <2>2, PollWait
<1> QED
  BY <1>2, <1>3, WaitBegins

LEMMA WakesStep ==
  ASSUME TypeOK, WindowInvariant, \A p \in Proc : WakesInTime(p), [Next]_vars
  PROVE  \A p \in Proc : WakesInTime(p)'
<1>1. now \in Nat /\ now' \in Nat
  BY InstantsAreNat, StepType, InstantsAssumption DEF TypeOK
<1>2. ASSUME NEW p \in Proc, WakesInTime(p)', OthersStay(p), now' = now
      PROVE  \A q \in Proc : WakesInTime(q)'
  BY <1>2 DEF OthersStay, WakesInTime
<1>3. ASSUME NEW p \in Proc, NEW e, Finish(p, e) PROVE \A q \in Proc : WakesInTime(q)'
  BY <1>2, <1>3, FinishEffect DEF WakesInTime
<1>4. ASSUME NEW p \in Proc, Launch(p) PROVE \A q \in Proc : WakesInTime(q)'
  <2>1. OthersStay(p) /\ now' = now
    BY <1>4, LaunchDays
  <2>2. pc'[p] # "waiting"
    <3>1. \A r : Advance(p, "lock", r) => pc'[p] = "lock"
      BY AdvanceEffect
    <3>2. \A r : Advance(p, "guard", r) => pc'[p] = "guard"
      BY AdvanceEffect
    <3>3. LaunchManual(p) => \E r : Advance(p, "lock", r)
      BY DEF LaunchManual
    <3>4. LaunchPreview(p) => \E r : Advance(p, "guard", r)
      BY DEF LaunchPreview
    <3>5. Reject(p) => pc'[p] = "done"
      BY FinishEffect DEF Reject
    <3> QED
      BY <1>4, <3>1, <3>2, <3>3, <3>4, <3>5 DEF Launch, LaunchAutomatic
  <2> QED
    BY <1>2, <2>1, <2>2 DEF WakesInTime
<1>5. ASSUME NEW p \in Proc, AcquireLock(p) PROVE \A q \in Proc : WakesInTime(q)'
  <2>1. pc'[p] = "begin" /\ OthersStay(p) /\ now' = now
    BY <1>5 DEF AcquireLock, Become, OthersStay, TypeOK
  <2> QED
    BY <1>2, <2>1 DEF WakesInTime
<1>6. ASSUME NEW p \in Proc, JobStep(p) PROVE \A q \in Proc : WakesInTime(q)'
  <2>1. OthersStay(p) /\ now' = now
    <3>1. CASE LoopHead(p)
      BY <1>6, <3>1, BeginDays, LoopDays DEF LoopHead, WindowInvariant
    <3>2. CASE ~LoopHead(p)
      BY <1>6, <3>2, OnwardStep DEF Onward
    <3> QED
      BY <3>1, <3>2
  <2> QED
    BY <1>2, <1>6, <2>1, JobWakes
<1>7. CASE LineStep
  <2>1. PICK m \in requests, answer \in Answers : Reply(m, answer)
    BY <1>7, LineCases
  <2>2. pc' = pc /\ now' = now
    BY <2>1 DEF Reply
  <2>3. \A p \in Proc : run'[p] = run[p] \/ pc[p] = "reply"
    BY <2>1, ReplyEffect DEF AwaitsAnswer
  <2> QED
    BY <2>2, <2>3 DEF WakesInTime
<1>8. CASE Tick \/ UNCHANGED vars
  <2>1. pc' = pc /\ run' = run /\ now <= now'
    BY <1>1, <1>8, InstantsAssumption DEF Tick, vars
  <2> QED
    BY <1>1, <2>1, SleepersSleepOn
<1> QED
  BY <1>3, <1>4, <1>5, <1>6, <1>7, <1>8
     DEF Next, Step, SkipBusy, LockUnusable, Die, Ended

\* The wait for the window ends by 13:40 and the wait for the next poll by
\* 15:00 (_seconds_until bounds both), also where the clock moved between the
\* last check and the sleep.
THEOREM NoWaitTooLong == Spec => []NoOversleeping
<1> DEFINE Inv == \A p \in Proc : WakesInTime(p)
<1>1. Init => Inv
  BY DEF Init, WakesInTime
<1>2. TypeOK /\ WindowInvariant /\ Inv /\ [Next]_vars => Inv'
  BY WakesStep
<1>3. TypeOK /\ Inv => NoOversleeping
  <2> SUFFICES ASSUME TypeOK, Inv, NEW p \in Proc
               PROVE  pc[p] = "waiting" /\ date(now) = run[p].date =>
                        \/ run[p].wake <= now
                        \/ run[p].wake <= run[p].date * DAY +
                             (IF time(now) < START_TIME THEN START_TIME ELSE DEADLINE)
    BY DEF NoOversleeping
  <2>1. PICK d \in Nat, u \in Nat, t \in Nat :
          d = date(now) /\ u = now /\ t = time(now) /\ u = 86400 * d + t
    BY InstantsAreNat, Division
  <2>2. u < d * DAY + START_TIME <=> t < START_TIME
    BY <2>1 DEF DAY, START_TIME
  <2>3. ~(d < d)
    BY <2>1
  <2> QED
    BY <2>1, <2>2, <2>3 DEF WakesInTime
<1> QED
  BY <1>1, <1>2, <1>3, WindowInvariance, PTL DEF Spec

-----------------------------------------------------------------------------
\* The number of steps left is smaller after each move of a run within a poll.
LEMMA StepsAreNat ==
  ASSUME NEW l \in Labels, NEW o \in Operations, NEW a \in 1..max_attempts
  PROVE  StepsFrom(l, o, a) \in Nat /\ (l \notin {"idle", "done"} => StepsFrom(l, o, a) > 0)
<1>1. PICK n \in Nat : n = max_attempts
  BY AttemptsAssumption
<1>2. a \in Int /\ 1 <= a /\ a <= n
  BY <1>1
<1>3. 4 * (n - a) \in Nat /\ 4 * n \in Nat
  BY <1>2
<1> QED
  BY <1>1, <1>3 DEF StepsFrom, Operations, Labels

LEMMA RequestSteps ==
  ASSUME NEW o \in Operations, NEW a \in 1..max_attempts
  PROVE  /\ StepsFrom("guard", o, a) < StepsFrom("backoff", o, a)
         /\ StepsFrom("post", o, a) < StepsFrom("guard", o, a)
         /\ StepsFrom("reply", o, a) < StepsFrom("post", o, a)
         /\ a < max_attempts => StepsFrom("backoff", o, a + 1) < StepsFrom("reply", o, a)
<1>1. PICK n \in Nat : n = max_attempts
  BY AttemptsAssumption
<1>2. a \in Int
  BY <1>1
<1>3. 4 * (n - (a + 1)) + 4 = 4 * (n - a)
  BY <1>2
<1>4. 4 * (n - a) \in Int /\ 4 * n \in Int /\ 4 * (n - (a + 1)) \in Int
  BY <1>2
<1> QED
  BY <1>1, <1>3, <1>4 DEF StepsFrom, Operations

\* From a request to the next one, and from one stage of a run to the next.
LEMMA StageSteps ==
  ASSUME NEW o \in Operations, NEW a \in 1..max_attempts
  PROVE  /\ o # "line" => StepsFrom("fetched", o, a) < StepsFrom("reply", o, a)
         /\ o = "hours" => StepsFrom("guard", "items", 1) < StepsFrom("reply", o, a)
         /\ StepsFrom("checked", o, a) < StepsFrom("fetched", o, a)
         /\ StepsFrom("guard", "line", 1) < StepsFrom("checked", o, a)
         /\ 2 < StepsFrom("checked", o, a) /\ 1 < StepsFrom("loop", o, a)
         /\ StepsFrom("guard", o, a) < StepsFrom("loop", o, a)
         /\ StepsFrom("guard", "hours", 1) < StepsFrom("loop", o, a)
         /\ StepsFrom("loop", o, a) < StepsFrom("waiting", o, a)
         /\ StepsFrom("loop", o, a) < StepsFrom("begin", o, a)
         /\ StepsFrom("guard", o, a) < StepsFrom("begin", o, a)
         /\ StepsFrom("begin", o, a) < StepsFrom("lock", o, a)
<1>1. PICK n \in Nat : n = max_attempts
  BY AttemptsAssumption
<1>2. a \in Int /\ 1 <= a /\ a <= n
  BY <1>1
<1>3. /\ 0 <= 4 * (n - a) /\ 4 * (n - a) + 4 <= 4 * n
      /\ 4 * (n - 1) + 4 = 4 * n
  BY <1>2
<1>4. 4 * (n - a) \in Int /\ 4 * n \in Int /\ 4 * (n - 1) \in Int
  BY <1>2
<1> QED
  BY <1>1, <1>3, <1>4 DEF StepsFrom, Operations

LEMMA TimeLeftIsNat ==
  ASSUME TypeOK, NEW p \in Proc
  PROVE  TimeLeft(p) \in Nat /\ StepsLeft(p) \in Nat
<1>1. run[p].date \in Int /\ run[p].wake \in Int /\ now \in Int
  BY InstantsAreNat DEF TypeOK, Runs, Dates, NoDate
<1>2. TimeLeft(p) \in Nat
  BY <1>1 DEF TimeLeft, From, AtLeastZero, DAY, DEADLINE
<1>3. StepsLeft(p) \in Nat
  BY StepsAreNat DEF StepsLeft, TypeOK, Runs
<1> QED
  BY <1>2, <1>3

\* Nothing is special about the steps of a run that is not at the loop or on
\* its way there.
LEMMA StepsWithin ==
  ASSUME NEW p \in Proc, pc[p] \notin {"waiting", "loop"}
  PROVE  StepsLeft(p) = StepsFrom(pc[p], run[p].op, run[p].attempt)
BY DEF StepsLeft

LEMMA StepsOfLive ==
  ASSUME TypeOK, NEW p \in Proc, pc[p] \notin {"idle", "done"}
  PROVE  StepsLeft(p) > 0
<1>1. StepsFrom(pc[p], run[p].op, run[p].attempt) > 0
  BY StepsAreNat DEF TypeOK, Runs
<1> QED
  BY <1>1 DEF StepsLeft

-----------------------------------------------------------------------------
\* A run that ends has nothing left.
LEMMA EndComesCloser ==
  ASSUME TypeOK, NEW p \in Proc, pc[p] \notin {"idle", "done"}, NEW e, Finish(p, e)
  PROVE  ComesCloser(p)
<1>1. pc'[p] = "done"
  BY FinishEffect
<1>2. TimeLeft(p)' = 0 /\ StepsLeft(p)' = 0
  BY <1>1 DEF TimeLeft, StepsLeft, StepsFrom
<1>3. StepsLeft(p) > 0
  BY StepsOfLive
<1>4. TimeLeft(p) \in Nat
  BY TimeLeftIsNat
<1> QED
  BY <1>2, <1>3, <1>4 DEF ComesCloser

\* At the same instant, on the same day and awake, only the steps count.
LEMMA StepComesCloser ==
  ASSUME TypeOK, NEW p \in Proc, now' = now,
         run'[p].mode = run[p].mode, run'[p].date = run[p].date,
         {pc[p], pc'[p]} \cap {"waiting", "done"} = {},
         StepsFrom(pc'[p], run'[p].op, run'[p].attempt) < StepsLeft(p)
  PROVE  ComesCloser(p)
<1>1. TimeLeft(p)' = TimeLeft(p)
  BY DEF TimeLeft, From, Automatic
<1>2. CASE pc'[p] # "loop"
  <2>1. StepsLeft(p)' = StepsFrom(pc'[p], run'[p].op, run'[p].attempt)
    BY <1>2 DEF StepsLeft
  <2> QED
    BY <1>1, <2>1 DEF ComesCloser
<1>3. CASE pc'[p] = "loop"
  <2>1. StepsLeft(p)' \in {1, StepsFrom("loop", run'[p].op, run'[p].attempt)}
    BY <1>3 DEF StepsLeft
  <2>2. /\ StepsFrom("loop", run'[p].op, run'[p].attempt) \in Nat
        /\ 1 < StepsFrom("loop", run'[p].op, run'[p].attempt)
    BY AttemptsAssumption DEF StepsFrom
  <2>3. StepsLeft(p) \in Nat
    BY TimeLeftIsNat
  <2>4. StepsLeft(p)' < StepsLeft(p)
    BY <1>3, <2>1, <2>2, <2>3
  <2> QED
    BY <1>1, <2>4 DEF ComesCloser
<1> QED
  BY <1>2, <1>3

LEMMA AdvanceComesCloser ==
  ASSUME TypeOK, NEW p \in Proc, NEW l \in Labels \ {"waiting", "done"}, NEW r,
         Advance(p, l, r), pc[p] \notin {"waiting", "done"},
         r.mode = run[p].mode, r.date = run[p].date,
         StepsFrom(l, r.op, r.attempt) < StepsLeft(p)
  PROVE  ComesCloser(p)
<1>1. pc'[p] = l /\ run'[p] = r /\ now' = now
  BY AdvanceEffect
<1> QED
  BY <1>1, StepComesCloser

LEMMA RetryComesCloser ==
  ASSUME TypeOK, NEW p \in Proc, pc[p] = "reply", RetryLater(p)
  PROVE  ComesCloser(p)
<1> DEFINE s == [run[p] EXCEPT !.attempt = @ + 1, !.answer = "none"]
           r == [s EXCEPT !.wake = now + _retry_delay(run[p].attempt)]
<1>1. run[p] \in Runs /\ run[p].op \in Operations /\ run[p].attempt \in 1..max_attempts
  BY DEF TypeOK, Runs
<1>2. /\ s.mode = run[p].mode /\ s.date = run[p].date /\ s.op = run[p].op
      /\ s.attempt = run[p].attempt + 1
  BY <1>1 DEF Runs
<1>3. r.mode = s.mode /\ r.date = s.date /\ r.op = s.op /\ r.attempt = s.attempt
  BY <1>1 DEF Runs
<1>4. Advance(p, "backoff", r) /\ run[p].attempt < max_attempts
  BY DEF RetryLater, Sleep
<1>5. StepsFrom("backoff", run[p].op, run[p].attempt + 1) < StepsLeft(p)
  BY <1>1, <1>4, RequestSteps, StepsWithin
<1> HIDE DEF s, r
<1> QED
  BY <1>2, <1>3, <1>4, <1>5, AdvanceComesCloser DEF Labels

LEMMA BroadcastComesCloser ==
  ASSUME TypeOK, NEW p \in Proc, pc[p] \in {"fetched", "checked"},
         NEW key, broadcast(p, key)
  PROVE  ComesCloser(p)
<1> DEFINE s == [run[p] EXCEPT !.key = key]
           r == Attempt(s, "line")
<1>1. run[p] \in Runs /\ run[p].op \in Operations /\ run[p].attempt \in 1..max_attempts
  BY DEF TypeOK, Runs
<1>2. s.mode = run[p].mode /\ s.date = run[p].date
  BY <1>1 DEF Runs
<1>3. r.mode = s.mode /\ r.date = s.date /\ r.op = "line" /\ r.attempt = 1
  BY <1>1 DEF Runs, Attempt
<1>4. StepsFrom("guard", "line", 1) < StepsLeft(p)
  <2>1. /\ StepsFrom("guard", "line", 1) \in Nat
        /\ StepsFrom("checked", run[p].op, run[p].attempt) \in Nat
        /\ StepsFrom("fetched", run[p].op, run[p].attempt) \in Nat
    BY <1>1, StepsAreNat, AttemptsAssumption DEF Labels, Operations
  <2> QED
    BY <1>1, <2>1, StageSteps, StepsWithin
<1>5. Finish(p, "too_long") \/ Advance(p, "guard", r)
  BY DEF broadcast
<1> HIDE DEF s, r
<1> QED
  BY <1>2, <1>3, <1>4, <1>5, AdvanceComesCloser, EndComesCloser DEF Labels

LEMMA FetchComesCloser ==
  ASSUME TypeOK, NEW p \in Proc, FetchStep(p)
  PROVE  ComesCloser(p)
<1>1. run[p] \in Runs /\ run[p].op \in Operations /\ run[p].attempt \in 1..max_attempts
  BY DEF TypeOK, Runs
<1>2. ASSUME Fetching(p), NEW menu, Advance(p, "fetched", [run[p] EXCEPT !.menu = menu])
      PROVE  ComesCloser(p)
  <2> DEFINE r == [run[p] EXCEPT !.menu = menu]
  <2>1. r.mode = run[p].mode /\ r.date = run[p].date /\ r.op = run[p].op
        /\ r.attempt = run[p].attempt
    BY <1>1 DEF Runs
  <2>2. StepsFrom("fetched", run[p].op, run[p].attempt) < StepsLeft(p)
    BY <1>1, <1>2, StageSteps, StepsWithin DEF Fetching
  <2>3. Advance(p, "fetched", r)
    BY <1>2
  <2> HIDE DEF r
  <2> QED
    BY <1>2, <2>1, <2>2, <2>3, AdvanceComesCloser DEF Labels, Fetching
<1>3. CASE PostToIChef(p)
  BY <1>1, <1>3, RequestSteps, StepsWithin, AdvanceComesCloser DEF PostToIChef, Labels
<1>4. CASE IChefFails(p)
  BY <1>2, <1>4, RetryComesCloser, EndComesCloser DEF IChefFails, Fetching
<1>5. CASE IChefAnswersNonsense(p) \/ IChefBreaksOff(p)
  BY <1>5, EndComesCloser DEF IChefAnswersNonsense, IChefBreaksOff, Fetching
<1>6. CASE HoursReceived(p)
  <2> DEFINE r == Attempt(run[p], "items")
  <2>1. r.mode = run[p].mode /\ r.date = run[p].date /\ r.op = "items" /\ r.attempt = 1
    BY <1>1 DEF Runs, Attempt
  <2>2. StepsFrom("guard", "items", 1) < StepsLeft(p)
    BY <1>1, <1>6, StageSteps, StepsWithin DEF HoursReceived, Fetching
  <2>3. CASE Advance(p, "guard", r)
    <3> HIDE DEF r
    <3> QED
      BY <1>6, <2>1, <2>2, <2>3, AdvanceComesCloser DEF Labels, HoursReceived, Fetching
  <2> QED
    BY <1>2, <1>6, <2>3 DEF HoursReceived
<1>7. CASE ItemsReceived(p)
  BY <1>2, <1>7 DEF ItemsReceived
<1> QED
  BY <1>3, <1>4, <1>5, <1>6, <1>7 DEF FetchStep

LEMMA SendComesCloser ==
  ASSUME TypeOK, NEW p \in Proc, BroadcastStep(p)
  PROVE  ComesCloser(p)
<1>1. CASE PostToLine(p)
  <2>1. pc[p] = "post" /\ pc'[p] = "reply" /\ run'[p] = run[p] /\ now' = now
    BY <1>1 DEF PostToLine, Become, TypeOK
  <2>2. StepsFrom("reply", run[p].op, run[p].attempt) < StepsLeft(p)
    BY <2>1, RequestSteps, StepsWithin DEF TypeOK, Runs
  <2> QED
    BY <2>1, <2>2, StepComesCloser
<1> QED
  BY <1>1, RetryComesCloser, EndComesCloser
     DEF BroadcastStep, LineFails, LineRaises, LineBreaksOff, LineConfirms, AwaitingLine

LEMMA GuardComesCloser ==
  ASSUME TypeOK, NEW p \in Proc, before_request(p) \/ Begin(p)
  PROVE  ComesCloser(p)
<1>1. run[p] \in Runs /\ run[p].op \in Operations /\ run[p].attempt \in 1..max_attempts
  BY DEF TypeOK, Runs
<1>2. CASE before_request(p)
  BY <1>1, <1>2, RequestSteps, StepsWithin, AdvanceComesCloser, EndComesCloser
     DEF before_request, Labels
<1>3. CASE Begin(p)
  <2>1. ASSUME NEW l \in {"loop", "guard"}, NEW r, Advance(p, l, r),
               r.mode = run[p].mode, r.date = run[p].date,
               r.op = run[p].op, r.attempt = run[p].attempt
        PROVE  ComesCloser(p)
    <3>1. pc[p] = "begin"
      BY <1>3 DEF Begin
    <3>2. StepsFrom(l, run[p].op, run[p].attempt) < StepsLeft(p)
      BY <1>1, <3>1, StageSteps, StepsWithin
    <3> QED
      BY <2>1, <3>1, <3>2, AdvanceComesCloser DEF Labels
  <2>2. CASE Advance(p, "loop", [run[p] EXCEPT !.run_day = date(now)])
    BY <1>1, <2>1, <2>2 DEF Runs
  <2>3. CASE Advance(p, "guard",
          [run[p] EXCEPT !.key = IF @ = NoKey THEN manual_retry_key(p) ELSE @])
    BY <1>1, <2>1, <2>3 DEF Runs
  <2> QED
    BY <1>3, <2>2, <2>3 DEF Begin
<1> QED
  BY <1>2, <1>3

\* What is left of the day when the loop knows its date, and before.
LEMMA LoopTime ==
  ASSUME TypeOK, NEW p \in Proc, pc[p] = "loop", Today(p) = date(now), Automatic(p)
  PROVE  \/ run[p].date = NoDate /\ TimeLeft(p) = 54001
         \/ /\ run[p].date = date(now)
            /\ TimeLeft(p) = AtLeastZero(date(now) * 86400 + 54000 - now)
<1>1. date(now) # NoDate
  BY InstantsAreNat, Division DEF NoDate
<1>2. CASE run[p].date = NoDate
  <2>1. TimeLeft(p) = DEADLINE + 1
    BY <1>2 DEF TimeLeft
  <2> QED
    BY <1>2, <2>1 DEF DEADLINE
<1>3. CASE run[p].date # NoDate
  <2>1. run[p].date = date(now)
    BY <1>3 DEF Today
  <2>2. pc[p] # "done" /\ pc[p] # "waiting"
    OBVIOUS
  <2>3. TimeLeft(p) = AtLeastZero(run[p].date * DAY + DEADLINE - From(p)) /\ From(p) = now
    BY <1>3, <2>2 DEF TimeLeft, From
  <2> QED
    BY <2>1, <2>3 DEF DAY, DEADLINE
<1> QED
  BY <1>2, <1>3

\* The first poll fixes the date.
LEMMA PollComesCloser ==
  ASSUME TypeOK, NEW p \in Proc, Poll(p), Automatic(p)
  PROVE  ComesCloser(p)
<1> DEFINE s == [run[p] EXCEPT !.date = Today(p)]
           r == Attempt(s, "hours")
<1>1. run[p] \in Runs /\ run[p].op \in Operations /\ run[p].attempt \in 1..max_attempts
  BY DEF TypeOK, Runs
<1>2. s.mode = run[p].mode /\ s.date = Today(p)
  BY <1>1 DEF Runs
<1>3. r.mode = s.mode /\ r.date = s.date /\ r.op = "hours" /\ r.attempt = 1
  BY <1>1 DEF Runs, Attempt
<1>4. pc[p] = "loop" /\ Today(p) = date(now) /\ Advance(p, "guard", r)
  BY DEF Poll, InWindow
<1> HIDE DEF s, r
<1>5. pc'[p] = "guard" /\ run'[p] = r /\ now' = now
  BY <1>4, AdvanceEffect
<1>6. date(now) # NoDate /\ now \in Nat /\ date(now) \in Nat /\ time(now) \in Nat
      /\ now = 86400 * date(now) + time(now) /\ time(now) < 54000
  BY InstantsAreNat, Division DEF NoDate, Poll, InWindow, DEADLINE
<1>7. TimeLeft(p) # 0
  BY <1>4, <1>6, LoopTime DEF AtLeastZero
<1>8. TimeLeft(p)' = AtLeastZero(date(now) * 86400 + 54000 - now)
  BY <1>2, <1>3, <1>4, <1>5, <1>6 DEF TimeLeft, From, Automatic, DEADLINE, DAY
<1>9. AtLeastZero(date(now) * 86400 + 54000 - now) < 54001
  BY <1>6 DEF AtLeastZero
<1>10. StepsLeft(p)' < StepsLeft(p)
  <2>1. StepsLeft(p) = StepsFrom("loop", run[p].op, run[p].attempt)
    BY <1>4, <1>7 DEF StepsLeft
  <2>2. StepsLeft(p)' = StepsFrom("guard", "hours", 1)
    BY <1>3, <1>5 DEF StepsLeft
  <2> QED
    BY <1>1, <2>1, <2>2, StageSteps
<1> QED
  BY <1>4, <1>8, <1>9, <1>10, LoopTime DEF ComesCloser

\* A sleep that ends later than now takes of the time of its day; ...
LEMMA LongerSleep ==
  ASSUME TypeOK, NEW p \in Proc, Automatic(p), now' = now, pc'[p] = "waiting",
         run'[p].mode = run[p].mode, run'[p].date = date(now), run'[p].wake \in Nat,
         now < run'[p].wake, time(now) < 54000,
         \/ TimeLeft(p) = 54001
         \/ TimeLeft(p) = AtLeastZero(date(now) * 86400 + 54000 - now)
  PROVE  TimeLeft(p)' < TimeLeft(p)
<1>1. /\ now \in Nat /\ date(now) \in Nat /\ time(now) \in Nat
      /\ now = 86400 * date(now) + time(now) /\ date(now) # NoDate
  BY InstantsAreNat, Division DEF NoDate
<1>2. PICK w \in Nat : w = run'[p].wake /\ now < w
  OBVIOUS
<1>3. TimeLeft(p)' = AtLeastZero(date(now) * 86400 + 54000 - w)
  <2>1. pc'[p] # "done" /\ Automatic(p)' /\ run'[p].date # NoDate
    BY <1>1 DEF Automatic
  <2>2. TimeLeft(p)' = AtLeastZero(run'[p].date * DAY + DEADLINE - From(p)')
    BY <2>1 DEF TimeLeft
  <2>3. From(p)' = w
    BY <1>2 DEF From
  <2> QED
    BY <2>2, <2>3 DEF DAY, DEADLINE
<1>4. /\ AtLeastZero(date(now) * 86400 + 54000 - w) < 54001
      /\ AtLeastZero(date(now) * 86400 + 54000 - w)
           < AtLeastZero(date(now) * 86400 + 54000 - now)
  BY <1>1, <1>2 DEF AtLeastZero
<1> QED
  BY <1>3, <1>4

LEMMA OpeningComesCloser ==
  ASSUME TypeOK, NEW p \in Proc, Automatic(p), WaitForWindow(p)
  PROVE  ComesCloser(p)
<1>1. pc'[p] = "waiting"
  BY AdvanceEffect DEF WaitForWindow, Sleep
<1>2. run'[p].wake \in Nat
  BY StepType DEF Next, Step, JobStep, TypeOK, Runs
<1>3. time(now) < 54000
  BY OpeningWait, InstantsAreNat, Division
<1>4. \/ TimeLeft(p) = 54001
      \/ TimeLeft(p) = AtLeastZero(date(now) * 86400 + 54000 - now)
  BY LoopTime DEF WaitForWindow
<1> QED
  BY <1>1, <1>2, <1>3, <1>4, OpeningWait, LongerSleep DEF ComesCloser

\* ... and where no time of the day is left, two steps are.
LEMMA PollWaitComesCloser ==
  ASSUME TypeOK, WindowInvariant, NEW p \in Proc, Automatic(p),
         EvaluateAutomatic(p), pc'[p] = "waiting"
  PROVE  ComesCloser(p)
<1>0. /\ now' = now /\ run'[p].mode = run[p].mode /\ run'[p].date = run[p].date
      /\ time(now) < 54000 => now < run'[p].wake
      /\ run[p].date \in Nat /\ run[p].date <= date(now) /\ now <= run'[p].wake
  BY PollWait
<1>1. run'[p].wake \in Nat
  BY StepType DEF Next, Step, JobStep, TypeOK, Runs
<1>2. PICK d \in Nat, u \in Nat, w \in Nat, t \in Nat, e \in Nat :
        /\ d = run[p].date /\ u = now /\ w = run'[p].wake /\ t = time(now) /\ e = date(now)
        /\ d <= e /\ u = 86400 * e + t /\ u <= w
  BY <1>0, <1>1, InstantsAreNat, Division
<1>3. TimeLeft(p) = AtLeastZero(d * 86400 + 54000 - u)
  <2>1. pc[p] = "checked" /\ run[p].date # NoDate
    BY <1>2 DEF EvaluateAutomatic, NoDate
  <2> QED
    BY <1>2, <2>1 DEF TimeLeft, From, DEADLINE, DAY
<1>4. CASE d = e /\ t < 54000
  <2>1. /\ run'[p].date = date(now) /\ time(now) < 54000 /\ now' = now
        /\ run'[p].mode = run[p].mode /\ now < run'[p].wake
    BY <1>0, <1>2, <1>4
  <2>2. TimeLeft(p) = AtLeastZero(date(now) * 86400 + 54000 - now)
    BY <1>2, <1>3, <1>4
  <2>3. TimeLeft(p)' < TimeLeft(p)
    BY <1>1, <2>1, <2>2, LongerSleep
  <2> QED
    BY <2>3 DEF ComesCloser
<1>5. CASE d < e \/ t >= 54000
  <2>1. d * 86400 + 54000 - u <= 0 /\ d * 86400 + 54000 - w <= 0
    BY <1>2, <1>5
  <2>2. TimeLeft(p)' = AtLeastZero(d * 86400 + 54000 - w)
    <3>1. pc'[p] = "waiting" /\ Automatic(p)' /\ run'[p].date = d /\ d # NoDate
      BY <1>0, <1>2 DEF Automatic, NoDate
    <3> QED
      BY <1>2, <3>1 DEF TimeLeft, From, DEADLINE, DAY
  <2>3. TimeLeft(p) = 0 /\ TimeLeft(p)' = 0
    BY <1>2, <1>3, <2>1, <2>2 DEF AtLeastZero
  <2>4. StepsLeft(p)' = 2
    BY <2>3 DEF StepsLeft
  <2>5. StepsLeft(p) > 2
    BY StepsWithin, StageSteps DEF EvaluateAutomatic, TypeOK, Runs
  <2> QED
    BY <2>3, <2>4, <2>5, TimeLeftIsNat DEF ComesCloser
<1> QED
  BY <1>2, <1>4, <1>5

\* Who wakes up finds no more of the day left than when falling asleep.
LEMMA ResumeComesCloser ==
  ASSUME TypeOK, WindowInvariant, MessageInvariant, ClockReachesDeadline,
         NEW p \in Proc, Resume(p)
  PROVE  ComesCloser(p)
<1> DEFINE r == [run[p] EXCEPT !.wake = 0]
<1>1. run[p] \in Runs /\ run[p].op \in Operations /\ run[p].attempt \in 1..max_attempts
  BY DEF TypeOK, Runs
<1>2. /\ r.mode = run[p].mode /\ r.date = run[p].date
      /\ r.op = run[p].op /\ r.attempt = run[p].attempt
  BY <1>1 DEF Runs
<1>3. CASE pc[p] = "backoff" /\ Advance(p, "guard", r)
  <2>1. StepsFrom("guard", run[p].op, run[p].attempt) < StepsLeft(p)
    BY <1>1, <1>3, RequestSteps, StepsWithin
  <2> HIDE DEF r
  <2> QED
    BY <1>2, <1>3, <2>1, AdvanceComesCloser DEF Labels
<1>4. CASE pc[p] = "waiting" /\ Advance(p, "loop", r)
  <2> HIDE DEF r
  <2>1. pc'[p] = "loop" /\ run'[p] = r /\ now' = now
    BY <1>4, AdvanceEffect
  <2>2. TimeLeft(p)' = TimeLeft(p) => StepsLeft(p)' < StepsLeft(p)
    <3>1. CASE TimeLeft(p)' = TimeLeft(p) /\ TimeLeft(p) = 0
      <4>1. StepsLeft(p) = 2 /\ StepsLeft(p)' = 1
        BY <1>4, <2>1, <3>1 DEF StepsLeft
      <4> QED
        BY <4>1
    <3>2. CASE TimeLeft(p)' = TimeLeft(p) /\ TimeLeft(p) # 0
      <4>1. /\ StepsLeft(p) = StepsFrom("waiting", run[p].op, run[p].attempt)
            /\ StepsLeft(p)' = StepsFrom("loop", run[p].op, run[p].attempt)
        BY <1>2, <1>4, <2>1, <3>2 DEF StepsLeft
      <4> QED
        BY <1>1, <4>1, StageSteps
    <3> QED
      BY <3>1, <3>2
  <2>3. PICK w \in Nat, d \in Int, u \in Nat : w = run[p].wake /\ d = run[p].date /\ u = now
    BY <1>1, InstantsAreNat DEF Runs, Dates, NoDate
  <2>4. Automatic(p) /\ d # NoDate /\ d <= date(u)
    BY <1>4, <2>3 DEF MessageInvariant, Phases, WindowInvariant, DaysInOrder, Started, NoDate
  <2>5. w <= u \/ d * 86400 + 54000 <= u
    <3>1. CASE \A t \in Instants : t <= now
      <4>1. PICK v \in Instants : date(u) * 86400 + 54000 <= v
        BY <2>3 DEF TypeOK, ClockReachesDeadline, DAY, DEADLINE
      <4>2. v \in Nat /\ v <= u
        BY <2>3, <3>1, InstantsAssumption
      <4>3. date(u) \in Nat
        BY Division
      <4> QED
        BY <2>4, <4>1, <4>2, <4>3
    <3> QED
      BY <2>3, <3>1 DEF Resume, Awake
  <2>6. /\ TimeLeft(p) = AtLeastZero(d * 86400 + 54000 - w)
        /\ TimeLeft(p)' = AtLeastZero(d * 86400 + 54000 - u)
    BY <1>2, <1>4, <2>1, <2>3, <2>4 DEF TimeLeft, From, Automatic, DEADLINE, DAY
  <2>7. AtLeastZero(d * 86400 + 54000 - u) <= AtLeastZero(d * 86400 + 54000 - w)
    BY <2>5 DEF AtLeastZero
  <2>8. AtLeastZero(d * 86400 + 54000 - u) \in Int /\ AtLeastZero(d * 86400 + 54000 - w) \in Int
    BY DEF AtLeastZero
  <2> QED
    BY <2>2, <2>6, <2>7, <2>8 DEF ComesCloser
<1> QED
  BY <1>3, <1>4 DEF Resume

LEMMA JobComesCloser ==
  ASSUME TypeOK, WindowInvariant, MessageInvariant, ClockReachesDeadline,
         NEW p \in Proc, JobStep(p)
  PROVE  ComesCloser(p)
<1>1. Phases(p) /\ pc[p] \notin {"idle", "done"}
  BY JobShape DEF MessageInvariant
<1>2. CASE CrossedMidnight(p) \/ StartedTooLate(p)
  BY <1>1, <1>2, EndComesCloser DEF CrossedMidnight, StartedTooLate
<1>3. CASE WaitForWindow(p) \/ Poll(p)
  <2>1. Automatic(p)
    BY <1>1, <1>3 DEF WaitForWindow, Poll, Phases
  <2> QED
    BY <1>3, <2>1, OpeningComesCloser, PollComesCloser
<1>4. CASE EvaluateAutomatic(p)
  <2>1. ASSUME NEW r, NEW s, Sleep(p, "waiting", r, s) PROVE pc'[p] = "waiting"
    BY <2>1, AdvanceEffect DEF Sleep
  <2> QED
    BY <1>1, <1>4, <2>1, PollWaitComesCloser, BroadcastComesCloser
       DEF EvaluateAutomatic
<1>5. CASE EvaluateManual(p)
  BY <1>1, <1>5, EndComesCloser, BroadcastComesCloser DEF EvaluateManual
<1>6. CASE EvaluatePreview(p)
  BY <1>1, <1>6, EndComesCloser DEF EvaluatePreview
<1>7. CASE RecheckDeadline(p)
  <2>1. StepsFrom("checked", run[p].op, run[p].attempt) < StepsLeft(p)
    BY <1>7, StageSteps, StepsWithin DEF RecheckDeadline, TypeOK, Runs
  <2> QED
    BY <1>1, <1>7, <2>1, EndComesCloser, AdvanceComesCloser DEF RecheckDeadline, Labels
<1> QED
  BY <1>2, <1>3, <1>4, <1>5, <1>6, <1>7, GuardComesCloser, ResumeComesCloser,
     FetchComesCloser, SendComesCloser DEF JobStep

\* Every step of a run takes it to another place.
LEMMA JobMoves ==
  ASSUME TypeOK, NEW p \in Proc, JobStep(p)
  PROVE  pc'[p] # pc[p]
<1>1. \A e : Finish(p, e) => pc'[p] = "done"
  BY FinishEffect
<1>2. \A l, r : Advance(p, l, r) => pc'[p] = l
  BY AdvanceEffect
<1>3. /\ \A l, r, s : Sleep(p, l, r, s) => pc'[p] = l
      /\ RetryLater(p) => pc'[p] = "backoff"
      /\ \A key : broadcast(p, key) => pc'[p] \in {"guard", "done"}
  BY <1>1, <1>2 DEF Sleep, RetryLater, broadcast
<1>4. CASE Begin(p) \/ CrossedMidnight(p) \/ StartedTooLate(p) \/ WaitForWindow(p)
             \/ Poll(p) \/ before_request(p) \/ Resume(p)
  BY <1>1, <1>2, <1>3, <1>4 DEF Begin, CrossedMidnight, StartedTooLate, WaitForWindow,
     Poll, before_request, Resume
<1>5. CASE FetchStep(p)
  BY <1>1, <1>2, <1>3, <1>5 DEF FetchStep, Fetching, PostToIChef, IChefFails,
     IChefAnswersNonsense, IChefBreaksOff, HoursReceived, ItemsReceived
<1>6. CASE BroadcastStep(p)
  <2>1. PostToLine(p) => pc[p] = "post" /\ pc'[p] = "reply"
    BY DEF PostToLine, Become, TypeOK
  <2> QED
    BY <1>1, <1>3, <1>6, <2>1 DEF BroadcastStep, AwaitingLine, LineFails, LineRaises,
       LineBreaksOff, LineConfirms
<1>7. CASE RecheckDeadline(p) \/ EvaluateAutomatic(p) \/ EvaluateManual(p)
  BY <1>1, <1>2, <1>3, <1>7 DEF RecheckDeadline, EvaluateAutomatic, EvaluateManual
<1>8. CASE EvaluatePreview(p)
  BY <1>1, <1>8 DEF EvaluatePreview, TypeOK, Runs, Menus
<1> QED
  BY <1>4, <1>5, <1>6, <1>7, <1>8 DEF JobStep

\* The clock and LINE, and the steps of other runs, give no run more to do.
LEMMA OthersNoFurther ==
  ASSUME TypeOK, NEW p \in Proc, now' \in Nat, now <= now', pc'[p] = pc[p],
         \/ run'[p] = run[p]
         \/ \E answer \in Answers : run'[p] = [run[p] EXCEPT !.answer = answer]
  PROVE  NearerItsEnd(p)
<1>1. run[p] \in Runs
  BY DEF TypeOK
<1>2. /\ run'[p].mode = run[p].mode /\ run'[p].date = run[p].date
      /\ run'[p].op = run[p].op /\ run'[p].attempt = run[p].attempt
      /\ run'[p].wake = run[p].wake
  BY <1>1 DEF Runs
<1>3. TimeLeft(p)' = TimeLeft(p) => StepsLeft(p)' = StepsLeft(p)
  BY <1>2 DEF StepsLeft
<1>4. TimeLeft(p)' \in Int /\ TimeLeft(p)' <= TimeLeft(p)
  <2>1. PICK d \in Int, w \in Int, u \in Int, v \in Int :
          /\ d = run[p].date /\ w = run[p].wake /\ u = now /\ v = now'
          /\ u <= v
    BY <1>1, InstantsAreNat DEF Runs, Dates, NoDate
  <2>2. CASE ~Automatic(p) \/ pc[p] = "done"
    <3>1. TimeLeft(p) = 0 /\ TimeLeft(p)' = 0
      BY <1>2, <2>2 DEF TimeLeft, Automatic
    <3> QED
      BY <3>1
  <2>3. CASE Automatic(p) /\ pc[p] # "done" /\ run[p].date = NoDate
    <3>1. TimeLeft(p) = 54001 /\ TimeLeft(p)' = 54001
      BY <1>2, <2>3 DEF TimeLeft, Automatic, DEADLINE
    <3> QED
      BY <3>1
  <2>4. CASE Automatic(p) /\ pc[p] # "done" /\ run[p].date # NoDate
    <3>1. Automatic(p)' /\ pc'[p] # "done" /\ run'[p].date # NoDate
      BY <1>2, <2>4 DEF Automatic
    <3>2. PICK f \in Int, g \in Int : f = From(p) /\ g = From(p)' /\ f <= g
      <4>1. CASE pc[p] = "waiting"
        BY <1>2, <2>1, <4>1 DEF From
      <4>2. CASE pc[p] # "waiting"
        BY <2>1, <4>2 DEF From
      <4> QED
        BY <4>1, <4>2
    <3>3. /\ TimeLeft(p) = AtLeastZero(d * 86400 + 54000 - f)
          /\ TimeLeft(p)' = AtLeastZero(d * 86400 + 54000 - g)
      BY <1>2, <2>1, <2>4, <3>1, <3>2 DEF TimeLeft, DEADLINE, DAY
    <3>4. /\ AtLeastZero(d * 86400 + 54000 - g) \in Int
          /\ AtLeastZero(d * 86400 + 54000 - g) <= AtLeastZero(d * 86400 + 54000 - f)
      BY <3>2 DEF AtLeastZero
    <3> QED
      BY <3>3, <3>4
  <2> QED
    BY <2>2, <2>3, <2>4
<1> QED
  BY <1>3, <1>4, TimeLeftIsNat DEF NearerItsEnd, ComesCloser

LEMMA EveryStepCounts ==
  ASSUME TypeOK, WindowInvariant, MessageInvariant, ClockReachesDeadline, [Next]_vars
  PROVE  \A p \in Proc : NearerItsEnd(p)
<1>1. now \in Nat /\ now' \in Nat
  BY InstantsAreNat, StepType, InstantsAssumption DEF TypeOK
<1>2. ASSUME NEW p \in Proc, NearerItsEnd(p), OthersStay(p), now' = now
      PROVE  \A q \in Proc : NearerItsEnd(q)
  <2>1. \A q \in Proc \ {p} : NearerItsEnd(q)
    BY <1>1, <1>2, OthersNoFurther DEF OthersStay
  <2> QED
    BY <1>2, <2>1
<1>3. ASSUME NEW p \in Proc, NEW e, Finish(p, e), pc[p] \notin {"idle", "done"}
      PROVE  \A q \in Proc : NearerItsEnd(q)
  <2>1. pc'[p] = "done" /\ OthersStay(p) /\ now' = now
    BY <1>3, FinishEffect
  <2> QED
    BY <1>2, <1>3, <2>1, EndComesCloser DEF NearerItsEnd
<1>4. ASSUME NEW p \in Proc, Launch(p) PROVE \A q \in Proc : NearerItsEnd(q)
  <2>1. OthersStay(p) /\ now' = now
    BY <1>4, LaunchDays
  <2>2. pc[p] = "idle"
    BY <1>4 DEF Launch, LaunchAutomatic, LaunchManual, LaunchPreview, Reject
  <2> QED
    BY <1>2, <2>1, <2>2 DEF NearerItsEnd
<1>5. ASSUME NEW p \in Proc, AcquireLock(p) PROVE \A q \in Proc : NearerItsEnd(q)
  <2>1. /\ pc[p] = "lock" /\ pc'[p] = "begin" /\ run'[p] = run[p]
        /\ OthersStay(p) /\ now' = now
    BY <1>5 DEF AcquireLock, Become, OthersStay, TypeOK
  <2>2. StepsFrom("begin", run[p].op, run[p].attempt) < StepsLeft(p)
    BY <2>1, StageSteps DEF StepsLeft, TypeOK, Runs
  <2>3. ComesCloser(p)
    BY <2>1, <2>2, StepComesCloser
  <2> QED
    BY <1>2, <2>1, <2>3 DEF NearerItsEnd
<1>6. ASSUME NEW p \in Proc, JobStep(p) PROVE \A q \in Proc : NearerItsEnd(q)
  <2>1. OthersStay(p) /\ now' = now
    <3>1. CASE LoopHead(p)
      BY <1>6, <3>1, BeginDays, LoopDays DEF LoopHead, WindowInvariant
    <3>2. CASE ~LoopHead(p)
      BY <1>6, <3>2, OnwardStep DEF Onward
    <3> QED
      BY <3>1, <3>2
  <2> QED
    BY <1>2, <1>6, <2>1, JobMoves, JobComesCloser DEF NearerItsEnd
<1>7. CASE LineStep
  <2>1. PICK m \in requests, answer \in Answers : Reply(m, answer)
    BY <1>7, LineCases
  <2>2. pc' = pc /\ now' = now
    BY <2>1 DEF Reply
  <2>3. \A p \in Proc : \/ run'[p] = run[p]
                        \/ run'[p] = [run[p] EXCEPT !.answer = answer]
    BY <2>1 DEF Reply, TypeOK
  <2> QED
    BY <1>1, <2>2, <2>3, OthersNoFurther
<1>8. CASE Tick \/ UNCHANGED vars
  <2>1. pc' = pc /\ run' = run /\ now <= now'
    BY <1>1, <1>8, InstantsAssumption DEF Tick, vars
  <2> QED
    BY <1>1, <2>1, OthersNoFurther
<1> QED
  BY <1>3, <1>4, <1>5, <1>6, <1>7, <1>8
     DEF Next, Step, SkipBusy, LockUnusable, Die, Ended

\* If the clock reaches the deadline of each day it shows, every step of a run
\* brings it closer to its end, by numbers that are natural, and nothing the
\* clock, LINE or another run does takes it back: a run polls, retries and
\* sleeps finitely often (run, _run_automatic, retry loops of ichef and line).
THEOREM EveryRunRunsOut ==
  ASSUME ClockReachesDeadline
  PROVE  Spec => StepsRunOut /\ [](\A p \in Proc : TimeLeft(p) \in Nat /\ StepsLeft(p) \in Nat)
<1> DEFINE Counted == \A p \in Proc : TimeLeft(p) \in Nat /\ StepsLeft(p) \in Nat
<1>1. TypeOK => Counted
  BY TimeLeftIsNat
<1>2. TypeOK /\ WindowInvariant /\ MessageInvariant /\ [Next]_vars =>
        [\A p \in Proc : NearerItsEnd(p)]_vars
  BY EveryStepCounts
<1> HIDE DEF Counted
<1> QED
  BY <1>1, <1>2, DeliveryInvariance, PTL DEF Spec, StepsRunOut, Counted

-----------------------------------------------------------------------------
\* A run that is refused the lock is over.
RefusalInvariant == \A p \in Proc : run[p].ending = "skipped" => pc[p] = "done"

Refused == {p \in Proc : run[p].ending = "skipped"}

\* A launched run has no ending, or is rejected at once.
LEMMA LaunchEnding ==
  ASSUME TypeOK, NEW p \in Proc, Launch(p)
  PROVE  /\ pc[p] = "idle" /\ run'[p].ending \in {"none", "rejected"}
         /\ OthersStay(p) /\ (holders' = holders \/ Ends(p))
<1>1. CASE Reject(p)
  BY <1>1, FinishEnding, FinishShape DEF Reject
<1>2. ASSUME NEW l, NEW r, Advance(p, l, r), r.ending = "none"
      PROVE  run'[p].ending = "none" /\ OthersStay(p) /\ holders' = holders
  BY <1>2, AdvanceEffect DEF Advance
<1>3. CASE LaunchAutomatic(p)
  <2>1. [Blank EXCEPT !.mode = "automatic"].ending = "none"
    BY DEF Blank
  <2> QED
    BY <1>2, <1>3, <2>1 DEF LaunchAutomatic
<1>4. CASE LaunchManual(p)
  <2>1. \A d, k : [Blank EXCEPT !.mode = "manual", !.date = d, !.key = k].ending = "none"
    BY DEF Blank
  <2> QED
    BY <1>2, <1>4, <2>1 DEF LaunchManual
<1>5. CASE LaunchPreview(p)
  <2>1. \A d : [Blank EXCEPT !.mode = "dry_run", !.date = d].ending = "none"
    BY DEF Blank
  <2> QED
    BY <1>2, <1>5, <2>1 DEF LaunchPreview
<1> QED
  BY <1>1, <1>3, <1>4, <1>5 DEF Launch

\* A step that neither takes the lock nor is refused it gives it back or
\* leaves it alone.
LEMMA LeavesLock ==
  ASSUME TypeOK, RefusalInvariant, NEW p \in Proc, pc[p] # "done", OthersStay(p),
         run'[p].ending # "skipped", holders' = holders \/ holders' = holders \ {p}
  PROVE  RefusalInvariant' /\ [Mutex!Next]_<<holders, Refused>>
<1>1. run[p].ending # "skipped"
  BY DEF RefusalInvariant
<1>2. Refused' = Refused /\ p \notin Refused
  BY <1>1 DEF Refused, OthersStay
<1>3. holders' = holders \ {p} => Mutex!Leave(p)
  BY <1>2 DEF Mutex!Leave, Refused
<1>4. RefusalInvariant'
  BY DEF RefusalInvariant, OthersStay
<1> QED
  BY <1>2, <1>3, <1>4 DEF Mutex!Next

LEMMA MutexStep ==
  ASSUME TypeOK, LockInvariant, RefusalInvariant, [Next]_vars
  PROVE  RefusalInvariant' /\ [Mutex!Next]_<<holders, Refused>>
<1>1. ASSUME NEW p \in Proc, NEW e, e # "skipped", Finish(p, e), pc[p] # "done"
      PROVE  RefusalInvariant' /\ [Mutex!Next]_<<holders, Refused>>
  BY <1>1, FinishEnding, FinishShape, LeavesLock DEF Ends
<1>2. ASSUME NEW p \in Proc, SkipBusy(p)
      PROVE  RefusalInvariant' /\ [Mutex!Next]_<<holders, Refused>>
  <2>1. /\ pc[p] = "lock" /\ pc'[p] = "done" /\ run'[p].ending = "skipped"
        /\ OthersStay(p) /\ holders # {} /\ holders' = holders \ {p}
    BY <1>2, FinishEnding, FinishShape DEF SkipBusy, Ends
  <2>2. p \notin holders
    BY <2>1 DEF LockInvariant, OneBroadcaster, Critical
  <2>3. Refused' = Refused \cup {p}
    BY <2>1 DEF Refused, OthersStay
  <2>4. Mutex!Refuse(p)
    BY <2>1, <2>2, <2>3 DEF Mutex!Refuse, Refused
  <2> QED
    BY <2>1, <2>4 DEF Mutex!Next, RefusalInvariant, OthersStay
<1>3. ASSUME NEW p \in Proc, AcquireLock(p)
      PROVE  RefusalInvariant' /\ [Mutex!Next]_<<holders, Refused>>
  <2>1. /\ holders = {} /\ holders' = {p} /\ run' = run /\ pc[p] = "lock"
        /\ OthersStay(p)
    BY <1>3 DEF AcquireLock, Become, OthersStay, TypeOK
  <2>2. Refused' = Refused /\ p \notin Refused
    BY <2>1 DEF Refused, RefusalInvariant
  <2>3. Mutex!Acquire(p)
    BY <2>1, <2>2 DEF Mutex!Acquire, Refused
  <2> QED
    BY <2>1, <2>3 DEF Mutex!Next, RefusalInvariant, OthersStay
<1>4. ASSUME NEW p \in Proc, JobStep(p)
      PROVE  RefusalInvariant' /\ [Mutex!Next]_<<holders, Refused>>
  <2>1. /\ pc[p] # "done" /\ OthersStay(p)
        /\ holders' = holders \/ holders' = holders \ {p}
    BY <1>4, JobShape DEF GoesOn, Ends
  <2>2. run'[p].ending # "skipped"
    BY <1>4, <2>1, JobEnding, FinishEnding
       DEF KeepsEnding, Failures, LineConfirms, RefusalInvariant
  <2> QED
    BY <2>1, <2>2, LeavesLock
<1>5. ASSUME NEW p \in Proc, Launch(p)
      PROVE  RefusalInvariant' /\ [Mutex!Next]_<<holders, Refused>>
  BY <1>5, LaunchEnding, LeavesLock DEF Ends
<1>6. ASSUME holders' = holders, pc' = pc,
             \A p \in Proc : run'[p].ending = run[p].ending
      PROVE  RefusalInvariant' /\ [Mutex!Next]_<<holders, Refused>>
  BY <1>6 DEF RefusalInvariant, Refused
<1>7. CASE LineStep
  <2>1. PICK m \in requests, answer \in Answers : Reply(m, answer)
    BY <1>7, LineCases
  <2>2. \A p \in Proc : run'[p].ending = run[p].ending
    BY <2>1, ReplyEffect
  <2> QED
    BY <1>6, <2>1, <2>2 DEF Reply
<1>8. CASE Tick \/ UNCHANGED vars
  BY <1>6, <1>8 DEF Tick, vars
<1> QED
  BY <1>1, <1>2, <1>3, <1>4, <1>5, <1>7, <1>8
     DEF Next, Step, LockUnusable, Die, Ended

\* The runs use the lock as JobMutex says: it passes from one holder to nobody
\* to the next, and a run that finds it busy, exit 0, finds another at work
\* (job_lock as __main__ uses it).  JobLockProofs proves the lock file keeps it.
THEOREM RunsKeepTheLock == Spec => LockContract
<1>1. Init => RefusalInvariant /\ holders = {} /\ Refused = {}
  BY DEF Init, RefusalInvariant, Refused, Blank
<1>2. TypeOK /\ LockInvariant /\ RefusalInvariant /\ [Next]_vars =>
        RefusalInvariant' /\ [Mutex!Next]_<<holders, Refused>>
  BY MutexStep
<1>3. Spec => Mutex!Init /\ [][Mutex!Next]_<<holders, Refused>>
  BY <1>1, <1>2, TypeCorrect, LockIsInductive, PTL DEF Spec, Mutex!Init, Refused
<1> QED
  BY <1>3, PTL DEF LockContract, Mutex!Spec, Refused
=============================================================================
