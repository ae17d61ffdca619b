---------------------------- MODULE Broadcasting ----------------------------
(***************************************************************************)
(* The command-line runs, the clock and LINE together, and what they must  *)
(* and must not do.                                                        *)
(***************************************************************************)
EXTENDS Cli, LineService

\* The host may be slow, suspended, or asleep: the clock moves to any later
\* instant.  Without Preemption it does not move while a process is between
\* its guard and its request, or between its last check after a fetch and
\* what it does then.
Tick ==
  /\ Preemption \/ \A p \in Proc : pc[p] \notin {"post", "checked"}
  /\ \E t \in Instants : t > now /\ now' = t
  /\ UNCHANGED <<holders, pc, run, requests, accepted>>

Ended ==
  /\ \A p \in Proc : pc[p] = "done"
  /\ UNCHANGED vars

Init ==
  /\ now \in {t \in Instants : \A u \in Instants : t <= u}
  /\ holders = {}
  /\ pc = [p \in Proc |-> "idle"]
  /\ run = [p \in Proc |-> Blank]
  /\ requests = {}
  /\ accepted = {}

Next ==
  \/ \E p \in Proc : Launch(p) \/ Step(p) \/ Die(p)
  \/ LineStep
  \/ Tick
  \/ Ended

Spec == Init /\ [][Next]_vars

\* A live process that can move does (its requests time out, its sleeps end),
\* and time passes.  Nothing is assumed of iCHEF, LINE or the operator.
FairSpec ==
  Spec /\ WF_vars(Tick) /\ \A p \in Proc : WF_vars(Step(p))

TypeOK ==
  /\ now \in Instants
  /\ holders \subseteq Proc
  /\ pc \in [Proc -> Labels]
  /\ run \in [Proc -> Runs]
  /\ requests \subseteq Broadcasts
  /\ accepted \subseteq Acceptances

-----------------------------------------------------------------------------
\* At most one run is between taking the lock and ending, and it is the one
\* that holds the lock: no run talks to LINE beside another, and a run that
\* ended or died leaves no lock behind (job_lock, README "docker exec").
OneBroadcaster ==
  \A p \in Proc : /\ Critical(p) <=> p \in holders
                  /\ p \in holders => holders = {p}

\* However often runs of a day are started, killed, repeated or left without
\* an answer, automatic runs send the schedule of one date at most once
\* (daily_retry_key, and LINE's 409 for a key it remembers).
AtMostOneAutomaticDelivery ==
  \A a, b \in accepted :
    Automatic(a.by) /\ Automatic(b.by) /\ a.date = b.date => a = b

\* The date a retry key was made for, and whether an operator gave the key with
\* another date (which _parse_args lets pass).
MadeFor(key) == IF key.kind = "daily" THEN key.of ELSE run[key.of].date

Misused(key) ==
  \E q \in Proc : run[q].mode = "manual" /\ run[q].key = key /\ run[q].date # MadeFor(key)

\* A run that exits with 0 after broadcasting, be it on a 2xx or on a 409,
\* leaves a broadcast under its key at LINE, and it is of its date, unless an
\* operator gave the key with a date it was not made for: a 409 then confirms
\* whatever schedule was sent under it.
SuccessMeansDelivered ==
  \A p \in Proc : run[p].ending = "completed" =>
    \E a \in accepted :
      a.key = run[p].key /\ (a.date = run[p].date \/ Misused(run[p].key))

\* A run by hand that makes its own key and exits with 0 has sent its schedule
\* itself (README: without a retry key it is sent again to all friends).  Its
\* key is logged, and an operator may give it to another run at once; the lock
\* keeps that run from using it up first.
OwnKeyIsSent ==
  \A p \in Proc : run[p].ending = "completed" /\ run[p].key = manual_retry_key(p) =>
    \E a \in accepted : a.by = p /\ a.date = run[p].date

\* The wait for the window ends by 13:40 and the wait for the next poll by
\* 15:00, so the window is neither missed nor left by sleeping.  Past 15:00,
\* where a run may find itself that was held up after its last check, the sleep
\* is none.
NoOversleeping ==
  \A p \in Proc : pc[p] = "waiting" /\ date(now) = run[p].date =>
    \/ run[p].wake <= now
    \/ run[p].wake <= run[p].date * DAY +
         (IF time(now) < START_TIME THEN START_TIME ELSE DEADLINE)

\* p sends a request to iCHEF or to LINE.
Sends(p) == pc[p] = "post" /\ pc'[p] = "reply"

\* Every request of an automatic run, first attempt or retry, to either
\* service, is sent between 13:40 and 15:00 of the date whose schedule it
\* asks for or carries.
WindowedRequests ==
  [][\A p \in Proc : Sends(p) /\ Automatic(p) => InWindow(run[p].date, now)]_vars

\* p ends while looking for the schedule: it has nothing to broadcast yet.
GivesUp(p) ==
  /\ pc[p] \notin {"idle", "lock", "done"} /\ pc'[p] = "done"
  /\ run[p].op # "line" /\ run[p].menu = "none"
  /\ run'[p].ending # "killed"

\* An automatic run gives up before the deadline of its day only over a
\* response it cannot read, or one that breaks off: an iCHEF that is down, slow
\* or refuses, at any request and for any number of attempts, is polled again.
OutagesArePolledAway ==
  [][\A p \in Proc : GivesUp(p) /\ Automatic(p) =>
       run'[p].ending \in {"menu_data", "request_error"} \/ ~check_deadline_passes(p)]_vars

\* An automatic run that has not found the schedule goes on until the deadline
\* of its day (README: 13:40-15:00, fetch every five minutes).  It does not:
\* one response it cannot read ends it (_run_automatic re-raises MenuDataError),
\* and so does one that breaks off (ChunkedEncodingError of requests).
PollsUntilDeadline ==
  [][\A p \in Proc : GivesUp(p) /\ Automatic(p) => ~check_deadline_passes(p)]_vars

\* Whatever iCHEF and LINE do, a launched run ends, and so gives its lock back:
\* the polls stop at the deadline and every retry loop stops.
EveryRunEnds == \A p \in Proc : pc[p] # "idle" ~> pc[p] = "done"

\* How much of a run is left: until when its day goes on, seen from now or
\* from the end of its sleep, ...
From(p) == IF pc[p] = "waiting" THEN run[p].wake ELSE now

TimeLeft(p) ==
  IF ~Automatic(p) \/ pc[p] = "done" THEN 0
  ELSE IF run[p].date = NoDate THEN DEADLINE + 1
  ELSE AtLeastZero(run[p].date * DAY + DEADLINE - From(p))

\* ... and the steps to the end of the present poll, if every request that is
\* still to be made takes all its attempts.
StepsFrom(label, operation, attempt) ==
  LET all == 4 * max_attempts
      rest == 4 * (max_attempts - attempt) +
              CASE operation = "hours" -> 2 * all + 1
                [] operation = "items" -> all + 1
                [] operation = "line"  -> 0
  IN  CASE label = "lock"    -> 3 * all + 5
        [] label = "begin"   -> 3 * all + 4
        [] label = "waiting" -> 3 * all + 3
        [] label = "loop"    -> 3 * all + 2
        [] label = "backoff" -> rest + 4
        [] label = "guard"   -> rest + 3
        [] label = "post"    -> rest + 2
        [] label = "reply"   -> rest + 1
        [] label = "fetched" -> all + 1
        [] label = "checked" -> all
        [] OTHER             -> 0

\* At the head of the loop and on the way there, a run whose time is over is
\* about to end.
StepsLeft(p) ==
  CASE pc[p] = "waiting" /\ TimeLeft(p) = 0 -> 2
    [] pc[p] = "loop" /\ TimeLeft(p) = 0    -> 1
    [] OTHER -> StepsFrom(pc[p], run[p].op, run[p].attempt)

ComesCloser(p) ==
  \/ TimeLeft(p)' < TimeLeft(p)
  \/ TimeLeft(p)' = TimeLeft(p) /\ StepsLeft(p)' < StepsLeft(p)

\* A step leaves a launched run where it is, or takes it closer to its end.
NearerItsEnd(p) ==
  pc[p] # "idle" =>
    ComesCloser(p) \/ (pc'[p] = pc[p] /\ UNCHANGED <<TimeLeft(p), StepsLeft(p)>>)

\* The model's clock does not stop before the deadline of a day it shows.
ClockReachesDeadline ==
  \A t \in Instants : \E u \in Instants : date(t) * DAY + DEADLINE <= u

\* Every step of a launched run brings it closer to its end, and nothing the
\* clock, LINE or another run does takes it back: polls within a day, requests
\* within a poll and attempts within a request are all used up.  This is why
\* EveryRunEnds: both numbers are natural, so a run has finitely many steps.
\* (Where the model's clock stops before a deadline, Awake lets a run poll at
\* the same instant for ever.)
StepsRunOut == [][\A p \in Proc : NearerItsEnd(p)]_vars

\* The lock of JobMutex, used by the runs.
Mutex == INSTANCE JobMutex WITH
  refused <- {p \in Proc : run[p].ending = "skipped"}

\* The runs use the lock by its contract, which the lock file keeps (JobLock):
\* it passes from one holder to nobody to the next, and a run that says
\* "another job is running", exit 0, says so while another holds it.
LockContract == Mutex!Spec

\* The promise of DailyBroadcast, kept.
Daily == INSTANCE DailyBroadcast WITH
  scheduled <- {a \in accepted : Automatic(a.by)},
  byHand <- {a \in accepted : ~Automatic(a.by) /\ a.key = daily_retry_key(a.date)},
  astray <- {a \in accepted : a.key.kind = "daily" /\ a.key # daily_retry_key(a.date)},
  reported <- {run[p].date : p \in {q \in Proc :
                 Automatic(q) /\ run[q].ending = "completed"}}

\* Every behaviour of the runs, the clock and LINE is one DailyBroadcast
\* allows.
DailyPromise == Daily!Spec
=============================================================================
