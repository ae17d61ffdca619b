# lefiya-schedule-bot: a TLA+ model

The bot publishes the daily schedule of a shop: once a day it fetches the menu
of the day from iCHEF and broadcasts it to every friend of a LINE account. A
second broadcast cannot be taken back, a missing one leaves a day without a
schedule, and iCHEF, LINE, the clock and the operator are outside the program.
This directory models the program from the container's first process down to the
lock file, checks it with TLC and proves its safety properties with TLAPS.

## 1. The system

| Component | Source | State | Operations | Modelled |
|---|---|---|---|---|
| ScheduleJob | `job.py` | per process: `run_day`, `run_date`, the current request | `run`, `_run_automatic`, `run_manual` | `ScheduleJob` |
| iCHEF client | `ichef.py` | attempt counter | `fetch_schedules`: hours query, items query, retries | `IChefClient` |
| LINE client | `line.py` | attempt counter, retry key | `broadcast`, retries | `LineBroadcaster` |
| LINE | not in the repository | accepted keys, for 24 hours | accept, refuse, 409 | `LineService` (external) |
| Command line | `__main__.py` | mode, target date, key | `_parse_args`, `main`, preview, exit codes | `Cli`, `Invocation` |
| Job lock | `locking.py` | flock on one file | `open_lock`, `job_lock` | `JobLock`; as a mutex in `Cli` |
| Scheduler | `scheduler.py` | `last_run`, in memory | `next_run`, `scheduler_loop` | `Scheduler`, `Bot` |
| Supervisor | `service.py` | two process groups | `supervise`, `main` | `Supervisor`, `Invocation` |
| Webhook | `webhook.py` | none | `receive`, dispatch | `Webhook` |
| Menu parser | `models.py` | none | `parse_daily_schedules` | `MenuParser` |
| Settings | `config.py` | none | `from_env` | `Invocation` |
| Formatter, logging | `formatter.py`, `logging_config.py` | none | | no |

How they interact:

- The container's PID 1 (`service.py`) starts the scheduler and the webhook
  server. The scheduler starts `python -m lefiya_schedule_bot` once a day at
  13:35; an operator starts the same program with `--manual` or `--dry-run`
  by `docker exec`. These executions are separate processes. All they share is
  the lock file, the clock, iCHEF, and LINE with its memory of retry keys.
- `main` resolves and checks the target date, takes the lock without blocking,
  and calls `ScheduleJob`. The job installs `check_deadline` as the
  `before_request` callback of both clients for the time of an automatic run.
- The automatic run polls iCHEF every five minutes from 13:40 and broadcasts
  the first non-empty schedule under a key computed from the date; a manual
  run fetches once and broadcasts under a UUID, or under the key it was given.
- Each client retries a request up to `max_attempts` times with a backoff,
  calling its guard before each attempt.

What is hard about it:

- LINE's answer may be lost, may be late, or may say 5xx although the message
  went out; the client then does not know, and retries.
- The day is read from the clock at several moments, and the run sleeps between
  them; the host may be suspended.
- A process may die anywhere: before the lock, in it, or between LINE's
  acceptance and the end of the run. The next one knows nothing of it.
- Several executions may start at the same time or one after another on a day.

For each component, what makes it correct:

- *ScheduleJob*: requests only in the window of the date they are for; no
  sleep past the window's ends; an outage does not end the search; every run
  ends. *Clients*: attempts bounded, success only when LINE accepted.
- *Lock*: at most one broadcaster; the lock is free after every end or death.
- *All together*: automatic runs deliver a date at most once.
- *Scheduler*: a day's job starts in its window, within a minute of running
  time, once in the life of the process; none is missed while it is up.
- *Scheduler and runs together*: if the services work, everybody has the
  schedule at 15:00, across restarts; no run of the scheduler bars the next.
- *Supervisor*: every group is asked to stop, has its grace period and does not
  survive; the shutdown ends.
- *Webhook*: only signed events of well-formed payloads are handled, and what
  LINE has a 200 for was handled as a whole.
- *Parser*: an item is listed for its date, once, by shift; what cannot be read
  is refused.
- *Command line*: wrong input is refused before any request; what the service
  accepts at its start, the daily run accepts.

## 2. Modules

| Module | What it is |
|---|---|
| `Calendar` | seconds, dates, the times of day written in the code, `_seconds_until`, `_retry_delay` |
| `RunState` | constants, variables, the locals of one run, retry keys, sleeping, retrying, the deadline guard |
| `IChefClient` | the fetch: two queries, failures, answers |
| `LineBroadcaster` | the broadcast: length check, request, answers |
| `LineService` | LINE as the code uses it: 409 for a key accepted less than 24 hours ago |
| `ScheduleJob` | the automatic loop, the manual run, the preview |
| `Cli` | launches, date check, lock, death |
| `Broadcasting` | the composition with the clock, the fairness and the properties |
| `DailyBroadcast` | the abstract promise to LINE's friends |
| `BroadcastingInvariant` | the inductive invariants |
| `MCBroadcasting` | instances for TLC |
| `Scheduler` | `scheduler_loop` and `next_run`, with a clock that may be set and a process that may be stopped |
| `DailyTrigger` | the abstract promise of the scheduler: when the job of a day may start |
| `Bot` | `Scheduler` and `Broadcasting` as one container |
| `JobLock` | the lock down to path, inode, descriptor and flock |
| `JobMutex` | the abstract lock, as `Cli` uses it |
| `Supervisor` | PID 1: `supervise` over process groups |
| `Webhook` | the HTTP receiver and its workers |
| `MenuParser` | `parse_daily_schedules` |
| `Invocation` | one execution from arguments and environment to its exit status |
| `MCScheduler`, `MCBot`, `MCWebhook`, `MCMenuParser` | instances for TLC |
| `BroadcastingProofs` | theorems about `Broadcasting`: types, lock, window, delivery, promise, polling, the end of a run, the lock's contract |
| `BotProofs` | the invariants of `Bot`, and the theorems about it |
| `SchedulerProofs`, `JobLockProofs`, `SupervisorProofs`, `WebhookProofs`, `MenuParserProofs`, `InvocationProofs` | the invariants of those modules, and the theorems about them |

`IChefClient`, `LineBroadcaster` and `LineService` extend `RunState`;
`ScheduleJob` extends the two clients, `Cli` extends `ScheduleJob`, and
`Broadcasting` puts `Cli` and `LineService` together. `Bot` extends `Broadcasting`
and instantiates `Scheduler`; each of its steps is a step of one, or of both.
`JobLock` is shown to implement `JobMutex`, `Scheduler` to implement
`DailyTrigger`, `Broadcasting` to implement `DailyBroadcast`. `JobMutex` is also
what `Broadcasting` may assume of the lock: that it uses the lock by that
contract is `LockContract`, so the two sides of the lock file meet in `JobMutex`.

### State and code

| Variable | Code |
|---|---|
| `now` | `datetime.now(timezone)`, in seconds since midnight of day 0 |
| `holders` | who holds the flock of `job_lock` |
| `pc[p]` | where execution `p` is: `lock` (before `job_lock`), `begin`, `loop` (head of `_run_automatic`), `waiting` (in its sleeps), `guard` (before `before_request()`), `post` (guard passed, request not sent), `reply` (in `session.post`), `backoff`, `fetched` (schedules returned), `checked` (automatic: the deadline checked once more, the clock not yet read for the sleep), `done` |
| `run[p]` | its locals: mode, `run_day`, date, retry key, which request and attempt, the schedule fetched, the end of the sleep, LINE's answer, how it ended |
| `requests` | broadcast requests sent and not served |
| `accepted` | broadcasts LINE accepted |

A step of a process ends where the code can be interrupted with an effect:
before and after each clock-dependent decision, each request and each sleep.
The guard and the request are two steps because the code does not make them
one, and so are the check after a fetch and the reading of the clock from which
the next sleep is computed (`job.py:144` and `145`). `begin` to `loop` is a step of its own because `run_day` (in `run`) and
`run_date` (in `_run_automatic`) are two readings of the clock.

Each execution is used once: a process that ended does not come back. A restart
is a further element of `Proc`, launched later. A launch is free: at any time,
in any mode, which includes whatever the scheduler does; `Bot` restricts it to
what the scheduler really does.

What a response of iCHEF holds is reduced to what the job distinguishes: no
schedule for the date, one that fits in a message, one that is too long.
A response that breaks off in its middle is an exception neither client catches;
the run ends with 1 (`request_error`).

A retry key is reduced to how it was made. `--retry-key` takes any UUID with any
date, so a manual run may be given the key of any day or the key of any other
manual run, for whatever date it likes (`ExplicitKeys`); a UUID nobody used
before is as good as a new one.

`LineService` is the environment. It accepts a request at most `MaxDelay`
seconds after it was sent, or never (a request that has left its client cannot
linger for hours); it may accept and answer 5xx, or accept and lose the answer.
It remembers a key for exactly 24 hours, the time the repository's README gives.

### The other modules

*Scheduler.* `phase` is where `scheduler_loop` is: `deciding` (the head of the
loop, where the wait is computed), `asleep`, `launching` and `job` (before and in
`subprocess.call`), `down` when no such process exists. `last_run` and the wait
are the code's; `left` is what is left of the sleep. `overdue` is a stopwatch the
code does not have. The clock moves by `TimePasses`, during which a sleep gets
shorter, and by `ClockIsSet`, during which it does not: a clock that is set, or a
suspended host (`time.sleep` does not count that time). The job takes any time.

*Bot.* `job` is the execution the scheduler waits for. The scheduler's
executions are launched by it alone, an operator's at the instants in `Attended`.
A container starts again only when the runs of its predecessor are gone; that
they are is `NoSurvivors` of `Supervisor`. `Healthy` excludes failing requests
and says from what time of day iCHEF has the menu.

*JobLock.* A process opens the file (creating it if it is not there), tries the
flock, releases it and closes; `Close` may come at any moment, for a death or an
exception. PID 1 opens the file too, to see whether it can. A closed process may
come back.

*Supervisor.* `pc` and `next` say which of the loops of `supervise` is at which
child: spawning, watching, asking, the rounds of the grace period, killing, the
last wait. A group is its leader and one further process, each of which may end,
and the leader may start the other, between any two steps; an ended process is a
zombie until it is collected, and `killpg` goes on finding its group. A signal may
come at any step. `Denied` groups cannot be signalled as groups, and for
`Refused` ones the fallback to the leader is denied too; `Reaper` says whether
somebody collects orphans.

*Webhook.* Each worker serves one attempt of a delivery through size, signature,
parsing and handling. The handler may raise at any event, the worker may be
killed anywhere, and the response may not reach LINE, which then sends the
delivery again, also beside the earlier attempt.

*MenuParser.* The loop of `parse_daily_schedules` one category at a time. A
category is its kind, its date, the words that occur in its name, and its items;
an item is its name, whether it can be read, and the photos its groups offer. A
response may have no list of categories at all. The code does not look whether a
name occurs twice: a person with two items is listed twice. To speak of such
items, each fairy keeps the `place` of its item, which the code has no use for.
`sorted` is
Python's stable sort: each fairy goes to its `rank`, the number of those up to
and with itself.

*Invocation.* One execution with every combination of arguments and of
acceptable and unacceptable settings; the run inside is one step with every
result. `service_accepts` is what `main` of `service.py` checks before it starts
anything.

## 3. Properties

| Property | Says |
|---|---|
| `TypeOK` | types; with them the bound on attempts |
| `OneBroadcaster` | between taking the lock and the end there is at most one run, and it is the lock's holder |
| `AtMostOneAutomaticDelivery` | automatic runs deliver a date at most once, over all crashes, retries and lost answers |
| `SuccessMeansDelivered` | exit 0 after a broadcast (2xx or 409) means LINE accepted that date under that key, unless an operator gave the key with a date it was not made for |
| `OwnKeyIsSent` | a manual run that makes its own key and exits with 0 has sent its schedule itself, although an operator may give the key it logged to another run at once |
| `NoOversleeping` | the sleeps end by 13:40 and by 15:00 |
| `WindowedRequests` | each request of an automatic run is sent inside the window of the date it is for |
| `OutagesArePolledAway` | an automatic run without a schedule gives up before the deadline only over a response that is unreadable or breaks off |
| `EveryRunEnds` | every run ends (liveness) |
| `StepsRunOut` | each step of a run brings it closer to its end, and nothing else sets it back |
| `LockContract` | the runs use the lock as `JobMutex` promises it; who says "another job is running" says so while another holds it |
| `DailyPromise` | the whole implements `DailyBroadcast` |
| `PollsUntilDeadline` | the repository's README about 13:40-15:00; does not hold |
| `Scheduler!TypeOK` | types; no sleep is longer than a minute |
| `NeverOverdue` | a day's job that could be started waits at most a minute of running time |
| `DailyTriggered` | the scheduler implements `DailyTrigger` |
| `EveryDayIsLaunched` | a scheduler that is up before 15:00 starts the job of the day, unless it is stopped or the clock is set again (liveness) |
| `DayServed` | with working services, a day that closes with the scheduler up was broadcast, or an operator spent its key |
| `NeverBlockedByItself` | a run of the scheduler finds the lock busy only if an operator's run holds it |
| `BotTypeOK` | types; a scheduler waits for a run exactly while it has one |
| `SameInode` | all who have the lock file open have the same file open |
| `IsMutex` | the lock file implements `JobMutex` |
| `NoSurvivors` | nothing is left of any group that may be signalled when `supervise` returns |
| `GraceIsGiven` | nothing is killed before the grace period is over, unless nothing runs |
| `AskedBeforeKilled` | every group that runs has had its stop signal before the waiting begins |
| `WaitsForNobody` | the last wait of the shutdown finds no leader running |
| `ShutdownGoesOn` | the shutdown never goes back to an earlier child, round or loop |
| `ShutsDown` | the shutdown ends, whatever the children do (liveness) |
| `OthersAreAsked` | a group that may not be signalled keeps no other from being asked; does not hold |
| `OnlyGenuineEvents` | only events that are signed, of payloads that are wholly well formed, are handled |
| `SettledIsHandled` | what LINE has a 200 for was handled completely and in order by one attempt |
| `EveryItemOnceOnItsDate`, `ListedByShift` | which items are in a schedule, and in which order |
| `RefusedIfUnreadable` | which menus are refused, and that no other is |
| `WrongInputIsHarmless` | exit 2 means nothing was sent, and wrong arguments are found before anything is |
| `PreviewNeedsNoSecrets` | a preview takes no lock, calls no LINE and needs neither token nor lock file |
| `AcceptedAtStartAcceptedDaily` | settings the service accepts are not refused at 13:35 |

`DailyBroadcast` has no process, lock, request or retry. It lets a broadcast of
an automatic run happen only in the window of its date and only if that date was
not sent under its key before; a repetition by hand under that key only on or
after the date; and a date reported as done only if something was sent under its
key. An operator may also spend the key of a day on the schedule of another
(`Spend`), which the program does not prevent. Under one key nothing is sent
twice within 24 hours. The refinement mapping takes `accepted` apart by who sent
the broadcast and whose day the key is, and takes the reported dates from the
completed automatic runs.

A key given with another date is the one way in which a 409 may confirm a
schedule nobody got. `SuccessMeansDelivered` exempts that key (`Misused`) and no
other, `Report` and `DayServed` allow it to take the place of the day's broadcast,
and `OwnKeyIsSent` is what is left of the claim for a run that makes its own key:
its key is used up by another run only after it is done, because of the lock.

`DayServed` exempts two kinds of days that the code gives up knowingly: one whose run of
the scheduler was killed alone (the scheduler waits for the next day), and one
whose run found an operator's run at work and was skipped with exit 0. It needs
`Healthy`, and of the host what `HostAttends` says: that on each day it runs for a
minute that ends between 13:35 and 15:00, and once more in the window, five minutes
after any poll that came too early for the menu. Without that the property is
false, for a host that is suspended over the window serves nobody. `MCBot` assumes
`HostAttends` of its instants, so TLC evaluates it before the run.

`DailyTrigger` knows no sleep and no `last_run`: a job starts between 13:35 and
15:00, one at a time, on a day after all those this process started one for. A
scheduler that is started again has forgotten them, which is why the day's run
may start twice, and why the retry keys of `AtMostOneAutomaticDelivery` matter.

The merged schedule deserves a word: asked for the date the menu begins with, the
parser merges *all* dated categories. `EveryItemOnceOnItsDate` states it so.

## 4. Runs

| Run | Expectation | Distinct states | Shows |
|---|---|---|---|
| `safety` | pass | 2,229,653 | the safety properties of `Broadcasting`, the refinement, and the invariants of the proofs |
| `liveness` | pass | 238,030 | `EveryRunEnds` and `StepsRunOut`, three modes |
| `unreadable_response` | violation | | one bad response ends the day's only run early |
| `guard_then_request` | violation | | the clock may pass 15:00 between guard and request |
| `scheduler` | pass | 3,125 | the scheduler's safety, refinement and liveness |
| `day_served` | pass | 1,076,105 | scheduler, runs, an operator and LINE over two days |
| `lock_file` | pass | 1,023 | the lock file is one file and a mutex |
| `supervisor` | pass | 20,479 | every shutdown of three groups |
| `supervisor_inaccessible` | violation | | one group's leader that may not be signalled ends the clean-up |
| `webhook` | pass | 9,764 | deliveries, repetitions and deaths |
| `menu_parser` | pass | 15,532 | all small menus, and a response without one |
| `invocation` | pass | 75,750 | all arguments and settings |

### Bounds of `Broadcasting`

All are in the `.cfg` files and `MCBroadcasting`:

- `Proc` has two executions: enough for one that dies and one that repeats, for
  two that compete for the lock, and for a manual repetition of a key. The
  theorems hold for any number.
- `max_attempts = 2` (the code's default is 3): a first attempt, a retry and
  exhaustion all happen.
- `Instants`: six instants over two days, before, at and after both ends of the
  window, with 14:59:59 and with the instants a day later at which a key of day
  0 is remembered and forgotten. The clock jumps from any to any later one, so a
  sleep may overshoot and a host may be suspended. `liveness` uses three of one
  day. A sleep that ends after the last instant ends at it (`Awake`).
- `MaxDelay = 300` seconds. The assumption the proofs need is that 15:00 plus
  `MaxDelay` is not later than midnight.
- The clock does not go backwards and every day has 86400 seconds (the bot's
  timezone, Asia/Taipei, has no daylight saving time).
- `Preemption = FALSE`: the clock stands still between a check of the deadline and
  what it is for: between a guard and its request, and between the check after a
  fetch and the choice of the sleep. `guard_then_request` is the run without this
  assumption. It matters only for properties about the window; `NoOversleeping`
  is proved without it.
- The `Instants` reach 15:00 of each day they show (`MCClock`, the
  hypothesis `ClockReachesDeadline` of `EveryRunRunsOut`, which TLC evaluates).
  In a model whose clock stops before that, `Awake` would let a run poll at the
  last instant for ever.
- No action caps a counter: attempts are bounded by the code, and the clock by
  `Instants`.

Executions are symmetric, so the runs without liveness use symmetry. Deadlock is
checked; `Ended` lets the model stutter when all executions are done.

### Bounds of the others

- `scheduler`: two days, every half minute around 13:35, 14:00 and 15:00 and
  every minute in between, so that each sleep of a minute or less ends at one of
  them. The clock may be set before, into and after both windows. A night passes
  in a job, in a process that is down, or by setting the clock.
- `day_served`: three executions, so that a run, its successor after a restart
  and the next day's run, or an operator's, all exist; six instants a day,
  between which the host runs (13:34 to 13:35) or is suspended; one attempt a
  request, the retries being the subject of `safety`; one instant at which an
  operator may start a run (`Attended`), when the first day's menu is out.
- `lock_file`: four processes and two inodes. More inodes would be used only if
  the file were removed, which is what the mutant does.
- `supervisor`: three groups, the middle one denied, so that one lies before and
  one behind it; a grace period of two rounds, so that it has a first and a last.
  `supervisor_inaccessible` has two groups. The service has two children.
- `webhook`: one delivery of any content with up to two events, three attempts,
  two workers, so that two attempts overlap and a third follows. Deliveries share
  no state.
- `menu_parser`: no menu, and menus of up to three categories of ten kinds, with
  one name in two items of different categories and shifts; four targets.
- `invocation`: everything; there is one execution.

`webhook`, `menu_parser`, `invocation` and `day_served` do not check deadlock: the
first three come to an end of their input, the last of its instants and
executions.

*Fairness.* `FairSpec` asks that a launched, live process takes its next step,
since all its calls return (`requests` has timeouts, sleeps end), and that time
passes. It asks nothing of iCHEF, of LINE or of the operator: no answer need
come. The timeout of `requests` bounds each read and not the whole response, so
a server that trickles bytes for ever is excluded by this assumption.

The scheduler's liveness asks that its process computes and that time passes, not
that a job ends, that a stopped process comes back, or that the clock is ever
left alone (`ObservedSpec` of `MCScheduler`; `clock_set` observes whether the last
step set it). That of the supervisor asks only that PID 1 gets to run: `Supervise`
is one step of it, and nothing is asked of its children, which may ignore SIGTERM
for ever.

For every property of a passing run PROJECT.json names a mutation of the code
under which the run finds that property violated; the mutants are next to the
definitions they replace.

### Where documents and code differ

1. The repository's README (line 45) says that from 13:40 to 15:00 the bot
   fetches every five minutes. One response it cannot read ends the run
   (`job.py:133-142`), on purpose (`test_job.py:289`), as does one that breaks
   off, which nothing before `main` catches; and the scheduler does not
   start another one that day.
2. It says (line 46) that no new HTTP request is started from 15:00 on. The
   guard and the request are not atomic.
3. The comment at `service.py:67` says that the clean-up goes on with the other
   groups if one is inaccessible. It does when `killpg` alone is denied
   (`supervisor` has such a group), not when the fallback to the leader is denied
   as well: `PermissionError` then leaves the `finally` block. On Linux that is
   the case whenever `killpg` is denied and the leader runs, so the more general
   instance of `supervisor` is the one the fallback was written for. It takes a
   child that changed its user, and neither child of this service does.

## 5. Proofs

The theorems about `Broadcasting` (`BroadcastingProofs`) hold for every `Proc`,
`Instants`, `Modes`, `max_attempts` and `MaxDelay` that satisfy the assumptions
named in `RunState`.

| Theorem | Of | Needs |
|---|---|---|
| `TypeCorrect` | `TypeOK` | |
| `MutualExclusion` | `OneBroadcaster` | |
| `RequestsInWindow` | `WindowedRequests` | `~Preemption` |
| `SuccessIsDelivery` | `SuccessMeansDelivered` | |
| `AtMostOneDelivery` | `AtMostOneAutomaticDelivery` | `~Preemption` |
| `PromiseKept` | `DailyPromise` | `~Preemption` |
| `OwnKeysAreSent` | `OwnKeyIsSent` | |
| `OutagesPolledAway` | `OutagesArePolledAway` | |
| `NoWaitTooLong` | `NoOversleeping` | |
| `EveryRunRunsOut` | `StepsRunOut` | `ClockReachesDeadline` |
| `RunsKeepTheLock` | `LockContract` | |
| `WindowIsInductive`, `MessageIsInductive` | the invariants below | in parts, see below |

The invariants (`BroadcastingInvariant`), each proved relative to those before:

1. `TypeOK`.
2. `LockInvariant`: `OneBroadcaster` and that no preview is before the lock; the
   step that takes the lock would otherwise break the equivalence.
3. `WindowInvariant`. What makes the window hold is spread over three moments:
   `run_day` was read no later than `run_date`, `run_date` no later than now
   (`DaysInOrder`), a fetch begins only after 13:40 of `run_date`, and the guard
   compares the present day with `run_day`. At a request, and at the choice of a
   sleep, the check's fact still holds (`GuardHolds`), so both days are today and
   `now` is in the window.
4. `MessageInvariant`. A message belongs to a run whose key and date have not
   changed since (`MatchesRun`); a fresh key was made by a run at work, and
   another run that was given it gets to use it only when its maker is done
   (`KeyHasMaker`, which rests on `LockInvariant`); a message of an automatic run
   carries the key of its date and was sent in its window (`SentInTime`); an
   answer 2xx or 409 that a run holds was preceded by an accepted broadcast under
   its key, its own one if it made that key (`AnswersAreTrue`).
5. `SuccessInvariant`: a completed run is over and was right about LINE.

The second and the fifth are used in the proofs only; what they add to
`OneBroadcaster` and `SuccessMeansDelivered` is of no interest beyond them.

*At most one delivery.* Suppose LINE accepts a second broadcast of day d under its
key, from an automatic run. It was sent before 15:00 of d, so it is served
before midnight of d (`DelayAssumption`). The first was accepted on day d or
later, so less than 24 hours ago, so LINE remembers the key and answers 409
(`FirstOfItsDay`). *Refinement*: the same lemma gives the guard of the abstract
`Announce`; LINE's own refusal gives that of `Repeat` and of `Spend`;
`AnswersAreTrue` gives that of `Report`; all other steps change none of the four
mapped sets.

*Every run runs out.* `TimeLeft` is the time an automatic run has left until
15:00 of its date, with a sleep counted to its end already when it begins;
`StepsLeft` is the number of steps to the end of the present poll, when all three
requests take all their attempts. A poll that finds no menu before 15:00 sleeps for
at least a second before the next, so `TimeLeft` falls, and one that is held up past
15:00 ends the run at the head of the loop; within a poll `StepsLeft` falls, by
which request it is and then by the attempt; the clock, LINE and the other runs
change neither for the worse. Both are natural numbers (in the theorem too), so a
run takes finitely many steps: this is the part of `EveryRunEnds` that needs no
fairness. What fairness adds is that a next step is taken.

*The lock's contract.* A run that was refused the lock is over and stays so
(`RefusalInvariant`), so a step either takes the lock, is refused it while another
run has it, gives it back, or leaves it alone. With `LockFileIsMutex` below, the
lock file provides exactly what the runs are proved to use.

`WindowInvariant` and `MessageInvariant` hold without `~Preemption`; the parts of
them that speak of the window name it as their hypothesis.

*Scheduler* (every set of instants and settings).

| Theorem | Of |
|---|---|
| `SchedulerTypeCorrect` | `TypeOK` |
| `StartedWithinAMinute` | `NeverOverdue` |
| `SchedulerImplementsTrigger` | `DailyTriggered` |

`SchedulerInvariant` ties the memory of the code to its history: `last_run` is the
latest of the days launched, and none if there is none; and while a due day is
slept through, the time it has waited and what is left of the sleep are a minute
together. The first gives the guard of `Launch`: `next_run` reaches the present
only on a day after `last_run`, at or after 13:35 and before 15:00.

*Lock file* (any number of processes and inodes): `OneLockFile` is `SameInode`,
`LockFileIsMutex` is `IsMutex`. `LockFileInvariant` says that an inode carries the
lock of exactly the process that has it open and is inside. With `SameInode` there
is only one inode in question, which makes the mutex of it.

*Supervisor* (any number of children, any grace period, any denied groups):
`NobodySurvives`, `GraceIsAlwaysGiven`, `AllAreAsked`. `SupervisorInvariant` says
for each loop what holds of the children it has passed: they were asked, they do
not run unless `alive` says so, they are dead. It must hold although processes end
and start others between two steps; the killing loop relies on it that a group
without a running process cannot get one.

`WaitIsNoWait` is `WaitsForNobody`: the leaders the killing loop has passed do not
run, by the `killpg` or, where that was denied, by the fallback to the leader.
`ShutdownRunsOut` is `ShutdownGoesOn`: loop, round and child grow, compared in this
order, with each step of `supervise`, and only with those. As all three are bounded,
these two are what makes `ShutsDown` true once PID 1 gets to run.

`OthersAreAskedUnlessRefused` is the other side of the run `supervisor_inaccessible`:
where the leader of an inaccessible group may be signalled (`Refused = {}`),
`OthersAreAsked` holds, so the refused leader is the only cause of that divergence.

*Webhook* (any workers, deliveries, contents, attempts): `HandledIsGenuine`,
`AcknowledgedIsHandled`. `WebhookInvariant` says what each stage has established
about the delivery, and that the events an attempt handled are its first ones in
order.

*Menu parser* (menus of any length, any date asked for).

| Theorem | Of |
|---|---|
| `LoopIsInductive` | `LoopInvariant` |
| `ItemOnceOnItsDate` | `EveryItemOnceOnItsDate` |
| `ShiftsInOrder` | `ListedByShift` |
| `RefusedOnlyIfUnreadable` | `RefusedIfUnreadable` |

`LoopInvariant` says of the categories passed that all could be read, and of the
lists built so far who is in them and in which order: those of a date in the order
of the menu, each once. The rest is about sorting. `Ranks` shows that `rank` is a
bijection that respects shift and place, by counting: who precedes k has fewer
before them than k has. So `sorted` neither loses nor repeats a fairy. No induction
over data is needed, because the loop is a state machine and its induction that of
the invariant, and because the sort is by rank and not recursive.

*Bot* (any executions, instants, settings; with what each theorem names).

| Theorem | Of | Needs |
|---|---|---|
| `BotTypeCorrect` | `BotTypeOK` | |
| `NotBlockedByItself` | `NeverBlockedByItself` | |
| `EveryDayServed` | `DayServed` | `Healthy`, `HostAttends` |

A step of `Bot` is a step or a stutter of `Broadcasting` (`StepOfRuns`) and of
`Scheduler` (`StepOfScheduler`), so `Bot` has all that is proved of the two
(`RunsOfBot`, `SchedulerOfBot`). The rest needs what neither knows of the other:

1. `OneRunAtWork`: at most one live run is the scheduler's; it is the one the
   scheduler waits for, or the scheduler is gone. It is why the scheduler's run
   finds no other run of a scheduler in the lock. The step that would break it is
   `Start`, whose guard is what `NoSurvivors` of the supervisor provides.
2. `ServiceInvariant`. The days launched have come (`LaunchesPast`). The run the
   scheduler waits for was started for the day in `last_run` or a later one, and
   when it ends, that day is broadcast or its window over (`RunOfDay`: it may have
   been started on one day and have read the next). So once the
   scheduler goes on, the day in `last_run` is settled or exempt (`DaySettled`).
   And a run is never kept waiting beyond the window: it polls too early only
   before `Published`, and the next poll comes in time (`Timely`).
3. `UpInTime`: from the minute on in which the host runs before the job may
   start, every sleep of the scheduler ends when the job may start, at the latest.

When the window of a day closes, time passes, so nobody can compute. If the
scheduler sleeps, `UpInTime` says that it started the job of the day, and
`DaySettled` that this was enough. If it waits for a run, that run waits for an
instant that `Timely` puts before 15:00, and could compute.

`Healthy` and `HostAttends` are hypotheses on constants; the instance `MCBot`
satisfies both, so the theorem speaks of its behaviours among others. That no
execution is `NoJob` (`NoJobAssumption`) and that `Published` is a number are
assumptions of `Bot`.

*Invocation* (it has no constants): `WrongInputDoesNothing` is
`WrongInputIsHarmless`, `PreviewsNeedNoSecrets` is `PreviewNeedsNoSecrets`,
`StartedServiceRunsDaily` is `AcceptedAtStartAcceptedDaily`. TLC goes through all of
it; what the proofs add is the reason, `InvocationInvariant` (`EveryExitIsExplained`):
what each stage has established about arguments and settings, and that an execution
that ended with 2 had a reason to refuse, and any other but the help text had none.

*Only model-checked.* The liveness properties `EveryRunEnds`, `EveryDayIsLaunched`
and `ShutsDown`: fairness and ENABLED are out of the prover's reach. For the first
and the last, what makes them true under the stated fairness is proved
(`EveryRunRunsOut`; `ShutdownRunsOut` and `WaitIsNoWait`). Every safety property of
a passing run is proved.

## 6. Not modelled

- The layout of the message (`formatter.py`), a pure text; only whether it fits
  into one LINE message matters to the rest, and that is a choice in
  `IChefClient`. Logging and log events, on which no state depends.
- `/health`, which keeps no state; the bytes of HTTP; the cryptography of the
  signature, which is right or wrong.
- The arithmetic of timezones, and what Python accepts as one: days have 86400
  seconds, which is true of the bot's timezone.
- The reuse of process ids between the look at a group and the signal sent to it.
- The end of the container by its runtime: if the stop timeout of the runtime is
  not longer than the ten seconds of `grace_seconds`, PID 1 is killed with all
  groups before it has killed any, which ends the same processes.
