------------------------------ MODULE RunState ------------------------------
(***************************************************************************)
(* The state shared by the modules that make up the command-line job.  An  *)
(* element of Proc is one execution of `python -m lefiya_schedule_bot`;    *)
(* it is launched at most once, and ends for good.                         *)
(***************************************************************************)
EXTENDS Calendar

CONSTANTS
  Proc,         \* the executions of the command-line program
  Instants,     \* the instants the clock may show
  Modes,        \* the modes in which the program is launched
  max_attempts, \* requests per operation of either HTTP client
  MaxDelay,     \* LINE serves a request this long after it is sent, or never
  Preemption    \* may the clock move between a check and what it is for?

ASSUME InstantsAssumption == Instants \subseteq Nat /\ Instants # {}
ASSUME ModesAssumption == Modes \subseteq {"automatic", "manual", "dry_run"}
ASSUME AttemptsAssumption == max_attempts \in Nat \ {0}
ASSUME DelayAssumption ==
  MaxDelay \in Nat /\ DEADLINE + MaxDelay <= RETENTION
ASSUME PreemptionAssumption == Preemption \in BOOLEAN

VARIABLES
  now,       \* the wall clock
  holders,   \* the processes whose flock on JOB_LOCK_PATH is granted
  pc,        \* where each process is
  run,       \* the local state of each process
  requests,  \* broadcast requests on their way to LINE, or at LINE unserved
  accepted   \* the broadcasts LINE accepted, and so sent to every friend

vars == <<now, holders, pc, run, requests, accepted>>

NoDate == -1
Dates == Nat \cup {NoDate}

\* A retry key is known by how it was made: daily_retry_key(d) is the same in
\* every process, manual_retry_key() is new in each.
daily_retry_key(d) == [kind |-> "daily", of |-> d]
manual_retry_key(p) == [kind |-> "uuid4", of |-> p]
NoKey == [kind |-> "none", of |-> NoDate]
Keys == [kind : {"daily"}, of : Dates] \cup [kind : {"uuid4"}, of : Proc]
          \cup {NoKey}

Labels == {"idle", "lock", "begin", "loop", "waiting", "guard", "post",
           "reply", "backoff", "fetched", "checked", "done"}
Operations == {"hours", "items", "line"}
Menus == {"none", "fits", "too_long"}
Answers == {"none", "success", "conflict", "retryable", "fatal"}
Endings == {"none", "completed", "skipped", "previewed", "rejected",
            "deadline", "menu_data", "ichef", "unavailable", "too_long",
            "line", "request_error", "killed"}

\* The locals of one run: the mode and explicit key of the command line, the
\* run_day of run(), the run_date of _run_automatic or the target_date of
\* run_manual, the request in progress, the schedule fetched for that date,
\* the end of the current sleep, LINE's answer, and how the process ended.
Runs == [mode : Modes \cup {"none"}, run_day : Dates, date : Dates,
         key : Keys, op : Operations, attempt : 1..max_attempts,
         menu : Menus, wake : Nat, answer : Answers, ending : Endings]

Blank == [mode |-> "none", run_day |-> NoDate, date |-> NoDate,
          key |-> NoKey, op |-> "hours", attempt |-> 1,
          menu |-> "none", wake |-> 0, answer |-> "none", ending |-> "none"]

Broadcasts == [by : Proc, attempt : 1..max_attempts, key : Keys,
               date : Dates, posted : Nat]
Acceptances == [by : Proc, attempt : 1..max_attempts, key : Keys,
                date : Dates, posted : Nat, at : Nat]

Automatic(p) == run[p].mode = "automatic"

\* Inside the `with job_lock(...)` block of main.
Critical(p) == run[p].mode # "dry_run" /\ pc[p] \notin {"idle", "lock", "done"}

InWindow(d, t) == date(t) = d /\ START_TIME <= time(t) /\ time(t) < DEADLINE

-----------------------------------------------------------------------------
\* Process p moves to label l with locals r.
Become(p, l, r) == pc' = [pc EXCEPT ![p] = l] /\ run' = [run EXCEPT ![p] = r]

\* Process p ends; leaving the `with` block, or dying, releases its lock.
Finish(p, ending) ==
  /\ Become(p, "done", [Blank EXCEPT !.mode = run[p].mode,
                                     !.date = run[p].date,
                                     !.key = run[p].key,
                                     !.ending = ending])
  /\ holders' = holders \ {p}
  /\ UNCHANGED <<now, requests, accepted>>

Advance(p, l, r) == Become(p, l, r) /\ UNCHANGED <<now, holders, requests, accepted>>

\* The first attempt of the next operation.
Attempt(r, operation) ==
  [r EXCEPT !.op = operation, !.attempt = 1, !.answer = "none"]

\* self.sleeper(seconds): at label l until `seconds` have passed.
Sleep(p, l, r, seconds) == Advance(p, l, [r EXCEPT !.wake = now + seconds])

\* A sleep may overshoot, and one that ends after the last instant of the
\* model ends at that instant.
Awake(p) == run[p].wake <= now \/ \A t \in Instants : t <= now

\* Mutants: one attempt too many; an attempt that is not counted.
RetriesOnceMore(p) ==
  /\ run[p].attempt <= max_attempts
  /\ Sleep(p, "backoff", [run[p] EXCEPT !.attempt = @ + 1, !.answer = "none"],
           _retry_delay(run[p].attempt))

RetriesForever(p) ==
  /\ run[p].attempt < max_attempts
  /\ Sleep(p, "backoff", [run[p] EXCEPT !.answer = "none"],
           _retry_delay(run[p].attempt))

\* The retry branch of both clients: sleep, then the next attempt.
RetryLater(p) ==
  /\ run[p].attempt < max_attempts
  /\ Sleep(p, "backoff", [run[p] EXCEPT !.attempt = @ + 1, !.answer = "none"],
           _retry_delay(run[p].attempt))

Resume(p) ==
  /\ Awake(p)
  /\ \/ pc[p] = "backoff" /\ Advance(p, "guard", [run[p] EXCEPT !.wake = 0])
     \/ pc[p] = "waiting" /\ Advance(p, "loop", [run[p] EXCEPT !.wake = 0])

\* Mutants: the deadline of any day will do; only iCHEF's client is guarded.
DeadlineOfAnyDay(p) == time(now) < DEADLINE

\* self.before_request(): check_deadline in an automatic run, nothing in the
\* other modes.
check_deadline_passes(p) == date(now) = run[p].run_day /\ time(now) < DEADLINE

GuardsIChefOnly(p) ==
  /\ pc[p] = "guard"
  /\ IF Automatic(p) /\ run[p].op # "line" /\ ~check_deadline_passes(p)
       THEN Finish(p, "deadline")
       ELSE Advance(p, "post", run[p])

before_request(p) ==
  /\ pc[p] = "guard"
  /\ IF Automatic(p) /\ ~check_deadline_passes(p)
       THEN Finish(p, "deadline")
       ELSE Advance(p, "post", run[p])
=============================================================================
