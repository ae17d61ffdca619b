---------------------------- MODULE MCScheduler ----------------------------
(***************************************************************************)
(* Small instances of Scheduler for TLC.                                   *)
(***************************************************************************)
EXTENDS Scheduler

At(d, hour, minute, second) == d * DAY + hour * 3600 + minute * 60 + second

\* Every half minute around 13:35, 14:00 and 15:00, and every minute in between:
\* a sleep ends at one of these instants, also when the clock is set in it.
Window(d) ==
  {At(d, 13, 33, 30) + 30 * i : i \in 0..6} \cup
  {At(d, 13, 36, 0) + 60 * i : i \in 0..83} \cup
  {At(d, 14, 0, 30)} \cup
  {At(d, 14, 59, 0) + 30 * i : i \in 0..4}

MCInstants == Window(0) \cup Window(1)

\* The clock is set to before, into and after the windows of two days.
MCSettings == {At(d, h, 0, 0) : d \in {0, 1}, h \in {14, 15}} \cup
              {At(d, 13, 33, 30) : d \in {0, 1}} \cup {At(0, 14, 59, 30)}

-----------------------------------------------------------------------------
\* An observer: the clock was set by the last step.
VARIABLE clock_set

Observe == clock_set' = (now' # now /\ ~TimePasses)

ObservedInit == Init /\ clock_set = FALSE

\* The process computes, and time passes.  No job need end, a process that is
\* down need not be started, and the clock may be set for ever.
ObservedSpec ==
  /\ ObservedInit
  /\ [][Next /\ Observe]_<<vars, clock_set>>
  /\ WF_vars((Sleep \/ Wake \/ Decide \/ JobStarts) /\ UNCHANGED now)
  /\ WF_vars(TimePasses)

\* Idle on day d, which had no job, and awake before 15:00.
Awaits(d) ==
  /\ phase \in {"deciding", "asleep"}
  /\ date(now) = d /\ time(now) + left < LAST_START
  /\ \A e \in launches : e < d

\* A process that is up and idle, and will be awake while a day's start is
\* still to come or possible, starts the job of that day, unless it is stopped
\* or the clock is set once more (README: "13:35, the scheduler starts the
\* job").
EveryDayIsLaunched ==
  \A d \in {date(t) : t \in Instants} :
    Awaits(d) ~> (d \in launches \/ phase = "down" \/ clock_set)
=============================================================================
