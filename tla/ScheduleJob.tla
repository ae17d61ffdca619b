---------------------------- MODULE ScheduleJob ----------------------------
(***************************************************************************)
(* ScheduleJob.run (automatic), ScheduleJob.run_manual and the preview in  *)
(* main: from the lock to the end of the process.                          *)
(***************************************************************************)
EXTENDS IChefClient, LineBroadcaster

\* run() remembers the day for check_deadline; run_manual fixes its retry key.
Begin(p) ==
  /\ pc[p] = "begin"
  /\ \/ /\ Automatic(p)
        /\ Advance(p, "loop", [run[p] EXCEPT !.run_day = date(now)])
     \/ /\ run[p].mode = "manual"
        /\ Advance(p, "guard",
             [run[p] EXCEPT !.key = IF @ = NoKey THEN manual_retry_key(p) ELSE @])

\* The head of the loop of _run_automatic.  The first pass fixes run_date,
\* which is read later than run_day.
Today(p) == IF run[p].date = NoDate THEN date(now) ELSE run[p].date

CrossedMidnight(p) ==
  pc[p] = "loop" /\ Today(p) # date(now) /\ Finish(p, "deadline")

WaitForWindow(p) ==
  /\ pc[p] = "loop" /\ Today(p) = date(now) /\ time(now) < START_TIME
  /\ Sleep(p, "waiting", [run[p] EXCEPT !.date = Today(p)],
           Least(POLL_INTERVAL_SECONDS, _seconds_until(now, START_TIME)))

StartedTooLate(p) ==
  /\ pc[p] = "loop" /\ Today(p) = date(now) /\ time(now) >= DEADLINE
  /\ Finish(p, "deadline")

Poll(p) ==
  /\ pc[p] = "loop" /\ InWindow(Today(p), now)
  /\ Advance(p, "guard", Attempt([run[p] EXCEPT !.date = Today(p)], "hours"))

\* After a fetch the automatic run checks the deadline again, ...
RecheckDeadline(p) ==
  /\ pc[p] = "fetched" /\ Automatic(p)
  /\ IF check_deadline_passes(p) THEN Advance(p, "checked", run[p])
                                ELSE Finish(p, "deadline")

\* Mutant: the wait for the next poll is not cut short at the deadline.
PollsBlindly(p) ==
  /\ pc[p] = "checked" /\ Automatic(p)
  /\ IF run[p].menu # "none" THEN broadcast(p, daily_retry_key(run[p].date))
     ELSE Sleep(p, "waiting", Attempt(run[p], "hours"), POLL_INTERVAL_SECONDS)

\* ... reads the clock once more, and then broadcasts under the key of the day
\* or sleeps towards the next poll.
EvaluateAutomatic(p) ==
  /\ pc[p] = "checked" /\ Automatic(p)
  /\ IF run[p].menu # "none" THEN broadcast(p, daily_retry_key(run[p].date))
     ELSE Sleep(p, "waiting", Attempt(run[p], "hours"),
                Least(POLL_INTERVAL_SECONDS, _seconds_until(now, DEADLINE)))

EvaluateManual(p) ==
  /\ pc[p] = "fetched" /\ run[p].mode = "manual"
  /\ IF run[p].menu = "none" THEN Finish(p, "unavailable")
                             ELSE broadcast(p, run[p].key)

EvaluatePreview(p) ==
  /\ pc[p] = "fetched" /\ run[p].mode = "dry_run"
  /\ Finish(p, CASE run[p].menu = "none" -> "unavailable"
                 [] run[p].menu = "too_long" -> "too_long"
                 [] run[p].menu = "fits" -> "previewed")

JobStep(p) ==
  \/ Begin(p) \/ CrossedMidnight(p) \/ WaitForWindow(p) \/ StartedTooLate(p)
  \/ Poll(p) \/ before_request(p) \/ Resume(p)
  \/ FetchStep(p) \/ BroadcastStep(p)
  \/ RecheckDeadline(p) \/ EvaluateAutomatic(p) \/ EvaluateManual(p) \/ EvaluatePreview(p)
=============================================================================
