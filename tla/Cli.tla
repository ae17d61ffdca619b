-------------------------------- MODULE Cli --------------------------------
(***************************************************************************)
(* main() of the command line: what happens before the job starts, and the *)
(* ways a process may die.                                                 *)
(***************************************************************************)
EXTENDS ScheduleJob

\* --retry-key takes any UUID for any date: the key of any day, or the key of
\* an earlier run by hand.  (A UUID nobody used before is as good as a new one.)
ExplicitKeys(p) ==
  {daily_retry_key(date(t)) : t \in Instants} \cup
  {run[q].key : q \in {q \in Proc \ {p} : run[q].mode = "manual"}}

LaunchAutomatic(p) ==
  /\ pc[p] = "idle" /\ "automatic" \in Modes
  /\ Advance(p, "lock", [Blank EXCEPT !.mode = "automatic"])

\* Mutant: the target date is not checked.
AnyTarget(d) == TRUE

\* The target date is resolved, and refused if it lies in the future, before
\* the lock is taken.
target_allowed(d) == d <= date(now)

LaunchManual(p) ==
  /\ pc[p] = "idle" /\ "manual" \in Modes
  /\ \E d \in {date(t) : t \in Instants} :
     /\ target_allowed(d)
     /\ \E key \in {NoKey} \cup ExplicitKeys(p) :
          Advance(p, "lock",
                  [Blank EXCEPT !.mode = "manual", !.date = d, !.key = key])

\* A preview takes no lock and has no guard.
LaunchPreview(p) ==
  /\ pc[p] = "idle" /\ "dry_run" \in Modes
  /\ \E d \in {date(t) : t \in Instants} :
     /\ target_allowed(d)
     /\ Advance(p, "guard", [Blank EXCEPT !.mode = "dry_run", !.date = d])

\* Arguments, settings or the target date are not acceptable: exit 2.
Reject(p) == pc[p] = "idle" /\ Finish(p, "rejected")

\* Mutant: the lock is taken without looking.
AcquireAnyway(p) ==
  /\ pc[p] = "lock"
  /\ holders' = holders \cup {p}
  /\ Become(p, "begin", run[p])
  /\ UNCHANGED <<now, requests, accepted>>

\* job_lock: a non-blocking flock.  A busy lock ends the run with exit 0, an
\* unusable lock file with exit 2.
AcquireLock(p) ==
  /\ pc[p] = "lock" /\ holders = {}
  /\ holders' = holders \cup {p}
  /\ Become(p, "begin", run[p])
  /\ UNCHANGED <<now, requests, accepted>>

SkipBusy(p) == pc[p] = "lock" /\ holders # {} /\ Finish(p, "skipped")

\* Mutant: an unusable lock file is taken for a busy one.
UnusableIsBusy(p) == pc[p] = "lock" /\ Finish(p, "skipped")

LockUnusable(p) == pc[p] = "lock" /\ Finish(p, "rejected")

\* The process is killed (container stop, out of memory): the kernel releases
\* its flock, and what it sent stays sent.
Die(p) == pc[p] \notin {"idle", "done"} /\ Finish(p, "killed")

Launch(p) == LaunchAutomatic(p) \/ LaunchManual(p) \/ LaunchPreview(p) \/ Reject(p)

\* What a launched process does by itself.
Step(p) == AcquireLock(p) \/ SkipBusy(p) \/ LockUnusable(p) \/ JobStep(p)
=============================================================================
