----------------------- MODULE BroadcastingInvariant -----------------------
(***************************************************************************)
(* The inductive invariant behind the theorems of BroadcastingProofs.      *)
(***************************************************************************)
EXTENDS Broadcasting

\* From the first guard of a fetch to the last answer of a broadcast.
Working(p) == pc[p] \in {"guard", "post", "reply", "backoff", "fetched", "checked"}

Started(p) == pc[p] \in {"loop", "waiting"} \/ Working(p)

\* OneBroadcaster, and that no preview is on its way to the lock.
LockInvariant ==
  OneBroadcaster /\ \A p \in Proc : pc[p] = "lock" => run[p].mode # "dry_run"

Messages == requests \cup accepted

\* run_day is read before run_date, and both are days that have come; the loop
\* lets no fetch begin before the window of run_date opens.
DaysInOrder(p) ==
  /\ Automatic(p) /\ pc[p] \in {"lock", "begin"} => run[p].date = NoDate
  /\ Automatic(p) /\ Started(p) =>
       /\ run[p].run_day \in Nat /\ run[p].run_day <= date(now)
       /\ \/ pc[p] = "loop" /\ run[p].date = NoDate
          \/ run[p].run_day <= run[p].date /\ run[p].date <= date(now)
  /\ Automatic(p) /\ Working(p) => run[p].date * 86400 + START_TIME <= now

\* What a check established still holds when the request is sent, and when the
\* sleep is chosen.
GuardHolds(p) ==
  pc[p] \in {"post", "checked"} /\ Automatic(p) => check_deadline_passes(p)

\* A run talks to iCHEF first and to LINE last, under a key: that of its date,
\* which an automatic run gets last, or one that a manual run is given or makes.
Phases(p) ==
  /\ pc[p] = "idle" => run[p] = Blank
  /\ pc[p] \in {"loop", "waiting"} => Automatic(p)
  /\ run[p].op = "line" => /\ Working(p) /\ pc[p] \notin {"fetched", "checked"}
                           /\ run[p].key # NoKey
  /\ run[p].key # NoKey => \/ run[p].mode = "manual"
                           \/ Automatic(p) /\ run[p].key = daily_retry_key(run[p].date)
  /\ Automatic(p) /\ run[p].key # NoKey => run[p].op = "line" \/ pc[p] = "done"
  /\ run[p].mode = "manual" =>
       run[p].date <= date(now) /\ (Working(p) => run[p].key # NoKey)

\* A fresh key was made by a run at work, which is over before another run that
\* repeats the key gets to use it.
KeyHasMaker(p) ==
  \A q \in Proc : run[q].key = manual_retry_key(p) =>
    /\ run[p].key = manual_retry_key(p) /\ pc[p] \notin {"idle", "lock", "begin"}
    /\ p # q /\ Critical(q) => pc[p] = "done"

\* A message carries the key and date of its run, which stay as they are.
MatchesRun(m) ==
  /\ pc[m.by] = "done" \/ run[m.by].op = "line"
  /\ m.key = run[m.by].key /\ m.date = run[m.by].date /\ m.key # NoKey

\* It was sent when its date had come, and by an automatic run in the window.
SentInTime(m) ==
  /\ m.posted <= now /\ m.date <= date(m.posted)
  /\ m.key.kind = "uuid4" /\ m.key.of # m.by => pc[m.key.of] = "done"
  /\ Automatic(m.by) => m.key = daily_retry_key(m.date)
  /\ Automatic(m.by) /\ ~Preemption => InWindow(m.date, m.posted)

AcceptedInTime(a) ==
  a.posted <= a.at /\ a.at <= a.posted + MaxDelay /\ a.at <= now

\* A confirmation was preceded by a broadcast under the key it confirms.
Delivered(p) ==
  \E a \in accepted :
    a.key = run[p].key /\ (run[p].key = manual_retry_key(p) => a.by = p)

AnswersAreTrue(p) ==
  run[p].answer \in {"success", "conflict"} =>
    pc[p] = "reply" /\ run[p].op = "line" /\ Delivered(p)

\* The inductive invariants, each relative to those before it.
WindowInvariant ==
  \A p \in Proc : DaysInOrder(p) /\ (~Preemption => GuardHolds(p))

MessageInvariant ==
  /\ \A p \in Proc : Phases(p) /\ KeyHasMaker(p) /\ AnswersAreTrue(p)
  /\ \A m \in Messages : MatchesRun(m) /\ SentInTime(m)
  /\ \A a \in accepted : AcceptedInTime(a)

\* A completed run is over, and was right about LINE.
SuccessInvariant ==
  \A p \in Proc : run[p].ending = "completed" => pc[p] = "done" /\ Delivered(p)
=============================================================================
