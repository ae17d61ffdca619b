--------------------------- MODULE DailyBroadcast ---------------------------
(***************************************************************************)
(* What the bot promises its friends, with no process, lock, retry or      *)
(* message: which broadcasts under the key of a day may reach them, and    *)
(* when a day may be reported as done.  The broadcasts are given by the    *)
(* implementation; a step adds one of them if the promise allows it.  LINE *)
(* keeps a key for RETENTION and broadcasts once under it in that time.    *)
(***************************************************************************)
EXTENDS Calendar

CONSTANT MaxDelay  \* from sending a request to its broadcast

VARIABLES
  scheduled,  \* broadcasts of automatic runs
  byHand,     \* broadcasts of manual runs under the key of their date
  astray,     \* broadcasts of manual runs under the key of another day
  reported    \* the days an automatic run reported as done

InTime(d, t) == date(t) = d /\ START_TIME <= time(t) /\ time(t) < DEADLINE

Init == scheduled = {} /\ byHand = {} /\ astray = {} /\ reported = {}

Under(d) == {e \in scheduled \cup byHand \cup astray : e.key.of = d}

\* A broadcast that LINE may make now under the key of a day.
Possible(n) ==
  /\ \A e \in Under(n.key.of) : e.at + RETENTION <= n.at
  /\ n.posted <= n.at /\ n.at <= n.posted + MaxDelay

\* Friends get the schedule of a day at most once from automatic runs, asked
\* for on that day between 13:40 and 15:00, and not if it was already sent.
Announce(n) ==
  /\ scheduled' = scheduled \cup {n} /\ n \notin scheduled
  /\ Possible(n) /\ n.key.of = n.date
  /\ \A e \in scheduled \cup byHand : e.date # n.date
  /\ InTime(n.date, n.posted)
  /\ UNCHANGED <<byHand, astray, reported>>

\* An operator may send a day's schedule again under its key, never ahead of
\* that day and never within a day of the broadcast before.
Repeat(n) ==
  /\ byHand' = byHand \cup {n} /\ n \notin byHand
  /\ Possible(n) /\ n.key.of = n.date /\ n.date <= date(n.posted)
  /\ UNCHANGED <<scheduled, astray, reported>>

\* An operator may spend the key of a day on the schedule of another.
Spend(n) ==
  /\ astray' = astray \cup {n} /\ n \notin astray
  /\ Possible(n) /\ n.key.of # n.date /\ n.date <= date(n.posted)
  /\ UNCHANGED <<scheduled, byHand, reported>>

\* A day is reported as done only if its schedule was sent, or its key spent.
Report(d) ==
  /\ Under(d) # {}
  /\ reported' = reported \cup {d}
  /\ UNCHANGED <<scheduled, byHand, astray>>

Next ==
  \/ \E n \in scheduled' : Announce(n)
  \/ \E n \in byHand' : Repeat(n)
  \/ \E n \in astray' : Spend(n)
  \/ \E d \in reported' : Report(d)

Spec == Init /\ [][Next]_<<scheduled, byHand, astray, reported>>
=============================================================================
