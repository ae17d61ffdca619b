----------------------------- MODULE Supervisor -----------------------------
(***************************************************************************)
(* supervise of service.py: the container's first process starts the       *)
(* children 1..N, each the leader of a process group of its own, watches   *)
(* them, and takes everything down when one ends, when one cannot be       *)
(* started, or when it gets a signal.  A group is its leader and one more  *)
(* process, the job of the scheduler or a worker of gunicorn; the others   *)
(* would do as that one does.                                              *)
(***************************************************************************)
EXTENDS Integers

CONSTANTS
  N,        \* how many children
  Grace,    \* grace_seconds, in rounds of the waiting loop
  Denied,   \* the groups killpg is denied for, and ...
  Refused,  \* ... those whose leader may not be signalled either
  Reaper    \* whether somebody reaps the orphans of the container

ASSUME NAssumption == N \in Nat \ {0}
ASSUME GraceAssumption == Grace \in Nat \ {0}
ASSUME DeniedAssumption == Refused \subseteq Denied /\ Denied \subseteq 1..N
ASSUME ReaperAssumption == Reaper \in BOOLEAN

VARIABLES
  pc,        \* where supervise is
  next,      \* the child its current loop has come to
  leader,    \* for each child, its process
  worker,    \* and the other process of its group
  stopping,  \* stopping is not None
  rounds,    \* rounds of the waiting loop that are over
  alive,     \* the variable of that name
  status,    \* why it stops: to return 0, to return 1, or to raise
  asked      \* the groups that were sent the stop signal

groups == <<leader, worker>>
vars == <<pc, next, leader, worker, stopping, rounds, alive, status, asked>>

Child == 1..N
Pcs == {"spawn", "watch", "term", "grace", "kill", "wait", "returned", "escaped"}

Runs(c) == leader[c] = "running" \/ worker[c] = "running"

\* killpg finds a group as long as it has a member, a zombie included.
Exists(c) == leader[c] \in {"running", "zombie"} \/ worker[c] # "none"

\* child.poll(): the exit status of a leader is collected.
poll(c) ==
  leader' = [leader EXCEPT ![c] = IF @ = "zombie" THEN "reaped" ELSE @]

\* From one loop over the children to the next one.
Go(place) == pc' = place /\ next' = 1
Advance(place) ==
  IF next < N THEN next' = next + 1 /\ UNCHANGED pc ELSE Go(place)

-----------------------------------------------------------------------------
\* popen(..., start_new_session=True); a signal is noticed when all children
\* are started.
Spawn ==
  /\ pc = "spawn" /\ leader' = [leader EXCEPT ![next] = "running"]
  /\ Advance("watch")
  /\ UNCHANGED <<worker, stopping, rounds, alive, status, asked>>

\* popen raises; the finally block takes down the children that did start.
SpawnFails ==
  /\ pc = "spawn" /\ Go("term") /\ status' = "raised"
  /\ UNCHANGED <<groups, stopping, rounds, alive, asked>>

\* A look at one child, and after the last one a sleep of 0.2 seconds.
Watch ==
  /\ pc = "watch" /\ ~(next = 1 /\ stopping)
  /\ poll(next)
  /\ IF leader[next] \in {"zombie", "reaped"}
       THEN Go("term") /\ status' = "child ended"
       ELSE Advance("watch") /\ UNCHANGED status
  /\ UNCHANGED <<worker, stopping, rounds, alive, asked>>

\* The head of the watching loop, after a signal.
Leave ==
  /\ pc = "watch" /\ next = 1 /\ stopping
  /\ Go("term") /\ status' = "signalled"
  /\ UNCHANGED <<groups, stopping, rounds, alive, asked>>

-----------------------------------------------------------------------------
\* send(sig) when killpg is denied for the group: its leader is signalled, if
\* it runs, and if that is denied too the exception leaves the finally block.
SendToLeader(place) ==
  /\ next \in Denied /\ Exists(next)
  /\ IF leader[next] = "running" /\ next \in Refused
       THEN Go("escaped") /\ UNCHANGED leader
       ELSE Advance(place) /\ IF place = "wait" /\ leader[next] = "running"
                                THEN leader' = [leader EXCEPT ![next] = "zombie"]
                                ELSE poll(next)
  /\ UNCHANGED worker

\* Mutant: only the groups whose leader is still there are asked to stop.
TermOfLivingLeaders ==
  /\ pc = "term"
  /\ \/ SendToLeader("grace") /\ UNCHANGED asked
     \/ /\ ~(next \in Denied /\ Exists(next)) /\ Advance("grace")
        /\ asked' = IF leader[next] = "running" THEN asked \cup {next} ELSE asked
        /\ UNCHANGED groups
  /\ UNCHANGED <<stopping, rounds, alive, status>>

\* send(stopping or SIGTERM): what a process makes of it is its own affair.
Term ==
  /\ pc = "term"
  /\ \/ SendToLeader("grace") /\ UNCHANGED asked
     \/ /\ ~(next \in Denied /\ Exists(next)) /\ Advance("grace")
        /\ asked' = IF Exists(next) THEN asked \cup {next} ELSE asked
        /\ UNCHANGED groups
  /\ UNCHANGED <<stopping, rounds, alive, status>>

\* Mutant: the deadline is set anew in every round.
RoundUncounted(found) ==
  /\ pc = "grace" /\ poll(next)
  /\ IF next < N
       THEN next' = next + 1 /\ alive' = (alive \/ found) /\ UNCHANGED pc
       ELSE alive' = FALSE /\ Go(IF alive \/ found THEN "grace" ELSE "kill")
  /\ UNCHANGED <<worker, stopping, rounds, status, asked>>

\* A round of the waiting loop looks at one child after the other, and ends
\* with a sleep of 0.1 seconds if any was found.
Round(found) ==
  /\ pc = "grace" /\ poll(next)
  /\ IF next < N
       THEN next' = next + 1 /\ alive' = (alive \/ found) /\ UNCHANGED <<pc, rounds>>
       ELSE /\ alive' = FALSE
            /\ rounds' = IF alive \/ found THEN rounds + 1 ELSE rounds
            /\ Go(IF (alive \/ found) /\ rounds + 1 < Grace THEN "grace" ELSE "kill")
  /\ UNCHANGED <<worker, stopping, status, asked>>

\* After child.poll(), so that a leader that has ended is no member any more.
IsLeft(c) == leader'[c] = "running" \/ worker[c] # "none"

\* Mutant: a group that may not be probed is taken for gone.
ProbeTrusting == Round(IsLeft(next) /\ next \notin Denied)

\* killpg(pid, 0), whose denial counts as life.
Probe == Round(IsLeft(next))

\* Mutant: the leader is killed, not its group.
KillLeader ==
  /\ pc = "kill"
  /\ leader' = [leader EXCEPT ![next] = IF @ = "running" THEN "zombie" ELSE @]
  /\ Advance("wait")
  /\ UNCHANGED <<worker, stopping, rounds, alive, status, asked>>

\* Mutant: a denied SIGKILL is noted, and nothing else.
KillIfAllowed ==
  /\ pc = "kill" /\ Advance("wait")
  /\ leader' = [leader EXCEPT ![next] =
                  IF @ = "running" /\ next \notin Denied THEN "zombie" ELSE @]
  /\ UNCHANGED <<worker, stopping, rounds, alive, status, asked>>

\* send(SIGKILL): no member of the group survives it.
Kill ==
  /\ pc = "kill"
  /\ \/ SendToLeader("wait")
     \/ /\ ~(next \in Denied /\ Exists(next)) /\ Advance("wait")
        /\ leader' = [leader EXCEPT ![next] = IF @ = "running" THEN "zombie" ELSE @]
        /\ worker' = [worker EXCEPT ![next] = IF @ = "running" THEN "zombie" ELSE @]
  /\ UNCHANGED <<stopping, rounds, alive, status, asked>>

\* Mutant: what is waited for is the end of the whole group.
WaitForGroup ==
  /\ pc = "wait" /\ leader[next] # "running" /\ worker[next] = "none"
  /\ poll(next) /\ Advance("returned")
  /\ UNCHANGED <<worker, stopping, rounds, alive, status, asked>>

\* child.wait() of every child that was started, then the old handlers.
Wait ==
  /\ pc = "wait" /\ leader[next] # "running"
  /\ poll(next) /\ Advance("returned")
  /\ UNCHANGED <<worker, stopping, rounds, alive, status, asked>>

Supervise ==
  Spawn \/ Watch \/ Leave \/ Term \/ Probe \/ Kill \/ Wait

-----------------------------------------------------------------------------
\* The processes: a leader starts another one, either may end at any moment,
\* asked to or not, and may ignore that it is asked.  An orphan's parent is
\* the container's first process, which waits for its own children only.
Fork(c) ==
  /\ leader[c] = "running" /\ worker[c] = "none"
  /\ worker' = [worker EXCEPT ![c] = "running"] /\ UNCHANGED leader

LeaderEnds(c) ==
  /\ leader[c] = "running"
  /\ leader' = [leader EXCEPT ![c] = "zombie"] /\ UNCHANGED worker

WorkerEnds(c) ==
  /\ worker[c] = "running"
  /\ worker' = [worker EXCEPT ![c] = "zombie"] /\ UNCHANGED leader

WorkerIsReaped(c) ==
  /\ worker[c] = "zombie" /\ (leader[c] = "running" \/ Reaper)
  /\ worker' = [worker EXCEPT ![c] = "none"] /\ UNCHANGED leader

Processes ==
  /\ \E c \in Child : Fork(c) \/ LeaderEnds(c) \/ WorkerEnds(c) \/ WorkerIsReaped(c)
  /\ UNCHANGED <<pc, next, stopping, rounds, alive, status, asked>>

\* stop(signum, frame), on SIGTERM or SIGINT.
Signal ==
  /\ pc \notin {"returned", "escaped"} /\ stopping' = TRUE
  /\ UNCHANGED <<pc, next, groups, rounds, alive, status, asked>>

Init ==
  /\ pc = "spawn" /\ next = 1
  /\ leader = [c \in Child |-> "none"] /\ worker = [c \in Child |-> "none"]
  /\ stopping = FALSE /\ rounds = 0 /\ alive = FALSE
  /\ status = "none" /\ asked = {}

\* With its first process the container and all that runs in it end, and
\* Docker may start it again (README: --restart unless-stopped).
Restart ==
  /\ pc \in {"returned", "escaped"} /\ Go("spawn")
  /\ leader' = [c \in Child |-> "none"] /\ worker' = [c \in Child |-> "none"]
  /\ stopping' = FALSE /\ rounds' = 0 /\ alive' = FALSE
  /\ status' = "none" /\ asked' = {}

Next == Supervise \/ SpawnFails \/ Processes \/ Signal \/ Restart

Spec == Init /\ [][Next]_vars

\* The container's first process is scheduled, and its sleeps end.
FairSpec == Spec /\ WF_vars(Supervise)

TypeOK ==
  /\ pc \in Pcs /\ next \in Child
  /\ leader \in [Child -> {"none", "running", "zombie", "reaped"}]
  /\ worker \in [Child -> {"none", "running", "zombie"}]
  /\ stopping \in BOOLEAN /\ alive \in BOOLEAN
  /\ rounds \in 0..Grace
  /\ status \in {"none", "signalled", "child ended", "raised"}
  /\ asked \subseteq Child

-----------------------------------------------------------------------------
\* When supervise has returned, no process runs of any group that may be
\* signalled: not a worker whose leader had ended, not one that ignored the stop
\* signal, not a child that was started before another failed to start.  (Of a
\* group in Denied supervise reaches the leader at best.)
NoSurvivors == pc = "returned" => \A c \in Child \ Denied : ~Runs(c)

\* Nothing is killed before the grace period is over: it is cut short only
\* when nothing runs any more, in any group, its leader gone or not.
GraceIsGiven ==
  pc \in {"kill", "wait"} /\ rounds < Grace => \A c \in Child : ~Runs(c)

\* Of the groups that may be signalled, nothing is killed that was not asked to
\* stop before ("Leaders may exit before their workers; signal whole groups
\* regardless").
AskedBeforeKilled ==
  pc \in {"grace", "kill"} => \A c \in Child \ Denied : Runs(c) => c \in asked

\* child.wait() waits for nobody: each leader was sent SIGKILL, by its group or,
\* where that was denied, by itself.
WaitsForNobody == pc = "wait" => \A c \in Child : leader[c] # "running"

Stage ==
  CASE pc = "term" -> 1 [] pc = "grace" -> 2 [] pc = "kill" -> 3 [] pc = "wait" -> 4
    [] pc \in {"returned", "escaped"} -> 5 [] OTHER -> 0

Onwards ==
  \/ Stage' > Stage
  \/ Stage' = Stage /\ rounds' > rounds
  \/ Stage' = Stage /\ rounds' = rounds /\ next' > next

\* Once it is taking down the children, every step of supervise goes on: to the
\* next child, round or loop, none of which comes again; and nothing the
\* processes do and no further signal sets it back.  With WaitsForNobody this is
\* why ShutsDown: there are finitely many children and rounds.
ShutdownGoesOn ==
  [][0 < Stage /\ Stage < 5 =>
       Onwards \/ (~Supervise /\ UNCHANGED <<pc, next, rounds>>)]_vars

\* supervise comes to its end after a signal, the end of a child or a child
\* that cannot be started, whatever the processes do.
ShutsDown ==
  (stopping \/ pc \notin {"spawn", "watch"}
     \/ \E c \in Child : leader[c] \in {"zombie", "reaped"})
  ~> pc \in {"returned", "escaped"}

\* A group that may not be signalled keeps no other group from being asked to
\* stop ("Keep cleaning up other groups even if a group is inaccessible").
OthersAreAsked ==
  pc \in {"returned", "escaped"} => \A c \in Child \ Denied : Runs(c) => c \in asked
=============================================================================
