-------------------------- MODULE SupervisorProofs --------------------------
(***************************************************************************)
(* The supervisor, for any number of children and whichever groups it may  *)
(* not signal: all it may signal are asked to stop, are given the grace    *)
(* period, and do not outlive it.                                          *)
(***************************************************************************)
EXTENDS Supervisor, TLAPS

\* How far the current loop over the children has got: who has been asked, who
\* has been found gone, who has been killed.
SupervisorInvariant ==
  /\ TypeOK
  /\ pc \in {"spawn", "watch", "term"} => rounds = 0 /\ ~alive
  /\ pc = "term" => \A c \in Child \ Denied : c < next /\ Runs(c) => c \in asked
  /\ pc = "grace" =>
       rounds < Grace /\ (~alive => \A c \in Child : c < next => ~Runs(c))
  /\ pc = "kill" => \A c \in Child \ Denied : c < next => ~Runs(c)
  /\ pc = "kill" => \A c \in Child : c < next => leader[c] # "running"
  /\ pc = "wait" => \A c \in Child \ Denied : ~Runs(c)
  /\ NoSurvivors /\ GraceIsGiven /\ AskedBeforeKilled /\ WaitsForNobody

LEMMA ChildIsNat ==
  N \in Nat /\ 1 \in Child /\ \A c \in Child : c \in Nat /\ 1 <= c /\ c <= N
  BY NAssumption DEF Child

LEMMA ChildOrder ==
  \A c, d \in Child :
    ~(c < 1) /\ (c < d + 1 => c <= d) /\ (c <= d => c < d \/ c = d) /\ (~(d < N) => c <= d)
  BY NAssumption DEF Child

\* A step of a loop over the children keeps next a child, and one that leaves
\* the loop has come to the last child.
LEMMA Advances ==
  ASSUME TypeOK, NEW place \in Pcs, Advance(place)
  PROVE  /\ pc' \in Pcs /\ next' \in Child
         /\ \/ pc' = pc /\ next' = next + 1
            \/ pc' = place /\ next' = 1 /\ \A c \in Child : c <= next
<1>1. next \in 1..N /\ pc \in Pcs /\ N \in Nat
  BY NAssumption DEF TypeOK, Child
<1>2. CASE next < N
  BY <1>1, <1>2 DEF Advance, Child
<1>3. CASE ~(next < N)
  <2>1. next \in Child /\ pc' = place /\ next' = 1
    BY <1>1, <1>3 DEF Advance, Go, Child
  <2> QED
    BY <2>1, <1>3, ChildIsNat, ChildOrder
<1> QED
  BY <1>2, <1>3

\* What send does to a group it is denied for.
LEMMA SendsToLeader ==
  ASSUME TypeOK, NEW place \in Pcs, SendToLeader(place)
  PROVE  /\ next \in Denied /\ worker' = worker
         /\ leader' \in [Child -> {"none", "running", "zombie", "reaped"}]
         /\ \A c \in Child : leader'[c] = "running" => leader[c] = "running"
         /\ \/ pc' = "escaped" /\ next' = 1
            \/ Advance(place)
  BY DEF SendToLeader, TypeOK, Go, poll

LEMMA Polls ==
  ASSUME TypeOK, NEW c \in Child, poll(c)
  PROVE  /\ leader' \in [Child -> {"none", "running", "zombie", "reaped"}]
         /\ \A d \in Child : leader'[d] = "running" <=> leader[d] = "running"
  BY DEF poll, TypeOK

\* A group that has ended stays ended: only its leader adds to it.
LEMMA NothingRevives ==
  ASSUME TypeOK, Next, pc # "spawn", pc \notin {"returned", "escaped"}
  PROVE  \A c \in Child : /\ Runs(c)' => Runs(c)
                          /\ leader'[c] = "running" => leader[c] = "running"
<1>1. CASE Watch \/ Wait
  BY <1>1, Polls DEF Watch, Wait, Runs, TypeOK
<1>2. CASE Leave \/ Signal
  BY <1>2 DEF Leave, Signal, Runs, groups
<1>3. CASE Term
  BY <1>3, SendsToLeader DEF Term, Runs, groups, Pcs
<1>4. CASE Probe
  BY <1>4, Polls DEF Probe, Round, Runs, TypeOK
<1>5. CASE Kill
  BY <1>5, SendsToLeader DEF Kill, Runs, Pcs, TypeOK
<1>6. CASE Processes
  <2>1. PICK d \in Child : Fork(d) \/ LeaderEnds(d) \/ WorkerEnds(d) \/ WorkerIsReaped(d)
    BY <1>6 DEF Processes
  <2> QED
    BY <2>1 DEF Fork, LeaderEnds, WorkerEnds, WorkerIsReaped, Runs, TypeOK
<1>7. CASE Spawn \/ SpawnFails \/ Restart
  BY <1>7 DEF Spawn, SpawnFails, Restart
<1> QED
  BY <1>1, <1>2, <1>3, <1>4, <1>5, <1>6, <1>7 DEF Next, Supervise

-----------------------------------------------------------------------------
LEMMA SpawnStep ==
  ASSUME SupervisorInvariant, Spawn \/ SpawnFails \/ Watch \/ Leave
  PROVE  SupervisorInvariant'
<1>1. CASE Spawn
  <2>1. "watch" \in Pcs /\ leader' \in [Child -> {"none", "running", "zombie", "reaped"}]
    BY <1>1 DEF Spawn, SupervisorInvariant, TypeOK, Pcs
  <2>2. pc' \in {"spawn", "watch"} /\ next' \in Child
    BY <1>1, <2>1, Advances DEF Spawn, SupervisorInvariant
  <2> QED
    BY <1>1, <2>1, <2>2 DEF Spawn, SupervisorInvariant, TypeOK, Pcs, NoSurvivors,
                            GraceIsGiven, AskedBeforeKilled, WaitsForNobody
<1>2. CASE SpawnFails \/ Leave
  <2>1. pc' = "term" /\ next' = 1 /\ status' \in {"signalled", "raised"}
        /\ UNCHANGED <<leader, worker, stopping, rounds, alive, asked>>
        /\ pc \in {"spawn", "watch"}
    BY <1>2 DEF SpawnFails, Leave, Go, groups
  <2>2. \A c \in Child : ~(c < 1)
    BY ChildOrder
  <2> QED
    BY <2>1, <2>2, ChildIsNat DEF SupervisorInvariant, TypeOK, Pcs, NoSurvivors,
                            GraceIsGiven, AskedBeforeKilled, WaitsForNobody
<1>3. CASE Watch
  <2>1. leader' \in [Child -> {"none", "running", "zombie", "reaped"}]
    BY <1>3, Polls DEF Watch, SupervisorInvariant, TypeOK
  <2>2. /\ pc = "watch" /\ next' \in Child
        /\ \/ pc' = "term" /\ next' = 1 /\ status' = "child ended"
           \/ pc' = "watch" /\ status' = status
    BY <1>3, Advances, ChildIsNat DEF Watch, Go, SupervisorInvariant, Pcs
  <2>3. \A c \in Child : ~(c < 1)
    BY ChildOrder
  <2> QED
    BY <1>3, <2>1, <2>2, <2>3 DEF Watch, SupervisorInvariant, TypeOK, Pcs, NoSurvivors,
                            GraceIsGiven, AskedBeforeKilled, WaitsForNobody
<1> QED
  BY <1>1, <1>2, <1>3

LEMMA TermStep ==
  ASSUME SupervisorInvariant, Term
  PROVE  SupervisorInvariant'
<1>1. /\ pc = "term" /\ TypeOK /\ "grace" \in Pcs /\ Next /\ next \in Child
      /\ UNCHANGED <<stopping, rounds, alive, status>> /\ rounds = 0 /\ ~alive
  BY DEF Term, SupervisorInvariant, TypeOK, Pcs, Next, Supervise
<1>2. \A c \in Child : Runs(c)' => Runs(c)
  BY <1>1, NothingRevives
<1>3. /\ asked \subseteq asked' /\ asked' \subseteq Child
      /\ next \notin Denied /\ Runs(next) => next \in asked'
      /\ leader' \in [Child -> {"none", "running", "zombie", "reaped"}] /\ worker' = worker
      /\ (pc' = "escaped" /\ next' = 1) \/ Advance("grace")
  BY <1>1, SendsToLeader DEF Term, TypeOK, groups, Exists, Runs
<1>4. /\ pc' \in Pcs /\ next' \in Child
      /\ \/ pc' = "escaped"
         \/ pc' = "term" /\ next' = next + 1
         \/ pc' = "grace" /\ next' = 1 /\ \A c \in Child : c <= next
  BY <1>1, <1>3, Advances, ChildIsNat DEF Pcs
<1>5. \A c \in Child \ Denied : c <= next /\ Runs(c)' => c \in asked'
  <2> SUFFICES ASSUME NEW c \in Child \ Denied, c <= next, Runs(c)' PROVE c \in asked'
    OBVIOUS
  <2>1. Runs(c) /\ (c < next \/ c = next)
    BY <1>1, <1>2, ChildOrder
  <2>2. c < next => c \in asked
    BY <1>1, <2>1 DEF SupervisorInvariant
  <2> QED
    BY <1>3, <2>1, <2>2
<1>6. TypeOK' /\ (pc' = "term" => rounds' = 0 /\ ~alive')
  BY <1>1, <1>3, <1>4 DEF TypeOK
<1>7. CASE pc' = "escaped"
  BY <1>6, <1>7 DEF SupervisorInvariant, NoSurvivors, GraceIsGiven, AskedBeforeKilled, WaitsForNobody
<1>8. CASE pc' = "term" /\ next' = next + 1
  <2>1. \A c \in Child : c < next' => c <= next
    BY <1>1, <1>8, ChildOrder
  <2> QED
    BY <1>5, <1>6, <1>8, <2>1 DEF SupervisorInvariant, NoSurvivors, GraceIsGiven,
                                  AskedBeforeKilled, WaitsForNobody
<1>9. CASE pc' = "grace" /\ next' = 1 /\ \A c \in Child : c <= next
  <2>1. \A c \in Child : ~(c < next')
    BY <1>9, ChildOrder
  <2>2. rounds' < Grace
    BY <1>1, GraceAssumption
  <2> QED
    BY <1>5, <1>6, <1>9, <2>1, <2>2 DEF SupervisorInvariant, NoSurvivors, GraceIsGiven,
                                        AskedBeforeKilled, WaitsForNobody
<1> QED
  BY <1>4, <1>7, <1>8, <1>9

\* The waiting loop is left with rounds to spare only when it found nobody.
LEMMA ProbeStep ==
  ASSUME SupervisorInvariant, Probe
  PROVE  SupervisorInvariant'
<1> DEFINE found == alive \/ IsLeft(next)
<1>1. /\ pc = "grace" /\ TypeOK /\ Next /\ poll(next) /\ rounds < Grace
      /\ UNCHANGED <<worker, stopping, status, asked>>
  BY DEF Probe, Round, SupervisorInvariant, Next, Supervise
<1>0. next \in Child /\ rounds \in Nat /\ alive \in BOOLEAN
  <2>1. next \in Child /\ rounds \in 0..Grace /\ alive \in BOOLEAN
    BY <1>1 DEF TypeOK
  <2> QED
    BY <2>1, GraceAssumption
<1>2. \A c \in Child : Runs(c)' => Runs(c)
  BY <1>1, NothingRevives
<1>3. leader' \in [Child -> {"none", "running", "zombie", "reaped"}]
  BY <1>0, <1>1, Polls
<1>4. ~found => \A c \in Child : c <= next => ~Runs(c)'
  <2> SUFFICES ASSUME ~found, NEW c \in Child, c <= next PROVE ~Runs(c)'
    OBVIOUS
  <2>1. CASE c < next
    BY <2>1, <1>1, <1>2 DEF SupervisorInvariant
  <2>2. CASE c = next
    BY <2>2, <1>1 DEF IsLeft, Runs
  <2> QED
    BY <2>1, <2>2, <1>0, ChildOrder
<1>5. \A c \in Child \ Denied : Runs(c)' => c \in asked'
  BY <1>1, <1>2 DEF SupervisorInvariant, AskedBeforeKilled, WaitsForNobody
<1>6. CASE next < N
  <2>1. /\ pc' = "grace" /\ rounds' = rounds /\ next' = next + 1
        /\ alive' = found
    BY <1>6 DEF Probe, Round
  <2>2. next' \in Child /\ \A c \in Child : c < next' => c <= next
    BY <2>1, <1>0, <1>6, ChildIsNat, ChildOrder DEF Child
  <2>3. alive' \in BOOLEAN /\ TypeOK'
    BY <2>1, <2>2, <1>1, <1>3 DEF TypeOK
  <2> HIDE DEF found
  <2> QED
    BY <1>1, <1>4, <1>5, <2>1, <2>2, <2>3
       DEF SupervisorInvariant, NoSurvivors, GraceIsGiven, AskedBeforeKilled, WaitsForNobody
<1>7. CASE ~(next < N)
  <2>1. /\ alive' = FALSE /\ next' = 1
        /\ rounds' = IF found THEN rounds + 1 ELSE rounds
        /\ pc' = IF found /\ rounds + 1 < Grace THEN "grace" ELSE "kill"
    BY <1>7 DEF Probe, Round, Go
  <2>2. \A c \in Child : c <= next /\ ~(c < next')
    BY <1>0, <1>7, <2>1, ChildOrder
  <2> HIDE DEF found
  <2>6. rounds' \in 0..Grace /\ pc' \in Pcs /\ next' \in Child /\ alive' \in BOOLEAN
    <3>1. rounds' \in {rounds, rounds + 1} /\ pc' \in {"grace", "kill"}
      BY <2>1
    <3>2. rounds' \in 0..Grace
      BY <3>1, <1>0, <1>1, GraceAssumption
    <3> QED
      BY <3>1, <3>2, <2>1, ChildIsNat DEF Pcs
  <2>3. TypeOK'
    BY <2>6, <1>1, <1>3 DEF TypeOK
  <2>4. CASE found /\ rounds + 1 < Grace
    <3>1. pc' = "grace" /\ rounds' < Grace
      BY <2>1, <2>4
    <3> QED
      BY <3>1, <1>5, <2>2, <2>3
         DEF SupervisorInvariant, NoSurvivors, GraceIsGiven, AskedBeforeKilled, WaitsForNobody
  <2>5. CASE ~(found /\ rounds + 1 < Grace)
    <3>1. pc' = "kill"
      BY <2>1, <2>5
    <3>2. rounds' < Grace => \A c \in Child : ~Runs(c)'
      BY <2>1, <2>2, <2>5, <1>0, <1>4, GraceAssumption
    <3> QED
      BY <3>1, <3>2, <1>5, <2>2, <2>3
         DEF SupervisorInvariant, NoSurvivors, GraceIsGiven, AskedBeforeKilled, WaitsForNobody
  <2> QED
    BY <2>4, <2>5
<1> QED
  BY <1>6, <1>7

LEMMA KillStep ==
  ASSUME SupervisorInvariant, Kill
  PROVE  SupervisorInvariant'
<1>1. /\ pc = "kill" /\ TypeOK /\ "wait" \in Pcs /\ Next /\ next \in Child
      /\ UNCHANGED <<stopping, rounds, alive, status, asked>>
  BY DEF Kill, SupervisorInvariant, TypeOK, Pcs, Next, Supervise
<1>2. \A c \in Child : Runs(c)' => Runs(c)
  BY <1>1, NothingRevives
<1>0. \A c \in Child : leader'[c] = "running" => leader[c] = "running"
  BY <1>1, NothingRevives
<1>3. pc' = "escaped" \/ leader'[next] # "running"
  <2>1. leader \in [Child -> {"none", "running", "zombie", "reaped"}] /\ next \in Child
    BY <1>1 DEF TypeOK
  <2>2. CASE SendToLeader("wait")
    BY <2>1, <2>2 DEF SendToLeader, Go, poll
  <2>3. CASE ~SendToLeader("wait")
    BY <2>1, <2>3 DEF Kill
  <2> QED
    BY <2>2, <2>3
<1>4. /\ worker' \in [Child -> {"none", "running", "zombie"}]
      /\ leader' \in [Child -> {"none", "running", "zombie", "reaped"}]
      /\ \A c \in Child \ Denied : c = next => ~Runs(c)'
      /\ (pc' = "escaped" /\ next' = 1) \/ Advance("wait")
  <2>1. CASE SendToLeader("wait")
    <3>1. worker \in [Child -> {"none", "running", "zombie"}]
      BY <1>1 DEF TypeOK
    <3> QED
      BY <1>1, <2>1, <3>1, SendsToLeader
  <2>2. CASE ~SendToLeader("wait")
    <3>1. /\ Advance("wait")
          /\ leader' = [leader EXCEPT ![next] = IF @ = "running" THEN "zombie" ELSE @]
          /\ worker' = [worker EXCEPT ![next] = IF @ = "running" THEN "zombie" ELSE @]
      BY <2>2 DEF Kill
    <3>2. /\ leader \in [Child -> {"none", "running", "zombie", "reaped"}]
          /\ worker \in [Child -> {"none", "running", "zombie"}]
      BY <1>1 DEF TypeOK
    <3> QED
      BY <1>1, <3>1, <3>2 DEF Runs
  <2> QED
    BY <2>1, <2>2
<1>5. /\ pc' \in Pcs /\ next' \in Child
      /\ \/ pc' = "escaped"
         \/ pc' = "kill" /\ next' = next + 1
         \/ pc' = "wait" /\ next' = 1 /\ \A c \in Child : c <= next
  BY <1>1, <1>4, Advances, ChildIsNat DEF Pcs
<1>6. \A c \in Child \ Denied : c <= next => ~Runs(c)'
  <2> SUFFICES ASSUME NEW c \in Child \ Denied, c <= next, Runs(c)' PROVE FALSE
    OBVIOUS
  <2>1. c < next \/ c = next
    BY <1>1, ChildOrder
  <2> QED
    BY <1>1, <1>2, <1>4, <2>1 DEF SupervisorInvariant
<1>7. TypeOK' /\ GraceIsGiven'
  BY <1>1, <1>2, <1>4, <1>5 DEF TypeOK, SupervisorInvariant, GraceIsGiven
<1>8. \A c \in Child \ Denied : Runs(c)' => c \in asked'
  BY <1>1, <1>2 DEF SupervisorInvariant, AskedBeforeKilled, WaitsForNobody
<1>9. pc' = "kill" => \A c \in Child : c < next' => c <= next
  BY <1>1, <1>5, ChildOrder
<1>10. pc' # "escaped" => \A c \in Child : c <= next => leader'[c] # "running"
  <2> SUFFICES ASSUME pc' # "escaped", NEW c \in Child, c <= next PROVE leader'[c] # "running"
    OBVIOUS
  <2>1. c < next \/ c = next
    BY <1>1, ChildOrder
  <2> QED
    BY <1>0, <1>1, <1>3, <2>1 DEF SupervisorInvariant
<1> QED
  BY <1>5, <1>6, <1>7, <1>8, <1>9, <1>10 DEF SupervisorInvariant, NoSurvivors, AskedBeforeKilled, WaitsForNobody

LEMMA WaitStep ==
  ASSUME SupervisorInvariant, Wait
  PROVE  SupervisorInvariant'
<1>1. /\ pc = "wait" /\ TypeOK /\ "returned" \in Pcs /\ Next /\ poll(next) /\ next \in Child
      /\ UNCHANGED <<worker, stopping, rounds, alive, status, asked>>
  BY DEF Wait, SupervisorInvariant, TypeOK, Pcs, Next, Supervise
<1>2. \A c \in Child : Runs(c)' => Runs(c)
  BY <1>1, NothingRevives
<1>0. \A c \in Child : leader'[c] = "running" => leader[c] = "running"
  BY <1>1, NothingRevives
<1>3. leader' \in [Child -> {"none", "running", "zombie", "reaped"}]
  BY <1>1, Polls
<1>4. pc' \in {"wait", "returned"} /\ next' \in Child
  BY <1>1, Advances DEF Wait
<1>5. TypeOK'
  BY <1>1, <1>3, <1>4 DEF TypeOK, Pcs
<1> QED
  BY <1>0, <1>1, <1>2, <1>4, <1>5 DEF SupervisorInvariant, NoSurvivors, GraceIsGiven, AskedBeforeKilled, WaitsForNobody

LEMMA OtherStep ==
  ASSUME SupervisorInvariant, Processes \/ Signal \/ Restart \/ UNCHANGED vars
  PROVE  SupervisorInvariant'
<1>1. CASE Processes
  <2>1. PICK d \in Child : Fork(d) \/ LeaderEnds(d) \/ WorkerEnds(d) \/ WorkerIsReaped(d)
    BY <1>1 DEF Processes
  <2>2. UNCHANGED <<pc, next, stopping, rounds, alive, status, asked>>
    BY <1>1 DEF Processes
  <2>3. /\ leader' \in [Child -> {"none", "running", "zombie", "reaped"}]
        /\ worker' \in [Child -> {"none", "running", "zombie"}]
        /\ \A c \in Child : /\ Runs(c)' => Runs(c)
                            /\ leader'[c] = "running" => leader[c] = "running"
    BY <2>1 DEF Fork, LeaderEnds, WorkerEnds, WorkerIsReaped, Runs, SupervisorInvariant, TypeOK
  <2> QED
    BY <2>2, <2>3 DEF SupervisorInvariant, TypeOK, NoSurvivors, GraceIsGiven, AskedBeforeKilled, WaitsForNobody
<1>2. CASE Signal \/ UNCHANGED vars
  <2>1. stopping' \in BOOLEAN /\ UNCHANGED <<pc, next, leader, worker, rounds, alive, status, asked>>
    BY <1>2 DEF Signal, vars, groups, SupervisorInvariant, TypeOK
  <2> QED
    BY <2>1 DEF SupervisorInvariant, TypeOK, NoSurvivors, GraceIsGiven, AskedBeforeKilled, WaitsForNobody, Runs
<1>3. CASE Restart
  <2>1. 0 \in 0..Grace
    BY GraceAssumption
  <2>2. TypeOK' /\ pc' = "spawn" /\ rounds' = 0 /\ ~alive'
    BY <1>3, <2>1, ChildIsNat DEF Restart, Go, TypeOK, Pcs
  <2> QED
    BY <2>2 DEF SupervisorInvariant, NoSurvivors, GraceIsGiven, AskedBeforeKilled, WaitsForNobody
<1> QED
  BY <1>1, <1>2, <1>3

LEMMA SupervisorInvariance == Spec => []SupervisorInvariant
<1>1. Init => SupervisorInvariant
  <2> SUFFICES ASSUME Init PROVE SupervisorInvariant
    OBVIOUS
  <2>1. 0 \in 0..Grace
    BY GraceAssumption
  <2>2. TypeOK
    BY <2>1, ChildIsNat DEF Init, TypeOK, Pcs
  <2> QED
    BY <2>2 DEF Init, SupervisorInvariant, NoSurvivors, GraceIsGiven, AskedBeforeKilled, WaitsForNobody
<1>2. SupervisorInvariant /\ [Next]_vars => SupervisorInvariant'
  BY SpawnStep, TermStep, ProbeStep, KillStep, WaitStep, OtherStep DEF Next, Supervise
<1> QED
  BY <1>1, <1>2, PTL DEF Spec

\* Whatever the processes do while it shuts down, and however it came to that,
\* no process of a group it may signal is left when supervise returns.
THEOREM NobodySurvives == Spec => []NoSurvivors
<1>1. SupervisorInvariant => NoSurvivors
  BY DEF SupervisorInvariant
<1> QED
  BY <1>1, SupervisorInvariance, PTL

\* SIGKILL comes at the end of the grace period, unless everything has ended.
THEOREM GraceIsAlwaysGiven == Spec => []GraceIsGiven
<1>1. SupervisorInvariant => GraceIsGiven
  BY DEF SupervisorInvariant
<1> QED
  BY <1>1, SupervisorInvariance, PTL

\* Every group that may be signalled and still runs had its stop signal before
\* the grace period begins.
THEOREM AllAreAsked == Spec => []AskedBeforeKilled
<1>1. SupervisorInvariant => AskedBeforeKilled
  BY DEF SupervisorInvariant
<1> QED
  BY <1>1, SupervisorInvariance, PTL

-----------------------------------------------------------------------------
\* The exception leaves the finally block only at a leader that may not be
\* signalled itself.
LEMMA EscapesOnlyIfRefused ==
  ASSUME TypeOK, [Next]_vars, pc # "escaped", pc' = "escaped"
  PROVE  next \in Refused
<1>1. CASE Term \/ Kill
  <2>1. \A place \in {"grace", "wait"} : SendToLeader(place) \/ Advance(place)
                                         => next \in Refused
    BY DEF SendToLeader, Advance, Go
  <2>2. SendToLeader("grace") \/ Advance("grace") \/ SendToLeader("wait") \/ Advance("wait")
    BY <1>1 DEF Term, Kill
  <2> QED
    BY <2>1, <2>2
<1>2. CASE Spawn \/ SpawnFails \/ Watch \/ Leave \/ Probe \/ Wait
  BY <1>2 DEF Spawn, SpawnFails, Watch, Leave, Probe, Round, Wait, Advance, Go
<1>3. CASE Processes \/ Signal \/ Restart \/ UNCHANGED vars
  BY <1>3 DEF Processes, Signal, Restart, Go, vars
<1> QED
  BY <1>1, <1>2, <1>3 DEF Next, Supervise

\* "Keep cleaning up other groups even if a group is inaccessible" is true as
\* long as the leader of the inaccessible group may be signalled, which is what
\* the comment's code falls back to: however many groups are inaccessible, the
\* others are asked to stop before supervise comes to its end.
THEOREM OthersAreAskedUnlessRefused ==
  ASSUME Refused = {}
  PROVE  Spec => []OthersAreAsked
<1> DEFINE Inside == pc # "escaped"
<1>1. Init => Inside
  BY DEF Init
<1>2. SupervisorInvariant /\ Inside /\ [Next]_vars => Inside'
  BY EscapesOnlyIfRefused DEF SupervisorInvariant
<1>3. SupervisorInvariant /\ Inside => OthersAreAsked
  BY DEF SupervisorInvariant, NoSurvivors, OthersAreAsked
<1> HIDE DEF Inside
<1> QED
  BY <1>1, <1>2, <1>3, SupervisorInvariance, PTL DEF Spec

-----------------------------------------------------------------------------
\* After SIGKILL supervise waits for no child: every leader has ended.
THEOREM WaitIsNoWait == Spec => []WaitsForNobody
<1>1. SupervisorInvariant => WaitsForNobody
  BY DEF SupervisorInvariant
<1> QED
  BY <1>1, SupervisorInvariance, PTL

\* The end of a loop over the children is a stage further on.
LEMMA LoopGoesOn ==
  ASSUME TypeOK, rounds' = rounds,
         \/ pc' = "escaped" /\ pc # "escaped"
         \/ Advance("grace") /\ pc = "term"
         \/ Advance("wait") /\ pc = "kill"
         \/ Advance("returned") /\ pc = "wait"
  PROVE  (0 < Stage /\ Stage < 5) => Onwards
<1>1. next \in Nat
  BY ChildIsNat DEF TypeOK
<1> QED
  BY <1>1 DEF Advance, Go, Stage, Onwards

LEMMA EveryStepGoesOn ==
  ASSUME SupervisorInvariant, [Next]_vars, 0 < Stage, Stage < 5
  PROVE  Onwards \/ (~Supervise /\ UNCHANGED <<pc, next, rounds>>)
<1>1. TypeOK /\ next \in Nat /\ rounds \in Nat /\ pc \in {"term", "grace", "kill", "wait"}
  <2>1. TypeOK /\ next \in Nat
    BY ChildIsNat DEF SupervisorInvariant, TypeOK
  <2>2. rounds \in Nat
    <3>1. rounds \in 0..Grace
      BY <2>1 DEF TypeOK
    <3> QED
      BY <3>1, GraceAssumption
  <2>3. pc \in {"term", "grace", "kill", "wait"}
    BY DEF Stage
  <2> QED
    BY <2>1, <2>2, <2>3
<1>2. CASE Term
  BY <1>1, <1>2, SendsToLeader, LoopGoesOn DEF Term, Pcs
<1>3. CASE Kill
  BY <1>1, <1>3, SendsToLeader, LoopGoesOn DEF Kill, Pcs
<1>4. CASE Wait
  BY <1>1, <1>4, LoopGoesOn DEF Wait
<1>5. CASE Probe
  BY <1>1, <1>5 DEF Probe, Round, Go, Stage, Onwards
<1>6. CASE (Processes \/ Signal \/ UNCHANGED vars) /\ ~Supervise
  BY <1>6 DEF Processes, Signal, vars
<1>7. CASE UNCHANGED vars /\ Supervise
  BY <1>1, <1>2, <1>3, <1>4, <1>5, <1>7 DEF Supervise, Spawn, Watch, Leave
<1>8. ~Spawn /\ ~Watch /\ ~Leave /\ ~SpawnFails /\ ~Restart
  BY <1>1 DEF Spawn, Watch, Leave, SpawnFails, Restart
<1>9. CASE (Processes \/ Signal) /\ Supervise
  BY <1>2, <1>3, <1>4, <1>5, <1>8, <1>9 DEF Supervise
<1> QED
  BY <1>2, <1>3, <1>4, <1>5, <1>6, <1>7, <1>8, <1>9 DEF Next, Supervise

\* For any number of children and any grace period: taking them down goes on
\* with every step of supervise, through at most Grace rounds of the waiting
\* loop and one pass of each other loop, and nobody sets it back (the finally
\* block of supervise).
THEOREM ShutdownRunsOut ==
  Spec => ShutdownGoesOn /\ [](Stage \in 0..5 /\ rounds \in 0..Grace /\ next \in 1..N)
<1> DEFINE Bounded == Stage \in 0..5 /\ rounds \in 0..Grace /\ next \in 1..N
<1>1. SupervisorInvariant => Bounded
  <2>1. Stage \in {0, 1, 2, 3, 4, 5}
    BY DEF Stage
  <2>2. Stage \in 0..5
    BY <2>1
  <2> QED
    BY <2>2 DEF SupervisorInvariant, TypeOK, Child
<1>2. SupervisorInvariant /\ [Next]_vars =>
        [0 < Stage /\ Stage < 5 =>
           Onwards \/ (~Supervise /\ UNCHANGED <<pc, next, rounds>>)]_vars
  BY EveryStepGoesOn
<1> HIDE DEF Bounded
<1> QED
  BY <1>1, <1>2, SupervisorInvariance, PTL DEF Spec, ShutdownGoesOn, Bounded
=============================================================================
