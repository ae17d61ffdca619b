---------------------------- MODULE LineService ----------------------------
(***************************************************************************)
(* The LINE broadcast endpoint as line.py uses it (external).  A request   *)
(* is sent to every friend when it is accepted; one that carries a retry   *)
(* key accepted less than RETENTION seconds ago is refused with 409.  The  *)
(* answer may be lost on its way back, or be a 5xx although the request    *)
(* was accepted, and a request may be served after its client gave up.     *)
(***************************************************************************)
EXTENDS RunState

\* LINE remembers the key of a broadcast it accepted.
Remembered(key) == \E a \in accepted : a.key = key /\ now < a.at + RETENTION

AwaitsAnswer(m) ==
  /\ pc[m.by] = "reply" /\ run[m.by].op = "line"
  /\ run[m.by].attempt = m.attempt /\ run[m.by].answer = "none"

\* Request m leaves the service; its client reads `answer`, unless the answer
\* is lost or the client no longer listens.
Reply(m, answer) ==
  /\ requests' = requests \ {m}
  /\ run' = IF AwaitsAnswer(m) THEN [run EXCEPT ![m.by].answer = answer] ELSE run
  /\ UNCHANGED <<now, holders, pc>>

Served(m) == now <= m.posted + MaxDelay

LineAccepts(m) ==
  /\ Served(m) /\ ~Remembered(m.key)
  /\ accepted' = accepted \cup
       {[by |-> m.by, attempt |-> m.attempt, key |-> m.key,
         date |-> m.date, posted |-> m.posted, at |-> now]}
  /\ \E answer \in {"success", "retryable", "none"} : Reply(m, answer)

LineReportsConflict(m) ==
  /\ Served(m) /\ Remembered(m.key)
  /\ \E answer \in {"conflict", "none"} : Reply(m, answer)
  /\ UNCHANGED accepted

\* 429, 5xx or another 4xx with nothing sent, or the request never arrives.
LineRefuses(m) ==
  /\ \E answer \in {"retryable", "fatal", "none"} :
       (answer = "none" \/ Served(m)) /\ Reply(m, answer)
  /\ UNCHANGED accepted

LineStep ==
  \E m \in requests : LineAccepts(m) \/ LineReportsConflict(m) \/ LineRefuses(m)
=============================================================================
