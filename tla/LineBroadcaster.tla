-------------------------- MODULE LineBroadcaster --------------------------
(***************************************************************************)
(* LineBroadcaster.broadcast: one message under one retry key, the request *)
(* tried max_attempts times.                                               *)
(***************************************************************************)
EXTENDS RunState

AwaitingLine(p) == pc[p] = "reply" /\ run[p].op = "line"

\* Mutant: every run makes a retry key of its own.
BroadcastUnderFreshKey(p, key) ==
  IF run[p].menu = "too_long"
    THEN Finish(p, "too_long")
    ELSE Advance(p, "guard",
                 Attempt([run[p] EXCEPT !.key = manual_retry_key(p)], "line"))

\* broadcast(text, retry_key): a text over 5000 UTF-16 code units is never
\* sent.
broadcast(p, key) ==
  IF run[p].menu = "too_long"
    THEN Finish(p, "too_long")
    ELSE Advance(p, "guard", Attempt([run[p] EXCEPT !.key = key], "line"))

PostToLine(p) ==
  /\ pc[p] = "post" /\ run[p].op = "line"
  /\ Become(p, "reply", run[p])
  /\ requests' = requests \cup
       {[by |-> p, attempt |-> run[p].attempt, key |-> run[p].key,
         date |-> run[p].date, posted |-> now]}
  /\ UNCHANGED <<now, holders, accepted>>

\* A timeout or a lost connection while no answer has come, HTTP 429 or 5xx.
LineFails(p) ==
  /\ AwaitingLine(p) /\ run[p].answer \in {"none", "retryable"}
  /\ \/ RetryLater(p)
     \/ run[p].attempt = max_attempts /\ Finish(p, "line")

\* Another 4xx.
LineRaises(p) ==
  AwaitingLine(p) /\ run[p].answer = "fatal" /\ Finish(p, "line")

\* Another exception of requests, which nobody but main catches.
LineBreaksOff(p) ==
  AwaitingLine(p) /\ run[p].answer = "none" /\ Finish(p, "request_error")

\* Mutant: any answer that is not a refusal counts as done.
ConfirmsOnAnyAnswer(p) ==
  /\ AwaitingLine(p) /\ run[p].answer \in {"success", "conflict", "retryable"}
  /\ Finish(p, "completed")

\* 2xx, or 409 for a key LINE already accepted: both count as done.
LineConfirms(p) ==
  /\ AwaitingLine(p) /\ run[p].answer \in {"success", "conflict"}
  /\ Finish(p, "completed")

BroadcastStep(p) ==
  PostToLine(p) \/ LineFails(p) \/ LineRaises(p) \/ LineBreaksOff(p) \/ LineConfirms(p)
=============================================================================
