---------------------------- MODULE IChefClient ----------------------------
(***************************************************************************)
(* IChefClient.fetch_schedules: the hours query, then the items query for  *)
(* the category uuids it returned, each request tried max_attempts times.  *)
(* What iCHEF answers is not under the program's control: every answer,    *)
(* and none, is possible at every request.  A response stands for what     *)
(* parse_daily_schedules makes of it for the date asked for.               *)
(***************************************************************************)
EXTENDS RunState

Fetching(p) == pc[p] = "reply" /\ run[p].op \in {"hours", "items"}

\* session.post of the guarded attempt.
PostToIChef(p) ==
  /\ pc[p] = "post" /\ run[p].op \in {"hours", "items"}
  /\ Advance(p, "reply", run[p])

\* Mutant: the end of the attempts ends an automatic run too.
StopsOnOutage(p) ==
  /\ Fetching(p)
  /\ RetryLater(p) \/ (run[p].attempt = max_attempts /\ Finish(p, "ichef"))

\* A timeout, a refused connection, HTTP 429 or HTTP 5xx.  When the attempts
\* are used up IChefAPIError ends a manual run and a preview; an automatic run
\* goes on as if iCHEF had listed no schedule.
IChefFails(p) ==
  /\ Fetching(p)
  /\ \/ RetryLater(p)
     \/ /\ run[p].attempt = max_attempts
        /\ IF Automatic(p)
             THEN Advance(p, "fetched", [run[p] EXCEPT !.menu = "none"])
             ELSE Finish(p, "ichef")

\* MenuDataError (another HTTP error, no JSON, GraphQL errors, an unexpected
\* shape).
IChefAnswersNonsense(p) == Fetching(p) /\ Finish(p, "menu_data")

\* Another exception of requests, which neither the client nor the job catches,
\* such as a response that breaks off in its middle: main ends with 1.
IChefBreaksOff(p) == Fetching(p) /\ Finish(p, "request_error")

HoursReceived(p) ==
  /\ Fetching(p) /\ run[p].op = "hours"
  /\ \/ Advance(p, "guard", Attempt(run[p], "items"))
     \/ Advance(p, "fetched", [run[p] EXCEPT !.menu = "none"])

ItemsReceived(p) ==
  /\ Fetching(p) /\ run[p].op = "items"
  /\ \E menu \in Menus : Advance(p, "fetched", [run[p] EXCEPT !.menu = menu])

FetchStep(p) ==
  PostToIChef(p) \/ IChefFails(p) \/ IChefAnswersNonsense(p)
    \/ IChefBreaksOff(p) \/ HoursReceived(p) \/ ItemsReceived(p)
=============================================================================
