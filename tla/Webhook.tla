------------------------------ MODULE Webhook ------------------------------
(***************************************************************************)
(* webhook.py: LINE delivers events over HTTP, the workers of gunicorn     *)
(* each serve one request at a time.  An attempt that is not acknowledged  *)
(* may be repeated, also while the earlier one is still being served, and  *)
(* a worker may be killed in the middle of a request.                      *)
(***************************************************************************)
EXTENDS Integers, Sequences

CONSTANTS
  Workers,
  Deliveries,  \* what is delivered: requests of LINE and of anybody else
  Contents,    \* what a request may hold, see ContentsAssumption
  MaxAttempts, \* bound: how often one delivery is sent
  None

\* The signature, whether the body is within MAX_WEBHOOK_BODY_BYTES, what
\* json.loads makes of it, and for each member of "events" if it is an object.
ASSUME ContentsAssumption ==
  Contents \subseteq
    [signature: {"right", "wrong", "absent", "not ascii"}, fits: BOOLEAN,
     json: {"events", "other", "broken", "too deep"}, events: Seq(BOOLEAN)]
ASSUME AttemptsAssumption == MaxAttempts \in Nat
ASSUME NoneAssumption == None \notin Deliveries \X (1..MaxAttempts)

VARIABLES
  content,  \* what each delivery holds
  sent,     \* how often each was sent
  serving,  \* for each worker, the delivery and attempt it serves, or None
  at,       \* and the stage of line_webhook and receive it has reached
  handled,  \* for each attempt, the events its handler was called for
  status,   \* the HTTP status of each attempt, 0 while there is none
  settled   \* the deliveries whose 200 has reached LINE

vars == <<content, sent, serving, at, handled, status, settled>>

Attempts == Deliveries \X (1..MaxAttempts)
Genuine(c) ==
  /\ c.signature = "right" /\ c.fits /\ c.json = "events"
  /\ \A i \in 1..Len(c.events) : c.events[i]

Goto(w, stage) == at' = [at EXCEPT ![w] = stage]

\* The response of a worker; LINE gets it, or has stopped waiting for it.
Respond(w, code) ==
  LET d == serving[w][1]
  IN  /\ status' = [status EXCEPT ![serving[w]] = code]
      /\ settled' \in {settled, IF code = 200 THEN settled \cup {d} ELSE settled}
      /\ serving' = [serving EXCEPT ![w] = None] /\ Goto(w, "idle")

-----------------------------------------------------------------------------
\* A delivery is sent, or sent again because no 200 for it has arrived; a
\* worker that is free takes it.
Deliver(w, d) ==
  /\ serving[w] = None /\ d \notin settled /\ sent[d] < MaxAttempts
  /\ sent' = [sent EXCEPT ![d] = @ + 1]
  /\ serving' = [serving EXCEPT ![w] = <<d, sent[d] + 1>>]
  /\ Goto(w, "reading")
  /\ UNCHANGED <<content, handled, status, settled>>

\* request.get_data: a body that is too large is refused before anything else.
ReadBody(w) ==
  /\ at[w] = "reading"
  /\ IF content[serving[w][1]].fits
       THEN Goto(w, "verifying") /\ UNCHANGED <<serving, status, settled>>
       ELSE Respond(w, 413)
  /\ UNCHANGED <<content, sent, handled>>

\* The signature over the bytes of the body, before they are looked at.
\* compare_digest raises for a signature that is not ASCII.
verify_line_signature(w) ==
  /\ at[w] = "verifying"
  /\ LET signature == content[serving[w][1]].signature
     IN  \/ signature = "right" /\ Goto(w, "parsing")
            /\ UNCHANGED <<serving, status, settled>>
         \/ signature \in {"wrong", "absent"} /\ Respond(w, 401)
         \/ signature = "not ascii" /\ Respond(w, 500)
  /\ UNCHANGED <<content, sent, handled>>

\* Mutant: each event is looked at when its turn comes.
ParseLazily(w) ==
  /\ at[w] = "parsing"
  /\ IF content[serving[w][1]].json = "events"
       THEN Goto(w, "handling") /\ UNCHANGED <<serving, status, settled>>
       ELSE Respond(w, 400)
  /\ UNCHANGED <<content, sent, handled>>

\* json.loads and the checks of its result, of every event before the first
\* one is handled.  What json.loads raises for a payload nested too deeply is
\* no JSONDecodeError.
Parse(w) ==
  /\ at[w] = "parsing"
  /\ LET c == content[serving[w][1]]
     IN  IF c.json = "events" /\ \A i \in 1..Len(c.events) : c.events[i]
           THEN Goto(w, "handling") /\ UNCHANGED <<serving, status, settled>>
           ELSE Respond(w, IF c.json = "too deep" THEN 500 ELSE 400)
  /\ UNCHANGED <<content, sent, handled>>

\* Mutant: an event whose handler raises is passed over.
HandlePassingOver(w) ==
  /\ at[w] = "handling"
  /\ LET n == Len(handled[serving[w]]) + 1
         events == content[serving[w][1]].events
     IN  \/ /\ n > Len(events) /\ Respond(w, 200)
            /\ UNCHANGED handled
         \/ /\ n <= Len(events)
            /\ handled' \in {[handled EXCEPT ![serving[w]] = Append(@, n)],
                             [handled EXCEPT ![serving[w]] = Append(@, 0)]}
            /\ UNCHANGED <<serving, at, status, settled>>
  /\ UNCHANGED <<content, sent>>

\* The handler is called for one event after the other, and may raise; 200
\* when it was called for all of them.
Handle(w) ==
  /\ at[w] = "handling"
  /\ LET n == Len(handled[serving[w]]) + 1
         events == content[serving[w][1]].events
     IN  \/ /\ n > Len(events) /\ Respond(w, 200)
            /\ UNCHANGED handled
         \/ /\ n <= Len(events)
            /\ \/ handled' = [handled EXCEPT ![serving[w]] = Append(@, n)]
                  /\ UNCHANGED <<serving, at, status, settled>>
               \/ Respond(w, 500) /\ UNCHANGED handled
  /\ UNCHANGED <<content, sent>>

\* gunicorn replaces a worker that is killed, for instance because its request
\* took too long; the connection ends without a response.
WorkerDies(w) ==
  /\ serving[w] # None
  /\ serving' = [serving EXCEPT ![w] = None] /\ Goto(w, "idle")
  /\ UNCHANGED <<content, sent, handled, status, settled>>

Serve(w) == ReadBody(w) \/ verify_line_signature(w) \/ Parse(w) \/ Handle(w)

Init ==
  /\ content \in [Deliveries -> Contents]
  /\ sent = [d \in Deliveries |-> 0]
  /\ serving = [w \in Workers |-> None] /\ at = [w \in Workers |-> "idle"]
  /\ handled = [a \in Attempts |-> <<>>] /\ status = [a \in Attempts |-> 0]
  /\ settled = {}

Next ==
  \E w \in Workers : Serve(w) \/ WorkerDies(w) \/ \E d \in Deliveries : Deliver(w, d)

Spec == Init /\ [][Next]_vars

TypeOK ==
  /\ content \in [Deliveries -> Contents]
  /\ sent \in [Deliveries -> 0..MaxAttempts]
  /\ serving \in [Workers -> Attempts \cup {None}]
  /\ at \in [Workers -> {"idle", "reading", "verifying", "parsing", "handling"}]
  /\ handled \in [Attempts -> Seq(Nat)]
  /\ status \in [Attempts -> {0, 200, 400, 401, 413, 500}]
  /\ settled \subseteq Deliveries

-----------------------------------------------------------------------------
\* No event is handled that LINE did not sign, and none of a payload any part
\* of which is malformed, be it behind the event in question.
OnlyGenuineEvents == \A a \in Attempts : handled[a] # <<>> => Genuine(content[a[1]])

\* What LINE takes as acknowledged has been handled, every event of it and in
\* its order, however often it was sent, and whatever became of other attempts.
SettledIsHandled ==
  \A d \in settled : \E n \in 1..MaxAttempts :
    handled[<<d, n>>] = [i \in 1..Len(content[d].events) |-> i]
=============================================================================
