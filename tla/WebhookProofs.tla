---------------------------- MODULE WebhookProofs ----------------------------
(***************************************************************************)
(* The webhook receiver, for any workers, deliveries and attempts: what is *)
(* handled is genuine, and what is acknowledged is handled.                *)
(***************************************************************************)
EXTENDS Webhook, SequenceTheorems, TLAPS

\* What a worker has established when it gets to a stage, and what the
\* handlers of an attempt were called for: its events, from the first one on.
WebhookInvariant ==
  /\ TypeOK
  /\ \A w \in Workers :
       /\ at[w] # "idle" => serving[w] \in Attempts
       /\ at[w] \in {"verifying", "parsing"} => content[serving[w][1]].fits
       /\ at[w] = "parsing" => content[serving[w][1]].signature = "right"
       /\ at[w] = "handling" => Genuine(content[serving[w][1]])
  /\ \A a \in Attempts :
       /\ Len(handled[a]) <= Len(content[a[1]].events)
       /\ \A i \in 1..Len(handled[a]) : handled[a][i] = i
  /\ OnlyGenuineEvents /\ SettledIsHandled

LEMMA EventsAreSeq ==
  ASSUME TypeOK, NEW d \in Deliveries
  PROVE  /\ content[d] \in Contents /\ content[d].events \in Seq(BOOLEAN)
         /\ Len(content[d].events) \in Nat
<1>1. content[d] \in Contents
  BY DEF TypeOK
<1>2. content[d].events \in Seq(BOOLEAN)
  BY <1>1, ContentsAssumption
<1> QED
  BY <1>1, <1>2, LenProperties

\* A sequence that counts from one to the number of the events.
LEMMA AllHandled ==
  ASSUME NEW s \in Seq(Nat), NEW n \in Nat, Len(s) = n, \A i \in 1..Len(s) : s[i] = i
  PROVE  s = [i \in 1..n |-> i]
<1>1. DOMAIN s = 1..n /\ s \in [1..n -> Nat]
  BY LenProperties
<1> QED
  BY <1>1

\* A response changes no more than its worker, its status and, if it is 200
\* and arrives, the settled deliveries.
LEMMA Responds ==
  ASSUME WebhookInvariant, NEW w \in Workers, NEW code \in {200, 400, 401, 413, 500},
         at[w] # "idle", Respond(w, code)
  PROVE  /\ serving' \in [Workers -> Attempts \cup {None}]
         /\ at' \in [Workers -> {"idle", "reading", "verifying", "parsing", "handling"}]
         /\ status' \in [Attempts -> {0, 200, 400, 401, 413, 500}]
         /\ at'[w] = "idle"
         /\ \A v \in Workers : v # w => serving'[v] = serving[v] /\ at'[v] = at[v]
         /\ \/ settled' = settled
            \/ code = 200 /\ settled' = settled \cup {serving[w][1]}
<1>1. serving[w] \in Attempts /\ TypeOK
  BY DEF WebhookInvariant
<1> QED
  BY <1>1 DEF Respond, Goto, TypeOK

\* A worker that goes on to a stage keeps its attempt.
LEMMA GoesTo ==
  ASSUME TypeOK, NEW w \in Workers,
         NEW stage \in {"idle", "reading", "verifying", "parsing", "handling"}, Goto(w, stage)
  PROVE  /\ at' \in [Workers -> {"idle", "reading", "verifying", "parsing", "handling"}]
         /\ at'[w] = stage /\ \A v \in Workers : v # w => at'[v] = at[v]
  BY DEF Goto, TypeOK

\* What is left to show of a step that handles and settles nothing.
LEMMA NothingHandled ==
  ASSUME WebhookInvariant, UNCHANGED <<content, handled, settled>>
  PROVE  /\ OnlyGenuineEvents' /\ SettledIsHandled'
         /\ \A a \in Attempts :
              /\ Len(handled'[a]) <= Len(content'[a[1]].events)
              /\ \A i \in 1..Len(handled'[a]) : handled'[a][i] = i
<1>1. OnlyGenuineEvents'
  BY DEF WebhookInvariant, OnlyGenuineEvents, Genuine
<1>2. SettledIsHandled'
  BY DEF WebhookInvariant, SettledIsHandled
<1> QED
  BY <1>1, <1>2 DEF WebhookInvariant

LEMMA DeliverStep ==
  ASSUME WebhookInvariant, NEW w \in Workers, NEW d \in Deliveries, Deliver(w, d)
  PROVE  WebhookInvariant'
<1>1. TypeOK /\ sent[d] \in 0..MaxAttempts /\ MaxAttempts \in Nat /\ sent[d] < MaxAttempts
  BY AttemptsAssumption DEF WebhookInvariant, TypeOK, Deliver
<1>2. <<d, sent[d] + 1>> \in Attempts /\ sent[d] + 1 \in 0..MaxAttempts
  BY <1>1 DEF Attempts
<1>3. Goto(w, "reading") /\ UNCHANGED <<content, handled, status, settled>>
  BY DEF Deliver
<1>4. /\ at' \in [Workers -> {"idle", "reading", "verifying", "parsing", "handling"}]
      /\ at'[w] = "reading" /\ \A v \in Workers : v # w => at'[v] = at[v]
  BY <1>1, <1>3, GoesTo
<1>5. /\ serving' \in [Workers -> Attempts \cup {None}] /\ serving'[w] = <<d, sent[d] + 1>>
      /\ \A v \in Workers : v # w => serving'[v] = serving[v]
      /\ sent' \in [Deliveries -> 0..MaxAttempts]
  BY <1>1, <1>2 DEF Deliver, TypeOK
<1>6. TypeOK'
  <2>1. /\ content' \in [Deliveries -> Contents] /\ handled' \in [Attempts -> Seq(Nat)]
        /\ status' \in [Attempts -> {0, 200, 400, 401, 413, 500}]
        /\ settled' \subseteq Deliveries
    BY <1>1, <1>3 DEF TypeOK
  <2> QED
    BY <1>4, <1>5, <2>1 DEF TypeOK
<1>7. ASSUME NEW v \in Workers
      PROVE  /\ at'[v] # "idle" => serving'[v] \in Attempts
             /\ at'[v] \in {"verifying", "parsing"} => content'[serving'[v][1]].fits
             /\ at'[v] = "parsing" => content'[serving'[v][1]].signature = "right"
             /\ at'[v] = "handling" => Genuine(content'[serving'[v][1]])
  <2>1. CASE v = w
    BY <1>2, <1>4, <1>5, <2>1
  <2>2. CASE v # w
    <3>1. at'[v] = at[v] /\ serving'[v] = serving[v] /\ content' = content
      BY <1>3, <1>4, <1>5, <2>2
    <3> QED
      BY <3>1 DEF WebhookInvariant
  <2> QED
    BY <2>1, <2>2
<1> QED
  BY <1>3, <1>6, <1>7, NothingHandled DEF WebhookInvariant, Genuine

\* The stages before the handlers: on to the next one, or a refusal.
LEMMA CheckStep ==
  ASSUME WebhookInvariant, NEW w \in Workers,
         ReadBody(w) \/ verify_line_signature(w) \/ Parse(w)
  PROVE  WebhookInvariant'
<1> DEFINE c == content[serving[w][1]]
<1>1. /\ TypeOK /\ at[w] \in {"reading", "verifying", "parsing"} /\ serving[w] \in Attempts
      /\ UNCHANGED <<content, sent, handled>>
  BY DEF WebhookInvariant, ReadBody, verify_line_signature, Parse
<1>2. CASE \E code \in {400, 401, 413, 500} : Respond(w, code)
  <2>1. PICK code \in {400, 401, 413, 500} : Respond(w, code)
    BY <1>2
  <2>2. /\ serving' \in [Workers -> Attempts \cup {None}]
        /\ at' \in [Workers -> {"idle", "reading", "verifying", "parsing", "handling"}]
        /\ status' \in [Attempts -> {0, 200, 400, 401, 413, 500}]
        /\ at'[w] = "idle" /\ settled' = settled
        /\ \A v \in Workers : v # w => serving'[v] = serving[v] /\ at'[v] = at[v]
    BY <1>1, <2>1, Responds
  <2>3. TypeOK'
    BY <1>1, <2>2 DEF TypeOK
  <2> QED
    BY <1>1, <2>2, <2>3, NothingHandled DEF WebhookInvariant, Genuine
<1>3. ASSUME NEW stage \in {"verifying", "parsing", "handling"}, Goto(w, stage),
             UNCHANGED <<serving, status, settled>>,
             stage \in {"verifying", "parsing"} => c.fits,
             stage = "parsing" => c.signature = "right",
             stage = "handling" => Genuine(c)
      PROVE  WebhookInvariant'
  <2>1. /\ at' \in [Workers -> {"idle", "reading", "verifying", "parsing", "handling"}]
        /\ at'[w] = stage /\ \A v \in Workers : v # w => at'[v] = at[v]
    BY <1>1, <1>3, GoesTo
  <2>2. TypeOK'
    BY <1>1, <1>3, <2>1 DEF TypeOK
  <2> QED
    BY <1>1, <1>3, <2>1, <2>2, NothingHandled DEF WebhookInvariant, Genuine
<1>4. CASE ReadBody(w)
  <2>1. CASE c.fits
    BY <1>3, <1>4, <2>1 DEF ReadBody
  <2>2. CASE ~c.fits
    BY <1>2, <1>4, <2>2 DEF ReadBody
  <2> QED
    BY <2>1, <2>2
<1>5. CASE verify_line_signature(w)
  <2>1. c.fits
    BY <1>5 DEF verify_line_signature, WebhookInvariant
  <2>2. CASE c.signature = "right"
    BY <1>3, <1>5, <2>1, <2>2 DEF verify_line_signature
  <2>3. CASE c.signature # "right"
    <3>1. Respond(w, 401) \/ Respond(w, 500)
      BY <1>5, <2>3 DEF verify_line_signature
    <3> QED
      BY <1>2, <3>1
  <2> QED
    BY <2>2, <2>3
<1>6. CASE Parse(w)
  <2>1. c.fits /\ c.signature = "right"
    BY <1>6 DEF Parse, WebhookInvariant
  <2>2. CASE c.json = "events" /\ \A i \in 1..Len(c.events) : c.events[i]
    <3>1. Genuine(c)
      BY <2>1, <2>2 DEF Genuine
    <3>2. Goto(w, "handling") /\ UNCHANGED <<serving, status, settled>>
      BY <1>6, <2>2 DEF Parse
    <3> QED
      BY <1>3, <3>1, <3>2
  <2>3. CASE ~(c.json = "events" /\ \A i \in 1..Len(c.events) : c.events[i])
    <3>1. Respond(w, 400) \/ Respond(w, 500)
      BY <1>6, <2>3 DEF Parse
    <3> QED
      BY <1>2, <3>1
  <2> QED
    BY <2>2, <2>3
<1> QED
  BY <1>4, <1>5, <1>6

\* Another event handled is the next one; after the last comes the 200.
LEMMA HandleStep ==
  ASSUME WebhookInvariant, NEW w \in Workers, Handle(w)
  PROVE  WebhookInvariant'
<1> DEFINE a == serving[w]
           d == a[1]
           events == content[d].events
           n == Len(handled[a]) + 1
<1>1. TypeOK /\ at[w] = "handling" /\ a \in Attempts /\ UNCHANGED <<content, sent>>
  BY DEF WebhookInvariant, Handle
<1>2. d \in Deliveries /\ a[2] \in 1..MaxAttempts /\ a = <<d, a[2]>>
  BY <1>1 DEF Attempts
<1>3. Len(events) \in Nat /\ handled[a] \in Seq(Nat) /\ Len(handled[a]) \in Nat
  BY <1>1, <1>2, EventsAreSeq, LenProperties DEF TypeOK
<1>4. Len(handled[a]) <= Len(events) /\ \A i \in 1..Len(handled[a]) : handled[a][i] = i
  BY <1>1 DEF WebhookInvariant
<1>5. CASE n <= Len(events) /\ handled' = [handled EXCEPT ![serving[w]] = Append(@, n)]
           /\ UNCHANGED <<serving, at, status, settled>>
  <2> DEFINE s == Append(handled[a], n)
  <2>1. /\ s \in Seq(Nat) /\ Len(s) = n /\ s[n] = n
        /\ \A i \in 1..Len(handled[a]) : s[i] = handled[a][i]
    BY <1>3, AppendProperties
  <2>2. \A i \in 1..Len(s) : s[i] = i
    BY <1>3, <1>4, <2>1
  <2> HIDE DEF s
  <2>3. /\ \A b \in Attempts : handled'[b] = IF b = a THEN s ELSE handled[b]
        /\ DOMAIN handled' = DOMAIN handled
    BY <1>1, <1>5 DEF TypeOK, s
  <2>4. TypeOK'
    BY <1>1, <1>5, <2>1, <2>3 DEF TypeOK
  <2>5. OnlyGenuineEvents'
    BY <1>1, <2>3 DEF WebhookInvariant, OnlyGenuineEvents, Genuine
  <2>6. ASSUME NEW e \in settled
        PROVE  \E m \in 1..MaxAttempts :
                 handled'[<<e, m>>] = [i \in 1..Len(content[e].events) |-> i]
    <3>1. e \in Deliveries
      BY <1>1, <2>6 DEF TypeOK
    <3>2. PICK m \in 1..MaxAttempts :
            handled[<<e, m>>] = [i \in 1..Len(content[e].events) |-> i]
      BY <2>6 DEF WebhookInvariant, SettledIsHandled
    <3>3. <<e, m>> \in Attempts
      BY <3>1, <3>2 DEF Attempts
    <3>4. <<e, m>> # a
      <4> SUFFICES ASSUME <<e, m>> = a PROVE FALSE
        OBVIOUS
      <4>1. e = d /\ handled[a] = [i \in 1..Len(events) |-> i]
        BY <3>2
      <4>2. DOMAIN handled[a] = 1..Len(events)
        BY <4>1
      <4>3. DOMAIN handled[a] = 1..Len(handled[a])
        BY <1>3, LenProperties
      <4> QED
        BY <1>3, <1>5, <4>2, <4>3
    <3> QED
      BY <2>3, <3>2, <3>3, <3>4
  <2>7. SettledIsHandled'
    BY <1>1, <1>5, <2>6 DEF SettledIsHandled
  <2> HIDE DEF events, d
  <2>8. ASSUME NEW b \in Attempts
        PROVE  /\ Len(handled'[b]) <= Len(content'[b[1]].events)
               /\ \A i \in 1..Len(handled'[b]) : handled'[b][i] = i
    <3>1. CASE b = a
      BY <1>1, <1>5, <2>1, <2>2, <2>3, <3>1 DEF events, d
    <3>2. CASE b # a
      BY <1>1, <2>3, <3>2 DEF WebhookInvariant
    <3> QED
      BY <3>1, <3>2
  <2> QED
    BY <1>1, <1>5, <2>4, <2>5, <2>7, <2>8 DEF WebhookInvariant, Genuine
<1>6. CASE UNCHANGED handled /\ \/ Respond(w, 500)
                                \/ n > Len(events) /\ Respond(w, 200)
  <2>1. /\ serving' \in [Workers -> Attempts \cup {None}]
        /\ at' \in [Workers -> {"idle", "reading", "verifying", "parsing", "handling"}]
        /\ status' \in [Attempts -> {0, 200, 400, 401, 413, 500}]
        /\ at'[w] = "idle"
        /\ \A v \in Workers : v # w => serving'[v] = serving[v] /\ at'[v] = at[v]
        /\ \/ settled' = settled
           \/ n > Len(events) /\ settled' = settled \cup {d}
    <3>1. CASE Respond(w, 500)
      BY <1>1, <3>1, Responds
    <3>2. CASE n > Len(events) /\ Respond(w, 200)
      BY <1>1, <3>2, Responds
    <3> QED
      BY <1>6, <3>1, <3>2
  <2>2. TypeOK'
    BY <1>1, <1>2, <1>6, <2>1 DEF TypeOK
  <2>3. OnlyGenuineEvents'
    BY <1>1, <1>6 DEF WebhookInvariant, OnlyGenuineEvents, Genuine
  <2>4. n > Len(events) => handled[<<d, a[2]>>] = [i \in 1..Len(events) |-> i]
    <3> SUFFICES ASSUME n > Len(events) PROVE handled[a] = [i \in 1..Len(events) |-> i]
      BY <1>2
    <3>1. Len(handled[a]) = Len(events)
      BY <1>3, <1>4
    <3> HIDE DEF events, a
    <3> QED
      BY <1>3, <1>4, <3>1, AllHandled
  <2>5. SettledIsHandled'
    <3> SUFFICES ASSUME NEW e \in settled'
                 PROVE  \E m \in 1..MaxAttempts :
                          handled[<<e, m>>] = [i \in 1..Len(content[e].events) |-> i]
      BY <1>1, <1>6 DEF SettledIsHandled
    <3>1. CASE e \in settled
      BY <3>1 DEF WebhookInvariant, SettledIsHandled
    <3>2. CASE e \notin settled
      <4>1. e = d /\ n > Len(events)
        BY <2>1, <3>2
      <4>2. handled[<<d, a[2]>>] = [i \in 1..Len(events) |-> i] /\ a[2] \in 1..MaxAttempts
        BY <1>2, <2>4, <4>1
      <4> QED
        BY <4>1, <4>2
    <3> QED
      BY <3>1, <3>2
  <2>6. \A b \in Attempts :
          /\ Len(handled'[b]) <= Len(content'[b[1]].events)
          /\ \A i \in 1..Len(handled'[b]) : handled'[b][i] = i
    BY <1>1, <1>6 DEF WebhookInvariant
  <2>7. \A v \in Workers : v # w => at'[v] = at[v] /\ serving'[v] = serving[v]
    BY <2>1
  <2> HIDE DEF a, d, events, n
  <2>8. ASSUME NEW v \in Workers
        PROVE  /\ at'[v] # "idle" => serving'[v] \in Attempts
               /\ at'[v] \in {"verifying", "parsing"} => content'[serving'[v][1]].fits
               /\ at'[v] = "parsing" => content'[serving'[v][1]].signature = "right"
               /\ at'[v] = "handling" => Genuine(content'[serving'[v][1]])
    <3>1. CASE v = w
      BY <2>1, <3>1
    <3>2. CASE v # w
      <4>1. at'[v] = at[v] /\ serving'[v] = serving[v] /\ content' = content
        BY <1>1, <2>7, <3>2
      <4> QED
        BY <4>1 DEF WebhookInvariant
    <3> QED
      BY <3>1, <3>2
  <2> QED
    BY <2>2, <2>3, <2>5, <2>6, <2>8 DEF WebhookInvariant, Genuine
<1> QED
  BY <1>5, <1>6 DEF Handle

LEMMA DeathStep ==
  ASSUME WebhookInvariant, NEW w \in Workers, WorkerDies(w)
  PROVE  WebhookInvariant'
<1>1. /\ TypeOK /\ Goto(w, "idle") /\ serving' = [serving EXCEPT ![w] = None]
      /\ UNCHANGED <<content, sent, handled, status, settled>>
  BY DEF WebhookInvariant, WorkerDies
<1>2. /\ at' \in [Workers -> {"idle", "reading", "verifying", "parsing", "handling"}]
      /\ at'[w] = "idle" /\ \A v \in Workers : v # w => at'[v] = at[v]
  BY <1>1, GoesTo
<1>3. TypeOK' /\ \A v \in Workers : v # w => serving'[v] = serving[v]
  <2>1. serving' \in [Workers -> Attempts \cup {None}]
        /\ \A v \in Workers : v # w => serving'[v] = serving[v]
    BY <1>1 DEF TypeOK
  <2> QED
    BY <1>1, <1>2, <2>1 DEF TypeOK
<1> QED
  BY <1>1, <1>2, <1>3, NothingHandled DEF WebhookInvariant, Genuine

LEMMA WebhookInvariance == Spec => []WebhookInvariant
<1>1. Init => WebhookInvariant
  <2> SUFFICES ASSUME Init PROVE WebhookInvariant
    OBVIOUS
  <2>1. <<>> \in Seq(Nat) /\ Len(<<>>) = 0 /\ MaxAttempts \in Nat
    BY AttemptsAssumption
  <2>2. TypeOK /\ \A a \in Attempts : handled[a] = <<>>
    BY <2>1 DEF Init, TypeOK
  <2>3. ASSUME NEW a \in Attempts
        PROVE  Len(handled[a]) <= Len(content[a[1]].events)
               /\ \A i \in 1..Len(handled[a]) : handled[a][i] = i
    <3>1. a[1] \in Deliveries
      BY DEF Attempts
    <3>2. Len(content[a[1]].events) \in Nat
      BY <2>2, <3>1, EventsAreSeq
    <3> QED
      BY <2>1, <2>2, <3>2
  <2> QED
    BY <2>2, <2>3 DEF Init, WebhookInvariant, OnlyGenuineEvents, SettledIsHandled
<1>2. WebhookInvariant /\ [Next]_vars => WebhookInvariant'
  <2> SUFFICES ASSUME WebhookInvariant, [Next]_vars PROVE WebhookInvariant'
    OBVIOUS
  <2>1. CASE UNCHANGED vars
    BY <2>1 DEF vars, WebhookInvariant, TypeOK, Genuine, OnlyGenuineEvents, SettledIsHandled
  <2>2. CASE Next
    BY <2>2, DeliverStep, CheckStep, HandleStep, DeathStep DEF Next, Serve
  <2> QED
    BY <2>1, <2>2
<1> QED
  BY <1>1, <1>2, PTL DEF Spec

\* The handler is called for signed events of well-formed payloads only,
\* whatever is sent, and however the requests of several workers interleave.
THEOREM HandledIsGenuine == Spec => []OnlyGenuineEvents
<1>1. WebhookInvariant => OnlyGenuineEvents
  BY DEF WebhookInvariant
<1> QED
  BY <1>1, WebhookInvariance, PTL

\* A delivery LINE has a 200 for was handled completely and in order by one of
\* its attempts, though other attempts failed, died or are still running.
THEOREM AcknowledgedIsHandled == Spec => []SettledIsHandled
<1>1. WebhookInvariant => SettledIsHandled
  BY DEF WebhookInvariant
<1> QED
  BY <1>1, WebhookInvariance, PTL
=============================================================================
