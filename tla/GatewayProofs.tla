------------------------------ MODULE GatewayProofs ------------------------------
(***************************************************************************)
(* Theorems about Gateway, for any number of requests of any kinds.        *)
(***************************************************************************)
EXTENDS Gateway, SequenceTheorems, TLAPS

\* Whoever is past the logging middleware has an id bound to its log context.
Named == \A r \in Requests : pc[r] # "new" => bound[r] \in Ids

Typed == TypeOK /\ Named

\* Who a request comes from is one of the limiter's clients, and has an address.
LEMMA SourcesTyped ==
  ASSUME TypeOK, NEW r \in Requests
  PROVE  /\ Identifier(r) \in Clients
         /\ ClientIp(r) \in Addresses
         /\ kind[r].peer \in Addresses
         /\ kind[r].threat \in {"none", "sqli", "xss"}
  BY GatewayAssumption DEF TypeOK, RequestKind, Identifier, ClientIp, Clients

LEMMA IdsTyped ==
  ASSUME NEW r \in Requests
  PROVE  <<r, "logging">> \in Ids /\ <<r, "waf">> \in Ids
  BY DEF Ids

LEMMA TypedInit == Init => Typed
  BY GatewayAssumption DEF Init, Typed, TypeOK, Named, Clients

\* The two ways in which the limiter's budget changes without a request going on.
Elsewhere == (\E r \in Requests : PayUnheard(r)) \/ (\E k \in Clients : Refill(k))

\* What a step appends is an event, or the bound id.
LEMMA LogsTyped ==
  ASSUME Typed, NEW r \in Requests, Step(r)
  PROVE  events' \in [Requests -> Seq(Event)] /\ logged' \in [Requests -> Seq(Ids)]
<1>0. events \in [Requests -> Seq(Event)] /\ logged \in [Requests -> Seq(Ids)]
  BY DEF Typed, TypeOK
<1>1. ASSUME NEW e \in Event, Fires(r, e)
      PROVE  events' \in [Requests -> Seq(Event)]
  BY <1>0, <1>1 DEF Fires
<1>2. CASE Deny(r)
  <2>1. [type |-> "rate_limit", ip |-> kind[r].peer, id |-> None] \in Event
    BY SourcesTyped DEF Typed, Event
  <2> QED
    BY <1>0, <1>1, <1>2, <2>1 DEF Deny
<1>3. CASE Block(r)
  <2>1. [type |-> kind[r].threat, ip |-> ClientIp(r), id |-> id[r]] \in Event
    BY <1>3, SourcesTyped DEF Typed, TypeOK, Event, Block, Visible
  <2> QED
    BY <1>0, <1>1, <1>3, <2>1 DEF Block
<1>4. CASE Return(r)
  <2>1. bound[r] \in Ids
    BY <1>4 DEF Typed, Named, Return, Goes
  <2> QED
    BY <1>0, <1>4, <2>1 DEF Return
<1> QED
  BY <1>0, <1>2, <1>3, <1>4
  DEF Step, Arrive, ExemptFromLimit, Admit, FailOpen, SkipWaf, EnterWaf, RejectBody,
      PassClean, InspectionRaises, Handle, HandlerRaises

\* A payment takes a token that is there, and is one of the few a check may cost.
LEMMA PaymentTyped ==
  ASSUME Typed, NEW r \in Requests, Pays(r), paid[r] < Commands
  PROVE  credit' \in [Clients -> 0 .. Limit] /\ paid' \in [Requests -> 0 .. Commands]
  BY SourcesTyped, GatewayAssumption DEF Pays, Typed, TypeOK

LEMMA BudgetTyped ==
  ASSUME Typed, NEW r \in Requests, Step(r)
  PROVE  credit' \in [Clients -> 0 .. Limit] /\ paid' \in [Requests -> 0 .. Commands]
<1>1. CASE Pays(r) /\ paid[r] < Commands
  BY <1>1, PaymentTyped
<1>2. (Pays(r) /\ paid[r] < Commands) \/ UNCHANGED budget
  BY Zenon
  DEF Step, Arrive, ExemptFromLimit, Admit, Deny, FailOpen, SkipWaf, EnterWaf, RejectBody,
      Block, PassClean, InspectionRaises, Handle, HandlerRaises, Return, budget
<1> QED
  BY <1>1, <1>2 DEF Typed, TypeOK, budget

LEMMA StepTyped ==
  ASSUME Typed, NEW r \in Requests, Step(r)
  PROVE  Typed'
<1>1. /\ events' \in [Requests -> Seq(Event)] /\ logged' \in [Requests -> Seq(Ids)]
      /\ credit' \in [Clients -> 0 .. Limit] /\ paid' \in [Requests -> 0 .. Commands]
      /\ <<r, "logging">> \in Ids /\ <<r, "waf">> \in Ids
  BY LogsTyped, BudgetTyped, IdsTyped
<1> USE <1>1
    DEF Typed, TypeOK, Named, Goes, Limiter, Waf, Answers, Headers, given, context, answer
<1>2. CASE Arrive(r)
  <2>1. \E i \in Ids : bound' = [bound EXCEPT ![r] = i]
    <3>1. CASE id[r] = None
      BY <1>1, <1>2, <3>1, Zenon DEF Arrive
    <3>2. CASE id[r] # None
      <4>1. id[r] \in Ids
        BY <3>2
      <4> QED
        BY <1>2, <3>2, <4>1, Zenon DEF Arrive
    <3> QED
      BY <3>1, <3>2
  <2>2. PICK i \in Ids : bound' = [bound EXCEPT ![r] = i]
    BY <2>1
  <2>3. bound' \in [Requests -> Ids \cup {None}]
    BY <2>2
  <2>4. Named'
    BY <1>2, <2>2 DEF Arrive
  <2> QED
    BY <1>2, <2>3, <2>4 DEF Arrive
<1>3. CASE ExemptFromLimit(r)
  BY <1>3 DEF ExemptFromLimit
<1>4. CASE Admit(r)
  BY <1>4 DEF Admit
<1>5. CASE Deny(r)
  BY <1>5 DEF Deny
<1>6. CASE FailOpen(r)
  BY <1>6 DEF FailOpen
<1>7. CASE SkipWaf(r)
  BY <1>7 DEF SkipWaf
<1>8. CASE EnterWaf(r)
  <2>1. id' \in [Requests -> Ids \cup {None}]
    BY <1>8 DEF EnterWaf
  <2>2. UNCHANGED <<settings, kind, limiter, bound, status, headers>>
    BY <1>8 DEF EnterWaf
  <2>3. CASE Goes(r, "waf", "route") /\ Waf(r, "whitelisted")
    BY <2>1, <2>2, <2>3
  <2>4. CASE Goes(r, "waf", "body") /\ waf' = waf
    BY <2>1, <2>2, <2>4
  <2> QED
    BY <1>8, <2>3, <2>4, Zenon DEF EnterWaf
<1>9. CASE RejectBody(r)
  BY <1>9 DEF RejectBody
<1>10. CASE Block(r)
  BY <1>10 DEF Block
<1>11. CASE PassClean(r)
  BY <1>11 DEF PassClean
<1>12. CASE InspectionRaises(r)
  BY <1>12 DEF InspectionRaises
<1>13. CASE Handle(r)
  BY <1>13 DEF Handle
<1>14. CASE HandlerRaises(r)
  BY <1>14 DEF HandlerRaises
<1>15. CASE Return(r)
  BY <1>15 DEF Return
<1> QED
  BY <1>2, <1>3, <1>4, <1>5, <1>6, <1>7, <1>8, <1>9, <1>10, <1>11, <1>12, <1>13, <1>14, <1>15
  DEF Step

LEMMA TypedStep == Typed /\ [Next]_vars => Typed'
<1> SUFFICES ASSUME Typed, [Next]_vars
             PROVE  Typed'
  OBVIOUS
<1> USE DEF given, context, answer, budget
<1>1. CASE UNCHANGED vars
  BY <1>1 DEF vars, Typed, TypeOK, Named
<1>2. ASSUME NEW k \in Clients, Refill(k)
      PROVE  Typed'
  BY <1>2, GatewayAssumption DEF Refill, Typed, TypeOK, Named
<1>3. ASSUME NEW r \in Requests, PayUnheard(r)
      PROVE  Typed'
  <2>1. Pays(r) /\ paid[r] < Commands
    BY <1>3, GatewayAssumption DEF PayUnheard, Typed, TypeOK
  <2>2. credit' \in [Clients -> 0 .. Limit] /\ paid' \in [Requests -> 0 .. Commands]
    BY <2>1, PaymentTyped
  <2> QED
    BY <1>3, <2>2 DEF PayUnheard, Typed, TypeOK, Named
<1> QED
  BY <1>1, <1>2, <1>3, StepTyped DEF Next, Rest

LEMMA AlwaysTyped == Spec => []Typed
  BY TypedInit, TypedStep, PTL DEF Spec

\* Every reachable state is well typed: no bucket is overdrawn or overfull, and no request
\* pays more than the commands of its check can take.
THEOREM TypeCorrect == Spec => []TypeOK
<1>1. Typed => TypeOK
  BY DEF Typed
<1> QED
  BY <1>1, AlwaysTyped, PTL

-----------------------------------------------------------------------------
(* What a step leaves alone.                                               *)

\* A step of one request changes no other, and no request changes what it is.
LEMMA Frame ==
  ASSUME Typed, NEW r \in Requests, Step(r)
  PROVE  /\ UNCHANGED given
         /\ \A q \in Requests \ {r} :
              /\ pc'[q] = pc[q] /\ limiter'[q] = limiter[q] /\ waf'[q] = waf[q]
              /\ id'[q] = id[q] /\ status'[q] = status[q] /\ headers'[q] = headers[q]
              /\ paid'[q] = paid[q] /\ events'[q] = events[q]
<1> USE DEF Typed, TypeOK, Goes, Limiter, Waf, Answers, Pays, Fires, given, context, answer,
            budget
<1>1. CASE Arrive(r)
  BY <1>1 DEF Arrive
<1>2. CASE ExemptFromLimit(r)
  BY <1>2 DEF ExemptFromLimit
<1>3. CASE Admit(r)
  BY <1>3 DEF Admit
<1>4. CASE Deny(r)
  BY <1>4 DEF Deny
<1>5. CASE FailOpen(r)
  BY <1>5 DEF FailOpen
<1>6. CASE SkipWaf(r)
  BY <1>6 DEF SkipWaf
<1>7. CASE EnterWaf(r)
  BY <1>7 DEF EnterWaf
<1>8. CASE RejectBody(r)
  BY <1>8 DEF RejectBody
<1>9. CASE Block(r)
  BY <1>9 DEF Block
<1>10. CASE PassClean(r)
  BY <1>10 DEF PassClean
<1>11. CASE InspectionRaises(r)
  BY <1>11 DEF InspectionRaises
<1>12. CASE Handle(r)
  BY <1>12 DEF Handle
<1>13. CASE HandlerRaises(r)
  BY <1>13 DEF HandlerRaises
<1>14. CASE Return(r)
  BY <1>14 DEF Return
<1> QED
  BY <1>1, <1>2, <1>3, <1>4, <1>5, <1>6, <1>7, <1>8, <1>9, <1>10, <1>11, <1>12, <1>13, <1>14
  DEF Step

-----------------------------------------------------------------------------
(* Events and answers.                                                     *)

\* There is no answer before the request turns back.
Pending(r) == pc[r] \in {"new", "limiter", "waf", "body", "route"} => status[r] = 0

\* The events due for the answer a request has got.
Due(r) ==
  IF status[r] = 429
  THEN <<[type |-> "rate_limit", ip |-> kind[r].peer, id |-> None]>>
  ELSE IF status[r] = 403 /\ settings.log_blocked
       THEN <<[type |-> kind[r].threat, ip |-> ClientIp(r), id |-> id[r]]>>
       ELSE <<>>

Told(r) == Pending(r) /\ events[r] = Due(r)
AllTold == \A r \in Requests : Told(r)

LEMMA StepTold ==
  ASSUME Typed, NEW r \in Requests, Step(r), Told(r)
  PROVE  Told(r)'
<1> USE DEF Typed, TypeOK, Goes, Limiter, Waf, Answers, given, context, answer, budget, Told, Pending, Due, ClientIp, Fires
<1>1. CASE Arrive(r)
  BY <1>1 DEF Arrive
<1>2. CASE ExemptFromLimit(r)
  BY <1>2 DEF ExemptFromLimit
<1>3. CASE Admit(r)
  BY <1>3 DEF Admit, Pays
<1>4. CASE Deny(r)
  BY <1>4 DEF Deny
<1>5. CASE FailOpen(r)
  BY <1>5 DEF FailOpen, Pays
<1>6. CASE SkipWaf(r)
  BY <1>6 DEF SkipWaf
<1>7. CASE EnterWaf(r)
  BY <1>7 DEF EnterWaf
<1>8. CASE RejectBody(r)
  BY <1>8 DEF RejectBody
<1>9. CASE Block(r)
  BY <1>9 DEF Block
<1>10. CASE PassClean(r)
  BY <1>10 DEF PassClean
<1>11. CASE InspectionRaises(r)
  BY <1>11 DEF InspectionRaises
<1>12. CASE Handle(r)
  BY <1>12 DEF Handle
<1>13. CASE HandlerRaises(r)
  BY <1>13 DEF HandlerRaises
<1>14. CASE Return(r)
  BY <1>14 DEF Return
<1> QED
  BY <1>1, <1>2, <1>3, <1>4, <1>5, <1>6, <1>7, <1>8, <1>9, <1>10, <1>11, <1>12, <1>13, <1>14
  DEF Step

LEMMA OthersTold ==
  ASSUME Typed, NEW r \in Requests, Step(r), NEW q \in Requests \ {r}, Told(q)
  PROVE  Told(q)'
  BY Frame DEF Told, Pending, Due, ClientIp, given

LEMMA ToldStep == Typed /\ AllTold /\ [Next]_vars => AllTold'
<1> SUFFICES ASSUME Typed, AllTold, [Next]_vars
             PROVE  AllTold'
  OBVIOUS
<1>1. ASSUME NEW r \in Requests, Step(r)
      PROVE  AllTold'
  BY <1>1, StepTold, OthersTold DEF AllTold
<1>2. CASE UNCHANGED vars \/ Elsewhere
  BY <1>2
  DEF vars, given, context, answer, Elsewhere, PayUnheard, Refill, AllTold, Told, Pending, Due,
      ClientIp
<1> QED
  BY <1>1, <1>2 DEF Next, Rest, Elsewhere

LEMMA AlwaysTold == Spec => []AllTold
<1>1. Init => AllTold
  <2> SUFFICES ASSUME Init, NEW r \in Requests
               PROVE  Told(r)
    BY DEF AllTold
  <2>1. /\ pc[r] = "new" /\ limiter[r] = "unasked" /\ status[r] = 0 /\ headers[r] = {}
        /\ paid[r] = 0 /\ events[r] = <<>>
    BY DEF Init
  <2> QED
    BY <2>1 DEF Told, Pending, Due
<1> QED
  BY <1>1, ToldStep, AlwaysTyped, PTL DEF Spec

\* A step gives the request an answer, once, and an event if the answer is a refusal on
\* record; or it does neither.
LEMMA StepDecides ==
  ASSUME Typed, AllTold, NEW r \in Requests, Step(r)
  PROVE  \/ UNCHANGED <<status, events>>
         \/ /\ status[r] = 0
            /\ \E code \in {200, 403, 413, 429, 500} :
                 /\ status' = [status EXCEPT ![r] = code]
                 /\ (events' # events) <=> (code = 429 \/ (code = 403 /\ settings.log_blocked))
<1>0. events[r] = Due(r) /\ Pending(r) /\ events \in [Requests -> Seq(Event)]
  BY DEF AllTold, Told, Typed, TypeOK
<1>1. ASSUME NEW e, Fires(r, e), status[r] = 0
      PROVE  events' # events
  <2>1. events[r] = <<>>
    BY <1>0, <1>1 DEF Due
  <2>2. events'[r] = <<e>>
    BY <1>0, <1>1, <2>1 DEF Fires
  <2> QED
    BY <2>1, <2>2
<1>2. CASE Deny(r)
  <2>1. status[r] = 0 /\ status' = [status EXCEPT ![r] = 429]
    BY <1>0, <1>2 DEF Deny, Goes, Answers, Pending
  <2>2. events' # events
    BY <1>1, <1>2, <2>1, Zenon DEF Deny
  <2> QED
    BY <2>1, <2>2
<1>3. CASE Block(r)
  <2>1. status[r] = 0 /\ status' = [status EXCEPT ![r] = 403]
    BY <1>0, <1>3 DEF Block, Goes, Answers, Pending
  <2>2. (events' # events) <=> settings.log_blocked
    BY <1>1, <1>3, <2>1, Zenon DEF Block
  <2> QED
    BY <2>1, <2>2
<1>4. CASE RejectBody(r) \/ InspectionRaises(r) \/ Handle(r) \/ HandlerRaises(r)
  BY <1>0, <1>4
  DEF RejectBody, InspectionRaises, Handle, HandlerRaises, Goes, Answers, Pending
<1>5. CASE \/ Arrive(r) \/ ExemptFromLimit(r) \/ Admit(r) \/ FailOpen(r) \/ SkipWaf(r)
           \/ EnterWaf(r) \/ PassClean(r) \/ Return(r)
  BY <1>5
  DEF Arrive, ExemptFromLimit, Admit, FailOpen, SkipWaf, EnterWaf, PassClean, Return, answer
<1> QED
  BY <1>2, <1>3, <1>4, <1>5 DEF Step

\* The client is told exactly what the threat log is told, at every moment and whatever the
\* WAF's settings (rate_limiter.py:103-119, waf.py:96-118).
THEOREM EventsAlwaysMatch == Spec => []EventsMatchAnswers
<1>1. AllTold => EventsMatchAnswers
  <2> SUFFICES ASSUME AllTold, NEW r \in Requests
               PROVE  /\ Len(events[r]) = IF \/ status[r] = 429
                                             \/ status[r] = 403 /\ settings.log_blocked
                                          THEN 1 ELSE 0
                      /\ status[r] = 429 => events[r][1].type = "rate_limit"
                      /\ status[r] = 403 /\ settings.log_blocked =>
                           /\ events[r][1].type = kind[r].threat
                           /\ events[r][1].ip = ClientIp(r)
                           /\ events[r][1].id = id[r]
    BY DEF EventsMatchAnswers
  <2>0. events[r] = Due(r)
    BY DEF AllTold, Told
  <2>1. CASE status[r] = 429
    BY <2>0, <2>1 DEF Due
  <2>2. CASE status[r] = 403 /\ settings.log_blocked
    BY <2>0, <2>2 DEF Due
  <2>3. CASE status[r] # 429 /\ ~(status[r] = 403 /\ settings.log_blocked)
    BY <2>0, <2>3 DEF Due
  <2> QED
    BY <2>1, <2>2, <2>3
<1> QED
  BY <1>1, AlwaysTold, PTL

-----------------------------------------------------------------------------
(* Inspection.                                                             *)

\* Whatever is let in to a handler, or has been, shows no threat that was to be found.
Cleared(r) ==
  /\ Pending(r)
  /\ (pc[r] = "route" \/ Handled(r)) /\ Visible(r) => Bypassed(r)
AllCleared == \A r \in Requests : Cleared(r)

LEMMA GivenStays ==
  ASSUME UNCHANGED given, NEW r \in Requests
  PROVE  (Visible(r)' <=> Visible(r)) /\ (Bypassed(r)' <=> Bypassed(r))
  BY DEF given, Visible, Bypassed, Exempt, ClientIp

LEMMA StepCleared ==
  ASSUME Typed, NEW r \in Requests, Step(r), Cleared(r)
  PROVE  Cleared(r)'
<1>0. (Visible(r)' <=> Visible(r)) /\ (Bypassed(r)' <=> Bypassed(r))
  BY Frame, GivenStays
<1> USE <1>0 DEF Typed, TypeOK, Goes, Limiter, Waf, Answers, context, answer, Cleared, Pending, Handled
<1>1. CASE Arrive(r)
  BY <1>1 DEF Arrive
<1>2. CASE ExemptFromLimit(r)
  BY <1>2 DEF ExemptFromLimit
<1>3. CASE Admit(r)
  BY <1>3 DEF Admit, Pays
<1>4. CASE Deny(r)
  BY <1>4 DEF Deny
<1>5. CASE FailOpen(r)
  BY <1>5 DEF FailOpen, Pays
<1>6. CASE SkipWaf(r)
  BY <1>6 DEF SkipWaf, Bypassed
<1>7. CASE EnterWaf(r)
  BY <1>7 DEF EnterWaf, Bypassed
<1>8. CASE RejectBody(r)
  BY <1>8 DEF RejectBody
<1>9. CASE Block(r)
  BY <1>9 DEF Block
<1>10. CASE PassClean(r)
  BY <1>10 DEF PassClean
<1>11. CASE InspectionRaises(r)
  BY <1>11 DEF InspectionRaises
<1>12. CASE Handle(r)
  BY <1>12 DEF Handle
<1>13. CASE HandlerRaises(r)
  BY <1>13 DEF HandlerRaises
<1>14. CASE Return(r)
  BY <1>14 DEF Return
<1> QED
  BY <1>1, <1>2, <1>3, <1>4, <1>5, <1>6, <1>7, <1>8, <1>9, <1>10, <1>11, <1>12, <1>13, <1>14
  DEF Step

LEMMA OthersCleared ==
  ASSUME Typed, NEW r \in Requests, Step(r), NEW q \in Requests \ {r}, Cleared(q)
  PROVE  Cleared(q)'
  BY Frame DEF Cleared, Pending, Handled, Visible, Bypassed, Exempt, ClientIp, given

LEMMA ClearedStep == Typed /\ AllCleared /\ [Next]_vars => AllCleared'
<1> SUFFICES ASSUME Typed, AllCleared, [Next]_vars
             PROVE  AllCleared'
  OBVIOUS
<1>1. ASSUME NEW r \in Requests, Step(r)
      PROVE  AllCleared'
  BY <1>1, StepCleared, OthersCleared DEF AllCleared
<1>2. CASE UNCHANGED vars \/ Elsewhere
  BY <1>2
  DEF vars, given, context, answer, Elsewhere, PayUnheard, Refill, AllCleared, Cleared, Pending,
      Handled, Visible, Bypassed, Exempt, ClientIp
<1> QED
  BY <1>1, <1>2 DEF Next, Rest, Elsewhere

\* No threat gets to a handler unless inspection is off for its request: not in a body
\* that could not be read or not be inspected (waf.py:75-126).
THEOREM ThreatsStopped == Spec => []HandlersSeeNoThreat
<1>1. Init => AllCleared
  <2> SUFFICES ASSUME Init, NEW r \in Requests
               PROVE  Cleared(r)
    BY DEF AllCleared
  <2>1. /\ pc[r] = "new" /\ limiter[r] = "unasked" /\ status[r] = 0 /\ headers[r] = {}
        /\ paid[r] = 0 /\ events[r] = <<>>
    BY DEF Init
  <2> QED
    BY <2>1 DEF Cleared, Pending, Handled
<1>2. AllCleared => HandlersSeeNoThreat
  BY DEF AllCleared, Cleared, HandlersSeeNoThreat
<1> QED
  BY <1>1, <1>2, ClearedStep, AlwaysTyped, PTL DEF Spec

-----------------------------------------------------------------------------
(* Payment.                                                                *)

\* What a request has paid, by what the limiter has said of it.
Charged(r) ==
  /\ pc[r] \in {"new", "limiter"} <=> limiter[r] = "unasked"
  /\ limiter[r] = "exempt" => Exempt(r)
  /\ Exempt(r) => limiter[r] \in {"unasked", "exempt"}
  /\ pc[r] = "new" \/ Exempt(r) => paid[r] = 0
  /\ limiter[r] = "allowed" => paid[r] > 0
  /\ limiter[r] = "denied" => paid[r] < Commands /\ pc[r] \in {"out", "done"}
  /\ limiter[r] = "denied" <=> status[r] = 429
  /\ "X-RateLimit" \in headers[r] => limiter[r] \in {"allowed", "denied"}
AllCharged == \A r \in Requests : Charged(r)

LEMMA StepCharged ==
  ASSUME Typed, NEW r \in Requests, Step(r), Charged(r)
  PROVE  Charged(r)'
<1> USE DEF Typed, TypeOK, Goes, Limiter, Waf, Answers, given, context, answer, budget, Charged, Exempt
<1>1. CASE Arrive(r)
  BY <1>1 DEF Arrive
<1>2. CASE ExemptFromLimit(r)
  BY <1>2 DEF ExemptFromLimit
<1>3. CASE Admit(r)
  BY <1>3 DEF Admit, Pays
<1>4. CASE Deny(r)
  BY <1>4 DEF Deny
<1>5. CASE FailOpen(r)
  BY <1>5 DEF FailOpen, Pays
<1>6. CASE SkipWaf(r)
  BY <1>6 DEF SkipWaf
<1>7. CASE EnterWaf(r)
  BY <1>7 DEF EnterWaf
<1>8. CASE RejectBody(r)
  BY <1>8 DEF RejectBody
<1>9. CASE Block(r)
  BY <1>9 DEF Block
<1>10. CASE PassClean(r)
  BY <1>10 DEF PassClean
<1>11. CASE InspectionRaises(r)
  BY <1>11 DEF InspectionRaises
<1>12. CASE Handle(r)
  BY <1>12 DEF Handle
<1>13. CASE HandlerRaises(r)
  BY <1>13 DEF HandlerRaises
<1>14. CASE Return(r)
  BY <1>14 DEF Return
<1> QED
  BY <1>1, <1>2, <1>3, <1>4, <1>5, <1>6, <1>7, <1>8, <1>9, <1>10, <1>11, <1>12, <1>13, <1>14
  DEF Step

LEMMA OthersCharged ==
  ASSUME Typed, NEW r \in Requests, Step(r), NEW q \in Requests \ {r}, Charged(q)
  PROVE  Charged(q)'
  BY Frame DEF Charged, Exempt, given

\* A command that runs unheard.
LEMMA UnheardCharged ==
  ASSUME Typed, AllCharged, NEW r \in Requests, PayUnheard(r)
  PROVE  AllCharged'
<1>1. /\ paid \in [Requests -> 0 .. Commands]
      /\ ~Exempt(r) /\ pc[r] # "new" /\ paid' = [paid EXCEPT ![r] = @ + 1]
      /\ paid[r] < IF limiter[r] = "denied" THEN Commands - 1 ELSE Commands
      /\ UNCHANGED <<kind, pc, limiter, status, headers>>
  BY DEF PayUnheard, Pays, Typed, TypeOK, given, answer
<1>2. ASSUME NEW q \in Requests
      PROVE  /\ Charged(q)
             /\ paid'[q] = IF q = r THEN paid[q] + 1 ELSE paid[q]
             /\ paid[q] \in Nat
  BY <1>1 DEF AllCharged
<1>3. Charged(r)'
  BY <1>1, <1>2, GatewayAssumption DEF Charged, Exempt
<1>4. ASSUME NEW q \in Requests \ {r}
      PROVE  Charged(q)'
  BY <1>1, <1>2 DEF Charged, Exempt
<1> QED
  BY <1>3, <1>4 DEF AllCharged

LEMMA ChargedStep == Typed /\ AllCharged /\ [Next]_vars => AllCharged'
<1> SUFFICES ASSUME Typed, AllCharged, [Next]_vars
             PROVE  AllCharged'
  OBVIOUS
<1>1. ASSUME NEW r \in Requests, Step(r)
      PROVE  AllCharged'
  BY <1>1, StepCharged, OthersCharged DEF AllCharged
<1>2. CASE UNCHANGED vars \/ \E k \in Clients : Refill(k)
  BY <1>2 DEF vars, given, context, answer, budget, Refill, AllCharged, Charged, Exempt
<1> QED
  BY <1>1, <1>2, UnheardCharged DEF Next, Rest

\* Whoever passed the limiter has paid unless it is exempt or the limiter failed, whatever
\* commands of its check run unheard, before the answer or after; who is exempt pays
\* nothing, and a 429 had a command that took nothing (rate_limiter.py:89-142 over
\* redis_service.py:41).
THEOREM PassageAlwaysPaid == Spec => []PassageIsPaid
<1>1. Init => AllCharged
  <2> SUFFICES ASSUME Init, NEW r \in Requests
               PROVE  Charged(r)
    BY DEF AllCharged
  <2>1. /\ pc[r] = "new" /\ limiter[r] = "unasked" /\ status[r] = 0 /\ headers[r] = {}
        /\ paid[r] = 0 /\ events[r] = <<>>
    BY DEF Init
  <2> QED
    BY <2>1 DEF Charged
<1>2. Typed /\ AllCharged => PassageIsPaid
  <2> SUFFICES ASSUME Typed, AllCharged, NEW r \in Requests
               PROVE  /\ pc[r] \notin {"new", "limiter"} =>
                           limiter[r] \in {"exempt", "error", "denied"} \/ paid[r] > 0
                      /\ "X-RateLimit" \in headers[r] /\ status[r] # 429 => paid[r] > 0
                      /\ pc[r] = "new" \/ Exempt(r) => paid[r] = 0
                      /\ status[r] = 429 => paid[r] < Commands
    BY Zenon DEF PassageIsPaid
  <2>1. Charged(r) /\ limiter[r] \in {"unasked", "exempt", "allowed", "denied", "error"}
    BY DEF AllCharged, Typed, TypeOK
  <2> QED
    BY <2>1 DEF Charged
<1> QED
  BY <1>1, <1>2, ChargedStep, AlwaysTyped, PTL DEF Spec
=============================================================================
