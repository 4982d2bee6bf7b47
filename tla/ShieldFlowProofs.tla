---------------------------- MODULE ShieldFlowProofs ----------------------------
(***************************************************************************)
(* Theorems about ShieldFlow, for any number of requests and connections:  *)
(* the composition behaves as each of its components does, keeps what is   *)
(* proved of them, implements the steps of AuditTrail, and has a row for   *)
(* each refusal on record and for nothing else, or a cause why not.        *)
(***************************************************************************)
EXTENDS ShieldFlow, TLAPS

GP == INSTANCE GatewayProofs
LP == INSTANCE ThreatLogProofs WITH Events <- Requests, Queries <- {}

LEMMA Assumptions == GP!GatewayAssumption /\ LP!ThreatLogAssumption
  BY ShieldFlowAssumption DEF G!RequestKind, GP!RequestKind

-----------------------------------------------------------------------------
(* The components.                                                         *)

\* A request's step is the one that was proved about.
LEMMA SameRequestStep ==
  ASSUME NEW r, G!Step(r)
  PROVE  GP!Step(r)
  BY DEF G!Step, G!Arrive, G!ExemptFromLimit, G!Admit, G!Deny, G!FailOpen, G!SkipWaf,
         G!EnterWaf, G!RejectBody, G!Block, G!PassClean, G!InspectionRaises, G!Handle,
         G!HandlerRaises, G!Return, G!Exempt, G!Identifier, G!ClientIp, G!Visible, G!Goes,
         G!Limiter, G!Waf, G!Answers, G!Pays, G!Fires, G!given, G!context, G!answer, G!budget,
         GP!Step, GP!Arrive, GP!ExemptFromLimit, GP!Admit, GP!Deny, GP!FailOpen, GP!SkipWaf,
         GP!EnterWaf, GP!RejectBody, GP!Block, GP!PassClean, GP!InspectionRaises, GP!Handle,
         GP!HandlerRaises, GP!Return, GP!Exempt, GP!Identifier, GP!ClientIp, GP!Visible,
         GP!Goes, GP!Limiter, GP!Waf, GP!Answers, GP!Pays, GP!Fires, GP!given, GP!context,
         GP!answer, GP!budget

LEMMA SameUserStep ==
  ASSUME NEW r \in Requests,
         \/ L!Fire(r) \/ L!Respond(r) \/ L!Begin(r) \/ L!Connect(r) \/ L!PoolTimeout(r)
         \/ L!Execute(r) \/ L!Refuse(r) \/ L!Close(r) \/ L!FailCommit(r)
  PROVE  LP!Next
<1> r \in LP!Users
  BY DEF LP!Users
<1> USE DEF L!Becomes, LP!Becomes, L!Running, LP!Running
<1> /\ \A S : L!Cardinality(S) = LP!Cardinality(S)
    /\ L!Pool(r) = LP!Pool(r)
    /\ L!Full(r) <=> LP!Full(r)
  BY DEF L!Cardinality, LP!Cardinality, L!Pool, LP!Pool, L!Full, LP!Full
<1>1. L!Fire(r) => LP!Fire(r)
  BY DEF L!Fire, LP!Fire
<1>2. L!Respond(r) => LP!Respond(r)
  BY DEF L!Respond, LP!Respond
<1>3. L!Begin(r) => LP!Begin(r)
  BY DEF L!Begin, LP!Begin
<1>4. L!Connect(r) => LP!Connect(r)
  BY DEF L!Connect, LP!Connect
<1>5. L!PoolTimeout(r) => LP!PoolTimeout(r)
  BY DEF L!PoolTimeout, LP!PoolTimeout
<1>6. L!Execute(r) => LP!Execute(r)
  BY DEF L!Execute, LP!Execute
<1>7. L!Refuse(r) => LP!Refuse(r)
  BY DEF L!Refuse, LP!Refuse
<1>8. L!Close(r) => LP!Close(r)
  BY DEF L!Close, LP!Close
<1>9. L!FailCommit(r) => LP!FailCommit(r)
  BY DEF L!FailCommit, LP!FailCommit
<1> QED
  BY <1>1, <1>2, <1>3, <1>4, <1>5, <1>6, <1>7, <1>8, <1>9 DEF LP!Next

LEMMA SameProcessStep ==
  ASSUME L!Stop \/ L!Dispose \/ L!EndLoop \/ L!Crash
  PROVE  LP!Next
<1>1. L!Stop => LP!Stop
  BY DEF L!Stop, LP!Stop
<1>2. L!Dispose => LP!Dispose
  BY DEF L!Dispose, LP!Dispose, L!Users, LP!Users
<1>3. L!EndLoop => LP!EndLoop
  BY DEF L!EndLoop, LP!EndLoop, L!Users, LP!Users, L!Running, LP!Running
<1>4. L!Crash => LP!Crash
  BY DEF L!Crash, LP!Crash, L!Users, LP!Users, L!Running, LP!Running
<1> QED
  BY <1>1, <1>2, <1>3, <1>4 DEF LP!Next

\* The limiter's budget changes without a request going on.
Elsewhere == (\E k \in G!Clients : Refill(k)) \/ (\E r \in Requests : PayUnheard(r))

\* Init and every step of the composition, seen from either component.
LEMMA GatewayStep == [Next]_vars => [GP!Next]_(GP!vars)
<1> SUFFICES ASSUME [Next]_vars
             PROVE  [GP!Next]_(GP!vars)
  OBVIOUS
<1>0. UNCHANGED gatewayVars => UNCHANGED GP!vars
  BY DEF gatewayVars, GP!vars, GP!given, GP!context, GP!answer, GP!budget
<1>1. ASSUME NEW r \in Requests, Request(r)
      PROVE  GP!Next
  <2>1. G!Step(r)
    BY <1>1 DEF Request, Proceed, Refuse, Answer, G!Step
  <2> QED
    BY <2>1, SameRequestStep DEF GP!Next
<1>2. ASSUME NEW k \in G!Clients, Refill(k)
      PROVE  GP!Next
  <2>1. GP!Refill(k) /\ k \in GP!Clients
    BY <1>2 DEF Refill, G!Refill, GP!Refill, G!Clients, GP!Clients, G!given, GP!given,
                G!context, GP!context, G!answer, GP!answer
  <2> QED
    BY <2>1 DEF GP!Next
<1>3. ASSUME NEW r \in Requests, PayUnheard(r)
      PROVE  GP!Next
  <2>1. GP!PayUnheard(r)
    BY <1>3 DEF PayUnheard, G!PayUnheard, GP!PayUnheard, G!Exempt, GP!Exempt, G!Pays, GP!Pays,
                G!Identifier, GP!Identifier, G!given, GP!given, G!context, GP!context,
                G!answer, GP!answer
  <2> QED
    BY <2>1 DEF GP!Next
<1>4. CASE UNCHANGED vars \/ (\E r \in Requests : Task(r)) \/ Stop \/ End \/ Rest
  BY <1>0, <1>4, Zenon DEF vars, Task, Stop, End, Rest
<1> QED
  BY <1>1, <1>2, <1>3, <1>4 DEF Next

LEMMA LogStep == [Next]_vars => [LP!Next]_(LP!vars)
<1> SUFFICES ASSUME [Next]_vars
             PROVE  [LP!Next]_(LP!vars)
  OBVIOUS
<1>0. UNCHANGED logVars => UNCHANGED LP!vars
  BY DEF logVars, LP!vars
<1>1. ASSUME NEW r \in Requests, Request(r)
      PROVE  LP!Next \/ UNCHANGED logVars
  BY <1>1, SameUserStep DEF Request, Proceed, Refuse, Answer
<1>2. ASSUME NEW r \in Requests, Task(r)
      PROVE  LP!Next
  BY <1>2, SameUserStep DEF Task
<1>3. CASE Stop \/ End
  BY <1>3, SameProcessStep DEF Stop, End
<1>4. CASE UNCHANGED vars \/ Elsewhere \/ Rest
  BY <1>0, <1>4, Zenon DEF vars, Elsewhere, Refill, PayUnheard, Rest
<1> QED
  BY <1>0, <1>1, <1>2, <1>3, <1>4 DEF Next, Elsewhere

LEMMA InitOfComponents == Init => GP!Init /\ LP!Init
<1>1. G!Init => GP!Init
  BY DEF G!Init, GP!Init, G!Clients, GP!Clients
<1>2. L!Init => LP!Init
  BY DEF L!Init, LP!Init, L!Users, LP!Users
<1> QED
  BY <1>1, <1>2 DEF Init

\* The composition behaves as the gateway and as the threat log.
LEMMA Components == Spec => GP!Spec /\ LP!Spec
  BY InitOfComponents, GatewayStep, LogStep, PTL DEF Spec, GP!Spec, LP!Spec

\* What is proved of the gateway and of the threat log holds where they run together: no
\* event is fired without its answer, none is recorded twice, no threat gets through while
\* tasks compete for connections, and the other way round.
THEOREM ComponentsCorrect ==
  Spec => /\ [](G!EventsMatchAnswers /\ G!HandlersSeeNoThreat /\ G!PassageIsPaid)
          /\ [](L!LoggedMeansRecorded /\ L!NoLeakedConnection)
<1>1. GP!Spec => [](GP!EventsMatchAnswers /\ GP!HandlersSeeNoThreat /\ GP!PassageIsPaid)
  <2>1. GP!Spec => []GP!EventsMatchAnswers
    BY Assumptions, GP!EventsAlwaysMatch
  <2>2. GP!Spec => []GP!HandlersSeeNoThreat
    BY Assumptions, GP!ThreatsStopped
  <2>3. GP!Spec => []GP!PassageIsPaid
    BY Assumptions, GP!PassageAlwaysPaid
  <2> QED
    BY <2>1, <2>2, <2>3, PTL
<1>2. LP!Spec => [](LP!LoggedMeansRecorded /\ LP!NoLeakedConnection)
  <2>1. LP!Spec => []LP!LoggedMeansRecorded
    BY Assumptions, LP!LoggedIsRecorded
  <2>2. LP!Spec => []LP!NoLeakedConnection
    BY Assumptions, LP!ConnectionsAccountedFor
  <2> QED
    BY <2>1, <2>2, PTL
<1>3. /\ GP!EventsMatchAnswers => G!EventsMatchAnswers
      /\ GP!HandlersSeeNoThreat => G!HandlersSeeNoThreat
      /\ GP!PassageIsPaid => G!PassageIsPaid
  <2>1. GP!EventsMatchAnswers => G!EventsMatchAnswers
    BY DEF G!EventsMatchAnswers, GP!EventsMatchAnswers, G!Done, GP!Done, G!ClientIp, GP!ClientIp
  <2>2. GP!HandlersSeeNoThreat => G!HandlersSeeNoThreat
    BY DEF G!HandlersSeeNoThreat, GP!HandlersSeeNoThreat, G!Handled, GP!Handled, G!Visible,
           GP!Visible, G!Bypassed, GP!Bypassed, G!Exempt, GP!Exempt, G!ClientIp, GP!ClientIp
  <2>3. GP!PassageIsPaid => G!PassageIsPaid
    BY DEF G!PassageIsPaid, GP!PassageIsPaid, G!Exempt, GP!Exempt
  <2> QED
    BY <2>1, <2>2, <2>3
<1>4. /\ LP!LoggedMeansRecorded => L!LoggedMeansRecorded
      /\ LP!NoLeakedConnection => L!NoLeakedConnection
  BY DEF L!LoggedMeansRecorded, LP!LoggedMeansRecorded, L!NoLeakedConnection,
         LP!NoLeakedConnection, L!Cardinality, LP!Cardinality, L!Pool, LP!Pool, L!Users, LP!Users
<1> QED
  BY <1>1, <1>2, <1>3, <1>4, Components, PTL

-----------------------------------------------------------------------------
(* The audit trail.                                                        *)

\* What is known of the two components at once.
Sound == GP!Typed /\ GP!AllTold /\ LP!TypeOK /\ LP!Recorded

LEMMA AlwaysSound == Spec => []Sound
<1>1. GP!Spec => []GP!Typed
  BY Assumptions, GP!AlwaysTyped
<1>2. GP!Spec => []GP!AllTold
  BY Assumptions, GP!AlwaysTold
<1>3. LP!Spec => [](LP!TypeOK /\ LP!Recorded)
  BY Assumptions, LP!AlwaysRecorded
<1> QED
  BY <1>1, <1>2, <1>3, Components, PTL DEF Sound

LEMMA SoundTyped ==
  ASSUME Sound
  PROVE  /\ status \in [Requests -> {0, 200, 403, 413, 429, 500}]
         /\ settings \in [waf : BOOLEAN, log_blocked : BOOLEAN]
         /\ healthy \in BOOLEAN /\ fits \in [Requests -> BOOLEAN]
         /\ task \in [Requests -> {"idle", "scheduled", "connecting", "working", "acking",
                                   "done", "failed", "starved", "abandoned", "cancelled"}]
         /\ rows \in [Requests -> 0 .. 1]
         /\ \A r \in Requests :
              /\ task[r] \in {"acking", "done"} => rows[r] = 1
              /\ task[r] \in {"idle", "scheduled", "connecting", "working"} => rows[r] = 0
  BY DEF Sound, GP!Typed, GP!TypeOK, LP!TypeOK, LP!Recorded, LP!Users, LP!Running, LP!Over

Outcomes == [r \in Requests |-> Outcome(r)]
Records == [r \in Requests |-> Record(r)]

\* Nothing that AuditTrail speaks of changes.
LEMMA AuditStutters ==
  ASSUME UNCHANGED <<settings, healthy, fits>>, Outcomes' = Outcomes, Records' = Records,
         (life' = "stopped") <=> (life = "stopped")
  PROVE  UNCHANGED Audit!vars
  BY DEF Outcomes, Records, Audit!vars

LEMMA OneOutcomeChanges ==
  ASSUME NEW r \in Requests, NEW v, Outcome(r)' = v,
         \A q \in Requests \ {r} : Outcome(q)' = Outcome(q)
  PROVE  Outcomes' = [Outcomes EXCEPT ![r] = v]
  BY DEF Outcomes

LEMMA OneRecordChanges ==
  ASSUME NEW r \in Requests, NEW v, Record(r)' = v,
         \A q \in Requests \ {r} : Record(q)' = Record(q)
  PROVE  Records' = [Records EXCEPT ![r] = v]
  BY DEF Records

LEMMA RequestAudited ==
  ASSUME Sound, NEW r \in Requests, Request(r)
  PROVE  Audit!Next \/ UNCHANGED Audit!vars
<1>0. /\ life = "running" /\ UNCHANGED <<settings, healthy, fits, life, rows>>
      /\ UNCHANGED logVars \/ L!Fire(r) \/ L!Respond(r)
  <2>1. UNCHANGED settings
    BY SameRequestStep, Assumptions, GP!Frame
    DEF Sound, Request, Proceed, Refuse, Answer, G!Step, GP!given
  <2> QED
    BY <2>1 DEF Request, Proceed, Refuse, Answer, L!Fire, L!Respond, logVars
<1>1. \/ UNCHANGED <<status, events>>
      \/ /\ status[r] = 0
         /\ \E code \in {200, 403, 413, 429, 500} :
              /\ status' = [status EXCEPT ![r] = code]
              /\ (events' # events) <=> (code = 429 \/ (code = 403 /\ settings.log_blocked))
  <2>1. GP!Step(r)
    BY SameRequestStep DEF Request, Proceed, Refuse, Answer, G!Step
  <2> QED
    BY <2>1, Assumptions, GP!StepDecides DEF Sound
<1>2. CASE UNCHANGED <<status, events>>
  <2>1. UNCHANGED task
    BY <1>2 DEF Request, Proceed, Refuse, Answer, logVars, L!Respond
  <2>2. Outcomes' = Outcomes /\ Records' = Records
    BY <1>0, <1>2, <2>1 DEF Outcomes, Outcome, Records, Record
  <2> QED
    BY <1>0, <2>2, AuditStutters
<1>3. ASSUME status[r] = 0,
             NEW code \in {200, 403, 413, 429, 500},
             status' = [status EXCEPT ![r] = code],
             (events' # events) <=> (code = 429 \/ (code = 403 /\ settings.log_blocked))
      PROVE  Audit!Next
  <2> DEFINE verdict == CASE code = 429 -> "limited" [] code = 403 -> "blocked"
                          [] OTHER -> "served"
  <2>1. /\ Outcomes[r] = "open"
        /\ Outcomes' = [Outcomes EXCEPT ![r] = verdict]
    <3>1. Outcomes[r] = "open"
      BY <1>3 DEF Outcomes, Outcome
    <3>2. status'[r] = code /\ \A q \in Requests \ {r} : status'[q] = status[q]
      BY <1>3, SoundTyped
    <3>3. \A q \in Requests \ {r} : Outcome(q)' = Outcome(q)
      BY <3>2 DEF Outcome
    <3>4. Outcome(r)' = verdict
      BY <3>2 DEF Outcome
    <3> HIDE DEF verdict
    <3> QED
      BY <3>1, <3>3, <3>4, OneOutcomeChanges
  <2>2. Audit!Decide(r, verdict)
    BY <1>0, <2>1 DEF Audit!Decide, Outcomes
  <2>3. CASE code = 429 \/ (code = 403 /\ settings.log_blocked)
    <3>1. L!Fire(r)
      BY <1>3, <2>3 DEF Request, Proceed, Refuse, Answer, G!Return, G!context
    <3>2. task[r] = "idle" /\ task' = [task EXCEPT ![r] = "scheduled"]
      BY <3>1 DEF L!Fire, L!Becomes
    <3>3. Records' = [Records EXCEPT ![r] = "due"]
      <4>1. task'[r] = "scheduled" /\ rows'[r] = 0 /\ rows' = rows
            /\ \A q \in Requests \ {r} : task'[q] = task[q]
        BY <1>0, <3>2, SoundTyped
      <4>2. \A q \in Requests \ {r} : Record(q)' = Record(q)
        BY <4>1 DEF Record
      <4>3. Record(r)' = "due"
        BY <4>1 DEF Record, L!Over
      <4> QED
        BY <4>2, <4>3, OneRecordChanges
    <3>4. verdict \in {"limited", "blocked"} /\ (verdict = "limited" \/ settings.log_blocked)
      BY <2>3
    <3>5. Outcomes'[r] = verdict
      BY <2>1 DEF Outcomes
    <3> HIDE DEF verdict
    <3>6. Audit!Refuse(r)
      BY <2>2, <3>3, <3>4, <3>5 DEF Audit!Refuse, Outcomes, Records
    <3> QED
      BY <3>6 DEF Audit!Next
  <2>4. CASE ~(code = 429 \/ (code = 403 /\ settings.log_blocked))
    <3>1. UNCHANGED task
      BY <1>3, <2>4 DEF Request, Proceed, Refuse, Answer, logVars, L!Respond
    <3>2. Records' = Records
      BY <1>0, <3>1 DEF Records, Record
    <3>3. CASE code = 403
      <4>1. ~settings.log_blocked /\ verdict = "blocked" /\ Outcomes'[r] # "limited"
        BY <2>1, <2>4, <3>3 DEF Outcomes
      <4>2. Audit!Refuse(r)
        BY <2>2, <3>2, <4>1 DEF Audit!Refuse, Outcomes, Records
      <4> QED
        BY <4>2 DEF Audit!Next
    <3>4. CASE code # 403
      <4>1. verdict = "served"
        BY <2>4, <3>4
      <4>2. Audit!Serve(r)
        BY <2>2, <3>2, <4>1 DEF Audit!Serve, Records
      <4> QED
        BY <4>2 DEF Audit!Next
    <3> QED
      BY <3>3, <3>4
  <2> QED
    BY <2>3, <2>4
<1> QED
  BY <1>1, <1>2, <1>3

\* A task keeps the event at its commit, and loses it only to a fault or to a full pool.
LEMMA TaskAudited ==
  ASSUME Sound, NEW r \in Requests, Task(r)
  PROVE  Audit!Next \/ UNCHANGED Audit!vars
<1> USE DEF L!Becomes, L!Running, L!Over
<1>0. /\ UNCHANGED <<settings, status, healthy, fits, life>>
      /\ \E state : task' = [task EXCEPT ![r] = state]
      /\ rows' = rows \/ L!Execute(r)
  BY DEF Task, gatewayVars, L!Begin, L!Connect, L!PoolTimeout, L!Execute, L!Refuse, L!Close,
         L!FailCommit
<1>1. /\ Outcomes' = Outcomes
      /\ \A q \in Requests \ {r} : task'[q] = task[q]
  BY <1>0, SoundTyped DEF Outcomes, Outcome
<1>2. CASE L!Execute(r)
  <2>1. /\ task[r] = "working" /\ task' = [task EXCEPT ![r] = "acking"]
        /\ rows' = [rows EXCEPT ![r] = rows[r] + 1]
    BY <1>2 DEF L!Execute
  <2>2. /\ rows[r] = 0 /\ rows'[r] = 1
        /\ \A q \in Requests \ {r} : task'[q] = task[q] /\ rows'[q] = rows[q]
    BY <2>1, SoundTyped
  <2>3. Record(r) = "due" /\ Record(r)' = "kept"
    BY <2>1, <2>2 DEF Record
  <2>4. \A q \in Requests \ {r} : Record(q)' = Record(q)
    BY <2>2 DEF Record
  <2>5. Records[r] = "due" /\ Records' = [Records EXCEPT ![r] = "kept"]
    BY <2>3, <2>4, OneRecordChanges DEF Records
  <2>6. Audit!Keep(r)
    BY <1>0, <1>1, <2>5 DEF Audit!Keep, Outcomes, Records
  <2> QED
    BY <2>6 DEF Audit!Next
<1>3. ASSUME rows' = rows, Record(r)' = Record(r)
      PROVE  UNCHANGED Audit!vars
  <2>1. \A q \in Requests \ {r} : Record(q)' = Record(q)
    BY <1>1, <1>3 DEF Record
  <2>2. Records' = Records
    BY <1>3, <2>1 DEF Records
  <2> QED
    BY <1>0, <1>1, <2>2, AuditStutters
<1>4. ASSUME rows' = rows, Record(r) = "due", Record(r)' = "lost",
             ~(healthy /\ fits[r]) \/ L!Full(r)
      PROVE  Audit!Next
  <2>1. \A q \in Requests \ {r} : Record(q)' = Record(q)
    BY <1>1, <1>4 DEF Record
  <2>2. Records[r] = "due" /\ Records' = [Records EXCEPT ![r] = "lost"]
    BY <1>4, <2>1, OneRecordChanges DEF Records
  <2>3. \/ r \notin {q \in Requests : healthy /\ fits[q]}
        \/ \E q \in Requests : L!Full(q)
    BY <1>4
  <2>4. Audit!Lose(r)
    BY <1>0, <1>1, <2>2, <2>3 DEF Audit!Lose, Outcomes, Records
  <2> QED
    BY <2>4 DEF Audit!Next
<1>5. CASE L!Begin(r) \/ L!Connect(r) \/ L!Close(r)
  <2>1. /\ rows' = rows
        /\ \/ task[r] \in {"scheduled", "connecting"} /\ task'[r] \in {"connecting", "working"}
           \/ rows[r] = 1
    BY <1>5, SoundTyped DEF L!Begin, L!Connect, L!Close
  <2>2. Record(r)' = Record(r)
    BY <2>1 DEF Record
  <2> QED
    BY <1>3, <2>1, <2>2
<1>6. CASE L!PoolTimeout(r) \/ L!Refuse(r) \/ L!FailCommit(r)
  <2>1. /\ rows' = rows /\ task[r] \in {"connecting", "working", "acking"}
        /\ task'[r] \in {"failed", "starved"} /\ (~(healthy /\ fits[r]) \/ L!Full(r))
    BY <1>6, SoundTyped DEF L!PoolTimeout, L!Refuse, L!FailCommit
  <2>2. rows[r] \in 0 .. 1
    BY SoundTyped
  <2>3. CASE rows[r] = 1
    <3>1. Record(r)' = Record(r)
      BY <2>1, <2>3 DEF Record
    <3> QED
      BY <1>3, <2>1, <3>1
  <2>4. CASE rows[r] = 0
    <3>1. Record(r) = "due" /\ Record(r)' = "lost"
      BY <2>1, <2>4 DEF Record
    <3> QED
      BY <1>4, <2>1, <3>1
  <2> QED
    BY <2>2, <2>3, <2>4
<1> QED
  BY <1>2, <1>5, <1>6 DEF Task

\* The end of the process takes with it what is due, and nothing else.
LEMMA EndAudited ==
  ASSUME Sound, Stop \/ End
  PROVE  Audit!Next \/ UNCHANGED Audit!vars
<1>0. UNCHANGED <<settings, status, healthy, fits, rows>>
  BY DEF Stop, End, gatewayVars, L!Stop, L!Dispose, L!EndLoop, L!Crash
<1>1. Outcomes' = Outcomes
  BY <1>0 DEF Outcomes, Outcome
<1>2. CASE Stop \/ L!Dispose
  <2>1. UNCHANGED task /\ ((life' = "stopped") <=> (life = "stopped"))
    BY <1>2 DEF Stop, L!Stop, L!Dispose
  <2>2. Records' = Records
    BY <1>0, <2>1 DEF Records, Record
  <2> QED
    BY <1>0, <1>1, <2>1, <2>2, AuditStutters
<1>3. CASE L!EndLoop \/ L!Crash
  <2>1. /\ life # "stopped" /\ life' = "stopped"
        /\ task' = [u \in L!Users |-> IF task[u] \in L!Running \cup {"scheduled"}
                                      THEN "cancelled" ELSE task[u]]
    BY <1>3 DEF L!EndLoop, L!Crash
  <2>2. ASSUME NEW q \in Requests
        PROVE  Record(q)' = Record(q) \/ (Record(q) = "due" /\ Record(q)' = "lost")
    <3>1. q \in L!Users
      BY DEF L!Users
    <3>2. CASE task[q] \in L!Running \cup {"scheduled"}
      <4>1. task'[q] = "cancelled" /\ rows'[q] = rows[q] /\ rows[q] \in 0 .. 1
        BY <1>0, <2>1, <3>1, <3>2, SoundTyped
      <4> QED
        BY <3>2, <4>1 DEF Record, L!Running, L!Over
    <3>3. CASE task[q] \notin L!Running \cup {"scheduled"}
      <4>1. task'[q] = task[q] /\ rows' = rows
        BY <1>0, <2>1, <3>1, <3>3
      <4> QED
        BY <4>1 DEF Record
    <3> QED
      BY <3>2, <3>3
  <2>3. \A q \in Requests : Record(q)' \in {"none", "kept", "due", "lost"}
    BY DEF Record
  <2>4. Records' \in [Requests -> {"none", "kept", "due", "lost"}]
    BY <2>3 DEF Records
  <2>5. \A q \in Requests : \/ Records'[q] = Records[q]
                            \/ Records[q] = "due" /\ Records'[q] = "lost"
    BY <2>2 DEF Records
  <2>6. Audit!End
    BY <1>0, <1>1, <2>1, <2>4, <2>5 DEF Audit!End, Outcomes, Records
  <2> QED
    BY <2>6 DEF Audit!Next
<1> QED
  BY <1>2, <1>3 DEF End

LEMMA StepAudited == Sound /\ [Next]_vars => [Audit!Next]_(Audit!vars)
<1> SUFFICES ASSUME Sound, [Next]_vars
             PROVE  Audit!Next \/ UNCHANGED Audit!vars
  OBVIOUS
<1>1. CASE UNCHANGED vars \/ Elsewhere \/ Rest
  <2>1. UNCHANGED <<settings, status, healthy, fits, life, task, rows>>
    BY <1>1 DEF vars, gatewayVars, logVars, Elsewhere, Refill, G!Refill, PayUnheard,
                G!PayUnheard, G!given, G!answer, Rest
  <2>2. Outcomes' = Outcomes /\ Records' = Records
    BY <2>1 DEF Outcomes, Outcome, Records, Record
  <2> QED
    BY <2>1, <2>2, AuditStutters
<1> QED
  BY <1>1, RequestAudited, TaskAudited, EndAudited DEF Next, Elsewhere

\* Every behaviour of the gateway, its tasks, its pool and its process is one of the audit
\* trail: a refusal and its event are one step, an event is lost only to a fault, to values
\* no row can hold, to the end of the process or while every connection is in use, and what
\* is kept or lost stays so.  That what is due does not stay due is liveness, and left to
\* the run.
THEOREM FollowsAuditTrail == Spec => Audit!Init /\ [][Audit!Next]_(Audit!vars)
<1>1. Init => Audit!Init
  <2> SUFFICES ASSUME Init
               PROVE  Audit!Init
    OBVIOUS
  <2>1. /\ settings \in [waf : BOOLEAN, log_blocked : BOOLEAN] /\ life = "running"
        /\ \A r \in Requests : status[r] = 0 /\ task[r] = "idle" /\ rows[r] = 0
    BY DEF Init, G!Init, L!Init, L!Users
  <2>2. ASSUME NEW r \in Requests
        PROVE  Outcome(r) = "open" /\ Record(r) = "none"
    <3>1. status[r] = 0 /\ task[r] = "idle" /\ rows[r] = 0
      BY <2>1
    <3>2. Outcome(r) = "open"
      BY <3>1 DEF Outcome
    <3>3. Record(r) = "none"
      BY <3>1 DEF Record, L!Over
    <3> QED
      BY <3>2, <3>3
  <2>3. /\ Outcomes = [r \in Requests |-> "open"]
        /\ Records = [r \in Requests |-> "none"]
    BY <2>2 DEF Outcomes, Records
  <2>4. settings.log_blocked \in BOOLEAN
    BY <2>1
  <2>5. (life # "stopped") = TRUE
    BY <2>1, Zenon
  <2> QED
    BY <2>3, <2>4, <2>5 DEF Audit!Init, Outcomes, Records
<1> QED
  BY <1>1, StepAudited, AlwaysSound, PTL DEF Spec

-----------------------------------------------------------------------------
(* Refusals and rows.                                                      *)

\* An event is due for a refusal on record and for nothing else: the part of AuditTrail
\* that says so.
Accounted ==
  \A r \in Requests :
    (Outcomes[r] = "limited" \/ (Outcomes[r] = "blocked" /\ settings.log_blocked))
      <=> Records[r] # "none"

LEMMA AccountedStep == Accounted /\ [Audit!Next]_(Audit!vars) => Accounted'
<1> SUFFICES ASSUME Accounted, [Audit!Next]_(Audit!vars)
             PROVE  Accounted'
  OBVIOUS
<1> DEFINE on == settings.log_blocked
<1>0. DOMAIN Outcomes = Requests /\ DOMAIN Records = Requests
  BY DEF Outcomes, Records
<1>1. UNCHANGED on
  BY DEF Audit!Next, Audit!vars, Audit!Serve, Audit!Refuse, Audit!Decide, Audit!Keep, Audit!Lose,
         Audit!End
<1>2. CASE UNCHANGED Audit!vars
  <2>1. UNCHANGED <<Outcomes, Records>>
    BY <1>2 DEF Audit!vars, Outcomes, Records
  <2> HIDE DEF on
  <2> QED
    BY <1>1, <2>1 DEF Accounted, on
<1>3. ASSUME NEW r \in Requests, Audit!Serve(r)
      PROVE  Accounted'
  <2>1. /\ UNCHANGED Records
        /\ Outcomes[r] = "open" /\ Outcomes' = [Outcomes EXCEPT ![r] = "served"]
    BY <1>3 DEF Audit!Serve, Audit!Decide, Outcomes, Records
  <2> QED
    BY <1>0, <1>1, <2>1 DEF Accounted
<1>4. ASSUME NEW r \in Requests, Audit!Refuse(r)
      PROVE  Accounted'
  <2>1. PICK d \in {"limited", "blocked"} :
          Outcomes[r] = "open" /\ Outcomes' = [Outcomes EXCEPT ![r] = d]
    BY <1>4 DEF Audit!Refuse, Audit!Decide, Outcomes
  <2>2. Records' = IF Outcomes'[r] = "limited" \/ on
                   THEN [Records EXCEPT ![r] = "due"] ELSE Records
    BY <1>4 DEF Audit!Refuse, Outcomes, Records
  <2> QED
    BY <1>0, <1>1, <2>1, <2>2 DEF Accounted
<1>5. ASSUME NEW r \in Requests, Audit!Keep(r) \/ Audit!Lose(r)
      PROVE  Accounted'
  <2>1. /\ UNCHANGED Outcomes
        /\ Records[r] = "due"
        /\ \E last \in {"kept", "lost"} : Records' = [Records EXCEPT ![r] = last]
    BY <1>5 DEF Audit!Keep, Audit!Lose, Outcomes, Records
  <2> QED
    BY <1>0, <1>1, <2>1 DEF Accounted
<1>6. CASE Audit!End
  <2>1. /\ UNCHANGED Outcomes
        /\ \A q \in Requests : \/ Records'[q] = Records[q]
                               \/ Records[q] = "due" /\ Records'[q] = "lost"
    BY <1>6 DEF Audit!End, Outcomes, Records
  <2> QED
    BY <1>1, <2>1 DEF Accounted
<1> QED
  BY <1>2, <1>3, <1>4, <1>5, <1>6 DEF Audit!Next

\* A row is kept for a refused request and for no other, and a blocked one only where
\* WAF_LOG_BLOCKED is on; the event of a refusal on record is kept, or a task still works
\* on it, or there was a cause: a fault, values no row can hold, the end of the process, or
\* a pool that as many others had asked for a connection as it has
\* (rate_limiter.py:103-119, waf.py:96-118, threat_logger.py:26-125, database.py:38-45).
THEOREM RefusalsAccountedFor ==
  Spec => [](\A r \in Requests :
               /\ rows[r] = 1 =>
                    status[r] = 429 \/ (status[r] = 403 /\ settings.log_blocked)
               /\ status[r] = 429 \/ (status[r] = 403 /\ settings.log_blocked) =>
                    \/ rows[r] = 1
                    \/ task[r] \notin L!Over \cup {"idle"}
                    \/ ~(healthy /\ fits[r])
                    \/ life = "stopped"
                    \/ task[r] = "starved" /\ L!Contended(r))
<1> DEFINE RowsMatch ==
      \A r \in Requests :
        /\ rows[r] = 1 => status[r] = 429 \/ (status[r] = 403 /\ settings.log_blocked)
        /\ status[r] = 429 \/ (status[r] = 403 /\ settings.log_blocked) =>
             \/ rows[r] = 1
             \/ task[r] \notin L!Over \cup {"idle"}
             \/ ~(healthy /\ fits[r])
             \/ life = "stopped"
             \/ task[r] = "starved" /\ L!Contended(r)
<1>1. Init => Accounted
  <2> SUFFICES ASSUME Init, NEW r \in Requests
               PROVE  Outcome(r) = "open" /\ Record(r) = "none"
    BY DEF Accounted, Outcomes, Records
  <2>1. status[r] = 0 /\ task[r] = "idle" /\ rows[r] = 0
    BY DEF Init, G!Init, L!Init, L!Users
  <2>2. Outcome(r) = "open"
    BY <2>1 DEF Outcome
  <2>3. Record(r) = "none"
    BY <2>1 DEF Record, L!Over
  <2> QED
    BY <2>2, <2>3
<1>2. Sound /\ Accounted /\ LP!Caused => RowsMatch
  <2> SUFFICES ASSUME Sound, Accounted, LP!Caused, NEW r \in Requests
               PROVE  /\ rows[r] = 1 =>
                            status[r] = 429 \/ (status[r] = 403 /\ settings.log_blocked)
                      /\ status[r] = 429 \/ (status[r] = 403 /\ settings.log_blocked) =>
                            \/ rows[r] = 1
                            \/ task[r] \notin L!Over \cup {"idle"}
                            \/ ~(healthy /\ fits[r])
                            \/ life = "stopped"
                            \/ task[r] = "starved" /\ L!Contended(r)
    OBVIOUS
  <2>1. /\ Outcomes[r] = Outcome(r) /\ Records[r] = Record(r)
        /\ rows[r] \in 0 .. 1 /\ (task[r] = "idle" => rows[r] = 0)
    BY SoundTyped DEF Outcomes, Records
  <2>2. /\ Outcome(r) = "limited" <=> status[r] = 429
        /\ Outcome(r) = "blocked" <=> status[r] = 403
    BY DEF Outcome
  <2>3. CASE rows[r] = 1
    <3>1. Record(r) = "kept"
      BY <2>1, <2>3 DEF Record
    <3> QED
      BY <2>1, <2>2, <2>3, <3>1 DEF Accounted
  <2>4. CASE rows[r] = 0 /\ task[r] = "idle"
    <3>1. Record(r) = "none"
      BY <2>1, <2>4 DEF Record, L!Over
    <3> QED
      BY <2>1, <2>2, <2>4, <3>1 DEF Accounted
  <2>5. CASE rows[r] = 0 /\ task[r] \in L!Over
    <3>1. LP!Contended(r) => L!Contended(r)
      BY DEF LP!Contended, L!Contended, LP!Users, L!Users, L!Cardinality, LP!Cardinality
    <3>2. L!Over = LP!Over
      BY DEF L!Over, LP!Over
    <3> QED
      BY <2>5, <3>1, <3>2 DEF LP!Caused
  <2>6. CASE rows[r] = 0 /\ task[r] \notin L!Over \cup {"idle"}
    BY <2>6
  <2> QED
    BY <2>1, <2>3, <2>4, <2>5, <2>6
<1>3. Spec => []Accounted
  BY <1>1, AccountedStep, StepAudited, AlwaysSound, PTL DEF Spec
<1>4. LP!Spec => []LP!Caused
  BY Assumptions, LP!LossesHaveCauses
<1> HIDE DEF RowsMatch
<1>5. Spec => []RowsMatch
  BY <1>2, <1>3, <1>4, AlwaysSound, Components, PTL
<1> QED
  BY <1>5 DEF RowsMatch

-----------------------------------------------------------------------------
(* The end of the process.                                                 *)

\* Once the server has begun to stop no request is under way, unless the process was
\* killed.
Waited == life # "running" => (\A r \in Requests : ~InFlight(r)) \/ (life = "stopped" /\ ~healthy)

LEMMA WaitedStep == Waited /\ [Next]_vars => Waited'
<1> SUFFICES ASSUME Waited, [Next]_vars
             PROVE  Waited'
  OBVIOUS
<1> USE DEF Waited, InFlight
<1>1. ASSUME NEW r \in Requests, Request(r)
      PROVE  life' = "running"
  BY <1>1 DEF Request, Proceed, Refuse, Answer, L!Fire, L!Respond, logVars
<1>2. ASSUME NEW r \in Requests, Task(r)
      PROVE  UNCHANGED <<pc, life, healthy>>
  BY <1>2 DEF Task, L!Begin, L!Connect, L!PoolTimeout, L!Execute, L!Refuse, L!Close,
              L!FailCommit, gatewayVars
<1>3. CASE Elsewhere
  BY <1>3 DEF Elsewhere, Refill, PayUnheard, logVars
<1>4. CASE Stop
  BY <1>4 DEF Stop, gatewayVars
<1>5. CASE End
  BY <1>5 DEF End, L!Dispose, L!EndLoop, L!Crash, gatewayVars
<1>6. CASE UNCHANGED vars \/ Rest
  BY <1>6 DEF Rest, vars, gatewayVars, logVars
<1> QED
  BY <1>1, <1>2, <1>3, <1>4, <1>5, <1>6 DEF Next, Elsewhere

\* A server that stops has answered every request that reached it, unless it was killed:
\* the engine and the Redis client are closed while only recording tasks are at work, and
\* once the event loop has ended none of those is, nor is a connection in use
\* (main.py:81-84, database.py:69-74, threat_logger.py:112-125).
THEOREM ShutdownWaits ==
  Spec => []( /\ life # "running" =>
                   (\A r \in Requests : ~InFlight(r)) \/ (life = "stopped" /\ ~healthy)
              /\ life = "stopped" =>
                   held = {} /\ \A r \in Requests : task[r] \in {"idle"} \cup L!Over )
<1>1. Init => Waited
  BY DEF Init, L!Init, Waited
<1>2. Spec => []Waited
  BY <1>1, WaitedStep, PTL DEF Spec
<1> DEFINE AtRest == life = "stopped" =>
                       held = {} /\ \A r \in Requests : task[r] \in {"idle"} \cup L!Over
           LogAtRest ==
             /\ life # "running" =>
                  handling = {} /\ \A q \in {} : task[q] \notin LP!Running
             /\ life = "stopped" =>
                  held = {} /\ \A u \in LP!Users : task[u] \in {"idle"} \cup LP!Over
<1>3. LP!Spec => []LogAtRest
  BY Assumptions, LP!EndsAtRest
<1>4. LogAtRest => AtRest
  BY DEF LP!Users, LP!Over, L!Over
<1>5. Waited /\ AtRest =>
        /\ life # "running" =>
             (\A r \in Requests : ~InFlight(r)) \/ (life = "stopped" /\ ~healthy)
        /\ life = "stopped" =>
             held = {} /\ \A r \in Requests : task[r] \in {"idle"} \cup L!Over
  BY DEF Waited
<1> HIDE DEF AtRest, LogAtRest
<1> QED
  BY <1>2, <1>3, <1>4, <1>5, Components, PTL
=============================================================================
