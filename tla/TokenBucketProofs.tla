--------------------------- MODULE TokenBucketProofs ---------------------------
(***************************************************************************)
(* Theorems about TokenBucket, for every value of its constants.           *)
(***************************************************************************)
EXTENDS TokenBucket, TLAPS

-----------------------------------------------------------------------------
(* Arithmetic.                                                             *)

\* A product of naturals is a natural and grows with its second factor.
LEMMA Products ==
  ASSUME NEW m \in Nat, NEW x \in Int, NEW y \in Int
  PROVE  /\ m * x \in Int
         /\ x >= 0 => m * x >= 0
         /\ x <= y => m * x <= m * y
         /\ m * (x + y) = m * x + m * y
  OBVIOUS

\* Division rounds down.
LEMMA Division ==
  ASSUME NEW a \in Int, NEW b \in Nat \ {0}
  PROVE  /\ a \div b \in Int
         /\ b * (a \div b) <= a
         /\ a < b * (a \div b) + b
         /\ a >= 0 => a \div b >= 0
  OBVIOUS

\* Ceil rounds up.
LEMMA Ceiling ==
  ASSUME NEW a \in Int, NEW b \in Nat \ {0}
  PROVE  /\ Ceil(a, b) \in Int
         /\ a <= b * Ceil(a, b)
         /\ b * (Ceil(a, b) - 1) < a
         /\ a > 0 => Ceil(a, b) > 0
  <1> DEFINE q == (a + b - 1) \div b
  <1>1. /\ q \in Int
        /\ b * q <= a + b - 1
        /\ a + b - 1 < b * q + b
        /\ a + b - 1 >= 0 => q >= 0
    BY Division
  <1>2. b * (q - 1) = b * q - b
    BY <1>1
  <1>3. a > 0 => q > 0
    BY <1>1
  <1> QED
    BY <1>1, <1>2, <1>3 DEF Ceil

\* The units the constants fix.
LEMMA Units ==
  /\ Window \in Nat \ {0}
  /\ Token = Window
  /\ Capacity \in Nat
  /\ MaxTokens > 0 => Capacity >= Token
  /\ MaxTokens = 0 => Capacity = 0
  /\ TTL \in Nat
  /\ TTL = 2 * Window
  BY ParametersAssumption DEF Window, Token, Capacity, TTL

\* What lines 80-81 compute from a stored bucket: never more than the cap, never
\* more than the time since the last refill accounts for, never less than what
\* was stored.
LEMMA Refilling ==
  ASSUME NEW b, b.tokens \in 0 .. Capacity, b.last_refill \in Int, NEW now \in Int
  PROVE  /\ Refilled(b, now) \in 0 .. Capacity
         /\ Refilled(b, now) >= b.tokens
         /\ Refilled(b, now) <= b.tokens + MaxTokens * AtLeast(0, now - b.last_refill)
         /\ Left(b, now) \in 0 .. Capacity
         /\ Left(b, now) = Refilled(b, now) - (IF Allows(b, now) THEN Token ELSE 0)
         /\ ~Allows(b, now) => Left(b, now) < Token
  <1> DEFINE e == AtLeast(0, now - b.last_refill)
  <1>1. e \in Nat
    BY DEF AtLeast
  <1>2. MaxTokens * e \in Nat
    BY <1>1, ParametersAssumption
  <1>3. /\ Refilled(b, now) \in 0 .. Capacity
        /\ Refilled(b, now) >= b.tokens
        /\ Refilled(b, now) <= b.tokens + MaxTokens * e
    BY <1>2, Units DEF Refilled, AtMost
  <1> QED
    BY <1>3, Units DEF Left, Allows

-----------------------------------------------------------------------------
(* Types.                                                                  *)

\* A script run works on a bucket of the right type.
LEMMA Loading ==
  ASSUME TypeOK, NEW k \in Clients, NEW now \in Nat
  PROVE  /\ Loaded(k, now).tokens \in 0 .. Capacity
         /\ Loaded(k, now).last_refill \in Nat
         /\ Live(k) => /\ bucket[k] # NoBucket
                       /\ bucket[k] \in Bucket
                       /\ Loaded(k, now).tokens = bucket[k].tokens
                       /\ Loaded(k, now).last_refill = bucket[k].last_refill
         /\ ~Live(k) => /\ Loaded(k, now).tokens = Capacity
                        /\ Loaded(k, now).last_refill = now
  BY Units DEF TypeOK, Loaded, Live, Bucket

\* What a script run stores and answers has the right type.
LEMMA Running ==
  ASSUME TypeOK, NEW m \in net
  PROVE  LET k == Caller[m.call]
             b == Loaded(k, m.now)
         IN /\ m.call \in Calls /\ m.step \in Steps
            /\ m.attempt \in {1, 2} /\ m.now \in Nat
            /\ k \in Clients
            /\ Stored(b, m.now) \in Bucket
            /\ Stored(b, m.now) # NoBucket
            /\ Answer(b, m.now) \in Reply
            /\ Recorded(k, b, m.now) \in History
  <1> DEFINE k == Caller[m.call]
             b == Loaded(k, m.now)
  <1>1. m.call \in Calls /\ m.step \in Steps /\ m.attempt \in {1, 2} /\ m.now \in Nat
    BY DEF TypeOK, Command
  <1>2. k \in Clients
    BY <1>1, ParametersAssumption
  <1>3. b.tokens \in 0 .. Capacity /\ b.last_refill \in Nat
    BY <1>1, <1>2, Loading
  <1> HIDE DEF b
  <1>4. Left(b, m.now) \in 0 .. Capacity
    BY <1>1, <1>3, Refilling
  <1>5. Stored(b, m.now) \in Bucket
    BY <1>1, <1>4, Units DEF Stored, Bucket, TypeOK
  <1>6. Stored(b, m.now) # NoBucket
    BY <1>5, Units, ParametersAssumption DEF Bucket, NoTTL
  <1>7. Answer(b, m.now) \in Reply
    <2>1. Left(b, m.now) \div Token \in Nat
      BY <1>4, Units, Division
    <2>2. ~ExpireFails /\ ~Allows(b, m.now) => RetryAfter(Left(b, m.now)) \in Nat
      <3> SUFFICES ASSUME ~ExpireFails, ~Allows(b, m.now)
                   PROVE  RetryAfter(Left(b, m.now)) \in Nat
        OBVIOUS
      <3>1. Token - Left(b, m.now) > 0 /\ Token - Left(b, m.now) \in Int
        BY <1>1, <1>3, <1>4, Refilling, Units
      <3>2. MaxTokens * TicksPerSecond \in Nat \ {0}
        BY ParametersAssumption DEF ExpireFails
      <3> QED
        BY <3>1, <3>2, Ceiling DEF RetryAfter
    <2> QED
      BY <2>1, <2>2 DEF Answer, Reply, NoReply, Verdicts
  <1>8. Recorded(k, b, m.now) \in History
    BY <1>1, <1>2, <1>3 DEF Recorded, History, TypeOK, AtLeast
  <1> QED
    BY <1>1, <1>2, <1>5, <1>6, <1>7, <1>8 DEF b

LEMMA Replying ==
  ASSUME NEW verdict \in Verdicts
  PROVE  [NoReply EXCEPT !.verdict = verdict] \in Reply
  BY DEF NoReply, Reply

LEMMA Sending ==
  ASSUME TypeOK, NEW c \in Calls, NEW step \in Steps, NEW attempt \in {1, 2},
         NEW now \in Nat, Sends(c, step, attempt, now)
  PROVE  TypeOK'
  BY ParametersAssumption
  DEF Sends, TypeOK, CallState, Command, NoReply, Reply, Verdicts

LEMMA Answering ==
  ASSUME TypeOK, NEW m \in net, NEW reply \in Reply, Answers(m, reply)
  PROVE  /\ call' \in [Calls -> CallState]
         /\ net' \subseteq Command
  BY DEF Answers, TypeOK, CallState, Command

LEMMA TypeStep == TypeOK /\ [Next]_vars => TypeOK'
  <1> SUFFICES ASSUME TypeOK, [Next]_vars
               PROVE  TypeOK'
    OBVIOUS
  <1>1. ASSUME NEW c \in Calls, Check(c) \/ Reload(c) \/ Rerun(c) \/ Retry(c)
        PROVE  TypeOK'
    <2>1. clock \in Nat /\ call[c].now \in Nat /\ call[c].step \in Steps
      BY ParametersAssumption DEF TypeOK, CallState
    <2> QED
      BY <1>1, <2>1, Sending DEF Check, Reload, Rerun, Retry, Steps
  <1>2. ASSUME NEW c \in Calls, NEW reply \in Reply, NEW pc \in {"returned", "raised"},
               call' = [call EXCEPT ![c] = Ended(c, pc, reply)],
               UNCHANGED <<clock, known, bucket, net, hist, charged>>
        PROVE  TypeOK'
    BY <1>2 DEF Ended, TypeOK, CallState
  <1>3. ASSUME NEW c \in Calls, Receive(c)
        PROVE  TypeOK'
    BY <1>2, <1>3 DEF Receive, TypeOK, CallState
  <1>4. ASSUME Restart
        PROVE  TypeOK'
    BY <1>4 DEF Restart, TypeOK
  <1>5. ASSUME NEW c \in Calls, Raise(c)
        PROVE  TypeOK'
    <2>1. NoReply \in Reply
      BY DEF NoReply, Reply, Verdicts
    <2> QED
      BY <1>2, <1>5, <2>1 DEF Raise
  <1>6. ASSUME NEW m \in net, RunScript(m)
        PROVE  TypeOK'
    <2> DEFINE k == Caller[m.call]
               b == Loaded(k, m.now)
    <2>1. /\ m.call \in Calls /\ k \in Clients
          /\ Stored(b, m.now) \in Bucket
          /\ Answer(b, m.now) \in Reply
          /\ Recorded(k, b, m.now) \in History
      BY Running
    <2>2. /\ Answers(m, Answer(b, m.now))
          /\ bucket' = [bucket EXCEPT ![k] = Stored(b, m.now)]
          /\ hist' = [hist EXCEPT ![k] = Recorded(k, b, m.now)]
          /\ charged' = [charged EXCEPT ![m.call] =
                           @ + (IF Allows(b, m.now) THEN 1 ELSE 0)]
          /\ UNCHANGED <<clock, known>>
      BY <1>6 DEF RunScript
    <2>4. charged' \in [Calls -> Nat]
      BY <2>1, <2>2 DEF TypeOK
    <2> HIDE DEF k, b
    <2>3. call' \in [Calls -> CallState] /\ net' \subseteq Command
      BY <2>1, <2>2, Answering
    <2>5. bucket' \in [Clients -> Bucket \cup {NoBucket}] /\ hist' \in [Clients -> History]
      BY <2>1, <2>2 DEF TypeOK
    <2> QED
      BY <2>2, <2>3, <2>4, <2>5 DEF TypeOK
  <1>10. ASSUME NEW m \in net, NoScript(m) \/ LoadScript(m)
         PROVE  TypeOK'
    <2>1. PICK verdict \in {"noscript", "loaded"} :
            Answers(m, [NoReply EXCEPT !.verdict = verdict])
      BY <1>10 DEF NoScript, LoadScript
    <2>2. [NoReply EXCEPT !.verdict = verdict] \in Reply
      BY Replying DEF Verdicts
    <2>3. call' \in [Calls -> CallState] /\ net' \subseteq Command
      BY <2>1, <2>2, Answering
    <2> QED
      BY <1>10, <2>3 DEF NoScript, LoadScript, TypeOK
  <1>7. ASSUME NEW k \in Clients, Reset(k)
        PROVE  TypeOK'
    BY <1>7 DEF Reset, TypeOK
  <1>8. ASSUME Tick
        PROVE  TypeOK'
    BY <1>8, ParametersAssumption DEF Tick, TypeOK
  <1>9. CASE UNCHANGED vars
    BY <1>9 DEF vars, TypeOK
  <1> QED
    BY <1>1, <1>3, <1>4, <1>5, <1>6, <1>7, <1>8, <1>9, <1>10
    DEF Next, GiveUp, ConnectionError, Rest

\* Every state of the limiter has its type: tokens stay between 0 and the
\* capacity, whatever the timestamps of the commands that run.
THEOREM TypeCorrect == Spec => []TypeOK
  <1>1. Init => TypeOK
    BY ParametersAssumption
    DEF Init, TypeOK, CallState, Steps, NoReply, Reply, Verdicts, History
  <1> QED
    BY <1>1, TypeStep, PTL DEF Spec

-----------------------------------------------------------------------------
(* Admissions.                                                             *)

LEMMA ConservedStep ==
  TypeOK /\ AdmissionConserved /\ [Next]_vars => AdmissionConserved'
  <1> SUFFICES ASSUME TypeOK, AdmissionConserved, [Next]_vars
               PROVE  AdmissionConserved'
    OBVIOUS
  <1>1. ASSUME NEW m \in net, RunScript(m)
        PROVE  AdmissionConserved'
    <2> DEFINE k == Caller[m.call]
               now == m.now
               b == Loaded(k, now)
               one == IF Allows(b, now) THEN 1 ELSE 0
    <2>1. k \in Clients /\ now \in Nat /\ Stored(b, now) # NoBucket
      BY Running
    <2>2. /\ bucket' = [bucket EXCEPT ![k] = Stored(b, now)]
          /\ hist' = [hist EXCEPT ![k] = Recorded(k, b, now)]
      BY <1>1 DEF RunScript
    <2>3. /\ b.tokens \in 0 .. Capacity
          /\ b.last_refill \in Nat
          /\ Live(k) => /\ bucket[k] # NoBucket
                        /\ b.tokens = bucket[k].tokens
                        /\ b.last_refill = bucket[k].last_refill
      BY <2>1, Loading
    <2>4. hist[k].admitted \in Nat /\ hist[k].born \in Nat /\ hist[k].rewound \in Nat
      BY <2>1 DEF TypeOK, History
    <2> HIDE DEF b
    <2>5. /\ Refilled(b, now) \in 0 .. Capacity
          /\ Refilled(b, now) <= b.tokens + MaxTokens * AtLeast(0, now - b.last_refill)
          /\ Left(b, now) = Refilled(b, now) - Token * one
      BY <2>1, <2>3, Refilling, Units
    <2>6. Stored(b, now).tokens = Left(b, now) /\ Stored(b, now).last_refill = now
      BY DEF Stored
    <2>7. LET h == Recorded(k, b, now)
          IN Left(b, now) + Token * h.admitted
               <= Capacity + MaxTokens * (now - h.born + h.rewound)
      <3>1. CASE Live(k)
        <4>1. b.tokens + Token * hist[k].admitted
                <= Capacity + MaxTokens * (b.last_refill - hist[k].born + hist[k].rewound)
          BY <2>1, <2>3, <3>1 DEF AdmissionConserved
        <4> DEFINE x == b.last_refill - hist[k].born + hist[k].rewound
                   e == AtLeast(0, now - b.last_refill)
                   y == now - hist[k].born + (hist[k].rewound + AtLeast(0, b.last_refill - now))
                   a == hist[k].admitted
        <4>2. /\ x \in Int /\ e \in Int /\ a \in Int /\ one \in {0, 1}
              /\ Refilled(b, now) \in Int /\ b.tokens \in Int
              /\ y = x + e
          BY <2>1, <2>3, <2>4, <2>5, Units DEF AtLeast
        <4>3. /\ Recorded(k, b, now).admitted = hist[k].admitted + one
              /\ Recorded(k, b, now).born = hist[k].born
              /\ Recorded(k, b, now).rewound
                   = hist[k].rewound + AtLeast(0, b.last_refill - now)
          BY <3>1 DEF Recorded
        <4> HIDE DEF x, e, y, a, one
        <4>4. /\ MaxTokens * y = MaxTokens * x + MaxTokens * e
              /\ Token * (a + one) = Token * a + Token * one
              /\ MaxTokens * x \in Int /\ MaxTokens * e \in Int
              /\ Token * a \in Int /\ Token * one \in Int
          BY <4>2, Products, ParametersAssumption, Units
        <4>5. Left(b, now) + Token * (a + one) <= Capacity + MaxTokens * y
          BY <2>5, <4>1, <4>2, <4>4, Units DEF x, e, a
        <4> QED
          BY <4>3, <4>5 DEF a, y
      <3>2. CASE ~Live(k)
        <4>1. /\ Recorded(k, b, now).admitted = one
              /\ Recorded(k, b, now).born = now
              /\ Recorded(k, b, now).rewound = 0
          BY <3>2 DEF Recorded
        <4>2. MaxTokens * (now - now + 0) = 0
          BY <2>1, ParametersAssumption
        <4> QED
          BY <2>1, <2>5, <4>1, <4>2, Units
      <3> QED
        BY <3>1, <3>2
    <2> HIDE DEF k, now, one
    <2> QED
      BY <2>1, <2>2, <2>6, <2>7 DEF AdmissionConserved, TypeOK
  <1>2. ASSUME NEW k \in Clients, Reset(k)
        PROVE  AdmissionConserved'
    BY <1>2 DEF Reset, AdmissionConserved, TypeOK
  <1>3. CASE UNCHANGED <<bucket, hist>>
    BY <1>3 DEF AdmissionConserved
  <1> QED
    BY <1>1, <1>2, <1>3
    DEF Next, Check, Reload, Rerun, Receive, Retry, Sends, GiveUp, ConnectionError, Raise,
        NoScript, LoadScript, Restart, Tick, Rest, vars

\* Over its lifetime a bucket hands out no more tokens than its capacity and the
\* configured rate allow, the time that late commands count twice included:
\* the invariant of the script of lines 75-96.
THEOREM AdmissionsConserved == Spec => []AdmissionConserved
  <1>1. Init => AdmissionConserved
    BY DEF Init, AdmissionConserved
  <1> QED
    BY <1>1, ConservedStep, TypeCorrect, PTL DEF Spec

-----------------------------------------------------------------------------
(* Times.                                                                  *)

\* No timestamp lies in the future, and a key that expires does so no earlier
\* than TTL after the timestamp of the run that stored it.
Timely ==
  /\ \A m \in net : m.now <= clock
  /\ \A c \in Calls : call[c].pc = "waiting" => call[c].now <= clock
  /\ \A k \in Clients : bucket[k] # NoBucket =>
       /\ bucket[k].last_refill <= clock
       /\ bucket[k].expires_at # NoTTL =>
            bucket[k].expires_at >= bucket[k].last_refill + TTL

LEMMA TimelyStep == TypeOK /\ Timely /\ [Next]_vars => Timely'
  <1> SUFFICES ASSUME TypeOK, Timely, [Next]_vars
               PROVE  Timely'
    OBVIOUS
  <1>1. ASSUME NEW c \in Calls, Check(c) \/ Reload(c) \/ Rerun(c) \/ Retry(c)
        PROVE  Timely'
    <2>1. PICK step \in Steps, attempt \in {1, 2}, now \in {clock, call[c].now} :
            /\ Sends(c, step, attempt, now)
            /\ now = clock \/ (now = call[c].now /\ call[c].pc = "waiting")
      <3>1. call[c].step \in Steps
        BY DEF TypeOK, CallState
      <3> QED
        BY <1>1, <3>1 DEF Check, Reload, Rerun, Retry, Told, TimedOut, Steps
    <2>2. now <= clock
      BY <2>1, ParametersAssumption DEF Timely, TypeOK
    <2> QED
      BY <2>1, <2>2 DEF Sends, Timely, TypeOK
  <1>2. ASSUME NEW c \in Calls, Receive(c) \/ Raise(c)
        PROVE  Timely'
    BY <1>2 DEF Receive, Raise, Ended, Timely, TypeOK
  <1>3. ASSUME NEW m \in net, NoScript(m) \/ LoadScript(m)
        PROVE  Timely'
    <2>1. /\ net' = net \ {m}
          /\ \A c \in Calls : call'[c].pc = call[c].pc /\ call'[c].now = call[c].now
          /\ UNCHANGED <<clock, bucket>>
      BY <1>3 DEF NoScript, LoadScript, Answers, TypeOK, CallState
    <2> QED
      BY <2>1 DEF Timely
  <1>4. ASSUME NEW m \in net, RunScript(m)
        PROVE  Timely'
    <2> DEFINE k == Caller[m.call]
               b == Loaded(k, m.now)
    <2>1. /\ m.call \in Calls /\ m.now \in Nat /\ k \in Clients
      BY Running
    <2>2. /\ net' = net \ {m}
          /\ bucket' = [bucket EXCEPT ![k] = Stored(b, m.now)]
          /\ \A c \in Calls : call'[c].pc = call[c].pc /\ call'[c].now = call[c].now
          /\ UNCHANGED clock
      BY <1>4, <2>1 DEF RunScript, Answers, TypeOK, CallState
    <2>3. m.now <= clock /\ clock \in Nat
      BY ParametersAssumption DEF Timely, TypeOK
    <2>4. /\ Stored(b, m.now).last_refill = m.now
          /\ Stored(b, m.now).expires_at \in {NoTTL, clock + TTL}
      BY DEF Stored
    <2> HIDE DEF k, b
    <2> QED
      BY <2>1, <2>2, <2>3, <2>4, Units DEF Timely, TypeOK
  <1>5. ASSUME NEW k \in Clients, Reset(k)
        PROVE  Timely'
    BY <1>5 DEF Reset, Timely, TypeOK
  <1>6. ASSUME Tick
        PROVE  Timely'
    BY <1>6, Units DEF Tick, Timely, TypeOK, CallState, Command, Bucket
  <1>7. CASE UNCHANGED vars
    BY <1>7 DEF vars, Timely
  <1>8. CASE Restart
    BY <1>8 DEF Restart, Timely
  <1> QED
    BY <1>1, <1>2, <1>3, <1>4, <1>5, <1>6, <1>7, <1>8
    DEF Next, GiveUp, ConnectionError, Rest

LEMMA AlwaysTimely == Spec => []Timely
  <1>1. Init => Timely
    BY DEF Init, Timely
  <1> QED
    BY <1>1, TimelyStep, TypeCorrect, PTL DEF Spec

\* A client is never let through more often than its capacity, the configured
\* rate since its bucket was created, and the time counted twice allow.
THEOREM AdmissionsBounded == Spec => []AdmissionBounded
  <1>1. TypeOK /\ Timely /\ AdmissionConserved => AdmissionBounded
    <2> SUFFICES ASSUME TypeOK, Timely, AdmissionConserved,
                        NEW k \in Clients, bucket[k] # NoBucket
                 PROVE  Token * hist[k].admitted
                          <= Capacity + MaxTokens * (clock - hist[k].born + hist[k].rewound)
      BY DEF AdmissionBounded
    <2> DEFINE x == bucket[k].last_refill - hist[k].born + hist[k].rewound
               y == clock - hist[k].born + hist[k].rewound
    <2>1. /\ bucket[k].tokens \in Nat /\ x \in Int /\ y \in Int /\ x <= y
          /\ hist[k].admitted \in Int
      BY ParametersAssumption, Units DEF TypeOK, Bucket, History, Timely
    <2>2. bucket[k].tokens + Token * hist[k].admitted <= Capacity + MaxTokens * x
      BY DEF AdmissionConserved
    <2> HIDE DEF x, y
    <2>3. /\ MaxTokens * x <= MaxTokens * y
          /\ MaxTokens * x \in Int /\ MaxTokens * y \in Int
          /\ Token * hist[k].admitted \in Int
      BY <2>1, Products, ParametersAssumption, Units
    <2> QED
      BY <2>1, <2>2, <2>3, Units DEF y
  <1> QED
    BY <1>1, TypeCorrect, AlwaysTimely, AdmissionsConserved, PTL

\* Redis forgets an idle bucket only when a fresh one is the same to every
\* command whose timestamp is not a window old: the TTL of line 88 is enough.
THEOREM ExpiryIsTransparent == Spec => []ExpiryTransparent
  <1>1. TypeOK /\ Timely => ExpiryTransparent
    <2> SUFFICES ASSUME TypeOK, Timely, NEW k \in Clients,
                        bucket[k] # NoBucket, ~Live(k)
                 PROVE  Refilled(bucket[k], clock - Window) = Capacity
      BY DEF ExpiryTransparent
    <2> DEFINE e == clock - Window - bucket[k].last_refill
    <2>1. bucket[k] \in Bucket /\ clock \in Nat
      BY ParametersAssumption DEF TypeOK
    <2>2. /\ bucket[k].tokens \in Nat /\ bucket[k].last_refill \in Nat
          /\ bucket[k].expires_at \in Int
      BY <2>1, Units DEF Bucket, NoTTL
    <2>3. clock >= bucket[k].last_refill + 2 * Window
      BY <2>1, <2>2, Units DEF Live, Timely
    <2>4. e \in Nat /\ e >= Window
      BY <2>1, <2>2, <2>3, Units
    <2>5. MaxTokens * e >= Capacity /\ MaxTokens * e \in Nat
      BY <2>4, Products, ParametersAssumption, Units DEF Capacity
    <2>6. AtLeast(0, clock - Window - bucket[k].last_refill) = e
      BY <2>4 DEF AtLeast
    <2> HIDE DEF e
    <2> QED
      BY <2>2, <2>5, <2>6, Units DEF Refilled, AtMost
  <1> QED
    BY <1>1, TypeCorrect, AlwaysTimely, PTL

-----------------------------------------------------------------------------
(* Waiting.                                                                *)

\* Where a call is in the sequence of what it may send: two attempts of each of its
\* three commands.
Place(step, attempt) ==
  attempt + (IF step = "run" THEN 0 ELSE IF step = "load" THEN 2 ELSE 4)
PlaceOf(c) == Place(call[c].step, call[c].attempt)

\* A waiting call's attempt was sent in time and is not past its deadline.
CallTimes ==
  \A c \in Calls : call[c].pc = "waiting" =>
    /\ call[c].attempt \in {1, 2}
    /\ call[c].sent_at <= call[c].now + (PlaceOf(c) - 1) * AttemptTimeout
    /\ clock <= call[c].sent_at + AttemptTimeout

\* One attempt later is one timeout later.
LEMMA NextAttempt ==
  ASSUME NEW p \in Nat, NEW q \in Nat, q > p,
         NEW t \in Nat, NEW now \in Nat, t <= now + (p - 1) * AttemptTimeout + AttemptTimeout
  PROVE  t <= now + (q - 1) * AttemptTimeout
  <1>1. AttemptTimeout \in Nat
    BY ParametersAssumption
  <1>2. AttemptTimeout * p <= AttemptTimeout * (q - 1)
    BY <1>1, Products
  <1>3. /\ (p - 1) * AttemptTimeout + AttemptTimeout = AttemptTimeout * p
        /\ (q - 1) * AttemptTimeout = AttemptTimeout * (q - 1)
    BY <1>1
  <1>4. AttemptTimeout * p \in Int /\ AttemptTimeout * (q - 1) \in Int
    BY <1>1
  <1> QED
    BY <1>1, <1>2, <1>3, <1>4

LEMMA CallTimesStep == TypeOK /\ CallTimes /\ [Next]_vars => CallTimes'
  <1> SUFFICES ASSUME TypeOK, CallTimes, [Next]_vars,
                      NEW d \in Calls, call'[d].pc = "waiting"
               PROVE  /\ call'[d].attempt \in {1, 2}
                      /\ call'[d].sent_at
                           <= call'[d].now + (PlaceOf(d)' - 1) * AttemptTimeout
                      /\ clock' <= call'[d].sent_at + AttemptTimeout
    BY DEF CallTimes
  <1>1. /\ clock \in Nat /\ AttemptTimeout \in Nat
        /\ call[d].sent_at \in Nat /\ call[d].now \in Nat
        /\ call[d].step \in Steps /\ PlaceOf(d) \in Nat
    BY ParametersAssumption DEF TypeOK, CallState, PlaceOf, Place
  <1>2. ASSUME NEW c \in Calls, Check(c)
        PROVE  /\ call'[d].attempt \in {1, 2}
               /\ call'[d].sent_at <= call'[d].now + (PlaceOf(d)' - 1) * AttemptTimeout
               /\ clock' <= call'[d].sent_at + AttemptTimeout
    BY <1>1, <1>2 DEF Check, Sends, CallTimes, PlaceOf, Place, TypeOK
  <1>3. ASSUME NEW c \in Calls, Receive(c) \/ Raise(c)
        PROVE  call'[d] = call[d] /\ clock' = clock
    BY <1>3 DEF Receive, Raise, Ended, TypeOK
  <1>4. ASSUME NEW c \in Calls, NEW step \in Steps, NEW attempt \in {1, 2},
               call[c].pc = "waiting", Place(step, attempt) > PlaceOf(c),
               Sends(c, step, attempt, call[c].now)
        PROVE  /\ call'[d].attempt \in {1, 2}
               /\ call'[d].sent_at <= call'[d].now + (PlaceOf(d)' - 1) * AttemptTimeout
               /\ clock' <= call'[d].sent_at + AttemptTimeout
    <2>1. CASE d # c
      BY <1>1, <1>4, <2>1 DEF Sends, CallTimes, PlaceOf, TypeOK
    <2>2. CASE d = c
      <3>1. /\ call'[d].attempt = attempt /\ call'[d].step = step
            /\ call'[d].sent_at = clock /\ call'[d].now = call[d].now /\ clock' = clock
        BY <1>4, <2>2 DEF Sends, TypeOK
      <3>2. PlaceOf(d)' = Place(step, attempt) /\ Place(step, attempt) \in Nat
        BY <3>1 DEF PlaceOf, Place
      <3>3. clock <= call[d].now + (PlaceOf(d) - 1) * AttemptTimeout + AttemptTimeout
        <4>1. /\ clock <= call[d].sent_at + AttemptTimeout
              /\ call[d].sent_at <= call[d].now + (PlaceOf(d) - 1) * AttemptTimeout
          BY <1>4, <2>2 DEF CallTimes
        <4>2. (PlaceOf(d) - 1) * AttemptTimeout \in Int
          BY <1>1
        <4> QED
          BY <1>1, <4>1, <4>2
      <3>4. clock <= call[d].now + (Place(step, attempt) - 1) * AttemptTimeout
        BY <1>1, <1>4, <2>2, <3>2, <3>3, NextAttempt
      <3> QED
        BY <1>1, <3>1, <3>2, <3>4
    <2> QED
      BY <2>1, <2>2
  <1>5. ASSUME NEW m \in net, RunScript(m) \/ NoScript(m) \/ LoadScript(m)
        PROVE  /\ call'[d].pc = call[d].pc
               /\ PlaceOf(d)' = PlaceOf(d)
               /\ call'[d].attempt = call[d].attempt
               /\ call'[d].sent_at = call[d].sent_at
               /\ call'[d].now = call[d].now
               /\ clock' = clock
    <2>1. PICK reply : Answers(m, reply)
      BY <1>5 DEF RunScript, NoScript, LoadScript
    <2>2. /\ call'[d].pc = call[d].pc
          /\ call'[d].step = call[d].step
          /\ call'[d].attempt = call[d].attempt
          /\ call'[d].sent_at = call[d].sent_at
          /\ call'[d].now = call[d].now
      BY <2>1 DEF Answers, TypeOK, CallState
    <2> QED
      BY <1>5, <2>2 DEF RunScript, NoScript, LoadScript, PlaceOf
  <1>6. CASE Tick
    BY <1>1, <1>6 DEF Tick, Overdue, CallTimes, PlaceOf
  <1>7. ASSUME Restart \/ \E k \in Clients : Reset(k)
        PROVE  call'[d] = call[d] /\ clock' = clock
    BY <1>7 DEF Reset, Restart
  <1>8. CASE UNCHANGED vars
    BY <1>8 DEF CallTimes, PlaceOf, vars
  <1>9. ASSUME NEW c \in Calls, Reload(c) \/ Rerun(c) \/ Retry(c)
        PROVE  \E step \in Steps, attempt \in {1, 2} :
                 /\ call[c].pc = "waiting" /\ Place(step, attempt) > PlaceOf(c)
                 /\ Sends(c, step, attempt, call[c].now)
    <2>1. call[c].step \in Steps
      BY DEF TypeOK, CallState
    <2>2. call[c].pc = "waiting" /\ call[c].attempt \in {1, 2}
      BY <1>9 DEF Reload, Rerun, Retry, Told, TimedOut, CallTimes
    <2>3. CASE Retry(c)
      <3>1. Place(call[c].step, 2) > PlaceOf(c) /\ Sends(c, call[c].step, 2, call[c].now)
        BY <2>1, <2>3 DEF Retry, PlaceOf, Place
      <3> QED
        BY <2>1, <2>2, <3>1
    <2>4. CASE Reload(c)
      <3>1. Place("load", 1) > PlaceOf(c) /\ Sends(c, "load", 1, call[c].now)
        BY <2>2, <2>4 DEF Reload, PlaceOf, Place
      <3> QED
        BY <2>2, <3>1 DEF Steps
    <2>5. CASE Rerun(c)
      <3>1. Place("rerun", 1) > PlaceOf(c) /\ Sends(c, "rerun", 1, call[c].now)
        BY <2>2, <2>5 DEF Rerun, PlaceOf, Place
      <3> QED
        BY <2>2, <3>1 DEF Steps
    <2> QED
      BY <1>9, <2>3, <2>4, <2>5
  <1> QED
    BY <1>2, <1>3, <1>4, <1>5, <1>6, <1>7, <1>8, <1>9
    DEF Next, GiveUp, ConnectionError, Rest, CallTimes, PlaceOf

\* A request never waits for the limiter longer than six attempts may take: two of the
\* script, and when Redis has forgotten it two of SCRIPT LOAD and two of the script again.
THEOREM WaitsBounded == Spec => []BoundedWait
  <1>1. Init => CallTimes
    BY DEF Init, CallTimes
  <1>2. TypeOK /\ CallTimes => BoundedWait
    <2> SUFFICES ASSUME TypeOK, CallTimes, NEW c \in Calls, call[c].pc = "waiting"
                 PROVE  clock <= call[c].now + 6 * AttemptTimeout
      BY DEF BoundedWait
    <2>1. /\ clock \in Nat /\ call[c].sent_at \in Nat /\ call[c].now \in Nat
          /\ PlaceOf(c) \in 0 .. 6 /\ AttemptTimeout \in Nat
      BY ParametersAssumption DEF TypeOK, CallState, PlaceOf, Place
    <2>2. (PlaceOf(c) - 1) * AttemptTimeout <= 5 * AttemptTimeout
      <3>1. AttemptTimeout * (PlaceOf(c) - 1) <= AttemptTimeout * 5
        BY <2>1, Products
      <3> QED
        BY <2>1, <3>1
    <2>3. (PlaceOf(c) - 1) * AttemptTimeout \in Int
      BY <2>1
    <2> QED
      BY <2>1, <2>2, <2>3 DEF CallTimes
  <1> QED
    BY <1>1, <1>2, CallTimesStep, TypeCorrect, PTL DEF Spec

-----------------------------------------------------------------------------
(* Charges.                                                                *)

\* A command that runs the script, of the attempt at this place, is still to run.
Pending(c, p) ==
  \E m \in net : m.call = c /\ m.step # "load" /\ Place(m.step, m.attempt) = p
One(A) == IF A THEN 1 ELSE 0
PendingCount(c) ==
  One(Pending(c, 1)) + One(Pending(c, 2)) + One(Pending(c, 5)) + One(Pending(c, 6))

\* The answer to the attempt that a call waits for, or ended with, took no token.
Missed(c) == One(call[c].reply.verdict \in {"denied", "noscript"})

\* A command belongs to an attempt its call has made and is the only one of it; of the runs
\* a call may have caused, each took a token, is still to come, or did neither.
Accounted ==
  /\ \A m \in net : Place(m.step, m.attempt) <= PlaceOf(m.call)
  /\ \A m, n \in net :
       m.call = n.call /\ Place(m.step, m.attempt) = Place(n.step, n.attempt) => m = n
  /\ \A c \in Calls :
       /\ call[c].pc = "idle" => call[c].step = "run" /\ call[c].attempt = 0
       /\ charged[c] + PendingCount(c) + Missed(c) <= Runs(c)
       /\ call[c].reply.verdict = "allowed" => charged[c] > 0

LEMMA Places ==
  ASSUME NEW step \in Steps, NEW attempt \in {1, 2}
  PROVE  /\ Place(step, attempt) \in 1 .. 6
         /\ step # "load" <=> Place(step, attempt) \in {1, 2, 5, 6}
  BY DEF Steps, Place

\* A command sent at a later place keeps the accounts, if it is counted in what its call
\* may run.
LEMMA SendAccounted ==
  ASSUME TypeOK, Accounted,
         NEW c \in Calls, NEW step \in Steps, NEW attempt \in {1, 2}, NEW now \in Nat,
         Sends(c, step, attempt, now),
         Place(step, attempt) > PlaceOf(c),
         charged[c] + PendingCount(c) + One(step # "load") <= Runs(c)'
  PROVE  Accounted'
  <1> DEFINE m0 == [call |-> c, step |-> step, attempt |-> attempt, now |-> now]
             p0 == Place(step, attempt)
  <1>1. /\ net' = net \cup {m0}
        /\ charged' = charged
        /\ call'[c] = [pc |-> "waiting", now |-> now, step |-> step, attempt |-> attempt,
                       sent_at |-> clock, reply |-> NoReply]
        /\ \A d \in Calls \ {c} : call'[d] = call[d]
    BY DEF Sends, TypeOK
  <1>2. \A m \in net : m.call \in Calls /\ m.step \in Steps /\ m.attempt \in {1, 2}
    BY DEF TypeOK, Command
  <1>3. PlaceOf(c)' = p0 /\ PlaceOf(c) \in Nat /\ p0 \in 1 .. 6
    BY <1>1, Places DEF PlaceOf, Place, TypeOK, CallState
  <1>4. \A m \in net : m.call = c =>
          Place(m.step, m.attempt) < p0 /\ Place(m.step, m.attempt) \in Nat
    BY <1>2, <1>3, Places DEF Accounted
  <1>5. m0.call = c /\ Place(m0.step, m0.attempt) = p0 /\ m0.step = step
    OBVIOUS
  <1> HIDE DEF m0
  <1>6. \A d \in Calls \ {c} : /\ PlaceOf(d)' = PlaceOf(d) /\ Runs(d)' = Runs(d)
                              /\ Missed(d)' = Missed(d)
    BY <1>1 DEF PlaceOf, Runs, Missed
  <1>7. \A m \in net' : Place(m.step, m.attempt) <= PlaceOf(m.call)'
    <2> SUFFICES ASSUME NEW m \in net'
                 PROVE  Place(m.step, m.attempt) <= PlaceOf(m.call)'
      OBVIOUS
    <2>1. CASE m = m0
      BY <1>3, <1>5, <2>1
    <2>2. CASE m \in net /\ m.call = c
      BY <1>3, <1>4, <2>2
    <2>3. CASE m \in net /\ m.call # c
      BY <1>2, <1>6, <2>3 DEF Accounted
    <2> QED
      BY <1>1, <2>1, <2>2, <2>3
  <1>8. \A m, n \in net' :
          m.call = n.call /\ Place(m.step, m.attempt) = Place(n.step, n.attempt) => m = n
    BY <1>1, <1>3, <1>4, <1>5 DEF Accounted
  <1>9. \A d \in Calls \ {c}, p \in {1, 2, 5, 6} : Pending(d, p)' <=> Pending(d, p)
    BY <1>1, <1>5 DEF Pending
  <1>10. \A p \in {1, 2, 5, 6} : p # p0 => (Pending(c, p)' <=> Pending(c, p))
    BY <1>1, <1>5 DEF Pending
  <1>11. ~Pending(c, p0)
    BY <1>3, <1>4 DEF Pending
  <1>12. step = "load" => p0 \notin {1, 2, 5, 6}
    BY Places
  <1>13. PendingCount(c)' <= PendingCount(c) + One(step # "load")
    <2>1. CASE p0 = 1
      BY <1>10, <1>11, <1>12, <2>1 DEF PendingCount, One
    <2>2. CASE p0 = 2
      BY <1>10, <1>11, <1>12, <2>2 DEF PendingCount, One
    <2>3. CASE p0 = 5
      BY <1>10, <1>11, <1>12, <2>3 DEF PendingCount, One
    <2>4. CASE p0 = 6
      BY <1>10, <1>11, <1>12, <2>4 DEF PendingCount, One
    <2>5. CASE p0 \notin {1, 2, 5, 6}
      BY <1>10, <2>5 DEF PendingCount, One
    <2> QED
      BY <2>1, <2>2, <2>3, <2>4, <2>5
  <1>14. \A d \in Calls \ {c} : PendingCount(d)' = PendingCount(d)
    BY <1>9 DEF PendingCount, One
  <1>15. Missed(c)' = 0 /\ call'[c].reply.verdict # "allowed" /\ call'[c].pc # "idle"
    BY <1>1 DEF Missed, One, NoReply
  <1>16. ASSUME NEW d \in Calls
         PROVE  /\ call'[d].pc = "idle" => call'[d].step = "run" /\ call'[d].attempt = 0
                /\ charged'[d] + PendingCount(d)' + Missed(d)' <= Runs(d)'
                /\ call'[d].reply.verdict = "allowed" => charged'[d] > 0
    <2>1. CASE d = c
      <3>1. /\ charged[c] \in Nat /\ PendingCount(c) \in Nat /\ PendingCount(c)' \in Nat
            /\ One(step # "load") \in Nat /\ Runs(c)' \in Nat
        BY <1>1 DEF TypeOK, PendingCount, One, Runs
      <3> QED
        BY <1>1, <1>13, <1>15, <2>1, <3>1
    <2>2. CASE d # c
      BY <1>1, <1>6, <1>14, <2>2 DEF Accounted
    <2> QED
      BY <2>1, <2>2
  <1> QED
    BY <1>7, <1>8, <1>16 DEF Accounted

\* So does an answer, if what it took and did not take was pending.
LEMMA AnswerAccounted ==
  ASSUME TypeOK, Accounted,
         NEW m \in net, NEW reply \in Reply, NEW one \in {0, 1},
         Answers(m, reply),
         charged' = [charged EXCEPT ![m.call] = @ + one],
         m.step = "load" => one = 0 /\ reply.verdict = "loaded",
         reply.verdict = "allowed" => one = 1,
         one = 1 => reply.verdict \notin {"denied", "noscript"}
  PROVE  Accounted'
  <1> DEFINE c == m.call
             p0 == Place(m.step, m.attempt)
  <1>1. \A n \in net : n.call \in Calls /\ n.step \in Steps /\ n.attempt \in {1, 2}
    BY DEF TypeOK, Command
  <1>2. /\ net' = net \ {m}
        /\ \A d \in Calls : /\ call'[d].pc = call[d].pc
                            /\ call'[d].step = call[d].step
                            /\ call'[d].attempt = call[d].attempt
                            /\ \/ call'[d].reply = call[d].reply
                               \/ d = c /\ call'[d].reply = reply
    BY <1>1 DEF Answers, TypeOK, CallState
  <1>3. c \in Calls /\ p0 \in 1 .. 6 /\ (m.step # "load" => p0 \in {1, 2, 5, 6})
    BY <1>1, Places
  <1>4. \A d \in Calls : PlaceOf(d)' = PlaceOf(d) /\ Runs(d)' = Runs(d)
    BY <1>2 DEF PlaceOf, Runs
  <1>5. /\ \A n \in net' : Place(n.step, n.attempt) <= PlaceOf(n.call)'
        /\ \A n, o \in net' :
             n.call = o.call /\ Place(n.step, n.attempt) = Place(o.step, o.attempt) => n = o
    BY <1>1, <1>2, <1>4 DEF Accounted
  <1>6. \A d \in Calls, p \in {1, 2, 5, 6} : Pending(d, p)' => Pending(d, p)
    BY <1>2 DEF Pending
  <1>7. \A d \in Calls \ {c}, p \in {1, 2, 5, 6} : Pending(d, p) => Pending(d, p)'
    BY <1>2 DEF Pending
  <1>8. \A d \in Calls \ {c} : PendingCount(d)' = PendingCount(d)
    BY <1>6, <1>7 DEF PendingCount, One
  <1>9. m.step # "load" => Pending(c, p0) /\ ~Pending(c, p0)'
    BY <1>2 DEF Pending, Accounted
  <1>10. PendingCount(c)' + One(m.step # "load") <= PendingCount(c)
    <2>1. CASE m.step = "load"
      BY <1>3, <1>6, <2>1 DEF PendingCount, One
    <2>2. CASE m.step # "load" /\ p0 = 1
      BY <1>3, <1>6, <1>9, <2>2 DEF PendingCount, One
    <2>3. CASE m.step # "load" /\ p0 = 2
      BY <1>3, <1>6, <1>9, <2>3 DEF PendingCount, One
    <2>4. CASE m.step # "load" /\ p0 = 5
      BY <1>3, <1>6, <1>9, <2>4 DEF PendingCount, One
    <2>5. CASE m.step # "load" /\ p0 = 6
      BY <1>3, <1>6, <1>9, <2>5 DEF PendingCount, One
    <2> QED
      BY <1>3, <2>1, <2>2, <2>3, <2>4, <2>5
  <1>11. /\ Missed(c)' = Missed(c) \/ (Missed(c)' = 0)
            \/ (m.step # "load" /\ one = 0 /\ Missed(c)' = 1)
         /\ Missed(c) \in {0, 1}
    BY <1>2, <1>3 DEF Missed, One
  <1>12. ASSUME NEW d \in Calls
         PROVE  /\ call'[d].pc = "idle" => call'[d].step = "run" /\ call'[d].attempt = 0
                /\ charged'[d] + PendingCount(d)' + Missed(d)' <= Runs(d)'
                /\ call'[d].reply.verdict = "allowed" => charged'[d] > 0
    <2>1. CASE d = c
      <3>1. charged'[c] = charged[c] + one /\ charged[c] \in Nat
        BY <1>3 DEF TypeOK
      <3>2. /\ charged[c] + PendingCount(c) + Missed(c) <= Runs(c)
            /\ call[c].pc = "idle" => call[c].step = "run" /\ call[c].attempt = 0
            /\ call[c].reply.verdict = "allowed" => charged[c] > 0
        BY <1>3 DEF Accounted
      <3>3. /\ PendingCount(c) \in Nat /\ PendingCount(c)' \in Nat /\ Runs(c) \in Nat
            /\ Runs(c)' = Runs(c)
            /\ One(m.step # "load") = IF m.step # "load" THEN 1 ELSE 0
        BY <1>3, <1>4 DEF TypeOK, CallState, PendingCount, One, Runs
      <3>4. charged'[c] + PendingCount(c)' + Missed(c)' <= Runs(c)'
        BY <1>10, <1>11, <3>1, <3>2, <3>3
      <3>5. call'[c].reply.verdict = "allowed" => charged'[c] > 0
        BY <1>2, <1>3, <3>1, <3>2
      <3> QED
        BY <1>2, <2>1, <3>2, <3>4, <3>5
    <2>2. CASE d # c
      <3>1. Missed(d)' = Missed(d) /\ charged'[d] = charged[d]
        BY <1>2, <2>2 DEF Missed, TypeOK
      <3> QED
        BY <1>2, <1>4, <1>8, <2>2, <3>1 DEF Accounted
    <2> QED
      BY <2>1, <2>2
  <1> QED
    BY <1>5, <1>12 DEF Accounted

LEMMA AccountedStep == TypeOK /\ Accounted /\ [Next]_vars => Accounted'
  <1> SUFFICES ASSUME TypeOK, Accounted, [Next]_vars
               PROVE  Accounted'
    OBVIOUS
  <1>1. \A c \in Calls : /\ charged[c] \in Nat /\ PendingCount(c) \in Nat
                         /\ call[c].attempt \in 0 .. 2 /\ call[c].step \in Steps
                         /\ call[c].now \in Nat
    BY DEF TypeOK, CallState, PendingCount, One
  <1>2. ASSUME NEW c \in Calls, Check(c) \/ Reload(c) \/ Rerun(c) \/ Retry(c)
        PROVE  Accounted'
    <2>1. /\ charged[c] + PendingCount(c) + Missed(c) <= Runs(c)
          /\ Missed(c) \in Nat /\ clock \in Nat
          /\ call[c].reply.verdict = "noscript" => Missed(c) = 1
      BY ParametersAssumption DEF Accounted, Missed, One, TypeOK
    <2>2. ASSUME NEW step \in Steps, NEW attempt \in {1, 2}, NEW now, Sends(c, step, attempt, now)
          PROVE  Runs(c)' = (IF step = "run" THEN attempt ELSE 1)
                              + (IF step = "rerun" THEN attempt ELSE 0)
      BY <2>2 DEF Sends, Runs, TypeOK
    <2>3. CASE Check(c)
      <3>1. call[c].step = "run" /\ call[c].attempt = 0 /\ Sends(c, "run", 1, clock)
        BY <2>3 DEF Check, Accounted
      <3>2. Place("run", 1) > PlaceOf(c) /\ Runs(c) = 0
        BY <3>1 DEF Place, PlaceOf, Runs
      <3>3. Runs(c)' = 1
        BY <2>2, <3>1 DEF Steps
      <3>4. charged[c] + PendingCount(c) + One("run" # "load") <= Runs(c)'
        BY <1>1, <2>1, <3>2, <3>3 DEF One
      <3> QED
        BY <2>1, <3>1, <3>2, <3>4, SendAccounted DEF Steps
    <2>4. CASE Reload(c)
      <3>1. /\ call[c].step = "run" /\ call[c].reply.verdict = "noscript"
            /\ Sends(c, "load", 1, call[c].now)
        BY <2>4 DEF Reload, Told
      <3>2. Place("load", 1) > PlaceOf(c) /\ Runs(c) <= 2
        BY <1>1, <3>1 DEF Place, PlaceOf, Runs
      <3>3. Runs(c)' = 1 /\ Runs(c) \in Nat
        BY <1>1, <2>2, <3>1 DEF Steps, Runs
      <3>4. charged[c] + PendingCount(c) + One("load" # "load") <= Runs(c)'
        BY <1>1, <2>1, <3>1, <3>2, <3>3 DEF One
      <3> QED
        BY <1>1, <3>1, <3>2, <3>4, SendAccounted DEF Steps
    <2>5. CASE Rerun(c)
      <3>1. call[c].step = "load" /\ Sends(c, "rerun", 1, call[c].now)
        BY <2>5 DEF Rerun
      <3>2. Place("rerun", 1) > PlaceOf(c) /\ Runs(c) = 1
        BY <1>1, <3>1 DEF Place, PlaceOf, Runs
      <3>3. Runs(c)' = 2
        BY <2>2, <3>1 DEF Steps
      <3>4. charged[c] + PendingCount(c) + One("rerun" # "load") <= Runs(c)'
        BY <1>1, <2>1, <3>2, <3>3 DEF One
      <3> QED
        BY <1>1, <3>1, <3>2, <3>4, SendAccounted DEF Steps
    <2>6. CASE Retry(c)
      <3> DEFINE step == call[c].step
      <3>1. call[c].attempt = 1 /\ Sends(c, step, 2, call[c].now)
        BY <2>6 DEF Retry
      <3>2. Place(step, 2) > PlaceOf(c)
        BY <1>1, <3>1 DEF Place, PlaceOf, Steps
      <3>3. Runs(c)' = Runs(c) + One(step # "load") /\ Runs(c) \in Nat
        BY <1>1, <2>2, <3>1 DEF Steps, Runs, One
      <3>4. charged[c] + PendingCount(c) + One(step # "load") <= Runs(c)'
        BY <1>1, <2>1, <3>3 DEF One
      <3> QED
        BY <1>1, <3>1, <3>2, <3>4, SendAccounted
    <2> QED
      BY <1>2, <2>3, <2>4, <2>5, <2>6
  <1>3. ASSUME NEW c \in Calls, Receive(c) \/ Raise(c)
        PROVE  Accounted'
    <2>1. /\ net' = net /\ charged' = charged
          /\ \A d \in Calls : /\ call'[d].step = call[d].step
                              /\ call'[d].attempt = call[d].attempt
                              /\ call'[d].pc = "idle" => call[d].pc = "idle"
                              /\ \/ call'[d].reply = call[d].reply
                                 \/ call'[d].reply = NoReply
      BY <1>3 DEF Receive, Raise, Ended, TypeOK
    <2>2. \A d \in Calls :
            /\ PlaceOf(d)' = PlaceOf(d) /\ Runs(d)' = Runs(d)
            /\ PendingCount(d)' = PendingCount(d)
            /\ Missed(d) \in {0, 1} /\ Missed(d)' \in {0, Missed(d)}
            /\ Runs(d) \in Nat
      BY <1>1, <2>1 DEF PlaceOf, Runs, PendingCount, Pending, Missed, One, NoReply
    <2>3. \A m \in net : m.call \in Calls
      BY DEF TypeOK, Command
    <2> QED
      BY <1>1, <2>1, <2>2, <2>3 DEF Accounted, NoReply
  <1>4. ASSUME NEW m \in net, RunScript(m)
        PROVE  Accounted'
    <2> DEFINE b == Loaded(Caller[m.call], m.now)
               one == IF Allows(b, m.now) THEN 1 ELSE 0
    <2>1. /\ Answers(m, Answer(b, m.now))
          /\ charged' = [charged EXCEPT ![m.call] = @ + one]
          /\ m.step # "load"
      BY <1>4 DEF RunScript
    <2>2. /\ Answer(b, m.now).verdict = "allowed" => one = 1
          /\ one = 1 => Answer(b, m.now).verdict \notin {"denied", "noscript"}
      BY DEF Answer, NoReply
    <2>3. Answer(b, m.now) \in Reply
      BY Running
    <2>4. one \in {0, 1}
      OBVIOUS
    <2> HIDE DEF b, one
    <2> QED
      BY <2>1, <2>2, <2>3, <2>4, AnswerAccounted
  <1>5. ASSUME NEW m \in net, NoScript(m) \/ LoadScript(m)
        PROVE  Accounted'
    <2>1. PICK verdict \in {"noscript", "loaded"} :
            /\ Answers(m, [NoReply EXCEPT !.verdict = verdict])
            /\ m.step = "load" => verdict = "loaded"
      BY <1>5 DEF NoScript, LoadScript
    <2> DEFINE reply == [NoReply EXCEPT !.verdict = verdict]
               one == 0
    <2>2. reply \in Reply
      BY Replying DEF Verdicts
    <2>3. reply.verdict = verdict
      BY DEF NoReply
    <2>4. charged' = [charged EXCEPT ![m.call] = @ + one] /\ one \in {0, 1} /\ one = 0
      BY <1>5 DEF NoScript, LoadScript, TypeOK, Command
    <2>5. Answers(m, reply)
      BY <2>1
    <2> HIDE DEF reply, one
    <2>6. /\ m.step = "load" => one = 0 /\ reply.verdict = "loaded"
          /\ reply.verdict = "allowed" => one = 1
          /\ one = 1 => reply.verdict \notin {"denied", "noscript"}
      BY <2>1, <2>3, <2>4
    <2>7. one \in {0, 1} /\ charged' = [charged EXCEPT ![m.call] = @ + one]
      BY <2>4
    <2> QED
      BY <2>2, <2>5, <2>6, <2>7, AnswerAccounted
  <1>6. CASE UNCHANGED <<call, net, charged>>
    <2>1. \A c \in Calls : /\ PlaceOf(c)' = PlaceOf(c) /\ Runs(c)' = Runs(c)
                           /\ PendingCount(c)' = PendingCount(c) /\ Missed(c)' = Missed(c)
      BY <1>6 DEF PlaceOf, Runs, PendingCount, Pending, Missed
    <2>2. \A m \in net : m.call \in Calls
      BY DEF TypeOK, Command
    <2> QED
      BY <1>6, <2>1, <2>2 DEF Accounted
  <1>7. CASE Restart
    <2>1. /\ UNCHANGED <<call, charged>> /\ net' = {}
          /\ \A c \in Calls : PendingCount(c)' = 0 /\ Runs(c)' = Runs(c)
                              /\ Missed(c)' = Missed(c) /\ Missed(c) \in Nat /\ Runs(c) \in Nat
      BY <1>1, <1>7 DEF Restart, PendingCount, Pending, One, Runs, Missed
    <2> QED
      BY <1>1, <2>1 DEF Accounted
  <1> QED
    BY <1>2, <1>3, <1>4, <1>5, <1>6, <1>7
    DEF Next, GiveUp, ConnectionError, Reset, Tick, Rest, vars

\* A request that is let through has paid a token, one that is refused has had a run that
\* took none, and none pays more than one per run its commands may have caused: three at
\* most.
THEOREM ChargesAreBounded == Spec => []ChargesBounded
  <1>1. Init => Accounted
    BY DEF Init, Accounted, PendingCount, Pending, Missed, One, Runs, NoReply
  <1>2. TypeOK /\ Accounted => ChargesBounded
    <2> SUFFICES ASSUME TypeOK, Accounted, NEW c \in Calls
                 PROVE  /\ charged[c] <= Runs(c)
                        /\ call[c].reply.verdict = "allowed" => charged[c] > 0
                        /\ call[c].reply.verdict = "denied" => charged[c] < Runs(c)
      BY DEF ChargesBounded
    <2>1. /\ PendingCount(c) \in Nat /\ charged[c] \in Nat /\ Runs(c) \in Nat
          /\ Missed(c) \in Nat
          /\ call[c].reply.verdict = "denied" => Missed(c) = 1
      BY DEF PendingCount, Missed, One, Runs, TypeOK, CallState
    <2> QED
      BY <2>1 DEF Accounted
  <1> QED
    BY <1>1, <1>2, AccountedStep, TypeCorrect, PTL DEF Spec
-----------------------------------------------------------------------------
(* Retry-After.                                                            *)

\* The wait a denied client is told (line 92) is long enough and not a second
\* too long, for every limit, window and clock resolution.
THEOREM RetryAfterIsExact == Spec => []RetryAfterExact
  <1>1. TypeOK => RetryAfterExact
    <2> SUFFICES ASSUME TypeOK, MaxTokens > 0, NEW k \in Clients, Live(k),
                        ~Allows(bucket[k], bucket[k].last_refill)
                 PROVE  LET wait(s) == bucket[k].last_refill + s * TicksPerSecond
                            r == RetryAfter(bucket[k].tokens)
                        IN /\ Allows(bucket[k], wait(r))
                           /\ ~Allows(bucket[k], wait(r - 1))
      BY DEF RetryAfterExact
    <2> DEFINE b == bucket[k]
               need == Token - b.tokens
               rate == MaxTokens * TicksPerSecond
               r == RetryAfter(b.tokens)
               At(s) == b.last_refill + s * TicksPerSecond
    <2>1. b.tokens \in 0 .. Capacity /\ b.last_refill \in Nat
      BY DEF TypeOK, Live, Bucket
    <2>2. Refilled(b, b.last_refill) >= b.tokens
      BY <2>1, Refilling
    <2>3. need \in Int /\ need > 0
      BY <2>1, <2>2, Refilling, Units DEF Allows
    <2>4. rate \in Nat \ {0}
      BY ParametersAssumption
    <2>5. /\ r \in Int /\ r > 0
          /\ need <= rate * r
          /\ rate * (r - 1) < need
      BY <2>3, <2>4, Ceiling DEF RetryAfter
    <2>6. ASSUME NEW s \in Nat
          PROVE  Refilled(b, At(s)) = AtMost(Capacity, b.tokens + rate * s)
      <3>1. s * TicksPerSecond \in Nat
        BY ParametersAssumption
      <3>2. MaxTokens * (s * TicksPerSecond) = rate * s
        BY ParametersAssumption
      <3>3. AtLeast(0, At(s) - b.last_refill) = s * TicksPerSecond
        BY <2>1, <3>1 DEF AtLeast
      <3> HIDE DEF b, At, rate
      <3> QED
        BY <3>2, <3>3 DEF Refilled
    <2> HIDE DEF b, r, At, rate
    <2>7. rate * r \in Int /\ rate * (r - 1) \in Int
      BY <2>4, <2>5
    <2>8. Allows(b, At(r))
      BY <2>1, <2>5, <2>6, <2>7, Units DEF Allows, AtMost, need
    <2>9. ~Allows(b, At(r - 1))
      BY <2>1, <2>5, <2>6, <2>7, Units DEF Allows, AtMost, need
    <2> QED
      BY <2>8, <2>9 DEF b, r, At
  <1> QED
    BY <1>1, TypeCorrect, PTL

-----------------------------------------------------------------------------
(* Credit.                                                                 *)

\* What a client could spend now, as a function of its stored bucket.
LEMMA CreditValue ==
  TypeOK /\ Timely =>
    \A k \in Clients :
      /\ Credit(k) \in 0 .. Capacity
      /\ ~Live(k) => Credit(k) = Capacity
      /\ Live(k) => Credit(k) = AtMost(Capacity, bucket[k].tokens
                                         + MaxTokens * (clock - bucket[k].last_refill))
  <1> SUFFICES ASSUME TypeOK, Timely, NEW k \in Clients
               PROVE  /\ Credit(k) \in 0 .. Capacity
                      /\ ~Live(k) => Credit(k) = Capacity
                      /\ Live(k) => Credit(k) = AtMost(Capacity, bucket[k].tokens
                                      + MaxTokens * (clock - bucket[k].last_refill))
    OBVIOUS
  <1> DEFINE b == Loaded(k, clock)
  <1>1. clock \in Nat
    BY ParametersAssumption DEF TypeOK
  <1>2. /\ b.tokens \in 0 .. Capacity /\ b.last_refill \in Nat
        /\ Live(k) => /\ bucket[k] # NoBucket
                      /\ b.tokens = bucket[k].tokens
                      /\ b.last_refill = bucket[k].last_refill
        /\ ~Live(k) => b.tokens = Capacity
    BY <1>1, Loading
  <1> HIDE DEF b
  <1>3. Refilled(b, clock) \in 0 .. Capacity /\ Refilled(b, clock) >= b.tokens
    BY <1>1, <1>2, Refilling
  <1>4. Live(k) => AtLeast(0, clock - b.last_refill) = clock - b.last_refill
    BY <1>1, <1>2 DEF AtLeast, Timely
  <1> QED
    BY <1>2, <1>3, <1>4, Units DEF Credit, Refilled, b

LEMMA CreditValueNext ==
  TypeOK /\ Timely /\ [Next]_vars =>
    \A k \in Clients :
      /\ Credit(k)' \in 0 .. Capacity
      /\ ~Live(k)' => Credit(k)' = Capacity
      /\ Live(k)' => Credit(k)' = AtMost(Capacity, bucket'[k].tokens
                                          + MaxTokens * (clock' - bucket'[k].last_refill))
  <1>1. (TypeOK /\ Timely =>
           \A k \in Clients :
             /\ Credit(k) \in 0 .. Capacity
             /\ ~Live(k) => Credit(k) = Capacity
             /\ Live(k) => Credit(k) = AtMost(Capacity, bucket[k].tokens
                             + MaxTokens * (clock - bucket[k].last_refill)))'
    BY CreditValue, PTL
  <1> QED
    BY <1>1, TypeStep, TimelyStep

\* A script run leaves its client what the script computed and what has been
\* refilled since the timestamp of the command.
LEMMA CreditAfterRun ==
  ASSUME TypeOK, Timely, Next, NEW m \in net, RunScript(m)
  PROVE  LET k == Caller[m.call]
             b == Loaded(k, m.now)
         IN Credit(k)' = AtMost(Capacity, Left(b, m.now) + MaxTokens * (clock - m.now))
  <1> DEFINE k == Caller[m.call]
             b == Loaded(k, m.now)
  <1>1. /\ k \in Clients
        /\ Stored(b, m.now) # NoBucket
        /\ clock \in Nat
    BY Running, ParametersAssumption DEF TypeOK
  <1>2. bucket'[k] = Stored(b, m.now) /\ clock' = clock
    BY <1>1 DEF RunScript, TypeOK
  <1>3. /\ Stored(b, m.now).expires_at \in {NoTTL, clock + TTL}
        /\ Stored(b, m.now).tokens = Left(b, m.now)
        /\ Stored(b, m.now).last_refill = m.now
    BY DEF Stored
  <1> HIDE DEF b, k
  <1>4. Live(k)'
    BY <1>1, <1>2, <1>3, Units, ParametersAssumption DEF Live, TTL, Window
  <1>5. Credit(k)' = AtMost(Capacity, Left(b, m.now) + MaxTokens * (clock - m.now))
    BY <1>1, <1>2, <1>3, <1>4, CreditValueNext
  <1> QED
    BY <1>5 DEF k, b

LEMMA CreditStep == TypeOK /\ Timely /\ [Next]_vars => [KeepsCredit]_vars
  <1> SUFFICES ASSUME TypeOK, Timely, Next
               PROVE  KeepsCredit
    OBVIOUS
  <1>3. ASSUME NEW k \in Clients
        PROVE  /\ Credit(k) \in 0 .. Capacity
               /\ Credit(k)' \in 0 .. Capacity
               /\ ~Live(k)' => Credit(k)' = Capacity
               /\ Live(k) => Credit(k) = AtMost(Capacity, bucket[k].tokens
                               + MaxTokens * (clock - bucket[k].last_refill))
               /\ Live(k)' => Credit(k)' = AtMost(Capacity, bucket'[k].tokens
                                + MaxTokens * (clock' - bucket'[k].last_refill))
    BY CreditValue, CreditValueNext
  <1>4. ASSUME NEW k \in Clients, Credit(k)' = Credit(k) \/ Credit(k)' = Capacity
        PROVE  Credit(k)' >= Credit(k) - (IF Charged(k) THEN Token ELSE 0)
    BY <1>3, <1>4, Units
  <1>5. ASSUME NEW k \in Clients, bucket'[k] = bucket[k], clock' = clock
        PROVE  Credit(k)' = Credit(k)
    BY <1>5 DEF Credit, Loaded, Live, Refilled
  <1>6. ASSUME NEW m \in net, RunScript(m), NEW k \in Clients
        PROVE  Credit(k)' >= Credit(k) - (IF Charged(k) THEN Token ELSE 0)
    <2>1. CASE k # Caller[m.call]
      BY <1>4, <1>5, <1>6, <2>1 DEF RunScript, TypeOK
    <2>2. CASE k = Caller[m.call]
      <3> DEFINE now == m.now
                 b == Loaded(k, now)
                 one == IF Allows(b, now) THEN 1 ELSE 0
                 cost == IF Allows(b, now) THEN Token ELSE 0
      <3>1. m.call \in Calls /\ now \in Nat /\ now <= clock /\ clock \in Nat
        BY Running, ParametersAssumption DEF Timely, TypeOK
      <3>2. /\ bucket'[k] = Stored(b, now)
            /\ charged'[m.call] = charged[m.call] + one
            /\ clock' = clock
        BY <1>6, <2>2, <3>1 DEF RunScript, TypeOK
      <3>3. /\ b.tokens \in 0 .. Capacity /\ b.last_refill \in Nat
            /\ Live(k) => /\ bucket[k] # NoBucket
                          /\ b.tokens = bucket[k].tokens
                          /\ b.last_refill = bucket[k].last_refill
            /\ ~Live(k) => b.tokens = Capacity
        BY <3>1, Loading
      <3>4. Allows(b, now) => Charged(k)
        BY <2>2, <3>1, <3>2 DEF Charged, TypeOK
      <3> HIDE DEF b
      <3>6. Credit(k)' = AtMost(Capacity, Left(b, now) + MaxTokens * (clock - now))
        BY <1>6, <2>2, CreditAfterRun DEF b
      <3> DEFINE f == Refilled(b, now)
                 y == clock - now
                 e == AtLeast(0, now - b.last_refill)
                 x == clock - b.last_refill
      <3>7. /\ f \in 0 .. Capacity /\ Left(b, now) = f - cost
            /\ f = AtMost(Capacity, b.tokens + MaxTokens * e)
        BY <3>1, <3>3, Refilling DEF Refilled
      <3>8. y \in Nat /\ e \in Nat /\ x \in Int /\ x <= e + y
        BY <3>1, <3>3 DEF AtLeast
      <3>9. cost \in Nat /\ (Charged(k) \/ cost = 0)
        BY <3>4, Units
      <3>10. Credit(k) \in 0 .. Capacity
             /\ (Live(k) => Credit(k) = AtMost(Capacity, b.tokens + MaxTokens * x))
        BY <1>3, <3>3
      <3>11. Charged(k) => cost <= Token
        BY Units
      <3> HIDE DEF f, y, e, x, cost
      <3>12. /\ MaxTokens * y \in Nat /\ MaxTokens * e \in Nat /\ MaxTokens * x \in Int
             /\ MaxTokens * x <= MaxTokens * e + MaxTokens * y
        <4>1. e + y \in Int /\ MaxTokens * (e + y) = MaxTokens * e + MaxTokens * y
          BY <3>8, Products, ParametersAssumption
        <4> QED
          BY <3>8, <4>1, Products, ParametersAssumption
      <3>13. Credit(k)' >= Credit(k) - cost
        <4>1. Credit(k)' = AtMost(Capacity, f - cost + MaxTokens * y)
          BY <3>6, <3>7 DEF y
        <4>2. CASE Live(k)
          BY <3>3, <3>7, <3>9, <3>10, <3>12, <4>1, <4>2, Units DEF AtMost
        <4>3. CASE ~Live(k)
          BY <3>3, <3>7, <3>9, <3>10, <3>12, <4>1, <4>3, Units DEF AtMost
        <4> QED
          BY <4>2, <4>3
      <3> QED
        BY <1>3, <3>9, <3>11, <3>13, Units
    <2> QED
      BY <2>1, <2>2
  <1>7. ASSUME NEW j \in Clients, Reset(j), NEW k \in Clients
        PROVE  Credit(k)' >= Credit(k) - (IF Charged(k) THEN Token ELSE 0)
    <2>1. CASE k = j
      <3>1. ~Live(k)'
        BY <1>7, <2>1 DEF Reset, Live, TypeOK
      <3> QED
        BY <1>3, <1>4, <3>1
    <2>2. CASE k # j
      BY <1>4, <1>5, <1>7, <2>2 DEF Reset, TypeOK
    <2> QED
      BY <2>1, <2>2
  <1>8. ASSUME Tick, NEW k \in Clients
        PROVE  Credit(k)' >= Credit(k) - (IF Charged(k) THEN Token ELSE 0)
    <2>1. bucket' = bucket /\ clock' = clock + 1 /\ clock \in Nat
      BY <1>8, ParametersAssumption DEF Tick, TypeOK
    <2>2. CASE ~Live(k)'
      BY <1>3, <1>4, <2>2
    <2>3. CASE Live(k)'
      <3> DEFINE x == clock - bucket[k].last_refill
      <3>1. bucket[k] # NoBucket /\ bucket[k] \in Bucket
        BY <2>1, <2>3 DEF Live, TypeOK
      <3>2. Live(k)
        BY <2>1, <2>3, <3>1, Units DEF Live, Bucket, NoTTL
      <3>3. x \in Int /\ bucket[k].tokens \in Int
        BY <2>1, <3>1, Units DEF Bucket
      <3>4. clock' - bucket[k].last_refill = x + 1
        BY <2>1, <3>1 DEF Bucket
      <3>5. /\ Credit(k) = AtMost(Capacity, bucket[k].tokens + MaxTokens * x)
            /\ Credit(k)' = AtMost(Capacity, bucket[k].tokens + MaxTokens * (x + 1))
        BY <1>3, <2>1, <2>3, <3>2, <3>4
      <3> HIDE DEF x
      <3>6. /\ MaxTokens * x \in Int /\ MaxTokens * (x + 1) \in Int
            /\ MaxTokens * x <= MaxTokens * (x + 1)
        BY <3>3, Products, ParametersAssumption
      <3>7. Credit(k)' >= Credit(k)
        BY <3>3, <3>5, <3>6, Units DEF AtMost
      <3> QED
        BY <1>3, <3>7, Units
    <2> QED
      BY <2>2, <2>3
  <1>9. ASSUME NEW k \in Clients, UNCHANGED <<bucket, clock>>
        PROVE  Credit(k)' >= Credit(k) - (IF Charged(k) THEN Token ELSE 0)
    BY <1>4, <1>5, <1>9
  <1> QED
    BY <1>6, <1>7, <1>8, <1>9
    DEF Next, Check, Reload, Rerun, Receive, Retry, Sends, GiveUp, ConnectionError, Raise,
        NoScript, LoadScript, Restart, Rest, vars, KeepsCredit

\* No order of commands, no denial, expiry or eviction ever takes credit from a
\* client other than the one token of a request that was let through.
THEOREM CreditNeverLost == Spec => NoLostCredit
  <1> QED
    BY CreditStep, TypeCorrect, AlwaysTimely, PTL DEF Spec, NoLostCredit

-----------------------------------------------------------------------------
(* The ideal bucket.                                                       *)

LEMMA PunctualIsSpec == PunctualSpec => Spec
  BY PTL DEF PunctualSpec, Spec

Unrewound == \A k \in Clients : hist[k].rewound = 0

LEMMA UnrewoundStep ==
  TypeOK /\ Timely /\ Unrewound /\ [Next /\ Punctual]_vars => Unrewound'
  <1> SUFFICES ASSUME TypeOK, Timely, Unrewound, [Next /\ Punctual]_vars
               PROVE  Unrewound'
    OBVIOUS
  <1>1. ASSUME NEW m \in net, RunScript(m), Punctual
        PROVE  Unrewound'
    <2> DEFINE k == Caller[m.call]
               b == Loaded(k, m.now)
    <2>1. m.now = clock /\ clock \in Nat /\ k \in Clients
      BY <1>1, Running, ParametersAssumption DEF Punctual, TypeOK
    <2>2. hist' = [hist EXCEPT ![k] = Recorded(k, b, m.now)]
      BY <1>1 DEF RunScript
    <2>3. Recorded(k, b, m.now).rewound = 0
      <3>1. b.last_refill \in Nat /\ (Live(k) => b.last_refill <= m.now)
        BY <2>1, Loading DEF Timely
      <3> HIDE DEF b
      <3> QED
        BY <2>1, <3>1 DEF Recorded, AtLeast, Unrewound
    <2> QED
      BY <2>1, <2>2, <2>3 DEF Unrewound, TypeOK
  <1>2. CASE UNCHANGED hist
    BY <1>2 DEF Unrewound
  <1> QED
    BY <1>1, <1>2
    DEF Next, Check, Reload, Rerun, Receive, Retry, Sends, GiveUp, ConnectionError, Raise,
        NoScript, LoadScript, Restart, Reset, Tick, Rest, vars

\* As long as commands run when they are stamped, the documented refill rate
\* bounds what every bucket hands out.
THEOREM PunctualRefillRate == PunctualSpec => []ConstantRefillRate
  <1>1. Init => Unrewound
    <2> SUFFICES ASSUME Init, NEW k \in Clients
                 PROVE  hist[k].rewound = 0
      BY DEF Unrewound
    <2>1. hist[k] = [admitted |-> 0, born |-> 0, rewound |-> 0]
      BY DEF Init
    <2> QED
      BY <2>1
  <1>2. TypeOK /\ AdmissionBounded /\ Unrewound => ConstantRefillRate
    <2> SUFFICES ASSUME TypeOK, AdmissionBounded, Unrewound,
                        NEW k \in Clients, bucket[k] # NoBucket
                 PROVE  Token * hist[k].admitted
                          <= Capacity + MaxTokens * (clock - hist[k].born)
      BY DEF ConstantRefillRate
    <2>1. clock - hist[k].born + hist[k].rewound = clock - hist[k].born
      BY ParametersAssumption DEF TypeOK, History, Unrewound
    <2> QED
      BY <2>1 DEF AdmissionBounded
  <1> QED
    BY <1>1, <1>2, UnrewoundStep, PunctualIsSpec, TypeCorrect, AlwaysTimely,
       AdmissionsBounded, PTL
    DEF PunctualSpec

LEMMA IdealInit == Init => Ideal!Init
  <1> SUFFICES ASSUME Init
               PROVE  Ideal!Init
    OBVIOUS
  <1>1. ASSUME NEW k \in Clients
        PROVE  Credit(k) = Capacity
    <2>1. Loaded(k, clock) = [tokens |-> Capacity, last_refill |-> clock] /\ clock = 0
      BY DEF Init, Loaded, Live
    <2>2. MaxTokens * AtLeast(0, 0 - 0) = 0
      BY ParametersAssumption DEF AtLeast
    <2> QED
      BY <2>1, <2>2, Units DEF Credit, Refilled, AtMost
  <1> QED
    BY <1>1 DEF Init, Ideal!Init, Said, NoReply

LEMMA IdealStep ==
  TypeOK /\ Timely /\ [Next]_vars => [Punctual => [Ideal!Next]_(Ideal!vars)]_vars
  <1> SUFFICES ASSUME TypeOK, Timely, Next, Punctual
               PROVE  [Ideal!Next]_(Ideal!vars)
    OBVIOUS
  <1> DEFINE credit == [k \in Clients |-> Credit(k)]
             verdict == [c \in Calls |-> Said(c)]
  <1>1. /\ clock \in Nat
        /\ charged \in [Calls -> Nat]
        /\ \A k \in Clients : Credit(k) \in 0 .. Capacity
    BY CreditValue, ParametersAssumption DEF TypeOK
  <1>2. ASSUME NEW k \in Clients, bucket'[k] = bucket[k], clock' = clock
        PROVE  Credit(k)' = Credit(k)
    BY <1>2 DEF Credit, Loaded, Live, Refilled
  <1>3. ASSUME UNCHANGED <<bucket, clock, charged>>,
               NEW c \in Calls,
               \/ verdict' = verdict
               \/ verdict' = [verdict EXCEPT ![c] = "none"]
        PROVE  [Ideal!Next]_(Ideal!vars)
    <2>1. credit' = credit
      BY <1>2, <1>3
    <2> QED
      BY <1>3, <2>1 DEF Ideal!Next, Ideal!Forget, Ideal!vars
  <1>4. ASSUME NEW m \in net, RunScript(m)
        PROVE  [Ideal!Next]_(Ideal!vars)
    <2> DEFINE c == m.call
               k == Caller[c]
               b == Loaded(k, clock)
               said == Answer(b, clock).verdict
    <2>1. c \in Calls /\ k \in Clients /\ m.now = clock
      BY <1>4, Running DEF Punctual
    <2>2. /\ bucket' = [bucket EXCEPT ![k] = Stored(b, clock)]
          /\ charged' = [charged EXCEPT ![c] = @ + (IF Allows(b, clock) THEN 1 ELSE 0)]
          /\ clock' = clock
      BY <1>4, <2>1 DEF RunScript
    <2>3. verdict' = verdict \/ verdict' = [verdict EXCEPT ![c] = said]
      <3>1. CASE call' = call
        BY <3>1 DEF Said
      <3>2. CASE call' = [call EXCEPT ![c].reply = Answer(b, clock)]
        <4>1. /\ Said(c)' = said
              /\ \A d \in Calls \ {c} : call'[d] = call[d]
          BY <2>1, <3>2 DEF TypeOK, CallState, Said, Answer, NoReply
        <4> HIDE DEF said
        <4> QED
          BY <2>1, <4>1 DEF Said
      <3> QED
        BY <1>4, <2>1, <3>1, <3>2 DEF RunScript, Answers
    <2>4. /\ b.tokens \in 0 .. Capacity /\ b.last_refill \in Nat
      BY <1>1, <2>1, Loading
    <2>5. /\ Credit(k) = Refilled(b, clock)
          /\ Allows(b, clock) <=> Credit(k) >= Token
          /\ Credit(k)' = AtMost(Capacity, Left(b, clock) + MaxTokens * (clock - clock))
      BY <1>4, <2>1, CreditAfterRun DEF Credit, Allows
    <2>6. /\ said = IF ExpireFails THEN "error"
                   ELSE IF Allows(b, clock) THEN "allowed" ELSE "denied"
      BY DEF Answer, NoReply
    <2> HIDE DEF b, said
    <2>7. MaxTokens * (clock - clock) = 0
      BY <1>1, ParametersAssumption
    <2>8. Left(b, clock) \in 0 .. Capacity
          /\ Left(b, clock) = Credit(k) - (IF Allows(b, clock) THEN Token ELSE 0)
      BY <1>1, <2>4, <2>5, Refilling
    <2>9. Credit(k)' = Credit(k) - (IF Allows(b, clock) THEN Token ELSE 0)
      BY <2>5, <2>7, <2>8, Units DEF AtMost
    <2>10. \A j \in Clients \ {k} : Credit(j)' = Credit(j)
      BY <1>2, <2>1, <2>2 DEF TypeOK
    <2>11. CASE Allows(b, clock)
      <3>1. ~ExpireFails
        BY <1>1, <2>1, <2>5, <2>11, Units DEF ExpireFails
      <3>2. Credit(k)' = Credit(k) - Token /\ Credit(k) >= Token
        BY <2>5, <2>9, <2>11
      <3>3. credit' = [credit EXCEPT ![k] = @ - Token] /\ credit[k] >= Token
        BY <2>1, <2>10, <3>2
      <3>4. verdict' \in {verdict, [verdict EXCEPT ![c] = "allowed"]}
        BY <2>3, <2>6, <2>11, <3>1
      <3>5. charged' = [charged EXCEPT ![c] = @ + 1]
        BY <2>2, <2>11
      <3> QED
        BY <2>1, <3>3, <3>4, <3>5 DEF Ideal!Next, Ideal!Admit
    <2>12. CASE ~Allows(b, clock)
      <3>1. charged' = charged
        BY <1>1, <2>1, <2>2, <2>12
      <3>2. credit' = credit
        <4>1. Credit(k)' = Credit(k)
          BY <1>1, <2>1, <2>9, <2>12, Units
        <4> QED
          BY <2>10, <4>1
      <3>3. CASE verdict' = verdict
        BY <3>1, <3>2, <3>3 DEF Ideal!vars
      <3>4. CASE verdict' = [verdict EXCEPT ![c] = said] /\ ExpireFails
        <4>1. Capacity = 0 /\ said = "error"
          BY <2>6, <3>4, Units DEF ExpireFails
        <4> QED
          BY <2>1, <3>1, <3>2, <3>4, <4>1 DEF Ideal!Next, Ideal!Fail
      <3>5. CASE verdict' = [verdict EXCEPT ![c] = said] /\ ~ExpireFails
        <4>1. said = "denied" /\ credit[k] < Token
          BY <1>1, <2>1, <2>5, <2>6, <2>12, <3>5, Units
        <4> QED
          BY <2>1, <3>1, <3>2, <3>5, <4>1 DEF Ideal!Next, Ideal!Refuse
      <3> QED
        BY <2>3, <3>3, <3>4, <3>5
    <2> QED
      BY <2>11, <2>12
  <1>5. ASSUME NEW k \in Clients, Reset(k)
        PROVE  [Ideal!Next]_(Ideal!vars)
    <2>1. Credit(k)' = Capacity
      <3>1. ~Live(k)'
        BY <1>5 DEF Reset, Live, TypeOK
      <3> QED
        BY <3>1, CreditValueNext
    <2>2. \A j \in Clients \ {k} : Credit(j)' = Credit(j)
      BY <1>2, <1>5 DEF Reset, TypeOK
    <2>3. credit' = [credit EXCEPT ![k] = Capacity]
      BY <2>1, <2>2
    <2> QED
      BY <1>5, <2>3 DEF Reset, Said, Ideal!Next, Ideal!Fill
  <1>6. ASSUME Tick
        PROVE  [Ideal!Next]_(Ideal!vars)
    <2>1. bucket' = bucket /\ clock' = clock + 1
      BY <1>6 DEF Tick
    <2>2. ASSUME NEW k \in Clients
          PROVE  Credit(k)' = AtMost(Capacity, Credit(k) + MaxTokens)
      <3> DEFINE x == clock - bucket[k].last_refill
      <3>1. CASE ~Live(k)
        <4>1. ~Live(k)'
          BY <1>1, <2>1, <3>1 DEF Live, TypeOK, Bucket
        <4> QED
          BY <3>1, <4>1, CreditValue, CreditValueNext, Units, ParametersAssumption DEF AtMost
      <3>2. CASE Live(k)
        <4>1. /\ bucket[k] # NoBucket /\ bucket[k] \in Bucket
              /\ x \in Nat /\ bucket[k].tokens \in Nat
              /\ clock' - bucket[k].last_refill = x + 1
          BY <1>1, <2>1, <3>2, Units DEF Live, TypeOK, Bucket, Timely
        <4>2. Credit(k) = AtMost(Capacity, bucket[k].tokens + MaxTokens * x)
          BY <3>2, CreditValue
        <4>6. x \in Nat /\ MaxTokens \in Nat
          BY <4>1, ParametersAssumption
        <4> HIDE DEF x
        <4>3. /\ MaxTokens * x \in Nat
              /\ MaxTokens * (x + 1) = MaxTokens * x + MaxTokens
          BY <4>6
        <4> USE DEF x
        <4>4. CASE Live(k)'
          <5>1. Credit(k)' = AtMost(Capacity, bucket[k].tokens + MaxTokens * (x + 1))
            BY <2>1, <4>1, <4>4, CreditValueNext
          <5> HIDE DEF x
          <5> QED
            BY <4>1, <4>2, <4>3, <5>1, Units, ParametersAssumption DEF AtMost
        <4>5. CASE ~Live(k)'
          <5>1. clock + 1 >= bucket[k].last_refill + 2 * Window
            BY <1>1, <2>1, <3>2, <4>1, <4>5, Units DEF Live, Timely, Bucket, NoTTL
          <5>2. x >= Window
            BY <1>1, <4>1, <5>1, Units DEF Bucket
          <5> HIDE DEF x
          <5>3. MaxTokens * x >= Capacity
            BY <4>1, <5>2, Products, ParametersAssumption, Units DEF Capacity
          <5>4. Credit(k)' = Capacity
            BY <4>5, CreditValueNext
          <5> QED
            BY <4>1, <4>2, <4>3, <5>3, <5>4, Units, ParametersAssumption DEF AtMost
        <4> QED
          BY <4>4, <4>5
      <3> QED
        BY <3>1, <3>2
    <2>3. credit' = [k \in Clients |-> Ideal!Filled(credit[k] + MaxTokens)]
      <3>1. \A k \in Clients : Credit(k)' = Ideal!Filled(Credit(k) + MaxTokens)
        BY <1>1, <2>2, Units, ParametersAssumption DEF AtMost, Ideal!Filled
      <3> QED
        BY <3>1
    <2> QED
      BY <1>6, <2>3 DEF Tick, Said, Ideal!Next, Ideal!Elapse
  <1>7. ASSUME NEW c \in Calls,
               Check(c) \/ Reload(c) \/ Rerun(c) \/ Retry(c) \/ Raise(c)
        PROVE  [Ideal!Next]_(Ideal!vars)
    <2>1. /\ call'[c].reply = NoReply
          /\ \A d \in Calls \ {c} : call'[d] = call[d]
          /\ UNCHANGED <<bucket, clock, charged>>
      BY <1>7 DEF Check, Reload, Rerun, Retry, Sends, Raise, Ended, TypeOK
    <2>2. Said(c)' = "none"
      BY <2>1 DEF NoReply, Said
    <2>3. verdict' = [verdict EXCEPT ![c] = "none"]
      BY <2>1, <2>2 DEF Said
    <2> QED
      BY <1>3, <2>1, <2>3
  <1>8. ASSUME NEW c \in Calls, Receive(c)
        PROVE  [Ideal!Next]_(Ideal!vars)
    <2>1. /\ call'[c].reply = call[c].reply
          /\ \A d \in Calls \ {c} : call'[d] = call[d]
          /\ UNCHANGED <<bucket, clock, charged>>
      BY <1>8 DEF Receive, Ended, TypeOK
    <2>2. verdict' = verdict
      BY <2>1 DEF Said
    <2> QED
      BY <1>3, <2>1, <2>2
  <1>9. ASSUME Rest \/ Restart
        PROVE  [Ideal!Next]_(Ideal!vars)
    <2>1. credit' = credit /\ UNCHANGED <<call, charged>>
      BY <1>2, <1>9 DEF Rest, Restart, vars
    <2> QED
      BY <2>1 DEF Ideal!vars, Said
  <1>10. ASSUME NEW m \in net, NoScript(m) \/ LoadScript(m)
         PROVE  [Ideal!Next]_(Ideal!vars)
    <2>1. PICK word \in {"noscript", "loaded"} :
            Answers(m, [NoReply EXCEPT !.verdict = word])
      BY <1>10 DEF NoScript, LoadScript
    <2>2. m.call \in Calls /\ UNCHANGED <<bucket, clock, charged>>
      BY <1>10, Running DEF NoScript, LoadScript
    <2>3. verdict' = verdict \/ verdict' = [verdict EXCEPT ![m.call] = "none"]
      <3>1. CASE call' = call
        BY <3>1 DEF Said
      <3>2. CASE call' = [call EXCEPT ![m.call].reply = [NoReply EXCEPT !.verdict = word]]
        <4>1. /\ call'[m.call].reply.verdict = word
              /\ \A d \in Calls \ {m.call} : call'[d] = call[d]
          BY <2>2, <3>2 DEF TypeOK, CallState, NoReply
        <4> QED
          BY <2>2, <4>1 DEF Said
      <3> QED
        BY <2>1, <3>1, <3>2 DEF Answers
    <2> QED
      BY <1>3, <2>2, <2>3
  <1> QED
    BY <1>4, <1>5, <1>6, <1>7, <1>8, <1>9, <1>10
    DEF Next, GiveUp, ConnectionError

\* The lazily refilled bucket with its expiring key implements the ideal one: every step
\* but the run of a late command is one of a bucket that refills continuously and is
\* never forgotten, also after late commands have run (redis_service.py:7-10).
THEOREM ImplementsIdeal == Spec => ImplementsIdealBucket
  <1> QED
    BY IdealInit, IdealStep, TypeCorrect, AlwaysTimely, PTL
    DEF Spec, ImplementsIdealBucket

\* Without late commands, the script is the ideal bucket (redis_service.py:7-10).
THEOREM PunctualIsIdeal == PunctualSpec => Ideal!Spec
  <1>1. TypeOK /\ Timely /\ [Next /\ Punctual]_vars => [Ideal!Next]_(Ideal!vars)
    <2>1. UNCHANGED vars => UNCHANGED Ideal!vars
      BY DEF vars, Ideal!vars, Credit, Loaded, Live, Refilled, Said
    <2> QED
      BY <2>1, IdealStep
  <1> QED
    BY <1>1, IdealInit, PunctualIsSpec, TypeCorrect, AlwaysTimely, PTL
    DEF PunctualSpec, Ideal!Spec
=============================================================================
