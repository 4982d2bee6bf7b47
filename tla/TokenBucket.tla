------------------------------ MODULE TokenBucket ------------------------------
(***************************************************************************)
(* The rate limiter's token bucket: app/services/redis_service.py.         *)
(*                                                                         *)
(* A call of TokenBucketRateLimiter.check reads the wall clock in the      *)
(* gateway process, sends the Lua script with that timestamp to Redis and  *)
(* waits for the answer.  Redis runs the script atomically, but whenever   *)
(* the command gets to run: between the reading of the clock and the run   *)
(* other calls, of this worker or of another, may run theirs.  The client  *)
(* gives up on an attempt after socket_timeout, sends the same command     *)
(* once more (retry_on_timeout) and then raises; a command it gave up on   *)
(* may still run.  A Redis that does not know the script, a new or a       *)
(* restarted one, answers NOSCRIPT: redis-py then sends SCRIPT LOAD, and   *)
(* the script's command again, each with two attempts of its own.          *)
(*                                                                         *)
(* Arithmetic is exact.  Time is counted in ticks, tokens in units of      *)
(* 1/Window token, so that a bucket refills MaxTokens units per tick and a *)
(* request costs Window units.                                             *)
(***************************************************************************)
EXTENDS Integers

CONSTANTS
  Clients,         \* bucket identifiers ("ip:..." or "apikey:...")
  Calls,           \* calls of check(), each made at most once
  Caller,          \* the identifier each call checks
  MaxTokens,       \* RATE_LIMIT_REQUESTS
  WindowSeconds,   \* RATE_LIMIT_WINDOW_SECONDS
  TicksPerSecond,  \* resolution of the clock
  SocketTimeout,   \* socket_timeout of the Redis client, in ticks
  AttemptTimeout,  \* the longest an attempt takes, connecting included
  StartBy,         \* bound: calls start no later than this tick
  MaxClock,        \* bound: the last tick
  NoBucket         \* what HMGET finds under an absent key

ASSUME ParametersAssumption ==
  /\ Caller \in [Calls -> Clients]
  /\ MaxTokens \in Nat
  /\ WindowSeconds \in Nat \ {0}
  /\ TicksPerSecond \in Nat \ {0}
  /\ SocketTimeout \in Nat \ {0}
  /\ AttemptTimeout \in Nat
  /\ AttemptTimeout >= SocketTimeout
  /\ StartBy \in Nat
  /\ MaxClock \in Nat
  /\ NoBucket \notin [tokens : Nat, last_refill : Nat, expires_at : Int]

-----------------------------------------------------------------------------
(* Units and the arithmetic of the Lua script.                             *)

Window == WindowSeconds * TicksPerSecond
Token == Window
Capacity == MaxTokens * Window

\* Mutant of TTL: the time an empty bucket needs to fill up, once.
TTLOnce == Window

\* Expiry of an idle key: twice the time an empty bucket needs to fill up.
TTL == 2 * Window
NoTTL == -1

Ceil(a, b) == (a + b - 1) \div b
AtLeast(a, b) == IF a >= b THEN a ELSE b
AtMost(a, b) == IF a <= b THEN a ELSE b

\* The bucket, as a script called with timestamp now finds it refilled.
Refilled(b, now) ==
  AtMost(Capacity, b.tokens + MaxTokens * AtLeast(0, now - b.last_refill))

Allows(b, now) == Refilled(b, now) >= Token

\* Mutant of Left: a denial takes a token too.
LeftAnyway(b, now) == Refilled(b, now) - Token

\* Tokens left in the bucket after a call with timestamp now.
Left(b, now) == Refilled(b, now) - (IF Allows(b, now) THEN Token ELSE 0)

\* Mutant of RetryAfter: rounded down.
RetryAfterFloor(tokens) == (Token - tokens) \div (MaxTokens * TicksPerSecond)

\* Whole seconds until a bucket with this many tokens holds one token.
RetryAfter(tokens) == Ceil(Token - tokens, MaxTokens * TicksPerSecond)

-----------------------------------------------------------------------------
VARIABLES
  clock,    \* the time, read by the gateway and by Redis
  known,    \* Redis: whether it knows the script
  bucket,   \* Redis: the hash stored under each identifier's key
  call,     \* the state of each call of check()
  net,      \* commands sent and not yet run; one that never runs is lost
  hist,     \* history: what each bucket admitted since it was created
  charged   \* history: how often each call's command took a token

vars == <<clock, known, bucket, call, net, hist, charged>>

Bucket == [tokens : 0 .. Capacity, last_refill : Nat, expires_at : Nat \cup {NoTTL}]

\* What Redis answers: a run of the script ("error" is a ResponseError raised by
\* redis-py), NOSCRIPT, or that it has loaded the script.
Verdicts == {"none", "allowed", "denied", "error", "noscript", "loaded"}
Reply == [verdict : Verdicts, remaining : Nat, retry_after : Nat]
NoReply == [verdict |-> "none", remaining |-> 0, retry_after |-> 0]

\* The commands of a call: EVALSHA, and after NOSCRIPT SCRIPT LOAD and EVALSHA again.
Steps == {"run", "load", "rerun"}

Command == [call : Calls, step : Steps, attempt : {1, 2}, now : Nat]

CallState ==
  [pc : {"idle", "waiting", "returned", "raised"},
   now : Nat, step : Steps, attempt : 0 .. 2, sent_at : Nat, reply : Reply]

History == [admitted : Nat, born : Nat, rewound : Nat]

TypeOK ==
  /\ clock \in 0 .. MaxClock
  /\ known \in BOOLEAN
  /\ bucket \in [Clients -> Bucket \cup {NoBucket}]
  /\ call \in [Calls -> CallState]
  /\ net \subseteq Command
  /\ hist \in [Clients -> History]
  /\ charged \in [Calls -> Nat]

Init ==
  /\ clock = 0
  /\ known \in BOOLEAN
  /\ bucket = [k \in Clients |-> NoBucket]
  /\ call = [c \in Calls |->
               [pc |-> "idle", now |-> 0, step |-> "run", attempt |-> 0, sent_at |-> 0,
                reply |-> NoReply]]
  /\ net = {}
  /\ hist = [k \in Clients |-> [admitted |-> 0, born |-> 0, rewound |-> 0]]
  /\ charged = [c \in Calls |-> 0]

-----------------------------------------------------------------------------
(* Redis.                                                                  *)

\* A key whose TTL has run out reads as absent.
Live(k) ==
  /\ bucket[k] # NoBucket
  /\ bucket[k].expires_at = NoTTL \/ clock < bucket[k].expires_at

\* Lines 75-77: the stored bucket, or a full one when the key is absent.
Loaded(k, now) ==
  IF Live(k)
  THEN [tokens |-> bucket[k].tokens, last_refill |-> bucket[k].last_refill]
  ELSE [tokens |-> Capacity, last_refill |-> now]

\* With max_tokens = 0 the TTL is ceil(0/0), EXPIRE refuses it, and the
\* script aborts with its HMSET already done.
ExpireFails == MaxTokens = 0

\* Mutant of Stored: HMSET without last_refill.
StoredUndated(b, now) ==
  [tokens      |-> Left(b, now),
   last_refill |-> b.last_refill,
   expires_at  |-> IF ExpireFails THEN NoTTL ELSE clock + TTL]

\* The bucket as HMSET and EXPIRE leave it.
Stored(b, now) ==
  [tokens      |-> Left(b, now),
   last_refill |-> now,
   expires_at  |-> IF ExpireFails THEN NoTTL ELSE clock + TTL]

Answer(b, now) ==
  IF ExpireFails THEN [NoReply EXCEPT !.verdict = "error"]
  ELSE IF Allows(b, now)
       THEN [verdict |-> "allowed", remaining |-> Left(b, now) \div Token,
             retry_after |-> 0]
       ELSE [verdict |-> "denied", remaining |-> 0,
             retry_after |-> RetryAfter(Left(b, now))]

\* The history of a bucket: tokens it handed out, since when, and by how
\* much later runs have moved its refill time back.
Recorded(k, b, now) ==
  LET one == IF Allows(b, now) THEN 1 ELSE 0 IN
  IF Live(k)
  THEN [admitted |-> hist[k].admitted + one,
        born     |-> hist[k].born,
        rewound  |-> hist[k].rewound + AtLeast(0, b.last_refill - now)]
  ELSE [admitted |-> one, born |-> now, rewound |-> 0]

\* An answer reaches its call only if that still waits on this attempt: a timed out
\* attempt's connection is closed.
Awaited(m) ==
  LET waiting == call[m.call]
  IN waiting.pc = "waiting" /\ waiting.step = m.step /\ waiting.attempt = m.attempt

Answers(m, reply) ==
  /\ net' = net \ {m}
  /\ call' = IF Awaited(m) THEN [call EXCEPT ![m.call].reply = reply] ELSE call

\* Redis runs the script for a command.
RunScript(m) ==
  LET c == m.call
      k == Caller[c]
      now == m.now
      b == Loaded(k, now)
  IN /\ m.step # "load"
     /\ known
     /\ Answers(m, Answer(b, now))
     /\ bucket' = [bucket EXCEPT ![k] = Stored(b, now)]
     /\ hist' = [hist EXCEPT ![k] = Recorded(k, b, now)]
     /\ charged' = [charged EXCEPT ![c] = @ + (IF Allows(b, now) THEN 1 ELSE 0)]
     /\ UNCHANGED <<clock, known>>

\* Redis does not know the script ...
NoScript(m) ==
  /\ m.step # "load"
  /\ ~known
  /\ Answers(m, [NoReply EXCEPT !.verdict = "noscript"])
  /\ UNCHANGED <<clock, known, bucket, hist, charged>>

\* ... and is told it.
LoadScript(m) ==
  /\ m.step = "load"
  /\ known' = TRUE
  /\ Answers(m, [NoReply EXCEPT !.verdict = "loaded"])
  /\ UNCHANGED <<clock, bucket, hist, charged>>

\* Redis restarts: it forgets scripts, and its connections are cut with the commands
\* on them.  Buckets that it has not saved are gone as after Reset.
Restart ==
  /\ known' = FALSE
  /\ net' = {}
  /\ UNCHANGED <<clock, bucket, call, hist, charged>>

\* reset(identifier) deletes the key; so does Redis when it evicts it
\* (maxmemory-policy allkeys-lru) or has lost it in a restart.
Reset(k) ==
  /\ bucket[k] # NoBucket
  /\ bucket' = [bucket EXCEPT ![k] = NoBucket]
  /\ UNCHANGED <<clock, known, call, net, hist, charged>>

-----------------------------------------------------------------------------
(* The client side: check() and the Redis connection it waits on.          *)

\* A command of a call is sent, with the timestamp the call has read.
Sends(c, step, attempt, now) ==
  /\ call' = [call EXCEPT ![c] = [pc |-> "waiting", now |-> now, step |-> step,
                                  attempt |-> attempt, sent_at |-> clock,
                                  reply |-> NoReply]]
  /\ net' = net \cup {[call |-> c, step |-> step, attempt |-> attempt, now |-> now]}
  /\ UNCHANGED <<clock, known, bucket, hist, charged>>

\* check() reads the clock and sends the script.
Check(c) ==
  /\ call[c].pc = "idle"
  /\ clock <= StartBy
  /\ Sends(c, "run", 1, clock)

Told(c, verdict) == call[c].pc = "waiting" /\ call[c].reply.verdict = verdict

\* redis-py loads a script that Redis does not know ...
Reload(c) ==
  /\ Told(c, "noscript")
  /\ call[c].step = "run"
  /\ Sends(c, "load", 1, call[c].now)

\* ... and sends it again.
Rerun(c) ==
  /\ Told(c, "loaded")
  /\ call[c].step = "load"
  /\ Sends(c, "rerun", 1, call[c].now)

\* A call that is over keeps its outcome and what it has sent.
Ended(c, pc, reply) ==
  [pc |-> pc, now |-> 0, step |-> call[c].step, attempt |-> call[c].attempt,
   sent_at |-> 0, reply |-> reply]

\* check() unpacks the answer, or the error is raised: the script's, or a second NOSCRIPT.
Receive(c) ==
  /\ \/ /\ Told(c, "allowed") \/ Told(c, "denied")
        /\ call' = [call EXCEPT ![c] = Ended(c, "returned", @.reply)]
     \/ /\ Told(c, "error") \/ (Told(c, "noscript") /\ call[c].step = "rerun")
        /\ call' = [call EXCEPT ![c] = Ended(c, "raised", @.reply)]
  /\ UNCHANGED <<clock, known, bucket, net, hist, charged>>

TimedOut(c) == call[c].pc = "waiting" /\ clock >= call[c].sent_at + SocketTimeout

\* Mutant of Retry: the attempts are not counted.
RetryUncounted(c) ==
  /\ TimedOut(c)
  /\ Sends(c, call[c].step, 1, call[c].now)

\* The first timeout sends the same command again, timestamp included.
Retry(c) ==
  /\ TimedOut(c)
  /\ call[c].attempt = 1
  /\ Sends(c, call[c].step, 2, call[c].now)

\* The second timeout of a command is raised; so is, at any time, a connection error.
Raise(c) ==
  /\ call[c].pc = "waiting"
  /\ call' = [call EXCEPT ![c] = Ended(c, "raised", NoReply)]
  /\ UNCHANGED <<clock, known, bucket, net, hist, charged>>

GiveUp(c) == TimedOut(c) /\ call[c].attempt = 2 /\ Raise(c)
ConnectionError(c) == Raise(c)

\* An attempt that has run into its last deadline is not waited on.
Overdue(c) == call[c].pc = "waiting" /\ clock >= call[c].sent_at + AttemptTimeout

Tick ==
  /\ clock < MaxClock
  /\ \A c \in Calls : ~Overdue(c)
  /\ clock' = clock + 1
  /\ UNCHANGED <<known, bucket, call, net, hist, charged>>

\* The end of a bounded behaviour: no call waits and the clock has run out.
Rest ==
  /\ clock = MaxClock
  /\ \A c \in Calls : call[c].pc # "waiting"
  /\ UNCHANGED vars

Next ==
  \/ \E c \in Calls :
       \/ Check(c) \/ Reload(c) \/ Rerun(c) \/ Receive(c)
       \/ Retry(c) \/ GiveUp(c) \/ ConnectionError(c)
  \/ \E m \in net : RunScript(m) \/ NoScript(m) \/ LoadScript(m)
  \/ Restart
  \/ \E k \in Clients : Reset(k)
  \/ Tick
  \/ Rest

Spec == Init /\ [][Next]_vars

\* Time passes, and the event loop runs the timeouts that are due.
Fairness ==
  /\ WF_vars(Tick)
  /\ \A c \in Calls : WF_vars(Retry(c)) /\ WF_vars(GiveUp(c))

FairSpec == Spec /\ Fairness

-----------------------------------------------------------------------------
(* Properties.                                                             *)

\* A bucket never hands out more than its capacity plus what it refills at the
\* configured rate, as long as the time counted twice when a late command moves
\* last_refill back (rewound) is granted too: the Lua script of lines 75-96,
\* its cap, its clamped elapsed time and its HMSET on both branches.
AdmissionConserved ==
  \A k \in Clients : bucket[k] # NoBucket =>
    bucket[k].tokens + Token * hist[k].admitted
      <= Capacity + MaxTokens * (bucket[k].last_refill - hist[k].born + hist[k].rewound)

AdmissionBounded ==
  \A k \in Clients : bucket[k] # NoBucket =>
    Token * hist[k].admitted
      <= Capacity + MaxTokens * (clock - hist[k].born + hist[k].rewound)

\* Redis forgets a bucket only when forgetting it changes nothing: once the TTL
\* (line 88, twice the window) has run out, the bucket would be found full even
\* by a command whose timestamp is a whole window old.
ExpiryTransparent ==
  \A k \in Clients : bucket[k] # NoBucket /\ ~Live(k) =>
    Refilled(bucket[k], clock - Window) = Capacity

\* The credit of a client: what its bucket holds if it is refilled now.
Credit(k) == Refilled(Loaded(k, clock), clock)

Charged(k) == \E c \in Calls : Caller[c] = k /\ charged'[c] # charged[c]
KeepsCredit ==
  \A k \in Clients : Credit(k)' >= Credit(k) - (IF Charged(k) THEN Token ELSE 0)

\* Whatever order commands run in, a client loses credit only to requests that
\* were let through, one token each: a denial (lines 92-95) keeps the partial
\* refill, and a late command never takes back what was refilled meanwhile.
NoLostCredit == [][KeepsCredit]_vars

\* The Retry-After a denied client is given (line 92) is exact: after that many
\* seconds without another request it is let through, a second earlier it is not.
RetryAfterExact ==
  MaxTokens > 0 =>
    \A k \in Clients : Live(k) /\ ~Allows(bucket[k], bucket[k].last_refill) =>
      LET wait(s) == bucket[k].last_refill + s * TicksPerSecond
          r == RetryAfter(bucket[k].tokens)
      IN /\ Allows(bucket[k], wait(r))
         /\ ~Allows(bucket[k], wait(r - 1))

\* How many runs of the script a call may have caused: the attempts of its first
\* command, of which one at most has run if the other was told NOSCRIPT, and those of
\* its last.
Runs(c) ==
  (IF call[c].step = "run" THEN call[c].attempt ELSE 1)
    + (IF call[c].step = "rerun" THEN call[c].attempt ELSE 0)

\* A call takes no more tokens than its commands may have run, three at most
\* (retry_on_timeout, line 41, and the reload of the script, line 142), an allowed
\* answer stands for a token taken, and a denied one for a run that took none, whatever
\* earlier attempts took.
ChargesBounded ==
  \A c \in Calls :
    /\ charged[c] <= Runs(c)
    /\ call[c].reply.verdict = "allowed" => charged[c] > 0
    /\ call[c].reply.verdict = "denied" => charged[c] < Runs(c)

\* No request waits for the limiter longer than six attempts may take, two of each of
\* three commands: the limiter cannot hang the gateway (lines 39-41, 142).
BoundedWait ==
  \A c \in Calls : call[c].pc = "waiting" => clock <= call[c].now + 6 * AttemptTimeout

\* Every call of check() returns or raises.
EveryCallEnds ==
  \A c \in Calls : call[c].pc = "waiting" ~> call[c].pc \in {"returned", "raised"}

-----------------------------------------------------------------------------
(* The ideal bucket.                                                       *)

\* The answer a call has to its question, whether or not the script had to be loaded.
Said(c) ==
  LET verdict == call[c].reply.verdict
  IN IF verdict \in {"noscript", "loaded"} THEN "none" ELSE verdict

Ideal == INSTANCE IdealBucket
  WITH Rate <- MaxTokens,
       credit <- [k \in Clients |-> Credit(k)],
       verdict <- [c \in Calls |-> Said(c)]

\* The script runs in the tick its command is stamped with, or does not run.
Punctual == \A m \in net : RunScript(m) => m.now = clock

\* Refilling on demand, by stored timestamps, in keys that expire, is refilling
\* continuously: whatever late commands have done before, every step but the run of
\* a late command is one of the documented bucket (redis_service.py:7-10), and answers
\* are those of the moment they are given.
ImplementsIdealBucket ==
  Ideal!Init /\ [][Punctual => [Ideal!Next]_(Ideal!vars)]_vars

\* An environment without late commands.
PunctualSpec == Init /\ [][Next /\ Punctual]_vars

-----------------------------------------------------------------------------
(* What the documentation and the tests say.                               *)

\* redis_service.py:9: "Tokens refill at a constant rate over the configured
\* window", so that a bucket never hands out more than its capacity and what the
\* time since its creation refills.
ConstantRefillRate ==
  \A k \in Clients : bucket[k] # NoBucket =>
    Token * hist[k].admitted <= Capacity + MaxTokens * (clock - hist[k].born)
=============================================================================
