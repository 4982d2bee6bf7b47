------------------------------- MODULE ShieldFlow -------------------------------
(***************************************************************************)
(* One worker of the gateway: Gateway composed with ThreatLog.             *)
(*                                                                         *)
(* The two meet where a middleware hands its event to fire_and_forget_log  *)
(* (the refusal and the task are one step), where the answer leaves, and   *)
(* at the shutdown, which waits for every request in flight, refused or    *)
(* not.  Requests go on only while the process serves.                     *)
(***************************************************************************)
EXTENDS Naturals, Sequences

CONSTANTS
  Requests, Kinds, Addresses, Keys, None, Whitelist, Limit, Commands,  \* as in Gateway
  MaxConnections                                                       \* as in ThreatLog

VARIABLES
  settings, kind, pc, limiter, waf, id, bound, status, headers,  \* of Gateway
  credit, paid, events, logged,
  healthy, fits, life, task, held, old, rows, handling           \* of ThreatLog

G == INSTANCE Gateway
L == INSTANCE ThreatLog WITH Events <- Requests, Queries <- {}

ASSUME ShieldFlowAssumption ==
  /\ Kinds \subseteq G!RequestKind
  /\ Whitelist \subseteq Addresses
  /\ Addresses \cap Keys = {}
  /\ None \notin Addresses \cup Keys
  /\ {Limit, Commands, MaxConnections} \subseteq Nat \ {0}

gatewayVars ==
  <<settings, kind, pc, limiter, waf, id, bound, status, headers, credit, paid, events,
    logged>>
logVars == <<healthy, fits, life, task, held, old, rows, handling>>
vars == <<gatewayVars, logVars>>

Init == G!Init /\ L!Init

-----------------------------------------------------------------------------
(* Requests.                                                               *)

\* A step of the gateway that neither refuses on record nor answers.
Proceed(r) ==
  /\ life = "running"
  /\ pc[r] # "out"
  /\ G!Step(r)
  /\ UNCHANGED <<events, logVars>>

\* Mutant of Refuse: the event is dropped on the way.
RefuseSilently(r) ==
  /\ life = "running"
  /\ G!Step(r)
  /\ events' # events
  /\ UNCHANGED logVars

\* A 429, or a 403 unless WAF_LOG_BLOCKED is off: the event is handed over before
\* the answer is made.
Refuse(r) ==
  /\ life = "running"
  /\ G!Step(r)
  /\ events' # events
  /\ L!Fire(r)

\* The answer leaves, whatever has become of the event by now.
Answer(r) ==
  /\ life = "running"
  /\ G!Return(r)
  /\ IF r \in handling THEN L!Respond(r) ELSE UNCHANGED logVars

Request(r) == Proceed(r) \/ Refuse(r) \/ Answer(r)

Refill(k) == life = "running" /\ G!Refill(k) /\ UNCHANGED logVars

\* Redis runs a command nobody waits for.
PayUnheard(r) == life = "running" /\ G!PayUnheard(r) /\ UNCHANGED logVars

-----------------------------------------------------------------------------
(* Tasks and the process.                                                  *)

Task(r) ==
  /\ \/ L!Begin(r) \/ L!Connect(r) \/ L!PoolTimeout(r) \/ L!Execute(r)
     \/ L!Refuse(r) \/ L!Close(r) \/ L!FailCommit(r)
  /\ UNCHANGED gatewayVars

InFlight(r) == pc[r] \notin {"new", "done"}

\* Mutant of Stop: it waits only for the requests that are on record.
StopEarly == L!Stop /\ UNCHANGED gatewayVars

\* The server stops once no request is in flight.
Stop ==
  /\ \A r \in Requests : ~InFlight(r)
  /\ L!Stop
  /\ UNCHANGED gatewayVars

End == (L!Dispose \/ L!EndLoop \/ L!Crash) /\ UNCHANGED gatewayVars

Rest == life = "stopped" /\ UNCHANGED vars

Next ==
  \/ \E r \in Requests : Request(r) \/ PayUnheard(r) \/ Task(r)
  \/ \E k \in G!Clients : Refill(k)
  \/ Stop \/ End \/ Rest

Spec == Init /\ [][Next]_vars

\* A request that has arrived goes on: the limiter answers or raises
\* (TokenBucket!EveryCallEnds), a body comes or its client is gone, and a handler
\* ends.  Tasks, pool and database are as fair as in ThreatLog.
Fairness ==
  /\ \A r \in Requests :
       /\ WF_vars(InFlight(r) /\ Request(r))
       /\ WF_vars(L!Begin(r) /\ UNCHANGED gatewayVars)
       /\ WF_vars((L!Connect(r) \/ L!PoolTimeout(r)) /\ UNCHANGED gatewayVars)
       /\ WF_vars((L!Execute(r) \/ L!Refuse(r)) /\ UNCHANGED gatewayVars)
       /\ WF_vars(L!Close(r) /\ UNCHANGED gatewayVars)
  /\ WF_vars((L!Dispose \/ L!EndLoop) /\ UNCHANGED gatewayVars)

FairSpec == Spec /\ Fairness

-----------------------------------------------------------------------------
(* Properties.                                                             *)

\* Whatever becomes of its event, and of the limiter, every request that arrives is
\* answered unless the process is killed: no middleware waits for a recording task
\* (threat_logger.py:112-125), and the shutdown waits for the requests in flight.
EveryRequestAnswered ==
  \A r \in Requests :
    InFlight(r) ~> pc[r] = "done" \/ (life = "stopped" /\ ~healthy)

Outcome(r) ==
  CASE status[r] = 0   -> "open"
    [] status[r] = 429 -> "limited"
    [] status[r] = 403 -> "blocked"
    [] OTHER               -> "served"

Record(r) ==
  CASE rows[r] = 1           -> "kept"
    [] task[r] = "idle"      -> "none"
    [] rows[r] = 0 /\ task[r] \in L!Over -> "lost"
    [] OTHER                 -> "due"

Audit == INSTANCE AuditTrail
  WITH audited <- settings.log_blocked,
       sound   <- {r \in Requests : healthy /\ fits[r]},
       up      <- life # "stopped",
       full    <- \E r \in Requests : L!Full(r),
       outcome <- [r \in Requests |-> Outcome(r)],
       record  <- [r \in Requests |-> Record(r)]

\* Middlewares, tasks nobody awaits, sessions and a pool with a limit keep the
\* record the documentation promises, as far as they can: a refusal and its event
\* are one, and a healthy process that goes on loses none that fits its row, but to
\* a pool whose every connection is in use (rate_limiter.py:103-119, waf.py:96-118,
\* threat_logger.py:26-125, database.py:38-45 and 92-100).
ImplementsAuditTrail == Audit!Spec
=============================================================================
