-------------------------------- MODULE Lifespan --------------------------------
(***************************************************************************)
(* The life of the worker processes: startup, probes and shutdown          *)
(* (app/main.py:59-83, app/services/database.py:53-81,                     *)
(* app/services/redis_service.py:32-58, app/api/routes/health.py).         *)
(*                                                                         *)
(* The workers start side by side and create the tables in the same        *)
(* database.  PostgreSQL lets a second CREATE TABLE wait for the           *)
(* transaction of the first, and refuses it once that one has committed.   *)
(* Redis and the database go down and come back at any time, the pool of a *)
(* worker fills up and empties at any time, by what its other requests and *)
(* tasks do (ThreatLog), and a worker may be killed and replaced at any    *)
(* time.                                                                   *)
(***************************************************************************)
EXTENDS Naturals

CONSTANTS
  Workers,
  None, Orphan,   \* no transaction, and one whose process is gone
  MaxFaults       \* bound on outages, full pools and kills

ASSUME LifespanAssumption ==
  /\ None \notin Workers /\ Orphan \notin Workers /\ None # Orphan
  /\ MaxFaults \in Nat

VARIABLES
  up,         \* whether Redis and the database are up
  faults,     \* outages, full pools and kills so far
  outage,     \* whether the database has ever been down
  tables,     \* whether the tables are committed
  creator,    \* whose transaction has created tables and not ended
  pc,         \* where each worker is in its life
  announced,  \* what it logged of its database
  client,     \* its Redis client
  stale,      \* whether the client may hold connections that an outage has cut
  crowded,    \* the workers that have all connections of their pool in use
  probe,      \* the probe in flight, or the last one answered
  report,     \* what it says of the services, and its status code
  seen        \* what was up and down while it ran, and whether its session was cut
              \* and its worker's pool full

startup == <<outage, tables, creator, announced>>
probing == <<probe, report, seen>>
vars == <<up, faults, outage, tables, creator, pc, announced, client, stale, crowded, probing>>

Services == {"redis", "database"}
Starting == {"connecting", "checking", "creating", "committing", "broken"}
Status == {"unknown", "healthy", "unhealthy"}

NoProbe == [worker |-> None, kind |-> "health", at |-> "idle"]
NoReport == [redis |-> "unknown", database |-> "unknown", code |-> 200]

TypeOK ==
  /\ up \in [Services -> BOOLEAN]
  /\ faults \in 0 .. MaxFaults
  /\ outage \in BOOLEAN
  /\ tables \in BOOLEAN
  /\ creator \in Workers \cup {None, Orphan}
  /\ creator \in Workers => pc[creator] = "committing" /\ ~tables
  /\ pc \in [Workers -> Starting \cup {"down", "serving", "draining", "closing", "stopped"}]
  /\ announced \in [Workers -> {"nothing", "ready", "warning"}]
  /\ client \in [Workers -> {"none", "open", "closing", "lost"}]
  /\ stale \in [Workers -> BOOLEAN]
  /\ crowded \subseteq Workers
  /\ probe \in [worker : Workers \cup {None}, kind : {"health", "ready"},
                at : {"idle", "redis", "database", "commit", "answered"}]
  /\ report \in [redis : Status, database : Status, code : {200, 503}]
  /\ seen \in [up : SUBSET Services, down : SUBSET Services, cut : BOOLEAN, full : BOOLEAN]

Init ==
  /\ up \in [Services -> BOOLEAN]
  /\ faults = 0
  /\ outage = ~up["database"]
  /\ tables \in BOOLEAN
  /\ creator = None
  /\ pc = [w \in Workers |-> "down"]
  /\ announced = [w \in Workers |-> "nothing"]
  /\ client = [w \in Workers |-> "none"]
  /\ stale = [w \in Workers |-> FALSE]
  /\ crowded = {}
  /\ probe = NoProbe
  /\ report = NoReport
  /\ seen = [up |-> {}, down |-> {}, cut |-> FALSE, full |-> FALSE]

-----------------------------------------------------------------------------
(* Startup: init_db and create_tables.                                     *)

Goes(w, from, to) == pc[w] = from /\ pc' = [pc EXCEPT ![w] = to]

Announces(w, word) == announced' = [announced EXCEPT ![w] = word]

\* Mutant of Start: create_tables is started and not awaited.
StartAtOnce(w) ==
  /\ Goes(w, "down", "serving")
  /\ Announces(w, "ready")
  /\ UNCHANGED <<up, faults, outage, tables, creator, client, stale, crowded, probing>>

\* The engine is made; it connects when it is used.
Start(w) ==
  /\ Goes(w, "down", "connecting")
  /\ UNCHANGED <<up, faults, startup, client, stale, crowded, probing>>

\* _engine.begin(): a connection and a transaction, or an error.
Connect(w) ==
  /\ Goes(w, "connecting", IF up["database"] THEN "checking" ELSE "broken")
  /\ UNCHANGED <<up, faults, startup, client, stale, crowded, probing>>

\* create_all looks whether the tables exist.
Check(w) ==
  /\ Goes(w, "checking", IF tables THEN "committing" ELSE "creating")
  /\ UNCHANGED <<up, faults, startup, client, stale, crowded, probing>>

\* CREATE TABLE, as soon as no other transaction has one that is undecided.
Create(w) ==
  /\ creator = None
  /\ ~tables
  /\ Goes(w, "creating", "committing")
  /\ creator' = w
  /\ UNCHANGED <<up, faults, outage, tables, announced, client, stale, crowded, probing>>

\* The tables exist by now: CREATE TABLE fails.
Conflict(w) ==
  /\ tables
  /\ Goes(w, "creating", "broken")
  /\ UNCHANGED <<up, faults, startup, client, stale, crowded, probing>>

\* The transaction commits, the worker logs database_ready and serves.
CommitTables(w) ==
  /\ Goes(w, "committing", "serving")
  /\ tables' = TRUE
  /\ creator' = IF creator = w THEN None ELSE creator
  /\ Announces(w, "ready")
  /\ UNCHANGED <<up, faults, outage, client, stale, crowded, probing>>

\* Mutant of ServeAnyway: the worker tries until it has made the tables.
TryAgain(w) ==
  /\ Goes(w, "broken", "connecting")
  /\ UNCHANGED <<up, faults, startup, client, stale, crowded, probing>>

\* Any error is a warning: the worker serves all the same.
ServeAnyway(w) ==
  /\ Goes(w, "broken", "serving")
  /\ Announces(w, "warning")
  /\ UNCHANGED <<up, faults, outage, tables, creator, client, stale, crowded, probing>>

-----------------------------------------------------------------------------
(* Probes: GET /health and GET /ready.                                     *)

\* One probe at a time, as one supervisor sends them.
Begin(w, kind) ==
  /\ pc[w] = "serving"
  /\ probe.at \in {"idle", "answered"}
  /\ probe' = [worker |-> w, kind |-> kind, at |-> "redis"]
  /\ report' = NoReport
  /\ seen' = [up |-> {s \in Services : up[s]}, down |-> {s \in Services : ~up[s]},
              cut |-> FALSE, full |-> w \in crowded]
  /\ UNCHANGED <<up, faults, startup, pc, client, stale, crowded>>

At(w, place) == probe.worker = w /\ probe.at = place

\* A service is well, and the probe goes on to what comes next.
Passes(redis, database, next) ==
  /\ probe' = [probe EXCEPT !.at = next]
  /\ report' = [redis |-> redis, database |-> database, code |-> report.code]

\* A service is not: that ends /ready, and /health goes on.
Fails(redis, database, next) ==
  /\ probe' = [probe EXCEPT !.at = IF probe.kind = "ready" THEN "answered" ELSE next]
  /\ report' = [redis |-> redis, database |-> database, code |-> 503]

\* Mutant of PingRedis: without socket_timeout, a ping waits until Redis is back.
PingRedisPatiently(w) ==
  /\ At(w, "redis")
  /\ up["redis"]
  /\ client' = [client EXCEPT ![w] = IF @ = "none" THEN "open" ELSE @]
  /\ Passes("healthy", report.database, "database")
  /\ UNCHANGED <<up, faults, startup, pc, stale, crowded, seen>>

\* The client is made by whoever first needs it.  A ping may fail on a connection
\* that an earlier outage has cut.
PingRedis(w) ==
  /\ At(w, "redis")
  /\ client' = [client EXCEPT ![w] = IF @ = "none" THEN "open" ELSE @]
  /\ \/ up["redis"] /\ Passes("healthy", report.database, "database")
     \/ (~up["redis"] \/ stale[w]) /\ Fails("unhealthy", report.database, "database")
  /\ UNCHANGED <<up, faults, startup, pc, stale, crowded, seen>>

\* SELECT 1, over a connection the pool has tried (pool_pre_ping), or an error: that
\* of the database, or the pool's own, for want of a free connection.
Select(w) ==
  /\ At(w, "database")
  /\ \/ up["database"] /\ w \notin crowded /\ Passes(report.redis, "healthy", "commit")
     \/ (~up["database"] \/ w \in crowded) /\ Fails(report.redis, "unhealthy", "answered")
  /\ UNCHANGED <<up, faults, startup, pc, client, stale, crowded, seen>>

\* Mutant of CommitProbe: the error is noted and the code not changed.
CommitProbeAnyway(w) ==
  /\ At(w, "commit")
  /\ Passes(report.redis, IF seen.cut THEN "unhealthy" ELSE "healthy", "answered")
  /\ UNCHANGED <<up, faults, startup, pc, client, stale, crowded, seen>>

\* The session commits after the body of the loop; an error there counts as well.
CommitProbe(w) ==
  /\ At(w, "commit")
  /\ IF seen.cut THEN Fails(report.redis, "unhealthy", "answered")
     ELSE Passes(report.redis, report.database, "answered")
  /\ UNCHANGED <<up, faults, startup, pc, client, stale, crowded, seen>>

-----------------------------------------------------------------------------
(* Shutdown: close_db and close_redis_client.                              *)

InFlight == probe.at \in {"redis", "database", "commit"}
Busy(w) == InFlight /\ probe.worker = w

\* The server is told to stop: it accepts no request any more.
Signal(w) ==
  /\ Goes(w, "serving", "draining")
  /\ UNCHANGED <<up, faults, startup, client, stale, crowded, probing>>

\* Mutant of CloseDb: the requests in flight are not waited for.
CloseDbEarly(w) ==
  /\ Goes(w, "draining", "closing")
  /\ UNCHANGED <<up, faults, startup, client, stale, crowded, probing>>

\* Once no request is in flight, the lifespan goes on: the pool is disposed of.
CloseDb(w) ==
  /\ ~Busy(w)
  /\ Goes(w, "draining", "closing")
  /\ UNCHANGED <<up, faults, startup, client, stale, crowded, probing>>

\* The connections of the client are closed, over several awaits ...
CloseRedis(w) ==
  /\ pc[w] = "closing"
  /\ client[w] = "open"
  /\ client' = [client EXCEPT ![w] = "closing"]
  /\ UNCHANGED <<up, faults, startup, pc, stale, crowded, probing>>

\* ... which cut ones can make time out: the shutdown ends there, with the error ...
CloseFails(w) ==
  /\ client[w] = "closing"
  /\ stale[w]
  /\ Goes(w, "closing", "stopped")
  /\ client' = [client EXCEPT ![w] = "lost"]
  /\ UNCHANGED <<up, faults, startup, stale, crowded, probing>>

\* ... or it is forgotten, once they are closed.
ForgetRedis(w) ==
  /\ client[w] # "open"
  /\ Goes(w, "closing", "stopped")
  /\ client' = [client EXCEPT ![w] = "none"]
  /\ UNCHANGED <<up, faults, startup, stale, crowded, probing>>

-----------------------------------------------------------------------------
(* Outages, full pools and kills.                                          *)

Fault == faults < MaxFaults /\ faults' = faults + 1

RedisDown ==
  /\ Fault
  /\ up["redis"]
  /\ up' = [up EXCEPT !["redis"] = FALSE]
  /\ stale' = [w \in Workers |-> stale[w] \/ client[w] \in {"open", "closing"}]
  /\ seen' = IF InFlight THEN [seen EXCEPT !.down = @ \cup {"redis"}] ELSE seen
  /\ UNCHANGED <<startup, pc, client, crowded, probe, report>>

\* Every connection is cut and every transaction ends: a commit that was under way
\* may have been done.
DatabaseDown ==
  /\ Fault
  /\ up["database"]
  /\ up' = [up EXCEPT !["database"] = FALSE]
  /\ pc' = [w \in Workers |->
              IF pc[w] \in {"checking", "creating", "committing"} THEN "broken" ELSE pc[w]]
  /\ creator' = None
  /\ outage' = TRUE
  /\ tables' \in {tables, tables \/ creator \in Workers}
  /\ seen' = IF InFlight
             THEN [seen EXCEPT !.down = @ \cup {"database"},
                               !.cut = @ \/ probe.at = "commit"]
             ELSE seen
  /\ UNCHANGED <<announced, client, stale, crowded, probe, report>>

Recover(service) ==
  /\ ~up[service]
  /\ up' = [up EXCEPT ![service] = TRUE]
  /\ seen' = IF InFlight THEN [seen EXCEPT !.up = @ \cup {service}] ELSE seen
  /\ UNCHANGED <<faults, startup, pc, client, stale, crowded, probe, report>>

\* The requests and tasks of a worker take the last connection of its pool ...
PoolFills(w) ==
  /\ Fault
  /\ w \notin crowded
  /\ pc[w] \in {"serving", "draining"}
  /\ crowded' = crowded \cup {w}
  /\ seen' = IF Busy(w) THEN [seen EXCEPT !.full = TRUE] ELSE seen
  /\ UNCHANGED <<up, startup, pc, client, stale, probe, report>>

\* ... and return one.
PoolEmpties(w) ==
  /\ w \in crowded
  /\ crowded' = crowded \ {w}
  /\ UNCHANGED <<up, faults, startup, pc, client, stale, probing>>

\* Mutant of Kill: nobody ends the transaction of the process.
KillUnnoticed(w) ==
  /\ Fault
  /\ pc[w] \notin {"down", "stopped"}
  /\ pc' = [pc EXCEPT ![w] = "down"]
  /\ Announces(w, "nothing")
  /\ client' = [client EXCEPT ![w] = "none"]
  /\ stale' = [stale EXCEPT ![w] = FALSE]
  /\ crowded' = crowded \ {w}
  /\ IF probe.worker = w THEN probe' = NoProbe /\ report' = NoReport /\ UNCHANGED seen
     ELSE UNCHANGED probing
  /\ UNCHANGED <<up, outage, tables, creator>>

\* The process is gone with all it holds; its transaction, if its commit has not
\* been received, is open until the server notices.
Kill(w) ==
  /\ Fault
  /\ pc[w] \notin {"down", "stopped"}
  /\ pc' = [pc EXCEPT ![w] = "down"]
  /\ Announces(w, "nothing")
  /\ client' = [client EXCEPT ![w] = "none"]
  /\ stale' = [stale EXCEPT ![w] = FALSE]
  /\ crowded' = crowded \ {w}
  /\ IF probe.worker = w THEN probe' = NoProbe /\ report' = NoReport /\ UNCHANGED seen
     ELSE UNCHANGED probing
  /\ IF creator = w
     THEN \/ creator' = Orphan /\ UNCHANGED tables
          \/ creator' = None /\ tables' = TRUE
     ELSE UNCHANGED <<tables, creator>>
  /\ UNCHANGED <<up, outage>>

\* PostgreSQL rolls back the transaction of a client that is gone.
RollBack ==
  /\ creator = Orphan
  /\ creator' = None
  /\ UNCHANGED <<up, faults, outage, tables, pc, announced, client, stale, crowded, probing>>

Rest == (\A w \in Workers : pc[w] = "stopped") /\ UNCHANGED vars

Startup(w) ==
  \/ Connect(w) \/ Check(w) \/ Create(w) \/ Conflict(w) \/ CommitTables(w)
  \/ ServeAnyway(w)
Answer(w) == PingRedis(w) \/ Select(w) \/ CommitProbe(w)
Shutdown(w) == CloseDb(w) \/ CloseRedis(w) \/ CloseFails(w) \/ ForgetRedis(w)

Next ==
  \/ \E w \in Workers :
       \/ Start(w) \/ Startup(w)
       \/ \E kind \in {"health", "ready"} : Begin(w, kind)
       \/ Answer(w)
       \/ Signal(w) \/ Shutdown(w)
       \/ PoolFills(w) \/ PoolEmpties(w)
       \/ Kill(w)
  \/ RedisDown \/ DatabaseDown
  \/ \E service \in Services : Recover(service)
  \/ RollBack
  \/ Rest

Spec == Init /\ [][Next]_vars

\* Redis and the database answer, or their connections fail; the event loop goes
\* on, and a transaction whose client is gone ends.  Nothing is assumed to recover.
Fairness ==
  /\ \A w \in Workers :
       WF_vars(Startup(w)) /\ WF_vars(Answer(w)) /\ WF_vars(Shutdown(w))
  /\ WF_vars(RollBack)

FairSpec == Spec /\ Fairness

-----------------------------------------------------------------------------
(* Properties.                                                             *)

\* A worker that logs database_ready has tables, whatever fails and whoever made
\* them; and until the database first goes down, every worker that serves has tables,
\* also one that lost the race to create them, or waited for a worker that was killed,
\* and logs a warning (main.py:69-74, database.py:74-81).
ServesWithTables ==
  \A w \in Workers :
    /\ announced[w] = "ready" => tables
    /\ pc[w] = "serving" /\ announced[w] = "warning" =>
         tables \/ outage

\* A probe answers 200 only if both services were up while it ran, and 503 only if
\* one was down while it ran, or if the worker holds Redis connections that an
\* earlier outage has cut, or if its pool was full; /health blames the database only
\* if it was down or the pool full (health.py:38-119, database.py:38-45).
ProbesTellTheTruth ==
  probe.at = "answered" =>
    /\ report.code = 200 => seen.up = Services
    /\ report.code = 503 => seen.down # {} \/ stale[probe.worker] \/ seen.full
    /\ report.database = "unhealthy" => "database" \in seen.down \/ seen.full
    /\ probe.kind = "health" =>
         (report.code = 200 <=> report.redis = "healthy" /\ report.database = "healthy")

\* No request uses a client that is being closed or makes a new one that nobody
\* closes: a stopped worker leaves no client behind, but one whose connections an
\* outage has cut and that could not be closed (redis_service.py:51-58, main.py:81-82).
NoClientLeftBehind ==
  \A w \in Workers :
    /\ client[w] = "closing" => ~Busy(w)
    /\ pc[w] = "stopped" => client[w] = "none" \/ (client[w] = "lost" /\ stale[w])

\* No start waits forever for another's: not for a transaction that is kept open,
\* and not for that of a worker that was killed in it.
EveryStartEnds == \A w \in Workers : pc[w] \in Starting ~> pc[w] \notin Starting

\* A worker that was told to stop stops, though the requests it waits for wait for Redis
\* and the database, and these may be down and never come back, or go down while the
\* pool or the client is being closed (main.py:80-82, redis_service.py:39-41).
EveryStopEnds ==
  \A w \in Workers : pc[w] \in {"draining", "closing"} ~> pc[w] \in {"stopped", "down"}
=============================================================================
