----------------------------- MODULE LifespanProofs -----------------------------
(***************************************************************************)
(* Theorems about Lifespan, for any number of workers and faults.          *)
(***************************************************************************)
EXTENDS Lifespan, TLAPS

\* Who is about to commit either has created the tables or has found them.
Owned == \A w \in Workers : pc[w] = "committing" => tables \/ creator = w

Typed == TypeOK /\ Owned

\* What every action does to the types of the state.
LEMMA TypedInit == Init => Typed
  BY LifespanAssumption
  DEF Init, Typed, TypeOK, Owned, NoProbe, NoReport, Status

LEMMA StartupTyped ==
  ASSUME Typed, NEW w \in Workers, Start(w) \/ Startup(w)
  PROVE  Typed'
<1> USE LifespanAssumption DEF Typed, TypeOK, Owned, Goes, Announces, Starting, startup, probing
<1>1. CASE Start(w)
  BY <1>1 DEF Start
<1>2. CASE Connect(w)
  BY <1>2 DEF Connect
<1>3. CASE Check(w)
  BY <1>3 DEF Check
<1>4. CASE Create(w)
  BY <1>4 DEF Create
<1>5. CASE Conflict(w)
  BY <1>5 DEF Conflict
<1>6. CASE CommitTables(w)
  BY <1>6 DEF CommitTables
<1>7. CASE ServeAnyway(w)
  BY <1>7 DEF ServeAnyway
<1> QED
  BY <1>1, <1>2, <1>3, <1>4, <1>5, <1>6, <1>7 DEF Startup

LEMMA AnswerTyped ==
  ASSUME Typed, NEW w \in Workers,
         (\E kind \in {"health", "ready"} : Begin(w, kind)) \/ Answer(w)
  PROVE  Typed'
<1> USE LifespanAssumption DEF Typed, TypeOK, Owned, At, Status, startup
<1>1. CASE \E kind \in {"health", "ready"} : Begin(w, kind)
  BY <1>1 DEF Begin, NoReport
<1>2. CASE PingRedis(w)
  BY <1>2 DEF PingRedis, Passes, Fails
<1>3. CASE Select(w)
  BY <1>3 DEF Select, Passes, Fails
<1>4. CASE CommitProbe(w)
  BY <1>4 DEF CommitProbe, Passes, Fails
<1> QED
  BY <1>1, <1>2, <1>3, <1>4 DEF Answer

LEMMA ShutdownTyped ==
  ASSUME Typed, NEW w \in Workers, Signal(w) \/ Shutdown(w)
  PROVE  Typed'
<1> USE LifespanAssumption DEF Typed, TypeOK, Owned, Goes, startup, probing
<1>1. CASE Signal(w)
  BY <1>1 DEF Signal
<1>2. CASE CloseDb(w)
  BY <1>2 DEF CloseDb
<1>3. CASE CloseRedis(w)
  BY <1>3 DEF CloseRedis
<1>4. CASE CloseFails(w)
  BY <1>4 DEF CloseFails
<1>5. CASE ForgetRedis(w)
  BY <1>5 DEF ForgetRedis
<1> QED
  BY <1>1, <1>2, <1>3, <1>4, <1>5 DEF Shutdown

LEMMA FaultTyped ==
  ASSUME Typed, Fault
  PROVE  faults' \in 0 .. MaxFaults
  BY LifespanAssumption DEF Typed, TypeOK, Fault

LEMMA CutTyped ==
  ASSUME NEW S,
         NEW r \in [up : S, down : S, cut : BOOLEAN, full : BOOLEAN],
         NEW down \in S, NEW cut \in BOOLEAN
  PROVE  [r EXCEPT !.down = down, !.cut = cut] \in
            [up : S, down : S, cut : BOOLEAN, full : BOOLEAN]
  OBVIOUS

LEMMA FullTyped ==
  ASSUME NEW S, NEW r \in [up : S, down : S, cut : BOOLEAN, full : BOOLEAN]
  PROVE  [r EXCEPT !.full = TRUE] \in [up : S, down : S, cut : BOOLEAN, full : BOOLEAN]
  OBVIOUS

LEMMA OutageTyped ==
  ASSUME Typed, RedisDown \/ DatabaseDown \/ (\E service \in Services : Recover(service))
  PROVE  Typed'
<1> USE LifespanAssumption DEF Typed, TypeOK, startup, Owned
<1>1. CASE RedisDown
  BY <1>1, FaultTyped DEF RedisDown, Services
<1>2. CASE DatabaseDown
  <2>1. seen' \in [up : SUBSET Services, down : SUBSET Services, cut : BOOLEAN, full : BOOLEAN]
    <3> DEFINE cut == seen.cut \/ probe.at = "commit"
    <3>1. \/ seen' = [seen EXCEPT !.down = seen.down \cup {"database"}, !.cut = cut]
          \/ seen' = seen
      BY <1>2, Zenon DEF DatabaseDown
    <3>2. seen.down \cup {"database"} \in SUBSET Services /\ cut \in BOOLEAN
      BY DEF Services
    <3> HIDE DEF cut
    <3>3. [seen EXCEPT !.down = seen.down \cup {"database"}, !.cut = cut] \in
            [up : SUBSET Services, down : SUBSET Services, cut : BOOLEAN, full : BOOLEAN]
      BY <3>2, CutTyped, Zenon
    <3> QED
      BY <3>1, <3>3
  <2>2. faults' \in 0 .. MaxFaults
    BY <1>2, FaultTyped DEF DatabaseDown
  <2>3. /\ up' = [up EXCEPT !["database"] = FALSE]
        /\ pc' = [w \in Workers |->
                    IF pc[w] \in {"checking", "creating", "committing"}
                    THEN "broken" ELSE pc[w]]
        /\ creator' = None
        /\ outage' = TRUE
        /\ tables' \in BOOLEAN
        /\ UNCHANGED <<announced, client, stale, crowded, probe, report>>
    BY <1>2 DEF DatabaseDown
  <2> QED
    BY <2>1, <2>2, <2>3 DEF Services, Starting
<1>3. ASSUME NEW service \in Services, Recover(service)
      PROVE  Typed'
  BY <1>3 DEF Recover
<1> QED
  BY <1>1, <1>2, <1>3

LEMMA PoolTyped ==
  ASSUME Typed, NEW w \in Workers, PoolFills(w) \/ PoolEmpties(w)
  PROVE  Typed'
<1> USE LifespanAssumption DEF Typed, TypeOK, Owned, startup, probing
<1>1. CASE PoolFills(w)
  <2>1. seen' \in [up : SUBSET Services, down : SUBSET Services, cut : BOOLEAN, full : BOOLEAN]
    <3>1. seen' = [seen EXCEPT !.full = TRUE] \/ seen' = seen
      BY <1>1, Zenon DEF PoolFills
    <3>2. [seen EXCEPT !.full = TRUE] \in
            [up : SUBSET Services, down : SUBSET Services, cut : BOOLEAN, full : BOOLEAN]
      BY FullTyped, Zenon
    <3> QED
      BY <3>1, <3>2, Zenon
  <2>2. faults' \in 0 .. MaxFaults
    BY <1>1, FaultTyped DEF PoolFills
  <2>3. /\ crowded' = crowded \cup {w}
        /\ UNCHANGED <<up, startup, pc, client, stale, probe, report>>
    BY <1>1 DEF PoolFills
  <2> QED
    BY <2>1, <2>2, <2>3
<1>2. CASE PoolEmpties(w)
  BY <1>2 DEF PoolEmpties
<1> QED
  BY <1>1, <1>2

LEMMA CreatorTyped ==
  ASSUME creator \in Workers \cup {None, Orphan},
         creator' = Orphan \/ creator' = None \/ creator' = creator
  PROVE  creator' \in Workers \cup {None, Orphan}
  OBVIOUS

LEMMA KillTyped ==
  ASSUME Typed, (\E w \in Workers : Kill(w)) \/ RollBack
  PROVE  Typed'
<1> USE LifespanAssumption DEF Typed, TypeOK, Owned
<1>1. ASSUME NEW w \in Workers, Kill(w)
      PROVE  Typed'
  <2> USE <1>1 DEF Kill, Announces
  <2>1. faults' \in 0 .. MaxFaults
    BY FaultTyped
  <2>2. creator' \in Workers \cup {None, Orphan} /\ tables' \in BOOLEAN
    <3>0. creator \in Workers \cup {None, Orphan} /\ tables \in BOOLEAN
      BY Zenon
    <3>1. \/ creator' = Orphan /\ tables' = tables
          \/ creator' = None /\ tables' = TRUE
          \/ creator' = creator /\ tables' = tables
      BY Zenon
    <3>2. creator' \in Workers \cup {None, Orphan}
      BY <3>0, <3>1, CreatorTyped, Zenon
    <3>3. tables' \in BOOLEAN
      BY <3>0, <3>1, Zenon
    <3> QED
      BY <3>2, <3>3
  <2>3. creator' \in Workers => pc'[creator'] = "committing" /\ ~tables'
    OBVIOUS
  <2>4. /\ pc' \in [Workers -> Starting \cup {"down", "serving", "draining", "closing", "stopped"}]
        /\ announced' \in [Workers -> {"nothing", "ready", "warning"}]
        /\ client' \in [Workers -> {"none", "open", "closing", "lost"}]
        /\ stale' \in [Workers -> BOOLEAN]
        /\ crowded' \subseteq Workers
    OBVIOUS
  <2>5. /\ probe' \in [worker : Workers \cup {None}, kind : {"health", "ready"},
                       at : {"idle", "redis", "database", "commit", "answered"}]
        /\ report' \in [redis : Status, database : Status, code : {200, 503}]
        /\ seen' \in [up : SUBSET Services, down : SUBSET Services,
                      cut : BOOLEAN, full : BOOLEAN]
    BY DEF NoProbe, NoReport, Status, probing
  <2>6. Owned'
    OBVIOUS
  <2> QED
    BY <2>1, <2>2, <2>3, <2>4, <2>5, <2>6
<1>2. CASE RollBack
  BY <1>2 DEF RollBack, probing
<1> QED
  BY <1>1, <1>2

LEMMA TypedStep == Typed /\ [Next]_vars => Typed'
<1> SUFFICES ASSUME Typed, [Next]_vars
             PROVE  Typed'
  OBVIOUS
<1>1. CASE UNCHANGED vars
  BY <1>1 DEF vars, Typed, TypeOK, Owned, probing
<1>2. ASSUME NEW w \in Workers, Start(w) \/ Startup(w)
      PROVE  Typed'
  BY <1>2, StartupTyped
<1>3. ASSUME NEW w \in Workers,
             (\E kind \in {"health", "ready"} : Begin(w, kind)) \/ Answer(w)
      PROVE  Typed'
  BY <1>3, AnswerTyped
<1>4. ASSUME NEW w \in Workers, Signal(w) \/ Shutdown(w)
      PROVE  Typed'
  BY <1>4, ShutdownTyped
<1>5. CASE RedisDown \/ DatabaseDown \/ (\E service \in Services : Recover(service))
  BY <1>5, OutageTyped
<1>6. CASE (\E w \in Workers : Kill(w)) \/ RollBack
  BY <1>6, KillTyped
<1>7. ASSUME NEW w \in Workers, PoolFills(w) \/ PoolEmpties(w)
      PROVE  Typed'
  BY <1>7, PoolTyped
<1>8. CASE Rest
  BY <1>1, <1>8 DEF Rest
<1> QED
  BY <1>1, <1>2, <1>3, <1>4, <1>5, <1>6, <1>7, <1>8 DEF Next

LEMMA AlwaysTyped == Spec => []Typed
  BY TypedInit, TypedStep, PTL DEF Spec

\* Every reachable state is well typed, and at most one worker has undecided tables, in a
\* transaction that is about to commit (database.py:79-81).
THEOREM TypeCorrect == Spec => []TypeOK
<1>1. Typed => TypeOK
  BY DEF Typed
<1> QED
  BY <1>1, AlwaysTyped, PTL

-----------------------------------------------------------------------------
(* Who serves has tables.                                                  *)

\* A database that is down has had its outage, and a start that fails has lost the
\* race to tables that are there, or was cut by the outage.
Served ==
  /\ ~up["database"] => outage
  /\ \A w \in Workers : pc[w] = "broken" => tables \/ outage
  /\ ServesWithTables

LEMMA ServedInit == Init => Served
  BY DEF Init, Served, ServesWithTables

LEMMA StartupServed ==
  ASSUME Typed, Served, NEW w \in Workers, Start(w) \/ Startup(w)
  PROVE  Served'
<1> USE DEF Typed, TypeOK, Owned, Served, ServesWithTables, Goes, Announces, Starting,
            startup, Services
<1>1. CASE Start(w)
  BY <1>1 DEF Start
<1>2. CASE Connect(w)
  BY <1>2 DEF Connect
<1>3. CASE Check(w)
  BY <1>3 DEF Check
<1>4. CASE Create(w)
  BY <1>4 DEF Create
<1>5. CASE Conflict(w)
  BY <1>5 DEF Conflict
<1>6. CASE CommitTables(w)
  BY <1>6 DEF CommitTables
<1>7. CASE ServeAnyway(w)
  BY <1>7 DEF ServeAnyway
<1> QED
  BY <1>1, <1>2, <1>3, <1>4, <1>5, <1>6, <1>7 DEF Startup

\* What any other step changes of the state that matters here.
LEMMA OthersServed ==
  ASSUME Typed, Served,
         UNCHANGED <<outage, tables, announced>>,
         up'["database"] = up["database"] \/ up'["database"],
         \A w \in Workers : \/ pc'[w] = pc[w]
                           \/ pc'[w] \notin {"broken", "serving"}
  PROVE  Served'
  BY DEF Served, ServesWithTables

LEMMA DownServed ==
  ASSUME Typed, Served, DatabaseDown
  PROVE  Served'
  BY DEF Typed, TypeOK, Served, ServesWithTables, DatabaseDown

LEMMA KillServed ==
  ASSUME Typed, Served, NEW w \in Workers, Kill(w)
  PROVE  Served'
<1> USE DEF Typed, TypeOK, Served, ServesWithTables
<1>1. /\ pc' = [pc EXCEPT ![w] = "down"]
      /\ announced' = [announced EXCEPT ![w] = "nothing"]
      /\ up' = up /\ outage' = outage
  BY DEF Kill, Announces
<1>2. tables => tables'
  BY Zenon DEF Kill
<1> QED
  BY <1>1, <1>2

LEMMA ServedStep == Typed /\ Served /\ [Next]_vars => Served'
<1> SUFFICES ASSUME Typed, Served, [Next]_vars
             PROVE  Served'
  OBVIOUS
<1> USE DEF Typed, TypeOK
<1>1. CASE UNCHANGED vars
  BY <1>1, OthersServed DEF vars
<1>2. ASSUME NEW w \in Workers, Start(w) \/ Startup(w)
      PROVE  Served'
  BY <1>2, StartupServed
<1>3. ASSUME NEW w \in Workers,
             (\E kind \in {"health", "ready"} : Begin(w, kind)) \/ Answer(w)
      PROVE  Served'
  BY <1>3, OthersServed DEF Begin, Answer, PingRedis, Select, CommitProbe, startup
<1>4. ASSUME NEW w \in Workers, Signal(w) \/ Shutdown(w)
      PROVE  Served'
  BY <1>4, OthersServed 
  DEF Signal, Shutdown, CloseDb, CloseRedis, CloseFails, ForgetRedis, Goes, startup
<1>5. ASSUME RedisDown \/ (\E service \in Services : Recover(service))
      PROVE  Served'
  BY <1>5, OthersServed DEF RedisDown, Recover, Services, startup
<1>6. CASE DatabaseDown
  BY <1>6, DownServed
<1>7. ASSUME NEW w \in Workers, Kill(w)
      PROVE  Served'
  BY <1>7, KillServed
<1>8. CASE RollBack
  BY <1>8, OthersServed DEF RollBack
<1>9. ASSUME NEW w \in Workers, PoolFills(w) \/ PoolEmpties(w)
      PROVE  Served'
  BY <1>9, OthersServed DEF PoolFills, PoolEmpties, startup
<1>10. CASE Rest
  BY <1>1, <1>10 DEF Rest
<1> QED
  BY <1>1, <1>2, <1>3, <1>4, <1>5, <1>6, <1>7, <1>8, <1>9, <1>10 DEF Next

\* A worker that logged database_ready has tables, and until the first outage every worker
\* that serves has them, however many start and are killed (main.py:69-74,
\* database.py:74-81).
THEOREM TablesServed == Spec => []ServesWithTables
<1>1. Served => ServesWithTables
  BY DEF Served
<1> QED
  BY <1>1, ServedInit, ServedStep, AlwaysTyped, PTL DEF Spec

-----------------------------------------------------------------------------
(* Shutdown leaves nothing behind.                                         *)

\* A client is closed only by a worker that is closing, and by then its requests are done.
\* Only one whose connections were cut is lost, and they stay cut.
Quiet ==
  /\ \A w \in Workers : /\ client[w] = "closing" => pc[w] = "closing"
                        /\ Busy(w) => pc[w] \in {"serving", "draining"}
                        /\ \/ pc[w] # "stopped"
                           \/ client[w] = "none"
                           \/ (client[w] = "lost" /\ stale[w])

LEMMA QuietInit == Init => Quiet
  BY DEF Init, Quiet, Busy, InFlight, NoProbe

LEMMA StartupQuiet ==
  ASSUME Typed, Quiet, NEW w \in Workers, Start(w) \/ Startup(w)
  PROVE  Quiet'
<1> DEFINE Moves == /\ UNCHANGED <<client, stale, probe>>
                    /\ pc[w] \in Starting \cup {"down"}
                    /\ \E to \in Starting \cup {"serving"} : pc' = [pc EXCEPT ![w] = to]
<1>1. Moves
  BY DEF Startup, Start, Connect, Check, Create, Conflict, CommitTables, ServeAnyway, Goes,
         Starting, probing
<1>2. UNCHANGED <<client, stale, probe>>
  BY <1>1
<1>3. PICK to \in Starting \cup {"serving"} : pc' = [pc EXCEPT ![w] = to]
  BY <1>1
<1> QED
  BY <1>1, <1>2, <1>3 DEF Typed, TypeOK, Quiet, Busy, InFlight, Starting

LEMMA AnswerQuiet ==
  ASSUME Typed, Quiet, NEW w \in Workers,
         (\E kind \in {"health", "ready"} : Begin(w, kind)) \/ Answer(w)
  PROVE  Quiet'
<1> USE DEF Typed, TypeOK, Quiet, Busy, InFlight
<1>1. CASE \E kind \in {"health", "ready"} : Begin(w, kind)
  BY <1>1 DEF Begin
<1>2. CASE PingRedis(w)
  BY <1>2 DEF PingRedis, Passes, Fails, At
<1>3. CASE Select(w)
  BY <1>3 DEF Select, Passes, Fails, At
<1>4. CASE CommitProbe(w)
  BY <1>4 DEF CommitProbe, Passes, Fails, At
<1> QED
  BY <1>1, <1>2, <1>3, <1>4 DEF Answer

LEMMA ShutdownQuiet ==
  ASSUME Typed, Quiet, NEW w \in Workers, Signal(w) \/ Shutdown(w)
  PROVE  Quiet'
<1> USE DEF Typed, TypeOK, Quiet, Busy, InFlight, Goes, probing
<1>1. CASE Signal(w)
  BY <1>1 DEF Signal
<1>2. CASE CloseDb(w)
  BY <1>2 DEF CloseDb
<1>3. CASE CloseRedis(w)
  BY <1>3 DEF CloseRedis
<1>4. CASE CloseFails(w)
  BY <1>4 DEF CloseFails
<1>5. CASE ForgetRedis(w)
  BY <1>5 DEF ForgetRedis
<1> QED
  BY <1>1, <1>2, <1>3, <1>4, <1>5 DEF Shutdown

LEMMA FaultQuiet ==
  ASSUME Typed, Quiet,
         \/ RedisDown \/ DatabaseDown \/ (\E service \in Services : Recover(service))
         \/ RollBack
  PROVE  Quiet'
  BY DEF Typed, TypeOK, Quiet, Busy, InFlight, RedisDown, DatabaseDown, Recover, RollBack,
         probing

LEMMA KillQuiet ==
  ASSUME Typed, Quiet, NEW w \in Workers, Kill(w)
  PROVE  Quiet'
<1>1. /\ pc' = [pc EXCEPT ![w] = "down"]
      /\ client' = [client EXCEPT ![w] = "none"]
      /\ stale' = [stale EXCEPT ![w] = FALSE]
      /\ IF probe.worker = w THEN probe' = NoProbe ELSE probe' = probe
  BY DEF Kill, probing
<1> QED
  BY <1>1 DEF Typed, TypeOK, Quiet, Busy, InFlight, NoProbe

LEMMA QuietStep == Typed /\ Quiet /\ [Next]_vars => Quiet'
<1> SUFFICES ASSUME Typed, Quiet, [Next]_vars
             PROVE  Quiet'
  OBVIOUS
<1>1. CASE UNCHANGED vars
  BY <1>1 DEF vars, Quiet, Busy, InFlight, probing
<1>2. ASSUME NEW w \in Workers, PoolFills(w) \/ PoolEmpties(w)
      PROVE  Quiet'
  BY <1>2 DEF PoolFills, PoolEmpties, Quiet, Busy, InFlight, probing
<1>3. CASE Rest
  BY <1>1, <1>3 DEF Rest
<1> QED
  BY <1>1, <1>2, <1>3, StartupQuiet, AnswerQuiet, ShutdownQuiet, FaultQuiet, KillQuiet DEF Next

\* No request uses a client that is being closed, and a stopped worker leaves none behind,
\* but one whose connections an outage has cut and that could not be closed
\* (redis_service.py:51-58, main.py:81-82).
THEOREM ClientsClosed == Spec => []NoClientLeftBehind
<1>1. Quiet => NoClientLeftBehind
  BY DEF Quiet, NoClientLeftBehind
<1> QED
  BY <1>1, QuietInit, QuietStep, AlwaysTyped, PTL DEF Spec

-----------------------------------------------------------------------------
(* Probes tell the truth.                                                  *)

\* What a probe has seen covers what is up and down now, as long as it runs.
Watching ==
  /\ InFlight => \A s \in Services : IF up[s] THEN s \in seen.up ELSE s \in seen.down
  /\ InFlight /\ probe.worker \in crowded => seen.full
  /\ InFlight /\ seen.cut => "database" \in seen.down

\* What it says of a service it has a reason to say.
Reasons ==
  probe.at # "idle" =>
    /\ probe.worker \in Workers
    /\ report.redis = "healthy" => "redis" \in seen.up
    /\ report.redis = "unhealthy" => "redis" \in seen.down \/ stale[probe.worker]
    /\ report.database = "healthy" => "database" \in seen.up
    /\ report.database = "unhealthy" => "database" \in seen.down \/ seen.full

\* How the status code follows what it says, at each place of the probe.
Coded ==
  /\ probe.at = "redis" => report = NoReport
  /\ probe.at = "database" => report.database = "unknown"
  /\ probe.at = "commit" => report.database = "healthy"
  /\ probe.at \in {"database", "commit"} =>
       IF report.code = 200 THEN report.redis = "healthy" ELSE report.redis = "unhealthy"
  /\ probe.at = "answered" =>
       IF report.code = 200 THEN report.redis = "healthy" /\ report.database = "healthy"
       ELSE report.redis = "unhealthy" \/ report.database = "unhealthy"

Honest == Watching /\ Reasons /\ Coded

LEMMA HonestInit == Init => Honest
  BY DEF Init, Honest, Watching, Reasons, Coded, InFlight, NoProbe

\* A worker cannot turn honest probes into lies by what it does besides.
LEMMA OthersHonest ==
  ASSUME Honest, UNCHANGED <<up, stale, crowded, probing>>
  PROVE  Honest'
  BY DEF Honest, Watching, Reasons, Coded, InFlight, probing

LEMMA BeginHonest ==
  ASSUME Typed, Honest, NEW w \in Workers, NEW kind \in {"health", "ready"}, Begin(w, kind)
  PROVE  Honest'
  BY DEF Typed, TypeOK, Honest, Watching, Reasons, Coded, InFlight, Begin, NoReport

LEMMA AnswerHonest ==
  ASSUME Typed, Honest, NEW w \in Workers, Answer(w)
  PROVE  Honest'
<1> USE DEF Typed, TypeOK, Honest, InFlight, At, Status, Passes, Fails, Services
<1>1. CASE PingRedis(w)
  <2>1. Watching'
    BY <1>1 DEF PingRedis, Watching
  <2>2. Reasons'
    BY <1>1 DEF PingRedis, Watching, Reasons, Coded, NoReport
  <2>3. Coded'
    BY <1>1 DEF PingRedis, Coded, NoReport
  <2> QED
    BY <2>1, <2>2, <2>3
<1>2. CASE Select(w)
  <2>1. Watching'
    BY <1>2 DEF Select, Watching
  <2>2. Reasons'
    BY <1>2 DEF Select, Watching, Reasons, Coded
  <2>3. Coded'
    BY <1>2 DEF Select, Coded
  <2> QED
    BY <2>1, <2>2, <2>3
<1>3. CASE CommitProbe(w)
  <2>1. Watching'
    BY <1>3 DEF CommitProbe, Watching
  <2>2. Reasons'
    BY <1>3 DEF CommitProbe, Watching, Reasons, Coded
  <2>3. Coded'
    BY <1>3 DEF CommitProbe, Coded
  <2> QED
    BY <2>1, <2>2, <2>3
<1> QED
  BY <1>1, <1>2, <1>3 DEF Answer

LEMMA OutageHonest ==
  ASSUME Typed, Honest,
         RedisDown \/ DatabaseDown \/ (\E service \in Services : Recover(service))
  PROVE  Honest'
<1> USE DEF Typed, TypeOK, Honest, InFlight, Services
<1>1. CASE RedisDown
  BY <1>1 DEF RedisDown, Watching, Reasons, Coded
<1>2. CASE DatabaseDown
  BY <1>2 DEF DatabaseDown, Watching, Reasons, Coded
<1>3. ASSUME NEW service \in Services, Recover(service)
      PROVE  Honest'
  BY <1>3 DEF Recover, Watching, Reasons, Coded
<1> QED
  BY <1>1, <1>2, <1>3

LEMMA PoolHonest ==
  ASSUME Typed, Honest, NEW w \in Workers, PoolFills(w) \/ PoolEmpties(w)
  PROVE  Honest'
<1> USE DEF Typed, TypeOK, Honest, InFlight, Watching, Reasons, Coded
<1>1. CASE PoolFills(w)
  BY <1>1 DEF PoolFills, Busy
<1>2. CASE PoolEmpties(w)
  BY <1>2 DEF PoolEmpties, probing
<1> QED
  BY <1>1, <1>2

LEMMA KillHonest ==
  ASSUME Typed, Honest, NEW w \in Workers, Kill(w)
  PROVE  Honest'
<1>1. CASE probe.worker = w
  BY <1>1 DEF Kill, NoProbe, Honest, Watching, Reasons, Coded, InFlight
<1>2. CASE probe.worker # w
  <2>1. /\ UNCHANGED <<up, probe, report, seen>>
        /\ stale' = [stale EXCEPT ![w] = FALSE]
        /\ crowded' = crowded \ {w}
    BY <1>2 DEF Kill, probing
  <2> QED
    BY <1>2, <2>1 DEF Typed, TypeOK, Honest, Watching, Reasons, Coded, InFlight
<1> QED
  BY <1>1, <1>2

LEMMA HonestStep == Typed /\ Honest /\ [Next]_vars => Honest'
<1> SUFFICES ASSUME Typed, Honest, [Next]_vars
             PROVE  Honest'
  OBVIOUS
<1>1. CASE UNCHANGED vars
  BY <1>1, OthersHonest DEF vars
<1>2. ASSUME NEW w \in Workers, Start(w) \/ Startup(w)
      PROVE  Honest'
  BY <1>2, OthersHonest
  DEF Start, Startup, Connect, Check, Create, Conflict, CommitTables, ServeAnyway
<1>3. ASSUME NEW w \in Workers, Signal(w) \/ Shutdown(w)
      PROVE  Honest'
  BY <1>3, OthersHonest DEF Signal, Shutdown, CloseDb, CloseRedis, CloseFails, ForgetRedis
<1>4. CASE RollBack
  BY <1>4, OthersHonest DEF RollBack
<1>5. CASE Rest
  BY <1>1, <1>5 DEF Rest
<1> QED
  BY <1>1, <1>2, <1>3, <1>4, <1>5, BeginHonest, AnswerHonest, OutageHonest, PoolHonest,
     KillHonest
  DEF Next

\* A 200 means both services were up while the probe ran, a 503 that one was down, that the
\* worker's Redis connections may have been cut or that its pool was full; /health blames
\* the database only if it was down or the pool full, and agrees with its own code
\* (health.py:38-119, database.py:38-45).
THEOREM HonestProbes == Spec => []ProbesTellTheTruth
<1>1. Typed /\ Honest => ProbesTellTheTruth
  BY DEF Typed, TypeOK, Honest, Reasons, Coded, ProbesTellTheTruth, Services, Status
<1> QED
  BY <1>1, HonestInit, HonestStep, AlwaysTyped, PTL DEF Spec
=============================================================================
