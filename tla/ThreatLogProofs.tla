----------------------------- MODULE ThreatLogProofs -----------------------------
(***************************************************************************)
(* Theorems about ThreatLog, for any number of events, queries and         *)
(* connections.                                                            *)
(***************************************************************************)
EXTENDS ThreatLog, FiniteSetTheorems, TLAPS

\* An event has its row from its commit on, and never before.
Recorded ==
  \A e \in Events :
    /\ task[e] \in {"acking", "done"} => rows[e] = 1
    /\ task[e] \in {"idle", "scheduled", "connecting", "working"} => rows[e] = 0

\* A connection is held by a session at work, or by a generator to be collected.
Holding == \A u \in held : task[u] \in {"working", "acking", "abandoned"}

\* The connections in use of each pool can be counted, and there are not too many.
Within(pool) == IsFiniteSet(pool) /\ Cardinality(pool) <= MaxConnections
Counted == Within(held \cap old) /\ Within(held \ old)

LEMMA TypedInit == Init => TypeOK
  BY ThreatLogAssumption DEF Init, TypeOK, Running, Over

\* The steps of a user of a session, and those of the process.
UserStep(u) ==
  \/ u \in Events /\ (Fire(u) \/ Respond(u) \/ Begin(u) \/ Refuse(u))
  \/ u \in Queries /\ (Ask(u) \/ FailStatement(u) \/ Collect(u))
  \/ Connect(u) \/ PoolTimeout(u) \/ Execute(u) \/ Close(u) \/ FailCommit(u)
ProcessStep == Stop \/ Dispose \/ EndLoop \/ Crash

LEMMA StepCases ==
  ASSUME [Next]_vars
  PROVE  (\E u \in Users : UserStep(u)) \/ ProcessStep \/ UNCHANGED vars
  BY Zenon DEF Next, UserStep, ProcessStep, Rest, Users

\* Each step keeps the types, and a user is one task with one row.
LEMMA UserTyped ==
  ASSUME TypeOK, Recorded, NEW u \in Users, UserStep(u)
  PROVE  TypeOK' /\ Recorded'
<1> USE ThreatLogAssumption DEF TypeOK, Recorded, Users, Running, Over, Becomes
<1>1. CASE u \in Events /\ (Fire(u) \/ Respond(u) \/ Begin(u) \/ Refuse(u))
  BY <1>1 DEF Fire, Respond, Begin, Refuse
<1>2. CASE u \in Queries /\ (Ask(u) \/ FailStatement(u) \/ Collect(u))
  BY <1>2 DEF Ask, FailStatement, Collect
<1>3. CASE Connect(u)
  BY <1>3 DEF Connect
<1>4. CASE PoolTimeout(u)
  BY <1>4 DEF PoolTimeout
<1>5. CASE Execute(u)
  BY <1>5 DEF Execute
<1>6. CASE Close(u)
  BY <1>6 DEF Close
<1>7. CASE FailCommit(u)
  BY <1>7 DEF FailCommit
<1> QED
  BY <1>1, <1>2, <1>3, <1>4, <1>5, <1>6, <1>7 DEF UserStep

LEMMA ProcessTyped ==
  ASSUME TypeOK, Recorded, ProcessStep
  PROVE  TypeOK' /\ Recorded'
<1> USE ThreatLogAssumption DEF TypeOK, Recorded, Users, Running, Over
<1>1. CASE Stop
  BY <1>1 DEF Stop
<1>2. CASE Dispose
  BY <1>2 DEF Dispose
<1>3. CASE EndLoop
  BY <1>3 DEF EndLoop
<1>4. CASE Crash
  BY <1>4 DEF Crash
<1> QED
  BY <1>1, <1>2, <1>3, <1>4 DEF ProcessStep

LEMMA RecordedInit == Init => Recorded
  BY DEF Init, Recorded, Users

LEMMA RecordedStep == TypeOK /\ Recorded /\ [Next]_vars => TypeOK' /\ Recorded'
<1> SUFFICES ASSUME TypeOK, Recorded, [Next]_vars
             PROVE  TypeOK' /\ Recorded'
  OBVIOUS
<1>1. CASE UNCHANGED vars
  BY <1>1 DEF vars, TypeOK, Recorded
<1> QED
  BY <1>1, StepCases, UserTyped, ProcessTyped

LEMMA AlwaysRecorded == Spec => [](TypeOK /\ Recorded)
  BY TypedInit, RecordedInit, RecordedStep, PTL DEF Spec

\* Every reachable state is well typed: no event ever gets a second row.
THEOREM TypeCorrect == Spec => []TypeOK
  BY AlwaysRecorded, PTL

\* What is logged as recorded has its row, whatever fails around the commit
\* (threat_logger.py:41-74, database.py:92-100).
THEOREM LoggedIsRecorded == Spec => []LoggedMeansRecorded
<1>1. TypeOK /\ Recorded => LoggedMeansRecorded
  BY DEF TypeOK, Recorded, LoggedMeansRecorded
<1> QED
  BY <1>1, AlwaysRecorded, PTL

-----------------------------------------------------------------------------
(* Connections.                                                            *)

\* Each step of a user takes one connection, gives its own back, or leaves them.
LEMMA UserHolding ==
  ASSUME TypeOK, Holding, NEW u \in Users, UserStep(u)
  PROVE  Holding'
<1> USE ThreatLogAssumption DEF TypeOK, Holding, Users, Running, Over, Becomes
<1>1. CASE u \in Events /\ (Fire(u) \/ Respond(u) \/ Begin(u) \/ Refuse(u))
  BY <1>1 DEF Fire, Respond, Begin, Refuse
<1>2. CASE u \in Queries /\ (Ask(u) \/ FailStatement(u) \/ Collect(u))
  BY <1>2 DEF Ask, FailStatement, Collect
<1>3. CASE Connect(u)
  BY <1>3 DEF Connect
<1>4. CASE PoolTimeout(u)
  BY <1>4 DEF PoolTimeout
<1>5. CASE Execute(u)
  BY <1>5 DEF Execute
<1>6. CASE Close(u)
  BY <1>6 DEF Close
<1>7. CASE FailCommit(u)
  BY <1>7 DEF FailCommit
<1> QED
  BY <1>1, <1>2, <1>3, <1>4, <1>5, <1>6, <1>7 DEF UserStep

LEMMA HoldingStep == TypeOK /\ Holding /\ [Next]_vars => Holding'
<1> SUFFICES ASSUME TypeOK, Holding, [Next]_vars
             PROVE  Holding'
  OBVIOUS
<1>1. CASE UNCHANGED vars
  BY <1>1 DEF vars, Holding
<1>2. CASE ProcessStep
  BY <1>2 DEF ProcessStep, Stop, Dispose, EndLoop, Crash, Holding
<1> QED
  BY <1>1, <1>2, StepCases, UserHolding

LEMMA EmptyPool == Within({})
  BY FS_EmptySet, ThreatLogAssumption DEF Within

LEMMA PoolLoses ==
  ASSUME NEW pool, Within(pool), NEW u
  PROVE  Within(pool \ {u})
<1>1. IsFiniteSet(pool) /\ Cardinality(pool) \in Nat
  BY FS_CardinalityType DEF Within
<1>2. /\ IsFiniteSet(pool \ {u})
      /\ Cardinality(pool \ {u}) \in {Cardinality(pool), Cardinality(pool) - 1}
  BY <1>1, FS_RemoveElement
<1> QED
  BY <1>1, <1>2, ThreatLogAssumption DEF Within

LEMMA PoolTakes ==
  ASSUME NEW pool, Within(pool), NEW u, Cardinality(pool) < MaxConnections
  PROVE  Within(pool \cup {u})
<1>1. IsFiniteSet(pool) /\ Cardinality(pool) \in Nat
  BY FS_CardinalityType DEF Within
<1>2. /\ IsFiniteSet(pool \cup {u})
      /\ Cardinality(pool \cup {u}) \in {Cardinality(pool), Cardinality(pool) + 1}
  BY <1>1, FS_AddElement
<1> QED
  BY <1>1, <1>2, ThreatLogAssumption DEF Within

\* Before the engine is disposed of there is one pool.
OnePool == life \in {"running", "disposing"} => old = {}

LEMMA OnePoolStep == OnePool /\ [Next]_vars => OnePool'
<1> SUFFICES ASSUME OnePool, [Next]_vars
             PROVE  OnePool'
  OBVIOUS
<1>1. ASSUME NEW u \in Users, UserStep(u)
      PROVE  UNCHANGED <<life, old>>
  BY <1>1 DEF UserStep, Fire, Respond, Begin, Refuse, Ask, FailStatement, Collect, Connect,
              PoolTimeout, Execute, Close, FailCommit
<1>2. CASE ProcessStep
  BY <1>2 DEF ProcessStep, Stop, Dispose, EndLoop, Crash, OnePool
<1>3. CASE UNCHANGED vars
  BY <1>3 DEF vars, OnePool
<1> QED
  BY <1>1, <1>2, <1>3, StepCases DEF OnePool

LEMMA CountedStep == OnePool /\ Counted /\ [Next]_vars => Counted'
<1> SUFFICES ASSUME OnePool, Counted, [Next]_vars
             PROVE  Counted'
  OBVIOUS
<1>1. CASE UNCHANGED <<held, old>>
  BY <1>1 DEF Counted
<1>2. CASE held' = {}
  <2>1. held' \cap old' = {} /\ held' \ old' = {}
    BY <1>2
  <2> QED
    BY <2>1, EmptyPool DEF Counted
<1>3. ASSUME NEW u \in Users, held' = held \ {u}, old' = old
      PROVE  Counted'
  <2>1. Within((held \cap old) \ {u}) /\ Within((held \ old) \ {u})
    BY PoolLoses DEF Counted
  <2>2. /\ held' \cap old' = (held \cap old) \ {u}
        /\ held' \ old' = (held \ old) \ {u}
    BY <1>3
  <2> QED
    BY <2>1, <2>2 DEF Counted
<1>4. ASSUME NEW u \in Users, Connect(u)
      PROVE  Counted'
  <2>1. held' = held \cup {u} /\ old' = old /\ Cardinality(Pool(u)) < MaxConnections
    BY <1>4 DEF Connect
  <2>2. CASE u \in old
    <3>1. Pool(u) = held \cap old
      BY <2>2 DEF Pool
    <3>2. Within((held \cap old) \cup {u})
      BY <2>1, <3>1, PoolTakes DEF Counted
    <3>3. held' \cap old' = (held \cap old) \cup {u} /\ held' \ old' = held \ old
      BY <2>1, <2>2
    <3> QED
      BY <3>2, <3>3 DEF Counted
  <2>3. CASE u \notin old
    <3>1. Pool(u) = held \ old
      BY <2>3 DEF Pool
    <3>2. Within((held \ old) \cup {u})
      BY <2>1, <3>1, PoolTakes DEF Counted
    <3>3. held' \ old' = (held \ old) \cup {u} /\ held' \cap old' = held \cap old
      BY <2>1, <2>3
    <3> QED
      BY <3>2, <3>3 DEF Counted
  <2> QED
    BY <2>2, <2>3
<1>5. CASE Dispose
  <2>1. old = {} /\ held' = held /\ held \subseteq old'
    BY <1>5 DEF Dispose, OnePool
  <2>2. held' \cap old' = held \ old /\ held' \ old' = {}
    BY <2>1
  <2> QED
    BY <2>2, EmptyPool DEF Counted
<1>6. \/ UNCHANGED <<held, old>>
      \/ held' = {}
      \/ \E u \in Users : (held' = held \ {u} /\ old' = old) \/ Connect(u)
      \/ Dispose
  <2>1. ASSUME NEW u \in Users, UserStep(u)
        PROVE  UNCHANGED <<held, old>> \/ (held' = held \ {u} /\ old' = old) \/ Connect(u)
    BY <2>1, Zenon DEF UserStep, Fire, Respond, Begin, Refuse, Ask, FailStatement, Collect,
                       PoolTimeout, Execute, Close, FailCommit
  <2>2. ProcessStep => UNCHANGED <<held, old>> \/ held' = {} \/ Dispose
    BY DEF ProcessStep, Stop, EndLoop, Crash
  <2>3. CASE UNCHANGED vars
    BY <2>3 DEF vars
  <2> QED
    BY <2>1, <2>2, <2>3, StepCases
<1> QED
  BY <1>1, <1>2, <1>3, <1>4, <1>5, <1>6

\* No pool is ever overdrawn, and no path out of get_async_session, nor a shutdown or a
\* crash, leaves a connection with a session that is over (database.py:92-100).
THEOREM ConnectionsAccountedFor == Spec => []NoLeakedConnection
<1>1. Init => Holding /\ OnePool /\ Counted
  <2> SUFFICES ASSUME Init
               PROVE  Holding /\ OnePool /\ Counted
    OBVIOUS
  <2>1. held = {} /\ old = {}
    BY DEF Init
  <2>2. held \cap old = {} /\ held \ old = {}
    BY <2>1
  <2> QED
    BY <2>1, <2>2, EmptyPool DEF Holding, OnePool, Counted
<1>2. Holding /\ Counted => NoLeakedConnection
  BY DEF Holding, Counted, Within, NoLeakedConnection, Pool
<1> QED
  BY <1>1, <1>2, HoldingStep, OnePoolStep, CountedStep, TypeCorrect, PTL DEF Spec

LEMMA AlwaysHolding == Spec => []Holding
<1>1. Init => Holding
  BY DEF Init, Holding
<1> QED
  BY <1>1, HoldingStep, TypeCorrect, PTL DEF Spec

-----------------------------------------------------------------------------
(* Lost events.                                                            *)

\* Whoever has asked for a connection has done so for good.
LEMMA AskedForGood ==
  ASSUME TypeOK, [Next]_vars, NEW v \in Users, task[v] \notin {"idle", "scheduled"}
  PROVE  task'[v] \notin {"idle", "scheduled"}
<1> USE DEF TypeOK, Users, Running, Over, Becomes
<1>1. ASSUME NEW u \in Users, UserStep(u)
      PROVE  task'[v] \notin {"idle", "scheduled"}
  BY <1>1 DEF UserStep, Fire, Respond, Begin, Refuse, Ask, FailStatement, Collect, Connect,
              PoolTimeout, Execute, Close, FailCommit
<1>2. CASE ProcessStep
  BY <1>2 DEF ProcessStep, Stop, Dispose, EndLoop, Crash
<1>3. CASE UNCHANGED vars
  BY <1>3 DEF vars
<1> QED
  BY <1>1, <1>2, <1>3, StepCases

\* A task that has ended without a row has a reason.
Excused(e) ==
  /\ task[e] # "abandoned"
  /\ task[e] = "failed" /\ rows[e] = 0 => ~(healthy /\ fits[e])
  /\ task[e] = "cancelled" => life = "stopped"
  /\ task[e] = "starved" => Contended(e)

LEMMA StillContended ==
  ASSUME TypeOK, [Next]_vars, NEW e \in Events, Contended(e)
  PROVE  Contended(e)'
<1>1. PICK others \in SUBSET (Users \ {e}) :
        /\ Cardinality(others) = MaxConnections
        /\ \A u \in others : task[u] \notin {"idle", "scheduled"}
  BY DEF Contended
<1>2. \A u \in others : task'[u] \notin {"idle", "scheduled"}
  BY <1>1, AskedForGood
<1> QED
  BY <1>1, <1>2 DEF Contended

\* Who is turned away finds as many others at work as there are connections.
LEMMA StarvedInACrowd ==
  ASSUME TypeOK, Holding, NEW e \in Events, PoolTimeout(e)
  PROVE  Contended(e)
<1>1. task[e] = "connecting" /\ Cardinality(Pool(e)) = MaxConnections
  BY DEF PoolTimeout, Full
<1>2. Pool(e) \subseteq held /\ held \subseteq Users
  BY DEF Pool, TypeOK
<1>3. \A u \in Pool(e) : task[u] \in {"working", "acking", "abandoned"}
  BY <1>2 DEF Holding
<1>4. Pool(e) \in SUBSET (Users \ {e})
  BY <1>1, <1>2, <1>3
<1>5. \A u \in Pool(e) : task[u] \notin {"idle", "scheduled"}
  BY <1>3
<1> QED
  BY <1>1, <1>4, <1>5 DEF Contended

LEMMA ExcusedStep ==
  ASSUME TypeOK, Recorded, Holding, [Next]_vars, NEW e \in Events, Excused(e)
  PROVE  Excused(e)'
<1>0. UNCHANGED <<healthy, fits>> /\ e \in Users
  <2>1. ASSUME NEW u \in Users, UserStep(u)
        PROVE  UNCHANGED <<healthy, fits>>
    BY <2>1 DEF UserStep, Fire, Respond, Begin, Refuse, Ask, FailStatement, Collect, Connect,
                PoolTimeout, Execute, Close, FailCommit
  <2>2. ProcessStep => UNCHANGED <<healthy, fits>>
    BY DEF ProcessStep, Stop, Dispose, EndLoop, Crash
  <2> QED
    BY <2>1, <2>2, StepCases DEF vars, Users
<1>1. task'[e] = "starved" => Contended(e)'
  <2>1. CASE task[e] = "starved"
    BY <2>1, StillContended DEF Excused
  <2>2. CASE task[e] # "starved" /\ task'[e] = "starved"
    <3>1. PoolTimeout(e)
      <4>1. ASSUME NEW u \in Users, UserStep(u)
            PROVE  PoolTimeout(e)
        BY <2>2, <4>1, ThreatLogAssumption
        DEF TypeOK, Users, Becomes, UserStep, Fire, Respond, Begin, Refuse, Ask, FailStatement,
            Collect, Connect, PoolTimeout, Execute, Close, FailCommit
      <4>2. ~ProcessStep
        BY <1>0, <2>2 DEF TypeOK, ProcessStep, Stop, Dispose, EndLoop, Crash
      <4> QED
        BY <2>2, <4>1, <4>2, StepCases DEF vars
    <3> QED
      BY <3>1, StarvedInACrowd, StillContended
  <2> QED
    BY <2>1, <2>2
<1>2. /\ task'[e] # "abandoned"
      /\ task'[e] = "failed" /\ rows'[e] = 0 => ~(healthy /\ fits[e])
      /\ task'[e] = "cancelled" => life' = "stopped"
  <2> USE <1>0, ThreatLogAssumption DEF TypeOK, Recorded, Users, Running, Over, Becomes, Excused
  <2>1. ASSUME NEW u \in Users, UserStep(u)
        PROVE  /\ task'[e] # "abandoned"
               /\ task'[e] = "failed" /\ rows'[e] = 0 => ~(healthy /\ fits[e])
               /\ task'[e] = "cancelled" => life' = "stopped"
    <3>1. CASE u = e
      BY <2>1, <3>1
      DEF UserStep, Fire, Respond, Begin, Refuse, Connect, PoolTimeout, Execute, Close, FailCommit
    <3>2. CASE u # e
      <4>1. task'[e] = task[e] /\ rows'[e] = rows[e] /\ life' = life
        BY <2>1, <3>2
        DEF UserStep, Fire, Respond, Begin, Refuse, Ask, FailStatement, Collect, Connect,
            PoolTimeout, Execute, Close, FailCommit
      <4> QED
        BY <4>1
    <3> QED
      BY <3>1, <3>2
  <2>2. CASE ProcessStep
    BY <2>2 DEF ProcessStep, Stop, Dispose, EndLoop, Crash
  <2>3. CASE UNCHANGED vars
    BY <2>3 DEF vars
  <2> QED
    BY <2>1, <2>2, <2>3, StepCases
<1> QED
  BY <1>0, <1>1, <1>2 DEF Excused

Caused ==
  \A e \in Events :
    task[e] \in Over =>
      \/ rows[e] = 1
      \/ ~(healthy /\ fits[e])
      \/ life = "stopped"
      \/ task[e] = "starved" /\ Contended(e)

\* An event whose task is over has its row, or it is lost for a reason (Caused): a fault,
\* values no row can hold, the end of the process, or as many others as the pool has
\* connections, all of which had asked for one (threat_logger.py:41-74, database.py:38-45
\* and 92-100).
THEOREM LossesHaveCauses == Spec => []Caused
<1> DEFINE AllExcused == \A e \in Events : Excused(e)
<1>1. Init => AllExcused
  BY DEF Init, Excused, Users
<1>2. TypeOK /\ Recorded /\ Holding /\ AllExcused /\ [Next]_vars => AllExcused'
  BY ExcusedStep
<1>3. TypeOK /\ Recorded /\ AllExcused => Caused
  <2> SUFFICES ASSUME TypeOK, Recorded, NEW e \in Events, Excused(e), task[e] \in Over
               PROVE  \/ rows[e] = 1
                      \/ ~(healthy /\ fits[e])
                      \/ life = "stopped"
                      \/ task[e] = "starved" /\ Contended(e)
    BY DEF Caused
  <2> QED
    BY DEF TypeOK, Recorded, Excused, Over
<1> HIDE DEF AllExcused
<1>4. Spec => []AllExcused
  BY <1>1, <1>2, AlwaysRecorded, AlwaysHolding, PTL DEF Spec
<1> QED
  BY <1>3, <1>4, AlwaysRecorded, PTL

-----------------------------------------------------------------------------
(* The end of the process.                                                 *)

\* A shutdown has waited for the requests and the queries in flight, and the end of the
\* event loop leaves nobody at work and no connection in use.
Drained ==
  /\ life # "running" => handling = {} /\ \A q \in Queries : task[q] \notin Running
  /\ life = "stopped" => held = {} /\ \A u \in Users : task[u] \in {"idle"} \cup Over

\* Whoever starts to work is a task while the loop runs, or a query while it serves.
LEMMA UserDrained ==
  ASSUME TypeOK, Drained, NEW u \in Users, UserStep(u)
  PROVE  Drained'
<1> USE ThreatLogAssumption DEF TypeOK, Drained, Users, Running, Over, Becomes
<1>1. CASE u \in Events /\ (Fire(u) \/ Respond(u) \/ Begin(u) \/ Refuse(u))
  BY <1>1 DEF Fire, Respond, Begin, Refuse
<1>2. CASE u \in Queries /\ (Ask(u) \/ FailStatement(u) \/ Collect(u))
  BY <1>2 DEF Ask, FailStatement, Collect
<1>3. CASE Connect(u)
  BY <1>3 DEF Connect
<1>4. CASE PoolTimeout(u)
  BY <1>4 DEF PoolTimeout
<1>5. CASE Execute(u)
  BY <1>5 DEF Execute
<1>6. CASE Close(u)
  BY <1>6 DEF Close
<1>7. CASE FailCommit(u)
  BY <1>7 DEF FailCommit
<1> QED
  BY <1>1, <1>2, <1>3, <1>4, <1>5, <1>6, <1>7 DEF UserStep

LEMMA ProcessDrained ==
  ASSUME TypeOK, Drained, ProcessStep
  PROVE  Drained'
<1> USE DEF TypeOK, Drained, Users, Running, Over
<1>1. CASE Stop
  BY <1>1 DEF Stop
<1>2. CASE Dispose
  BY <1>2 DEF Dispose
<1>3. CASE EndLoop
  BY <1>3 DEF EndLoop
<1>4. CASE Crash
  BY <1>4 DEF Crash
<1> QED
  BY <1>1, <1>2, <1>3, <1>4 DEF ProcessStep

\* Once the server stops taking requests nobody waits for an answer and no query runs;
\* once the event loop has ended no task, session or connection outlives it, whatever was
\* at work when it ended (main.py:81-84, database.py:69-74, threat_logger.py:112-125).
THEOREM EndsAtRest ==
  Spec => []( /\ life # "running" =>
                   handling = {} /\ \A q \in Queries : task[q] \notin Running
              /\ life = "stopped" =>
                   held = {} /\ \A u \in Users : task[u] \in {"idle"} \cup Over )
<1>1. Init => Drained
  BY DEF Init, Drained
<1>2. TypeOK /\ Drained /\ [Next]_vars => Drained'
  <2> SUFFICES ASSUME TypeOK, Drained, [Next]_vars
               PROVE  Drained'
    OBVIOUS
  <2>1. CASE UNCHANGED vars
    BY <2>1 DEF vars, Drained
  <2> QED
    BY <2>1, StepCases, UserDrained, ProcessDrained
<1> QED
  BY <1>1, <1>2, TypeCorrect, PTL DEF Spec, Drained
=============================================================================
