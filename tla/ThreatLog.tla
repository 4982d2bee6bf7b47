------------------------------- MODULE ThreatLog -------------------------------
(***************************************************************************)
(* Recording blocked requests in the background: app/services/             *)
(* threat_logger.py, the sessions of app/services/database.py and the      *)
(* lifespan of app/main.py, in one worker process.                         *)
(*                                                                         *)
(* A middleware that blocks a request schedules a task that nobody awaits. *)
(* The task opens a session, adds the event and, when get_async_session    *)
(* resumes after the yield, commits: only then does it take a connection   *)
(* from the engine's pool.  Other users of a session run a statement of    *)
(* their own inside the loop body (the probes, and through get_db the      *)
(* admin queries); an exception raised there never reaches the generator,  *)
(* which stays suspended, its connection in use, until it is collected.    *)
(* Whoever finds the pool full waits for a connection, and fails when none *)
(* comes back in time: any number of tasks may queue behind the few that   *)
(* hold one, with the database in the best of health.                      *)
(* A shutdown disposes of the engine, which goes on with a new pool, and   *)
(* then ends the event loop, which cancels whatever still runs.            *)
(***************************************************************************)
EXTENDS Naturals, FiniteSets

CONSTANTS
  Events,         \* blocked requests to record, one task each
  Queries,        \* other users of a session, one statement each
  MaxConnections  \* pool_size + max_overflow

ASSUME ThreatLogAssumption ==
  /\ Events \cap Queries = {}
  /\ MaxConnections \in Nat \ {0}

Users == Events \cup Queries

VARIABLES
  healthy,   \* whether the database answers, in time, with its tables created, and
             \* the process is not killed
  fits,      \* whether each event's values fit the columns of its row
  life,      \* the process: "running", "disposing", "disposed", "stopped"
  task,      \* the state of each user of a session
  held,      \* users whose session holds a connection of its pool
  old,       \* users bound to the pool the engine had before it was disposed of
  rows,      \* PostgreSQL: how many rows of threat_events each event has
  handling   \* events whose request is still being answered

vars == <<healthy, fits, life, task, held, old, rows, handling>>

\* "idle": not started; "scheduled": ensure_future has been called;
\* "connecting": waiting for a connection; "working": INSERT or SELECT sent;
\* "acking": committed by PostgreSQL, the answer on its way;
\* "done"/"failed": over, its success or its error logged or answered;
\* "starved": a task that failed for want of a connection;
\* "abandoned": over, its generator still suspended at the yield;
\* "cancelled": ended with the event loop.
Running == {"connecting", "working", "acking"}
Over == {"done", "failed", "starved", "abandoned", "cancelled"}

TypeOK ==
  /\ healthy \in BOOLEAN
  /\ fits \in [Events -> BOOLEAN]
  /\ life \in {"running", "disposing", "disposed", "stopped"}
  /\ task \in [Users -> {"idle", "scheduled"} \cup Running \cup Over]
  /\ held \subseteq Users
  /\ old \subseteq Users
  /\ rows \in [Events -> 0 .. 1]
  /\ handling \subseteq Events

Init ==
  /\ healthy \in BOOLEAN
  /\ fits \in [Events -> BOOLEAN]
  /\ life = "running"
  /\ task = [u \in Users |-> "idle"]
  /\ held = {}
  /\ old = {}
  /\ rows = [e \in Events |-> 0]
  /\ handling = {}

Becomes(u, state) == task' = [task EXCEPT ![u] = state]

\* The connections in use of the pool a user is bound to.
Pool(u) == IF u \in old THEN held \cap old ELSE held \ old
Full(u) == Cardinality(Pool(u)) = MaxConnections

-----------------------------------------------------------------------------
(* Users of a session.                                                     *)

\* A middleware blocks a request and calls fire_and_forget_log: the task is
\* scheduled and the response goes out without it.
Fire(e) ==
  /\ life = "running"
  /\ task[e] = "idle"
  /\ Becomes(e, "scheduled")
  /\ handling' = handling \cup {e}
  /\ UNCHANGED <<healthy, fits, life, held, old, rows>>

Respond(e) ==
  /\ e \in handling
  /\ handling' = handling \ {e}
  /\ UNCHANGED <<healthy, fits, life, task, held, old, rows>>

\* The task runs: session opened, event added, generator resumed.  Its commit
\* asks the pool for a connection.
Begin(e) ==
  /\ task[e] = "scheduled"
  /\ Becomes(e, "connecting")
  /\ UNCHANGED <<healthy, fits, life, held, old, rows, handling>>

\* A query is served while the process takes requests; its first statement asks
\* the pool for a connection.
Ask(q) ==
  /\ life = "running"
  /\ task[q] = "idle"
  /\ Becomes(q, "connecting")
  /\ UNCHANGED <<healthy, fits, life, held, old, rows, handling>>

Connect(u) ==
  /\ task[u] = "connecting"
  /\ Cardinality(Pool(u)) < MaxConnections
  /\ held' = held \cup {u}
  /\ Becomes(u, "working")
  /\ UNCHANGED <<healthy, fits, life, old, rows, handling>>

\* Mutant of PoolTimeout: the queue is left while connections are free.
PoolTimeoutUnneeded(u) ==
  /\ task[u] = "connecting"
  /\ Becomes(u, IF u \in Events THEN "starved" ELSE "abandoned")
  /\ UNCHANGED <<healthy, fits, life, held, old, rows, handling>>

\* No connection comes back within pool_timeout: too many are queued, or the database
\* is slow.  The exception is raised by the commit of a task, inside
\* get_async_session; by a query's statement, outside of it.
PoolTimeout(u) ==
  /\ task[u] = "connecting"
  /\ Full(u)
  /\ Becomes(u, IF u \in Events THEN "starved" ELSE "abandoned")
  /\ UNCHANGED <<healthy, fits, life, held, old, rows, handling>>

\* Mutant of Execute: the transaction is never committed.
ExecuteUncommitted(u) ==
  /\ task[u] = "working"
  /\ Becomes(u, "acking")
  /\ UNCHANGED <<healthy, fits, life, held, old, rows, handling>>

\* PostgreSQL executes the INSERT and commits it, or the SELECT.
Execute(u) ==
  /\ task[u] = "working"
  /\ u \in Events => fits[u]
  /\ Becomes(u, "acking")
  /\ rows' = IF u \in Events THEN [rows EXCEPT ![u] = @ + 1] ELSE rows
  /\ UNCHANGED <<healthy, fits, life, held, old, handling>>

\* Lines 95 and 100: committed, the session closed, its connection returned.
Close(u) ==
  /\ task[u] = "acking"
  /\ Becomes(u, "done")
  /\ held' = held \ {u}
  /\ UNCHANGED <<healthy, fits, life, old, rows, handling>>

\* A value is longer than its column: nothing truncates client_ip and
\* request_path.  PostgreSQL refuses the INSERT, and the task ends as in FailCommit.
Refuse(e) ==
  /\ task[e] = "working"
  /\ ~fits[e]
  /\ Becomes(e, "failed")
  /\ held' = held \ {e}
  /\ UNCHANGED <<healthy, fits, life, old, rows, handling>>

\* Mutant of FailCommit: the commit is tried again.
RetryCommit(u) ==
  /\ ~healthy
  /\ task[u] \in (IF u \in Events THEN Running ELSE {"acking"})
  /\ Becomes(u, "connecting")
  /\ held' = held \ {u}
  /\ UNCHANGED <<healthy, fits, life, old, rows, handling>>

\* Mutant of FailCommit: the session is not closed.
LeakyFailCommit(u) ==
  /\ ~healthy
  /\ task[u] \in (IF u \in Events THEN Running ELSE {"acking"})
  /\ Becomes(u, "failed")
  /\ UNCHANGED <<healthy, fits, life, held, old, rows, handling>>

\* Lines 96-100: a commit fails, or its answer is lost; the generator rolls
\* back, closes the session and raises, and the task logs the error.  All a task
\* sends is sent by its commit; a query's statement has already succeeded.
\* A commit that PostgreSQL executes after its task has failed or has been cancelled
\* is one it has executed before: nothing in between reads the row.
FailCommit(u) ==
  /\ ~healthy
  /\ task[u] \in (IF u \in Events THEN Running ELSE {"acking"})
  /\ Becomes(u, "failed")
  /\ held' = held \ {u}
  /\ UNCHANGED <<healthy, fits, life, old, rows, handling>>

\* A query's statement fails in the body of its async for: its handler ends with
\* an error, and nothing has told the generator.
FailStatement(q) ==
  /\ ~healthy
  /\ task[q] \in {"connecting", "working"}
  /\ Becomes(q, "abandoned")
  /\ UNCHANGED <<healthy, fits, life, held, old, rows, handling>>

\* Mutant of Collect: the finally clause is missing.
CollectUnclosed(q) ==
  /\ task[q] = "abandoned"
  /\ Becomes(q, "failed")
  /\ UNCHANGED <<healthy, fits, life, held, old, rows, handling>>

\* The suspended generator is collected: the event loop closes it, and its
\* finally clause closes the session.
Collect(q) ==
  /\ task[q] = "abandoned"
  /\ Becomes(q, "failed")
  /\ held' = held \ {q}
  /\ UNCHANGED <<healthy, fits, life, old, rows, handling>>

-----------------------------------------------------------------------------
(* The lifespan.                                                           *)

\* The server stops once no request is in flight, and close_db awaits the
\* closing of the pool's idle connections.
Stop ==
  /\ life = "running"
  /\ handling = {}
  /\ \A q \in Queries : task[q] \notin Running
  /\ life' = "disposing"
  /\ UNCHANGED <<healthy, fits, task, held, old, rows, handling>>

\* The disposed engine has a new pool, and the session factory is still bound to the
\* engine: tasks go on.  Who holds a connection of the old pool, or is queued for one,
\* stays with it.  The Redis client is closed.
Dispose ==
  /\ life = "disposing"
  /\ life' = "disposed"
  /\ old' = held \cup {u \in Users : task[u] = "connecting"}
  /\ UNCHANGED <<healthy, fits, task, held, rows, handling>>

\* The event loop ends: the tasks left are cancelled, which closes their sessions.
EndLoop ==
  /\ life = "disposed"
  /\ life' = "stopped"
  /\ task' = [u \in Users |-> IF task[u] \in Running \cup {"scheduled"}
                              THEN "cancelled" ELSE task[u]]
  /\ held' = {}
  /\ UNCHANGED <<healthy, fits, old, rows, handling>>

\* The process is killed, at any time.
Crash ==
  /\ ~healthy
  /\ life # "stopped"
  /\ life' = "stopped"
  /\ task' = [u \in Users |-> IF task[u] \in Running \cup {"scheduled"}
                              THEN "cancelled" ELSE task[u]]
  /\ held' = {}
  /\ handling' = {}
  /\ UNCHANGED <<healthy, fits, old, rows>>

Rest == life = "stopped" /\ UNCHANGED vars

Next ==
  \/ \E e \in Events : Fire(e) \/ Respond(e) \/ Begin(e) \/ Refuse(e)
  \/ \E q \in Queries : Ask(q) \/ FailStatement(q) \/ Collect(q)
  \/ \E u \in Users :
       Connect(u) \/ PoolTimeout(u) \/ Execute(u) \/ Close(u) \/ FailCommit(u)
  \/ Stop \/ Dispose \/ EndLoop \/ Crash
  \/ Rest

Spec == Init /\ [][Next]_vars

\* The event loop runs what is ready, the pool hands out a free connection or
\* times out, PostgreSQL answers or its connection fails, and a generator nobody
\* refers to is collected.  Nothing says that the server is ever stopped.
Fairness ==
  /\ \A e \in Events : WF_vars(Begin(e)) /\ WF_vars(Respond(e)) /\ WF_vars(Refuse(e))
  /\ \A q \in Queries : WF_vars(Collect(q))
  /\ \A u \in Users :
       /\ WF_vars(Connect(u) \/ PoolTimeout(u))
       /\ WF_vars(Execute(u))
       /\ WF_vars(Close(u))
  /\ WF_vars(Dispose)
  /\ WF_vars(EndLoop)

FairSpec == Spec /\ Fairness

-----------------------------------------------------------------------------
(* Properties.                                                             *)

\* "threat_logged" is told of an event that has its row, and no event ever gets a
\* second one, though a commit may fail after PostgreSQL has executed it
\* (threat_logger.py:41-74, database.py:92-100).
LoggedMeansRecorded ==
  \A e \in Events : rows[e] <= 1 /\ (task[e] = "done" => rows[e] = 1)

\* Neither pool is ever overdrawn, and a connection is held only by a session at
\* work or by a generator still to be collected: no error path of
\* get_async_session leaks one (database.py:92-100).
NoLeakedConnection ==
  /\ \A u \in Users : Cardinality(Pool(u)) <= MaxConnections
  /\ \A u \in held : task[u] \in {"working", "acking", "abandoned"}

\* Whatever fails, a scheduled task ends: its error is logged, never raised and
\* never tried again (threat_logger.py:68-74).
EveryTaskEnds == \A e \in Events : task[e] = "scheduled" ~> task[e] \in Over

\* Every connection goes back to the pool, those of failed queries included.
EveryConnectionReturns == \A u \in Users : u \in held ~> u \notin held

\* As many others as there are connections have asked for one.
Contended(e) ==
  \E others \in SUBSET (Users \ {e}) :
    /\ Cardinality(others) = MaxConnections
    /\ \A u \in others : task[u] \notin {"idle", "scheduled"}

\* With a healthy database an event whose values fit the table is recorded, whatever
\* becomes of the others, unless the process stops first or the event waited for a
\* connection behind as many others as the pool has (threat_logger.py:41-74,
\* database.py:38-45 and 92-100).
RecordedWhileRunning ==
  \A e \in Events :
    healthy /\ fits[e] /\ task[e] = "scheduled" ~>
      \/ rows[e] = 1
      \/ life = "stopped"
      \/ task[e] = "starved" /\ Contended(e)
=============================================================================
