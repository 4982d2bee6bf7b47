# ShieldFlow in TLA+

ShieldFlow is a FastAPI gateway that limits the rate of its clients with a token
bucket in Redis, inspects requests for SQL injection and XSS, records what it
refuses in PostgreSQL, and issues JWTs. This directory holds TLA+ models of its
control flow, TLC configurations that check them on small instances, and TLAPS
proofs that the safety properties hold for every instance.

Paths below are relative to `src/`.

## 1. The system

### Components

| Component | State it keeps | Operations | What makes it correct |
|---|---|---|---|
| Token bucket, `app/services/redis_service.py` | one Redis hash per client: `tokens`, `last_refill`, a TTL; the shared client | `check` (clock, Lua script, timeouts, one retry per command, reload of the script), `reset`, `get_remaining` | a bucket never hands out more than its capacity and its refill; nobody loses credit but for a token per request; the wait it announces is exact; it cannot hang a request |
| Rate limiter middleware, `app/api/middleware/rate_limiter.py` | a lazily made limiter | exempt, allow, deny (429 and an event), fail open | only an empty bucket refuses; what passes has paid |
| WAF middleware, `app/api/middleware/waf.py` | `request.state` (id, body) | skip, whitelist, 413, block (403 and an event), pass, an inspection that raises | no threat reaches a handler uninspected; answers and events agree |
| Inspector, `app/rules/` | none | `inspect_request`, a recursion over JSON bodies | finds what is in the strings it inspects, in the order of the request |
| Threat logger, `app/services/threat_logger.py` | background tasks | `fire_and_forget_log`, two recording coroutines | what is logged as recorded is; an event is recorded once; tasks end |
| Database, `app/services/database.py` | engine, pool (5 + 10 connections), session factory | `init_db`, `create_tables`, `close_db`, `get_async_session` | connections come back on every path; tables are there when a worker says so |
| Application, `app/main.py` | middleware stack, lifespan | startup, shutdown, request log, exception handler | the order of the stack; a start and a stop end |
| Tokens, `app/core/security.py`, `app/api/routes/auth.py`, `app/core/dependencies.py` | none: signed JWTs, a secret per process or configured | login, rotate, validate, role check | a token counts for as long as promised and for nothing else, at every worker |
| Admin queries, `app/api/routes/gateway.py` | none | threats (paged), stats (six counts), echo, profile | what is counted and paged while events are inserted |
| Probes, `app/api/routes/health.py` | none | health, ready, live | report what was the case while they ran, release what they take |
| Settings, schemas, ORM model, migrations, images, load test | - | - | data and declarations; not modelled beyond the constants they give |

### How they interact

A request passes logging, metrics, rate limiter, WAF, CORS and router, in this
order (`add_middleware` wraps, so the last one added is the first to run), and the
answer comes back the other way. The limiter calls Redis over a pooled connection;
the buckets are shared by all workers. The two refusing middlewares hand a coroutine
to the event loop (`ensure_future`) and answer without it; that task and the admin
queries and probes share one connection pool per worker. At shutdown the lifespan
disposes of the engine, closes Redis, and the event loop cancels what is left.

### What is hard

* A timestamp read before an await and used by a script after it (`redis_service.py:140`).
* A retry of a command that may have run (`redis_service.py:41`), and a script that Redis may
  have forgotten (`redis_service.py:142`).
* A script without rollback that can fail half way (`redis_service.py:93-94`).
* Keys that disappear: TTL, eviction (`docker-compose.yml:25`), restarts.
* Middlewares whose order is the reverse of their text; failing open in the middle.
* Tasks nobody awaits, against shutdown, crash and a pool with a limit.
* An async generator left suspended when the body of its `async for` raises.
* Workers that create the same tables side by side, each killed at any moment.
* Probes whose services go down and come back between two of their awaits, and which queue
  for connections behind any number of recording tasks.
* A recursion over documents of any depth, and the strings of a request it never sees.
* Whole-second JWT times against an exact clock; several workers without shared state.

`PROJECT.json` lists these hazards at their lines, with the properties that cover them.

## 2. The modules

| Module | Models | Extends / instantiates |
|---|---|---|
| `TokenBucket` | `check()`, the Lua script, the Redis client's timeouts, expiry, eviction | instantiates `IdealBucket` |
| `IdealBucket` | what the limiter promises: buckets that refill continuously, no clock, keys or network | |
| `TokenBucketProofs` | theorems about `TokenBucket` | `TokenBucket`, `TLAPS` |
| `Gateway` | the path of a request through the middleware stack | |
| `GatewayProofs` | theorems about `Gateway` | `Gateway`, `TLAPS` |
| `ThreatLog` | recording tasks, sessions, pool, shutdown, in one worker | |
| `ThreatLogProofs` | theorems about `ThreatLog` | `ThreatLog`, `TLAPS` |
| `ShieldFlow` | one worker: `Gateway` composed with `ThreatLog` | instantiates `Gateway`, `ThreatLog`, `AuditTrail` |
| `AuditTrail` | what the gateway promises about the requests it refuses | |
| `ShieldFlowProofs` | theorems about the composition | `ShieldFlow`, `TLAPS`; instantiates `GatewayProofs`, `ThreatLogProofs` |
| `Inspector` | the inspection of one request | |
| `InspectorProofs` | theorems about `Inspector` | `Inspector`, `TLAPS` |
| `Lifespan` | startup, probes and shutdown of several workers | |
| `LifespanProofs` | theorems about `Lifespan` | `Lifespan`, `TLAPS` |
| `ThreatQueries` | the two admin queries while events are recorded | |
| `ThreatQueriesProofs` | theorems about `ThreatQueries` | `ThreatQueries`, `TLAPS` |
| `Auth` | login, rotation, validation by several workers | |
| `AuthProofs` | theorems about `Auth` | `Auth`, `TLAPS` |
| `MC*` | model values, input sets and symmetry for TLC | the module they check |

Definitions called "Mutant of X" are variants of X with one plausible bug. Nothing in
a specification uses them: put in the place of X, each breaks a property, which
shows that the property has something to say about X.

### TokenBucket

`bucket[k]` is the hash under a client's key, with the tick at which it expires;
`call[c]` a call of `check()`; `net` the commands sent and not yet run. `Check` reads
the clock and sends; `RunScript` is the whole Lua script, run by Redis at any later
moment; `Receive`, `Retry`, `GiveUp`, `ConnectionError` are what the client does;
`Reset` is `reset()`, an eviction, or the loss of a bucket in a restart. A command in `net`
may run late, or never, whether its caller still waits or not, and a retry puts a second
command with the same timestamp there. The script is registered (line 126) and called by its
hash: a Redis that does not know it (`known`), a new one or one after `Restart`, answers
`NoScript`. redis-py then sends SCRIPT LOAD (`Reload`, `LoadScript`) and the hash again
(`Rerun`), each a command with two attempts of its own. So a call makes up to six attempts,
and the script may run for it three times: once for the first command, of whose attempts
one was told NOSCRIPT, and twice for the last. `hist` and `charged` are history variables:
what a bucket handed out since it was created, by how much late commands have moved
`last_refill` back, and what each call was charged.

Abstractions: arithmetic is exact, in units of 1/Window of a token, where the code
computes with doubles. Gateway and Redis read one clock (one host, or NTP). A timeout
is urgent: time does not pass a deadline that nobody has acted on (`Overdue` in
`Tick`); connecting and sending share the bound `AttemptTimeout`. An expired key is
seen as absent at once. A restart forgets scripts and cuts connections with the commands on
them; buckets are kept (`--appendonly yes`) but for those that `Reset` takes away, so a restart that
loses the last second of several buckets at once is a `Restart` and several `Reset`s.
`RATE_LIMIT_BURST` does not appear: no code reads it.

### IdealBucket

The promise of `redis_service.py:7-10`. The refinement mapping takes the ideal credit
of a client to be what its bucket would hold if it was refilled now, and his verdict to be
the answer to his question (`Said`: neither NOSCRIPT nor the loading of the script is one).
`ImplementsIdealBucket` says it step by step, in all behaviours: every step but the run of a
command in a later tick than the one it is stamped with (`Punctual`) is a step of the ideal bucket or a
stutter. So reading and writing timestamps on demand is refilling continuously, TTLs are invisible, and what
late commands have done before makes no later step wrong. A late command itself does break the
promise; `bucket_rate` shows how. `PunctualSpec` are the behaviours without late commands.

### Gateway

A request is a record of what the middlewares look at: exempt path or not, addresses,
API key, a threat and where it is, a body that is whole, nested too deep, unreadable or
too large, a handler that answers or raises. `pc[r]` is the middleware it is in, `limiter[r]` and
`waf[r]` what these have decided,
`id[r]` and `bound[r]` its request id and the one in its log context, `status[r]` and
`headers[r]` its answer. Every await ends an action, so requests interleave there. The limiter is a
bucket that answers, or fails (`FailOpen`). A check may run up to `Commands` commands
(`TokenBucket!ChargesBounded` has three at most): the one whose answer is heard decides (`Admit`, `Deny`),
and any other may take a token unheard (`PayUnheard`), before the answer or long after it. So an
admitted request may pay more than once, and a refused one may have paid for an attempt that
timed out. `InspectionRaises` is the
`RecursionError` of a JSON body deeper than Python recurs (`Inspector!TooDeep`): the request
ends with 500 in the exception handler. Each handler is one step; the pattern rules are
the `threat` field; log lines other than `http_request` are left
out; status 200 stands for any status a handler chooses. CORS is one of the handlers.
`Init` takes every value of `WAF_ENABLED` and `WAF_LOG_BLOCKED`.

### ThreatLog

`task[u]` is a recording task or another user of a session; `held` the users whose
session holds a connection; `rows` what PostgreSQL has. `Begin` runs a task up to its
commit, which is the first thing it sends; `Connect`, `PoolTimeout`, `Execute` and
`Close` follow `get_async_session` to its end; `FailCommit` is its `except` branch, and
may come after `Execute`, the answer being lost. `FailStatement` is an error in the
body of somebody's `async for` (a probe, or `get_db`): the generator is left at its
`yield` until `Collect`. `Stop`, `Dispose` and `EndLoop` are the end of the lifespan;
`Crash` is a kill. `Refuse` is PostgreSQL's answer to values longer than their columns (`fits`, chosen per event):
the code cuts neither address nor path. `healthy` says whether the database may fail and
the process be killed; it is chosen at the start. A query is one statement, and a pool of
`MaxConnections` stands for 5 + 10. `PoolTimeout` needs a full pool and nothing else: recording
tasks are not limited in number, so a flood of refusals fills the queue while the database is
well, and 30 seconds (SQLAlchemy's `pool_timeout`) end there without a row. The task is `starved`, which tells
that way of losing an event from the others; who of those queued is unlucky is left open.
`Dispose` gives the engine a new pool: `old` are the users bound to the one before. Not modelled:
`pool_pre_ping` and `pool_recycle`,
which replace connections without the session's knowledge, and the reading of several
rows.

### ShieldFlow and AuditTrail

`ShieldFlow` keeps the variables of both components and joins their actions where the
code calls: `Refuse` is a step of `Gateway` that fires an event and `ThreatLog!Fire` in
one; `Answer` is the way out together with `ThreatLog!Respond`; `Stop` waits for every
request in flight, on record or not, as the server does before the lifespan goes on.
Probes and admin queries are left out here (`Queries` is empty); they compete for
connections in `ThreatLog`.

`AuditTrail` is the promise of `threat_event.py:20` and `threat_logger.py:1-7` without
middlewares, tasks or connections: a refusal and the event due for it are one step, and
what is due is kept, or lost to a fault, to values no row can hold or to the end of the
process. The refinement mapping reads the decision off the status and the record off
rows and task: a task that is over without a row is a loss. Losing is allowed only for
requests outside `sound`, after the end, or while a pool is full (`full`): the last is what a
flood costs, and `threat_event.py:20` does not say so. Tasks of refusals compete with each
other here. The mapping takes the commit, not its answer, as the keeping.

### Inspector

A request is query pairs, headers (skipped or not) and a body by its content type. A string is
the set of attack types the rules find in it after decoding; a document is a record of
strings, lists, dicts with their keys, and others. Keys have texts like other strings: those
of a query are inspected, those of forms and JSON objects are not. There is no await, so nothing
interleaves; `pc` is the loop `inspect_request` is in and `at` where in it. The recursion
of `_inspect_dict` is a stack of calls, each with its value and the item its loop is at:
`Call` and `Return` are Python's, and `TooDeep` is Python's limit, `MaxDepth`. The field
names of `ThreatMatch` are left out: they are strings joined with `.` and `[i]`, which two
places of a document may share, and nothing logs or stores them (`waf.py:97-106`,
`threat_logger.py:45-66`).
The loop over a form takes the pairs in the order in which `parse_qs` groups them
(`Gathers`). A threat carries the path of positions to its string, as history.
`FindsAllInOrder` compares with a reference that has neither loop nor stack: `Contains` says
where in the request an attack is, `Precedes` which of two places comes first.
`InspectsAllParts` is what the module's docstring claims, and fails for keys. Not modelled:
snippets and pattern labels.

### Lifespan

`pc[w]` is where a worker is in its life; the names are those of the steps of
`create_tables` and of the lifespan. `creator` is the worker whose transaction has created
tables and is undecided: `Create` waits for it, `Conflict` is the refusal once it has
committed. `DatabaseDown` cuts all connections and ends all transactions, with a commit
under way done or not; `Kill` leaves a transaction open (`Orphan`) until PostgreSQL notices
(`RollBack`). A probe goes from Redis to the database to the commit of its session;
`seen` is history: what was up and what was down while it ran. `stale` says
that a worker may hold Redis connections an outage has cut, on which a ping may fail
though Redis is back; the database's pool tries its connections first (`pool_pre_ping`).
Other requests make and use the Redis client like probes do. One probe is in flight at a
time: probes of two workers share nothing, and two of one worker only the client, which
is made without an await. `crowded` are the workers whose pool is all in use by others:
`PoolFills` stands for the recording tasks and queries of `ThreatLog`, and there a probe's SELECT
fails with the pool's timeout, the database being up (`Select`). `CloseFails` is an `aclose()` that
times out on cut connections: the client is not forgotten. `/live` does no I/O.

### ThreatQueries

`rows` is the log, `detected` and `kind` what a row says. `Stamp` is a recording task up
to the reading of `detected_at`, `Commit` its commit, any later moment; so rows are not
committed in the order of their times, and times can be equal. `Execute` runs the next
statement of `get_stats`, `Fetch` and `CountRows` are the two of `list_threats`: each sees
the rows committed when it runs (READ COMMITTED, PostgreSQL's default; the engine sets
no other). SQL's freedom among equal rows is a choice: `Pages` and `Leading` are the sets
a sorted and cut result may be. The reader who follows the pages to the end
(`LastPage`, `NextPage`) is a client of the API. `NoEventSkipped` says nothing of an event whose time is
tied: `ORDER BY detected_at` has no second key, so two executions may order it differently,
and it can fall between two pages. An event may also come twice. Failed statements are
`ThreatLog`'s: they end the handler without an answer.

### Auth

Tokens are records in the hands of clients, which may present any of them, any number
of times, to any worker. `Created` is `_create_token` with PyJWT's rounding of times;
`Verdict` is `decode_token`. A pair gets one `jti` (with the type, it names a token) and
is issued at one time. `Restart` replaces a worker process; `Key` is the configured
secret, or the one a process draws. `answer` is the last request, so that invariants
can speak of what was answered. Malformed and altered tokens are answered like one
with another signature; passwords are right or wrong.

## 3. What TLC checks

| Run | Instance | Shows |
|---|---|---|
| `bucket` | 2 calls, 1 client, capacity 1, window 1 s of 2 ticks, timeout 2 ticks, calls start by tick 2 of 4 | `AdmissionConserved`, `ExpiryTransparent`, `RetryAfterExact`, `NoLostCredit`, whatever order commands run in, and the refinement `ImplementsIdealBucket` |
| `bucket_live` | 1 call, capacity 3, timeouts 1 and 2 ticks, 13 ticks | `ChargesBounded`, `BoundedWait`, and `EveryCallEnds` under `FairSpec` |
| `bucket_rate` | 3 calls | violation: a late command makes a bucket refill the same time twice |
| `gateway` | 2 requests of 27 kinds, bucket of 1, 2 commands per check, every setting | `EventsMatchAnswers`, `HandlersSeeNoThreat`, `PassageIsPaid`, no request gets stuck |
| `threat_log` | 2 events, 2 queries, 2 connections | `LoggedMeansRecorded`, `NoLeakedConnection`, `EveryTaskEnds`, `EveryConnectionReturns`, `RecordedWhileRunning` |
| `shieldflow` | 2 requests with a threat, bucket of 1, 1 command per check, 1 connection, every setting | `ImplementsAuditTrail`, `EveryRequestAnswered` |
| `inspector` | 7794 requests: documents with up to 2 items per container and 4 levels, 3 calls deep at most, forms of 3 pairs, 2 query pairs, 2 headers | `FindsAllInOrder` |
| `inspector_keys` | the same | violation: an attack in a key of a form or a JSON object is passed |
| `lifespan` | 2 workers, 1 outage, full pool or kill besides services that are down at first | `ServesWithTables`, `ProbesTellTheTruth`, `NoClientLeftBehind`, `EveryStartEnds`, `EveryStopEnds` |
| `threat_queries` | 3 events of 3 kinds, 2 clients, a top list of 1, pages of 1 and 2, a day of 1 tick | `FiguresAddUp`, `FiguresUpToDate`, `OffendersLead`, `TotalCoversPage`, `NoEventSkipped` |
| `auth` | 2 users, a worker that restarts with another secret, 3 pairs, access 1 s, refresh 2 s, of 2 ticks | `ServedInTime`, `ExpiresInTime`, `SessionsEndIdle` |
| `auth_profile` | the same with a configured secret | violation: a rotated access token has lost username and role |

**Bounds.** One client is enough for the bucket: no action reads another client's key,
and `TokenBucketProofs` holds for any number. Two calls of up to six commands each are enough
for a late command to run between two others, as a timed-out attempt of either call, and to
move `last_refill` back; three calls let a client profit from it (`bucket_rate`). Ticks are half
seconds so that Retry-After has something to round. The clock passes the TTL (2 windows, 4
ticks) while commands are still in flight. The six attempts of one call, at 2 ticks each, need the 13 ticks
of `bucket_live`, where 3 tokens pay for all three runs. Two requests suffice for
the gateway since they meet only in a bucket, and a bucket of 1 is emptied by one; two
commands per check are the least of which one is heard and another is not, and the theorems
hold for three. In `shieldflow` one connection makes one recording task wait for another, and
time out; requests of other kinds, and commands run unheard, are `gateway`'s. Two items and two
levels are the least with which an order among siblings can differ from an order among
levels; the sets of documents are in `MCInspector`. Two workers are what the Dockerfile
starts; one fault at a time reaches every step of a start, a probe and a stop, and services
may be down from the beginning. In `auth` a restarted worker stands for another one as well:
workers differ in nothing but their secret. Two connections for four users let tasks wait,
time out and find a connection kept by an abandoned query. Three events are enough for a
page to lose one to the next while one is inserted, and for the counts of two clients to
change places; three ticks make an event fall out of the last day between two statements.
Three pairs make a chain of two rotations, and 4 ticks are the life of a refresh token.

**Symmetry** is used on calls, requests, events and workers in runs of safety properties only.

**Fairness.** `TokenBucket!FairSpec`: the clock moves and the event loop runs a
timeout that is due; nothing is assumed of Redis. `ThreatLog!FairSpec`: the event loop
runs what is ready, the pool hands out a free connection or, being full, times out
(`pool_timeout`), PostgreSQL answers or its connection fails, a generator nobody refers
to is collected (reference counting and the loop's asyncgen hook), and a shutdown that
has begun goes on. `ShieldFlow!FairSpec` adds that a
request in flight goes on: the limiter answers or raises (`TokenBucket!EveryCallEnds`), a
body comes or its client is gone, a handler ends. `Lifespan!FairSpec`: Redis and the
database answer or their connections fail (`socket_timeout`, `pool_timeout`, TCP), a
transaction whose client is gone ends, and the event loop goes on; nothing is assumed to recover. No
server is assumed to be stopped. A failed commit, a crash or a
connection error is never assumed to happen.

**Deadlock** is checked in every run; `Rest` marks the states in which a bounded
behaviour is over.

## 4. What the code does otherwise than documented

Runs that expect a violation, with the line they quote, are listed under "findings" in
`PROJECT.json`. Others were met while reading, and are plain from the text without a model:

* `tests/test_rate_limiter.py:147` wants a call with 0 tokens blocked: with `max_tokens = 0` the
  TTL is not a number, EXPIRE refuses it after HMSET, `check` raises and the middleware lets
  the request through (`redis_service.py:94`, `ExpireFails` in `TokenBucket`).
* `main.py:134` wants every request logged with its correlation id: the logging middleware runs
  before the WAF draws one and logs under an id of its own (`Arrive` in `Gateway`).
* `threat_event.py:24` says an event has the source address of the request: a rate_limit event
  has the peer's, behind a proxy the proxy's (`rate_limiter.py:104`, `Deny` in `Gateway`).
* `main.py:63` says the startup verifies Redis: it does not touch it.
* `health.py:89` says `/ready` is 200 only when the service is ready to accept traffic: a worker
  that started during an outage never makes the tables, and is ready without them
  (`ServesWithTables` needs `outage`).
* `main.py:5` names the WAF before the limiter; `main.py:120` has the order of the code.
* `main.py:109` wants a preflight request to pass; CORS is the innermost middleware,
  so limiter and WAF come first.
* `rate_limiter.py:12` promises X-RateLimit headers on all responses; those given
  while the limiter fails, and on exempt paths, have none.
* `rate_limiter.py:44` lists the token's subject as a client identifier; nothing reads it.
* `tests/test_integration.py:131` wants a request id on every response; a 429, a 413 and
  uninspected requests get none.
* `/live` is limited and inspected like any route (`rate_limiter.py:35`), though
  `tests/test_integration.py:100` wants it to answer 200 always.
* `redis_service.py:10` has a request consume one token; one whose attempts time out may be
  charged two, and three if Redis has just forgotten the script (`ChargesBounded` is the bound
  that holds). A request that is refused may have been charged as well.
* `threat_event.py:20` says every blocked request is recorded: not with
  `WAF_LOG_BLOCKED` off, nor when a shutdown overtakes the task, nor when more tasks queue for
  the 15 connections than are served in 30 seconds.
* `health.py:42` says `/health` verifies connectivity to PostgreSQL: with a full pool it answers 503
  and calls a database unhealthy that is up.
* `database.py:87` says a session rolls back on exception: not on one raised by the
  body of its `async for`, which reaches the generator only as `GeneratorExit`.
* `security.py:133` says rotation invalidates the old refresh token: it stays valid
  until it expires.
* `dependencies.py:37` says 401 for a missing token: it is 403.

## 5. What is proved

`TokenBucketProofs` proves, for every number of clients and calls and all values of
the parameters that satisfy `ParametersAssumption`:

* **Types** (`TypeCorrect`). The arithmetic of the script is nonlinear in the
  parameters (capacity times window), so products, divisions and the ceiling are
  treated in lemmas of their own, which the steps cite.
* **Conservation** (`AdmissionsConserved`, `AdmissionsBounded`). `AdmissionConserved`
  is inductive with the type invariant: a run of the script adds to the right side
  exactly what it refills, because what it moves `last_refill` back by is added to
  `rewound`. The bound against the clock needs that no stored timestamp lies in the
  future (`Timely`).
* **Expiry** (`ExpiryIsTransparent`): `expires_at` is at least `last_refill` + TTL,
  again by `Timely`, and TTL is two windows.
* **Waiting** (`WaitsBounded`): `Place` numbers the six attempts a call may make; the n-th is
  sent no later than n - 1 deadlines after the call's timestamp (`CallTimes`), because time
  does not pass a deadline.
* **Charges** (`ChargesAreBounded`): what a call was charged, its commands still in `net` that
  run the script, and the answer it has if that took nothing, never exceed the runs its commands may
  have caused (`Accounted`). An answer of NOSCRIPT counts as such a run, which is what bounds the
  first command's charges by one when a second follows.
* **Retry-After** (`RetryAfterIsExact`): from the lemma on the ceiling of a division.
* **Credit** (`CreditNeverLost`): by what each action does to `Loaded`; uses `Timely`
  and conservation of the refill under `AtMost`.
* **Refinement** (`ImplementsIdeal`, `PunctualIsIdeal`, `PunctualRefillRate`): each action but
  the run of a late command maps to an action of `IdealBucket` or to a stutter; a key that
  expires in a tick holds a full bucket by `ExpiryIsTransparent`. For `PunctualSpec`, the
  behaviours without late commands, that is the ideal bucket itself and the documented rate.

`AuthProofs` proves, for every value of the constants of `Auth`:

* **Types** (`TypeCorrect`).
* **Lifetimes** (`AlwaysServedInTime`, `AlwaysExpiresInTime`). `Dated` fixes `exp` by
  the time of issue and the type; the lemma `Edges` turns the comparison of whole
  seconds into bounds in ticks; `Timed` carries them to the last answer.
* **Chains** (`SessionsAlwaysEndIdle`). The property is not inductive by itself: `Numbered`
  says that a `jti` names one pair and that nothing has a parent not yet issued.

`LifespanProofs` proves, for any number of workers, outages and kills:

* **Types** (`TypeCorrect`), together with `Owned`: who is about to commit has created
  the tables or has found them.
* **Tables** (`TablesServed`). The property is inductive once it is known that a start
  that fails has lost the race to tables that exist or was cut by an outage (`Served`).
* **Clients** (`ClientsClosed`): a client is being closed only in a worker whose requests
  are done, because `CloseDb` waits for them (`Quiet`).
* **Probes** (`HonestProbes`): while a probe runs, `seen` covers what is up and down and
  whether the pool is full (`Watching`); what the probe says of a service it has a reason to say (`Reasons`); and its
  code follows from what it says (`Coded`).

`GatewayProofs` proves, for any requests, clients, whitelist and limit, and every value of
the settings:

* **Types** (`TypeCorrect`), with `Named`: past the logging middleware an id is bound, so
  what is logged is an id. No bucket goes below zero or above the limit.
* **Events and answers** (`EventsAlwaysMatch`). The property speaks of requests that are
  done; `Told` says at every moment that the events fired are those due for the answer the
  request has, and that it has none before it turns back (`Pending`), which is why no
  step answers twice.
* **Inspection** (`ThreatsStopped`): whatever is let in to the route shows no threat or was
  not to be inspected (`Cleared`).
* **Payment** (`PassageAlwaysPaid`): `Charged` adds that nothing is paid before the limiter
  is asked and that only what it allowed gets its headers; a command that runs unheard only adds to what
  is paid, up to the bound its guard leaves a refused request.

The lemma `Frame` says that a step of one request changes no other, so that each invariant
needs a proof only for the request that moves.

`ThreatLogProofs` proves, for any number of events, queries and connections:

* **Types** and **rows** (`TypeCorrect`, `LoggedIsRecorded`). `Recorded` relates task and
  row: none before the commit, one from the commit on. This, and not the type, is what
  keeps `rows` from reaching 2.
* **Connections** (`ConnectionsAccountedFor`). `Holding` says in which states of its user a
  session may hold a connection; `Counted` that those held are finitely many, which
  `Cardinality` needs.
* **Losses** (`LossesHaveCauses`): an event whose task is over has its row or a cause (`Caused`).
  The cause "behind a full pool" is one that others can be held to: as many as the pool has
  connections have asked for one. It stays true once it is (nobody un-asks), while the full pool
  itself does not. No run checks it; the safety part of `RecordedWhileRunning` follows from it.
* **The end** (`EndsAtRest`): from the shutdown on no answer is outstanding and no query
  runs, and once the event loop has ended no task is at work and no connection in use. Its
  invariant `Drained` is kept because only a process that serves schedules a task or takes
  a query, and because a task that is neither idle nor over has been cancelled. No run
  checks it.

`ShieldFlowProofs` proves, for any number of requests and connections:

* **The components** (`ComponentsCorrect`). Every step of the composition is a step of
  `Gateway` or leaves it alone, and the same for `ThreatLog`; so what is proved of
  each holds where they run together. `ShieldFlowAssumption` gives the assumptions of both.
* **The safety part of the refinement** (`FollowsAuditTrail`): the initial states map to
  initial states, and every step to a step of `AuditTrail` or a stutter. `StepDecides`, from
  `GatewayProofs`, gives that a request is decided once and that its event and its answer
  are one step; `Recorded` gives that a task without a row has kept nothing yet, so that
  `Execute` is `Keep`, and a failure is a `Lose` that a fault or a full pool allows.
* **Refusals and rows** (`RefusalsAccountedFor`): a row is kept for a 429, or for a 403 while
  `WAF_LOG_BLOCKED` is on, and for nothing else; and for each of those the row is there, or
  its task is still at work, or there was a cause (a fault, values no row can hold, the end of
  the process, as many other tasks as the pool has connections). Neither component says this alone:
  `Gateway` knows no rows and `ThreatLog`
  no answers. The argument goes through the refinement: `Accounted` is an invariant of
  `AuditTrail`'s steps, and `StepAudited` makes it one of the composition.
* **The shutdown** (`ShutdownWaits`): a server that has begun to stop has answered every
  request that reached it, unless it was killed, and leaves no recording task at work. The
  first half is of the composition alone: `ThreatLog` knows the requests on record, and the
  server waits for the others as well. No run checks it.

`ThreatQueriesProofs` proves, for any number of events and clients, any page sizes and table
size, and any clock:

* **Types** (`TypeCorrect`), with `LogTyped` (time and kind of a row are filled in together)
  and `Stepped` (where `get_stats` is).
* **Figures** (`FiguresAgree`, `FiguresNeverStale`). `Tally` says of the figures obtained so
  far that each lies between what the log held at the call and what it holds now, and that
  the total is at most the sum of the figures that are there and the rows that there would
  be for the others (`Share`). It is inductive because rows are only added (`Grown`) and
  the three types share them out (`TypesAddUp`); with the total counted last it is not.
* **Top offenders** (`LeadersAreListed`): who is left out of a sorted and cut list was so
  because the list is full of clients not behind him.
* **Totals** (`TotalReachesPage`): a page that is not empty lies within the list
  (`PageWithin`), which only grows until it is counted.
* **Paging** (`EveryEventSeen`). `Ahead` says of an event not seen yet that as many rows
  come before it as the pages so far have shown (`Later`); inserted rows can only add to
  them. The lemma `PageReaches` is the step: if the event is not on the page, the page is
  full and all of it comes before the event. When the total has been counted, it exceeds
  what has been shown, so the reader goes on. Both rest on the time being untied.

`InspectorProofs` proves, for requests of any size, any documents that are closed under
taking items, and any limit on the depth of calls:

* **Types** (`TypeCorrect`).
* **What is found** (`AllFoundInOrder`, `ThreatsAreAttacks`). `Gone` says which places the
  inspection has come past; in a document, those that a call on the stack has left behind
  (`Passed`). `Abreast` says that of the attacks of the request exactly those in such
  places have been reported. Each step comes past one string and reports it
  (`PassingOne`), or past no string (`PassingNothing`). What the step must know is where
  the top of the stack is: `Called` says that each call works on the item its caller is at,
  so that the caller's positions are a path to it (`TrailOfCalls`), what returns leaves
  behind all that is under that path (`ReturnStep`), and nothing is under a string
  (`TrailEnds`). Order follows, for what was found lies in places gone past
  (`ComesAfter`). A traversal that runs too deep ends without a result, so `Abreast`
  says nothing of it.

Trails through a document are recursive functions, and what they return is proved by
induction on their length. The library's induction theorems take an operator as
parameter; `SetInduction` states induction for a set instead, and follows from the
well-foundedness of `<`.

The assumptions are those named in the modules; they say that constants are the sets
and numbers the settings can be, and that clients, keys and the absent value differ.

Only model-checked: liveness (`EveryCallEnds`, `EveryTaskEnds`,
`EveryConnectionReturns`, `RecordedWhileRunning`, `EveryRequestAnswered`, `EveryStartEnds`, `EveryStopEnds`
and the fairness of `ImplementsAuditTrail`), which is beyond the prover.

## 6. Plan

1. Models, runs and abstract specifications of all components with control flow: done.
2. Proofs of every safety property of `TokenBucket`, `Lifespan`, `Auth`, `Gateway`,
   `ThreatLog`, `ThreatQueries` and `Inspector`, of `IdealBucket`'s refinement and of the
   safety part of `AuditTrail`'s: done.
3. Proofs about the composition: its components' invariants, the record of refusals, the
   shutdown: done. What is left are the liveness properties, which stay with TLC.

## 7. Not modelled

The regular expressions and their labels (data), the parsing of settings, the schemas'
validation, Alembic's migrations (run by hand, linear), Prometheus metrics (a third-party
counter), image and compose files beyond the constants they give, and the load test (a
client) hold no control flow of the program's own. `pool_recycle` and the rounding of
doubles are outside TLA+'s reach or without a consequence for what is checked.
