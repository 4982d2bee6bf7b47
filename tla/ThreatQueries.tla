----------------------------- MODULE ThreatQueries -----------------------------
(***************************************************************************)
(* The admin queries over the event log while events are recorded:         *)
(* list_threats and get_stats of app/api/routes/gateway.py.                *)
(*                                                                         *)
(* A handler awaits one statement after the other in a session of          *)
(* PostgreSQL's default isolation, READ COMMITTED: each statement sees the *)
(* rows committed when it runs, so the figures of one answer are of        *)
(* different moments.  A recording task reads the clock for detected_at    *)
(* before it commits: rows appear in another order than they are sorted    *)
(* in, and two may have the same time.  Nothing deletes a row.             *)
(***************************************************************************)
EXTENDS Naturals, FiniteSets, Sequences

CONSTANTS
  Events,      \* blocked requests, one row each
  Clients,     \* values of client_ip
  Kinds,       \* what a row tells of its event: records [type, ip]
  Day,         \* the 24 hours of last_24h_events
  MaxClock,    \* bound: the clock stops here
  TopLimit,    \* how many top offenders are listed: LIMIT 5
  PageSizes,   \* page_size: one of them throughout a walk through the list
  None

Types == {"sqli", "xss", "rate_limit"}

ASSUME QueriesAssumption ==
  /\ Kinds \subseteq [type : Types, ip : Clients]
  /\ IsFiniteSet(Events) /\ IsFiniteSet(Clients)
  /\ {Day, MaxClock} \subseteq Nat
  /\ {TopLimit} \cup PageSizes \subseteq Nat \ {0}
  /\ None \notin Nat \cup Types \cup Kinds

VARIABLES
  clock,
  detected,   \* detected_at of each event's row, None before it is read
  kind,       \* the type and client of each event
  rows,       \* the events whose row is committed
  admin,      \* whether the reader's token has the role admin
  reader,     \* what the reader waits for
  step,       \* get_stats: the statement that is next
  figures,    \* get_stats: the counts obtained so far
  top,        \* get_stats: the top offenders, with their counts
  since,      \* get_stats: when the clock was read for last_24h
  filter,     \* list_threats: attack_type
  page_size,  \* list_threats: how many rows make a page
  page,       \* list_threats: the page asked for
  items,      \* list_threats: the events on the page
  total,      \* list_threats: the total that comes with the page
  base,       \* history: the rows there were when the reader began
  seen        \* history: the events on the pages the reader has been given

log == <<clock, detected, kind, rows>>
stats == <<step, figures, top, since>>
list == <<filter, page_size, page, items, total, seen>>
vars == <<log, admin, reader, stats, list, base>>

\* Mutant of Statements: the total is counted after the types.
StatementsTotalLate ==
  <<"sqli", "xss", "rate_limit", "total", "since", "recent", "top">>

\* What get_stats does, in order; at "since" it reads the clock.
Statements == <<"total", "sqli", "xss", "rate_limit", "since", "recent", "top">>

Counted == {"total", "recent"} \cup Types

\* A reader begins at most one call of get_stats, or walks through the list
\* once: "page" and "count" are the two statements of list_threats, "given" is a
\* page answered with the reader still to ask for the next one.
TypeOK ==
  /\ clock \in 0 .. MaxClock
  /\ detected \in [Events -> 0 .. MaxClock \cup {None}]
  /\ kind \in [Events -> Kinds \cup {None}]
  /\ rows \subseteq {e \in Events : detected[e] # None /\ kind[e] # None}
  /\ admin \in BOOLEAN
  /\ reader \in {"idle", "stats", "page", "count", "given", "informed", "finished",
                 "refused"}
  /\ step \in 1 .. Len(Statements) + 1
  /\ figures \in [Counted -> Nat]
  /\ DOMAIN top \subseteq Clients /\ top \in [DOMAIN top -> Nat]
  /\ since \in 0 .. MaxClock
  /\ filter \in Types \cup {None}
  /\ page_size \in PageSizes
  /\ page \in Nat \ {0}
  /\ items \subseteq rows /\ Cardinality(items) <= page_size
  /\ total \in 0 .. Cardinality(rows)
  /\ base \subseteq rows
  /\ seen \subseteq rows

Init ==
  /\ clock = 0
  /\ detected = [e \in Events |-> None]
  /\ kind = [e \in Events |-> None]
  /\ rows = {}
  /\ admin \in BOOLEAN
  /\ reader = "idle"
  /\ step = 1 /\ figures = [f \in Counted |-> 0] /\ top = <<>> /\ since = 0
  /\ filter = None /\ page_size \in PageSizes /\ page = 1 /\ items = {} /\ total = 0
  /\ base = {} /\ seen = {}

-----------------------------------------------------------------------------
(* The recording tasks, of which ThreatLog has the detail.                 *)

Tick ==
  /\ clock < MaxClock
  /\ clock' = clock + 1
  /\ UNCHANGED <<detected, kind, rows, admin, reader, stats, list, base>>

\* A task builds the row.
Stamp(e) ==
  /\ detected[e] = None
  /\ detected' = [detected EXCEPT ![e] = clock]
  /\ \E k \in Kinds : kind' = [kind EXCEPT ![e] = k]
  /\ UNCHANGED <<clock, rows, admin, reader, stats, list, base>>

\* Mutant of Commit: the row is written before it is filled in.
CommitEarly(e) ==
  /\ e \notin rows
  /\ rows' = rows \cup {e}
  /\ UNCHANGED <<clock, detected, kind, admin, reader, stats, list, base>>

\* The row is committed, any time later or never.
Commit(e) ==
  /\ detected[e] # None
  /\ e \notin rows
  /\ rows' = rows \cup {e}
  /\ UNCHANGED <<clock, detected, kind, admin, reader, stats, list, base>>

-----------------------------------------------------------------------------
(* Statements.                                                             *)

AtMost(a, b) == IF a <= b THEN a ELSE b

\* The rows a filter by attack_type leaves; no filter leaves them all.
Matching(S, f) == {e \in S : f = None \/ kind[e].type = f}

\* The rows of the last Day before the time t.
Recent(S, t) == {e \in S : detected[e] + Day >= t}

From(S, ip) == {e \in S : kind[e].ip = ip}
Named(S) == {kind[e].ip : e \in S}

\* Mutant of Leading: sorted without desc.
Trailing(S) ==
  {T \in SUBSET Named(S) :
     /\ Cardinality(T) = AtMost(TopLimit, Cardinality(Named(S)))
     /\ \A a \in T, b \in Named(S) \ T :
          Cardinality(From(S, a)) <= Cardinality(From(S, b))}

\* ORDER BY count DESC LIMIT 5: the clients that may be listed, ties broken
\* either way.
Leading(S) ==
  {T \in SUBSET Named(S) :
     /\ Cardinality(T) = AtMost(TopLimit, Cardinality(Named(S)))
     /\ \A a \in T, b \in Named(S) \ T :
          Cardinality(From(S, a)) >= Cardinality(From(S, b))}

\* Mutant of Offset: pages counted from zero.
OffsetFromZero(p) == p * page_size

Offset(p) == (p - 1) * page_size

\* ORDER BY detected_at DESC OFFSET n LIMIT page_size: the sets of rows that may
\* be on a page.  Rows of the same time come in any order, another one at each
\* execution.
Pages(S, n) ==
  {I \in SUBSET S :
     \E B \in SUBSET (S \ I) :
       /\ Cardinality(B) = AtMost(n, Cardinality(S))
       /\ Cardinality(I) = AtMost(page_size, Cardinality(S) - Cardinality(B))
       /\ \A b \in B, i \in I : detected[b] >= detected[i]
       /\ \A i \in B \cup I, r \in S \ (B \cup I) : detected[i] >= detected[r]}

-----------------------------------------------------------------------------
(* get_stats.                                                              *)

\* Without the role admin both handlers answer 403 before any statement.
Refuse ==
  /\ reader = "idle" /\ ~admin
  /\ reader' = "refused"
  /\ UNCHANGED <<log, admin, stats, list, base>>

BeginStats ==
  /\ reader = "idle" /\ admin
  /\ reader' = "stats"
  /\ base' = rows
  /\ UNCHANGED <<log, admin, stats, list>>

\* Mutant of Count: rows of the last day only, for every figure.
CountRecent(figure) ==
  Cardinality(Recent(Matching(rows, IF figure \in Types THEN figure ELSE None), clock))

\* The figure a counting statement finds.
Count(figure) ==
  Cardinality(CASE figure = "total" -> rows
                [] figure = "recent" -> Recent(rows, since)
                [] figure \in Types -> Matching(rows, figure))

\* The next statement runs; after the last one the figures are answered.
Execute ==
  /\ reader = "stats"
  /\ LET f == Statements[step] IN
     /\ IF f = "since" THEN since' = clock ELSE UNCHANGED since
     /\ IF f \in Counted THEN figures' = [figures EXCEPT ![f] = Count(f)]
                         ELSE UNCHANGED figures
     /\ IF f = "top"
        THEN \E T \in Leading(rows) :
               top' = [a \in T |-> Cardinality(From(rows, a))]
        ELSE UNCHANGED top
  /\ step' = step + 1
  /\ reader' = IF step = Len(Statements) THEN "informed" ELSE "stats"
  /\ UNCHANGED <<log, admin, list, base>>

-----------------------------------------------------------------------------
(* list_threats, as a reader who pages through to the end calls it.        *)

BeginWalk ==
  /\ reader = "idle" /\ admin
  /\ reader' = "page"
  /\ filter' \in Types \cup {None}
  /\ base' = rows
  /\ UNCHANGED <<log, admin, stats, page_size, page, items, total, seen>>

Fetch ==
  /\ reader = "page"
  /\ items' \in Pages(Matching(rows, filter), Offset(page))
  /\ reader' = "count"
  /\ UNCHANGED <<log, admin, stats, filter, page_size, page, total, seen, base>>

\* Mutant of CountRows: the total is the one the walk began with.
CountRowsBefore ==
  /\ reader = "count"
  /\ total' = Cardinality(Matching(base, filter))
  /\ seen' = seen \cup items
  /\ reader' = "given"
  /\ UNCHANGED <<log, admin, stats, filter, page_size, page, items, base>>

\* The total is counted after the page was read, and both are answered.
CountRows ==
  /\ reader = "count"
  /\ total' = Cardinality(Matching(rows, filter))
  /\ seen' = seen \cup items
  /\ reader' = "given"
  /\ UNCHANGED <<log, admin, stats, filter, page_size, page, items, base>>

\* A reader stops at a page that is not full, or that reaches the total.
LastPage == Cardinality(items) < page_size \/ page * page_size >= total

NextPage ==
  /\ reader = "given" /\ ~LastPage
  /\ reader' = "page"
  /\ page' = page + 1
  /\ UNCHANGED <<log, admin, stats, filter, page_size, items, total, seen, base>>

Finish ==
  /\ reader = "given" /\ LastPage
  /\ reader' = "finished"
  /\ UNCHANGED <<log, admin, stats, list, base>>

-----------------------------------------------------------------------------
Rest == reader \in {"informed", "finished", "refused"} /\ UNCHANGED vars

Next ==
  \/ Tick
  \/ \E e \in Events : Stamp(e) \/ Commit(e)
  \/ Refuse
  \/ BeginStats \/ Execute
  \/ BeginWalk \/ Fetch \/ CountRows \/ NextPage \/ Finish
  \/ Rest

Spec == Init /\ [][Next]_vars

-----------------------------------------------------------------------------
(* Properties.                                                             *)

\* Figures of different moments still agree with each other: each type's count
\* runs after the total, so that the types account for every event of the total,
\* and no figure exceeds what the log holds (gateway.py:165-185).
FiguresAddUp ==
  reader = "informed" =>
    /\ figures["total"] <= figures["sqli"] + figures["xss"] + figures["rate_limit"]
    /\ figures["sqli"] + figures["xss"] + figures["rate_limit"] <= Cardinality(rows)
    /\ figures["recent"] <= Cardinality(rows)

\* No figure misses an event that was in the log when the request came, neither the
\* total nor that of a type; the one of the last 24 hours leaves out all that were
\* older by then, and no other (gateway.py:165-185).
FiguresUpToDate ==
  reader = "informed" =>
    LET old == base \ Recent(base, since) IN
    /\ Cardinality(base) <= figures["total"]
    /\ \A t \in Types : Cardinality(Matching(base, t)) <= figures[t]
    /\ Cardinality(base \ old) <= figures["recent"]
    /\ figures["recent"] <= Cardinality(rows \ old)

\* Nobody who led the table when the request came is missing from it: a client not
\* listed had at most as many events as any listed one is shown with, and one is
\* left out only if the table is full (gateway.py:187-195).
OffendersLead ==
  reader = "informed" =>
    \A a \in Named(base) \ DOMAIN top :
      /\ Cardinality(DOMAIN top) = TopLimit
      /\ \A b \in DOMAIN top :
           Cardinality(From(base, a)) <= top[b]

\* The total that comes with a page reaches at least to the end of that page,
\* though rows are inserted between the two statements (gateway.py:127-135).
TotalCoversPage ==
  reader = "given" /\ items # {} => Offset(page) + Cardinality(items) <= total

\* A row whose time no other row of the log has.
Untied(e) == \A d \in rows \ {e} : detected[d] # detected[e]

\* A reader who pages through to the end has seen every event that was in the log
\* when the walk began, whatever is inserted meanwhile and wherever it is sorted
\* in, unless its time is tied: inserted rows push others to later pages, never to
\* earlier ones (gateway.py:120-135).
NoEventSkipped ==
  reader = "finished" =>
    \A e \in Matching(base, filter) : Untied(e) => e \in seen

=============================================================================
