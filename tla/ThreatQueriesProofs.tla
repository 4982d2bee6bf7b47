--------------------------- MODULE ThreatQueriesProofs ---------------------------
(***************************************************************************)
(* Theorems about ThreatQueries, for any number of events and clients, any *)
(* sizes of a page and of the table of offenders, and any clock.           *)
(***************************************************************************)
EXTENDS ThreatQueries, FiniteSetTheorems, TLAPS

\* A part of a finite set is finite and not larger.
LEMMA PartOf ==
  ASSUME NEW T, IsFiniteSet(T), NEW S \in SUBSET T
  PROVE  /\ IsFiniteSet(S)
         /\ Cardinality(S) \in Nat /\ Cardinality(T) \in Nat
         /\ Cardinality(S) <= Cardinality(T)
         /\ Cardinality(S) = Cardinality(T) => S = T
  BY FS_Subset, FS_CardinalityType

\* Two parts without a common element.
LEMMA PartsAddUp ==
  ASSUME NEW S, NEW T, IsFiniteSet(S), IsFiniteSet(T), S \cap T = {}
  PROVE  /\ IsFiniteSet(S \cup T)
         /\ Cardinality(S \cup T) = Cardinality(S) + Cardinality(T)
<1>1. Cardinality(S \cap T) = 0
  BY FS_EmptySet
<1> QED
  BY <1>1, FS_Union, FS_CardinalityType

LEMMA LeastTyped ==
  ASSUME NEW a \in Nat, NEW b \in Nat
  PROVE  AtMost(a, b) \in Nat /\ AtMost(a, b) <= a /\ AtMost(a, b) <= b
  BY DEF AtMost

\* What the rows tell, and that they can be counted.
LEMMA RowsTyped ==
  ASSUME TypeOK
  PROVE  /\ rows \subseteq Events /\ IsFiniteSet(rows) /\ Cardinality(rows) \in Nat
         /\ \A e \in rows : /\ detected[e] \in Nat
                            /\ kind[e].type \in Types /\ kind[e].ip \in Clients
<1>1. rows \subseteq Events
  BY DEF TypeOK
<1>2. \A e \in rows : detected[e] \in 0 .. MaxClock /\ kind[e] \in Kinds
  BY <1>1 DEF TypeOK
<1>3. \A k \in Kinds : k.type \in Types /\ k.ip \in Clients
  BY QueriesAssumption
<1>4. 0 .. MaxClock \subseteq Nat
  BY QueriesAssumption
<1> QED
  BY <1>1, <1>2, <1>3, <1>4, PartOf, QueriesAssumption

\* The sets that the statements select from rows of the log.
LEMMA SelectedTyped ==
  ASSUME TypeOK, NEW S \in SUBSET rows
  PROVE  /\ IsFiniteSet(S) /\ Cardinality(S) \in Nat
         /\ \A f : Matching(S, f) \subseteq S /\ IsFiniteSet(Matching(S, f))
                   /\ Cardinality(Matching(S, f)) \in 0 .. Cardinality(S)
         /\ \A t : Recent(S, t) \subseteq S /\ IsFiniteSet(Recent(S, t))
                   /\ Cardinality(Recent(S, t)) \in 0 .. Cardinality(S)
         /\ \A a : From(S, a) \subseteq S /\ IsFiniteSet(From(S, a))
                   /\ Cardinality(From(S, a)) \in 0 .. Cardinality(S)
         /\ Named(S) \subseteq Clients /\ IsFiniteSet(Named(S))
<1>1. IsFiniteSet(S)
  BY RowsTyped, PartOf
<1>2. /\ \A f : Matching(S, f) \subseteq S
      /\ \A t : Recent(S, t) \subseteq S
      /\ \A a : From(S, a) \subseteq S
  BY DEF Matching, Recent, From
<1>3. \A T \in SUBSET S : IsFiniteSet(T) /\ Cardinality(T) \in 0 .. Cardinality(S)
  BY <1>1, PartOf
<1>4. Named(S) \subseteq Clients
  BY RowsTyped DEF Named
<1> QED
  BY <1>1, <1>2, <1>3, <1>4, PartOf, QueriesAssumption

\* The three types share out the rows.
LEMMA TypesAddUp ==
  ASSUME TypeOK, NEW S \in SUBSET rows
  PROVE  Cardinality(S) = Cardinality(Matching(S, "sqli")) + Cardinality(Matching(S, "xss"))
                          + Cardinality(Matching(S, "rate_limit"))
<1> DEFINE A == Matching(S, "sqli")
           B == Matching(S, "xss")
           C == Matching(S, "rate_limit")
<1>1. IsFiniteSet(A) /\ IsFiniteSet(B) /\ IsFiniteSet(C)
  BY SelectedTyped
<1>2. S = (A \cup B) \cup C /\ A \cap B = {} /\ (A \cup B) \cap C = {}
  BY RowsTyped, QueriesAssumption DEF Matching, Types
<1>3. /\ IsFiniteSet(A \cup B)
      /\ Cardinality(A \cup B) = Cardinality(A) + Cardinality(B)
  BY <1>1, <1>2, PartsAddUp
<1>4. Cardinality((A \cup B) \cup C) = Cardinality(A \cup B) + Cardinality(C)
  BY <1>1, <1>2, <1>3, PartsAddUp
<1> QED
  BY <1>2, <1>3, <1>4

-----------------------------------------------------------------------------
(* The log grows, and the reader waits.                                    *)

\* Rows are never changed and never go away.
Grown ==
  /\ rows \subseteq rows'
  /\ \A e \in rows : detected'[e] = detected[e] /\ kind'[e] = kind[e]

LogStep == Tick \/ \E e \in Events : Stamp(e) \/ Commit(e)
ReaderStep ==
  \/ Refuse \/ BeginStats \/ Execute
  \/ BeginWalk \/ Fetch \/ CountRows \/ NextPage \/ Finish

LEMMA StepCases ==
  ASSUME [Next]_vars
  PROVE  LogStep \/ ReaderStep \/ UNCHANGED vars
  BY Zenon DEF Next, LogStep, ReaderStep, Rest

\* A log step writes rows and nothing else; a reader's step writes none.
LEMMA LogFrame ==
  ASSUME TypeOK, LogStep
  PROVE  Grown /\ UNCHANGED <<admin, reader, step, figures, top, since, filter, page_size,
                              page, items, total, seen, base>>
<1>1. UNCHANGED <<admin, reader, step, figures, top, since, filter, page_size, page, items,
                  total, seen, base>>
  BY DEF LogStep, Tick, Stamp, Commit, stats, list
<1>2. ASSUME Tick
      PROVE  Grown
  BY <1>2 DEF Tick, Grown
<1>3. ASSUME NEW e \in Events, Stamp(e)
      PROVE  Grown
  BY <1>3 DEF Stamp, Grown, TypeOK
<1>4. ASSUME NEW e \in Events, Commit(e)
      PROVE  Grown
  BY <1>4 DEF Commit, Grown
<1> QED
  BY <1>1, <1>2, <1>3, <1>4 DEF LogStep

LEMMA ReaderFrame ==
  ASSUME ReaderStep
  PROVE  UNCHANGED <<clock, detected, kind, rows, admin, page_size>>
  BY DEF ReaderStep, Refuse, BeginStats, Execute, BeginWalk, Fetch, CountRows, NextPage,
         Finish, log, list

-----------------------------------------------------------------------------
(* Types.                                                                  *)

\* A row's time and its kind are filled in together.
LogTyped ==
  /\ clock \in 0 .. MaxClock
  /\ detected \in [Events -> 0 .. MaxClock \cup {None}]
  /\ kind \in [Events -> Kinds \cup {None}]
  /\ rows \subseteq {e \in Events : detected[e] # None /\ kind[e] # None}
  /\ \A e \in Events : detected[e] # None => kind[e] # None

LEMMA LogStepTyped ==
  ASSUME LogTyped, LogStep
  PROVE  LogTyped'
<1> USE QueriesAssumption DEF LogTyped
<1>1. CASE Tick
  BY <1>1 DEF Tick
<1>2. ASSUME NEW e \in Events, Stamp(e)
      PROVE  LogTyped'
  <2>1. PICK k \in Kinds : kind' = [kind EXCEPT ![e] = k]
    BY <1>2 DEF Stamp
  <2>2. clock # None /\ k # None
    BY <2>1
  <2> QED
    BY <1>2, <2>1, <2>2 DEF Stamp
<1>3. ASSUME NEW e \in Events, Commit(e)
      PROVE  LogTyped'
  BY <1>3 DEF Commit
<1> QED
  BY <1>1, <1>2, <1>3 DEF LogStep

\* Where get_stats is.
Stepped ==
  /\ reader = "stats" => step \in 1 .. 7
  /\ reader = "informed" => step = 8
  /\ reader \notin {"stats", "informed"} => step = 1

Selecting(figure, number) ==
  /\ figures' = [figures EXCEPT ![figure] = number]
  /\ UNCHANGED <<since, top>>

\* One statement after the other.
LEMMA ExecuteCases ==
  ASSUME Stepped, Execute
  PROVE  /\ step \in 1 .. 7 /\ step' = step + 1
         /\ reader' = IF step = 7 THEN "informed" ELSE "stats"
         /\ UNCHANGED <<filter, page, items, total, seen, base>>
         /\ step = 1 => Selecting("total", Cardinality(rows))
         /\ step = 2 => Selecting("sqli", Cardinality(Matching(rows, "sqli")))
         /\ step = 3 => Selecting("xss", Cardinality(Matching(rows, "xss")))
         /\ step = 4 => Selecting("rate_limit", Cardinality(Matching(rows, "rate_limit")))
         /\ step = 5 => since' = clock /\ UNCHANGED <<figures, top>>
         /\ step = 6 => Selecting("recent", Cardinality(Recent(rows, since)))
         /\ step = 7 => /\ UNCHANGED <<figures, since>>
                        /\ \E T \in Leading(rows) :
                             top' = [a \in T |-> Cardinality(From(rows, a))]
<1>1. /\ step \in 1 .. 7 /\ step' = step + 1 /\ Len(Statements) = 7
      /\ UNCHANGED <<filter, page, items, total, seen, base>>
  BY DEF Stepped, Execute, Statements, list
<1>2. reader' = IF step = 7 THEN "informed" ELSE "stats"
  BY <1>1 DEF Execute
<1>3. /\ Statements[1] = "total" /\ Statements[2] = "sqli" /\ Statements[3] = "xss"
      /\ Statements[4] = "rate_limit" /\ Statements[5] = "since" /\ Statements[6] = "recent"
      /\ Statements[7] = "top"
  BY DEF Statements
<1>4. /\ Count("total") = Cardinality(rows)
      /\ Count("sqli") = Cardinality(Matching(rows, "sqli"))
      /\ Count("xss") = Cardinality(Matching(rows, "xss"))
      /\ Count("rate_limit") = Cardinality(Matching(rows, "rate_limit"))
      /\ Count("recent") = Cardinality(Recent(rows, since))
  BY DEF Count, Types
<1>5. ASSUME NEW f \in Counted, Statements[step] = f
      PROVE  Selecting(f, Count(f))
  BY <1>5 DEF Execute, Selecting, Counted, Types
<1>6. ASSUME step = 5
      PROVE  since' = clock /\ UNCHANGED <<figures, top>>
  BY <1>3, <1>6 DEF Execute, Counted, Types
<1>7. ASSUME step = 7
      PROVE  /\ UNCHANGED <<figures, since>>
             /\ \E T \in Leading(rows) : top' = [a \in T |-> Cardinality(From(rows, a))]
  BY <1>3, <1>7 DEF Execute, Counted, Types
<1>8. {"total", "sqli", "xss", "rate_limit", "recent"} \subseteq Counted
  BY DEF Counted, Types
<1> QED
  BY <1>1, <1>2, <1>3, <1>4, <1>5, <1>6, <1>7, <1>8

\* A page of the rows S from position n on.
LEMMA PageTyped ==
  ASSUME TypeOK, NEW S \in SUBSET rows, NEW n, NEW I \in Pages(S, n)
  PROVE  /\ I \subseteq S
         /\ \E B \in SUBSET (S \ I) :
              /\ Cardinality(B) = AtMost(n, Cardinality(S))
              /\ Cardinality(I) = AtMost(page_size, Cardinality(S) - Cardinality(B))
              /\ \A b \in B, i \in I : detected[b] >= detected[i]
              /\ \A i \in B \cup I, r \in S \ (B \cup I) : detected[i] >= detected[r]
  BY DEF Pages

Typed == TypeOK /\ LogTyped /\ Stepped

LEMMA TypedInit == Init => Typed
<1> SUFFICES ASSUME Init PROVE Typed
  OBVIOUS
<1> USE QueriesAssumption DEF Init
<1>1. LogTyped
  BY DEF LogTyped
<1>2. Stepped
  BY DEF Stepped
<1>3. top \in [DOMAIN top -> Nat] /\ DOMAIN top \subseteq Clients
  OBVIOUS
<1>4. step \in 1 .. Len(Statements) + 1
  BY DEF Statements
<1>5. Cardinality(items) = 0 /\ Cardinality(rows) = 0
  BY FS_EmptySet
<1> QED
  BY <1>1, <1>2, <1>3, <1>4, <1>5 DEF Typed, TypeOK, LogTyped

LEMMA LogStepKeepsTypes ==
  ASSUME Typed, LogStep
  PROVE  Typed'
<1>1. LogTyped' /\ TypeOK
  BY LogStepTyped DEF Typed
<1>2. /\ rows \subseteq rows' /\ rows' \subseteq Events
      /\ UNCHANGED <<admin, reader, step, figures, top, since, filter, page_size, page, items,
                     total, seen, base>>
  BY <1>1, LogFrame DEF Grown, LogTyped
<1>3. Cardinality(rows) \in Nat /\ Cardinality(rows') \in Nat
      /\ Cardinality(rows) <= Cardinality(rows')
  BY <1>2, PartOf, QueriesAssumption
<1>4. Stepped'
  BY <1>2 DEF Typed, Stepped
<1>5. total' \in 0 .. Cardinality(rows')
  BY <1>1, <1>2, <1>3 DEF TypeOK
<1> QED
  BY <1>1, <1>2, <1>4, <1>5 DEF Typed, TypeOK, LogTyped

LEMMA ReaderStepKeepsTypes ==
  ASSUME Typed, ReaderStep
  PROVE  Typed'
<1>0. TypeOK /\ Stepped /\ LogTyped
  BY DEF Typed
<1>1. LogTyped'
  BY <1>0, ReaderFrame DEF LogTyped
<1>2. UNCHANGED <<clock, detected, kind, rows, admin, page_size>>
  BY ReaderFrame
<1>3. Len(Statements) = 7
  BY DEF Statements
<1>4. CASE Refuse \/ BeginStats \/ BeginWalk \/ NextPage \/ Finish
  BY <1>0, <1>1, <1>2, <1>3, <1>4
  DEF Refuse, BeginStats, BeginWalk, NextPage, Finish, Typed, TypeOK, Stepped, stats, list, log
<1>5. CASE Fetch
  <2>1. items' \in Pages(Matching(rows, filter), Offset(page)) /\ Matching(rows, filter) \subseteq rows
    BY <1>5 DEF Fetch, Matching
  <2>2. items' \subseteq Matching(rows, filter)
    BY <1>0, <2>1, PageTyped
  <2>3. PICK B \in SUBSET (Matching(rows, filter) \ items') :
          Cardinality(items') = AtMost(page_size, Cardinality(Matching(rows, filter)) - Cardinality(B))
    BY <1>0, <2>1, PageTyped
  <2>4. Cardinality(Matching(rows, filter)) \in Nat /\ Cardinality(B) \in Nat /\ page_size \in Nat
    BY <1>0, <2>1, <2>3, SelectedTyped, PartOf, QueriesAssumption DEF TypeOK
  <2>5. Cardinality(items') <= page_size
    BY <2>3, <2>4 DEF AtMost
  <2> QED
    BY <1>0, <1>1, <1>2, <1>5, <2>1, <2>2, <2>5 DEF Fetch, Typed, TypeOK, Stepped, stats, log
<1>6. CASE CountRows
  <2>1. total' \in 0 .. Cardinality(rows)
    BY <1>0, <1>6, SelectedTyped DEF CountRows
  <2> QED
    BY <1>0, <1>1, <1>2, <1>6, <2>1 DEF CountRows, Typed, TypeOK, Stepped, stats, log
<1>7. CASE Execute
  <2>1. step' \in 1 .. Len(Statements) + 1 /\ Stepped' /\ reader' \in {"informed", "stats"}
    BY <1>0, <1>3, <1>7, ExecuteCases DEF Stepped
  <2>2. /\ Cardinality(rows) \in Nat /\ Cardinality(Recent(rows, since)) \in Nat
        /\ \A f : Cardinality(Matching(rows, f)) \in Nat
        /\ \A a : Cardinality(From(rows, a)) \in Nat
        /\ Named(rows) \subseteq Clients
    BY <1>0, SelectedTyped, RowsTyped
  <2>3. figures' \in [Counted -> Nat]
    <3>1. ASSUME NEW f \in Counted, NEW n \in Nat, Selecting(f, n)
          PROVE  figures' \in [Counted -> Nat]
      BY <1>0, <3>1 DEF TypeOK, Selecting
    <3>2. {"total", "sqli", "xss", "rate_limit", "recent"} \subseteq Counted
      BY DEF Counted, Types
    <3>3. CASE step \in {5, 7}
      BY <1>0, <1>7, <3>3, ExecuteCases DEF TypeOK
    <3>4. CASE step \in {1, 2, 3, 4, 6}
      BY <1>0, <1>7, <2>2, <3>1, <3>2, <3>4, ExecuteCases
    <3> QED
      BY <1>0, <1>7, <3>3, <3>4, ExecuteCases
  <2>4. since' \in 0 .. MaxClock
    BY <1>0, <1>7, ExecuteCases DEF TypeOK, Selecting
  <2>5. DOMAIN top' \subseteq Clients /\ top' \in [DOMAIN top' -> Nat]
    <3>1. CASE step = 7
      <4>1. PICK T \in Leading(rows) : top' = [a \in T |-> Cardinality(From(rows, a))]
        BY <1>0, <1>7, <3>1, ExecuteCases
      <4>2. T \subseteq Clients
        BY <2>2 DEF Leading
      <4> QED
        BY <2>2, <4>1, <4>2
    <3>2. CASE step # 7
      BY <1>0, <1>7, <3>2, ExecuteCases DEF TypeOK, Selecting
    <3> QED
      BY <3>1, <3>2
  <2>6. UNCHANGED <<filter, page, items, total, seen, base>>
    BY <1>0, <1>7, ExecuteCases
  <2> QED
    BY <1>0, <1>1, <1>2, <2>1, <2>3, <2>4, <2>5, <2>6 DEF Typed, TypeOK
<1> QED
  BY <1>4, <1>5, <1>6, <1>7 DEF ReaderStep

LEMMA TypedStep == Typed /\ [Next]_vars => Typed'
<1> SUFFICES ASSUME Typed, [Next]_vars
             PROVE  Typed'
  OBVIOUS
<1>1. CASE UNCHANGED vars
  BY <1>1 DEF vars, Typed, TypeOK, LogTyped, Stepped, log, stats, list
<1> QED
  BY <1>1, StepCases, LogStepKeepsTypes, ReaderStepKeepsTypes

LEMMA AlwaysTyped == Spec => []Typed
  BY TypedInit, TypedStep, PTL DEF Spec

\* Every reachable state is well typed: a page holds rows that are there and not too many.
THEOREM TypeCorrect == Spec => []TypeOK
<1>1. Typed => TypeOK
  BY DEF Typed
<1> QED
  BY <1>1, AlwaysTyped, PTL

-----------------------------------------------------------------------------
(* get_stats.                                                              *)

\* Once its statement, the nth, has run, a type's figure is of a moment between
\* the call and now.
Tallied(t, n) ==
  step > n => /\ Cardinality(Matching(base, t)) <= figures[t]
              /\ figures[t] <= Cardinality(Matching(rows, t))

\* What the type adds to the total: its figure, or what it would be by now.
Share(t, n) == IF step > n THEN figures[t] ELSE Cardinality(Matching(rows, t))

Tally ==
  /\ Tallied("sqli", 2) /\ Tallied("xss", 3) /\ Tallied("rate_limit", 4)
  /\ step > 1 => Cardinality(base) <= figures["total"]
  /\ step > 1 =>
       figures["total"] <= Share("sqli", 2) + Share("xss", 3) + Share("rate_limit", 4)

RecentTallied ==
  step > 6 => /\ Cardinality(Recent(base, since)) <= figures["recent"]
              /\ figures["recent"] <= Cardinality(rows \ (base \ Recent(base, since)))

TopTallied ==
  step > 7 => \A a \in Named(base) \ DOMAIN top :
                /\ Cardinality(DOMAIN top) = TopLimit
                /\ \A b \in DOMAIN top : Cardinality(From(base, a)) <= top[b]

Informed == Tally /\ RecentTallied /\ TopTallied

\* Any part of the rows is contained in the part that is selected of more rows.
LEMMA SelectionsGrow ==
  ASSUME TypeOK, NEW S \in SUBSET rows
  PROVE  /\ \A f : Cardinality(Matching(S, f)) <= Cardinality(Matching(rows, f))
         /\ \A t : Cardinality(Recent(S, t)) <= Cardinality(Recent(rows, t))
         /\ \A a : Cardinality(From(S, a)) <= Cardinality(From(rows, a))
         /\ Named(S) \subseteq Named(rows)
<1>1. \A f : Matching(S, f) \subseteq Matching(rows, f)
  BY DEF Matching
<1>2. \A t : Recent(S, t) \subseteq Recent(rows, t)
  BY DEF Recent
<1>3. \A a : From(S, a) \subseteq From(rows, a)
  BY DEF From
<1>4. Named(S) \subseteq Named(rows)
  BY DEF Named
<1>5. /\ \A f : IsFiniteSet(Matching(rows, f))
      /\ \A t : IsFiniteSet(Recent(rows, t))
      /\ \A a : IsFiniteSet(From(rows, a))
  BY SelectedTyped
<1> QED
  BY <1>1, <1>2, <1>3, <1>4, <1>5, PartOf

\* The rows of a type only become more.
LEMMA TypesGrow ==
  ASSUME Typed, Typed', Grown, NEW f
  PROVE  /\ Cardinality(Matching(rows, f)) \in Nat /\ Cardinality(Matching(rows, f)') \in Nat
         /\ Cardinality(Matching(rows, f)) <= Cardinality(Matching(rows, f)')
<1>1. TypeOK /\ TypeOK'
  BY DEF Typed
<1>2. IsFiniteSet(rows) /\ IsFiniteSet(rows')
  BY <1>1, RowsTyped, PartOf, QueriesAssumption DEF TypeOK
<1>3. Matching(rows, f) \subseteq Matching(rows, f)' /\ Matching(rows, f)' \subseteq rows'
  BY DEF Matching, Grown
<1>4. IsFiniteSet(Matching(rows, f)')
  BY <1>2, <1>3, PartOf
<1> QED
  BY <1>3, <1>4, PartOf

LEMMA LogStepKeepsFigures ==
  ASSUME Typed, Typed', Informed, LogStep
  PROVE  Informed'
<1>0. TypeOK /\ Grown /\ base \subseteq rows /\ figures \in [Counted -> Nat]
  BY LogFrame DEF Typed, TypeOK
<1>1. UNCHANGED <<step, figures, top, since, base>>
  BY <1>0, LogFrame
<1>2. \A f : Matching(base, f)' = Matching(base, f)
  BY <1>0, <1>1 DEF Matching, Grown
<1>3. /\ Recent(base, since)' = Recent(base, since)
      /\ Named(base)' = Named(base)
      /\ \A a : From(base, a)' = From(base, a)
  <2>1. Recent(base, since)' = Recent(base, since)
    BY <1>0, <1>1 DEF Recent, Grown
  <2>2. Named(base)' = Named(base)
    BY <1>0, <1>1 DEF Named, Grown
  <2>3. \A a : From(base, a)' = From(base, a)
    BY <1>0, <1>1 DEF From, Grown
  <2> QED
    BY <2>1, <2>2, <2>3
<1>4. \A f : /\ Cardinality(Matching(rows, f)) \in Nat /\ Cardinality(Matching(rows, f)') \in Nat
             /\ Cardinality(Matching(rows, f)) <= Cardinality(Matching(rows, f)')
  BY <1>0, TypesGrow
<1>5. figures["total"] \in Nat /\ \A t \in Types : figures[t] \in Nat
  BY <1>0 DEF Counted
<1>6. ASSUME NEW t \in Types, NEW n \in Nat
      PROVE  /\ Tallied(t, n) => Tallied(t, n)'
             /\ Share(t, n) \in Nat /\ Share(t, n)' \in Nat /\ Share(t, n) <= Share(t, n)'
  <2>1. Tallied(t, n) => Tallied(t, n)'
    <3>1. Cardinality(Matching(rows, t)) <= Cardinality(Matching(rows, t)')
      BY <1>4
    <3>2. Matching(base, t)' = Matching(base, t)
      BY <1>2
    <3> QED
      BY <1>1, <1>4, <1>5, <3>1, <3>2 DEF Tallied
  <2>2. CASE step > n
    BY <1>1, <1>5, <2>1, <2>2 DEF Share
  <2>3. CASE ~(step > n)
    BY <1>1, <1>4, <2>1, <2>3 DEF Share
  <2> QED
    BY <2>2, <2>3, <2>1
<1>7. Tally'
  <2> {"sqli", "xss", "rate_limit"} \subseteq Types /\ {2, 3, 4} \subseteq Nat
    BY DEF Types
  <2>1. Tallied("sqli", 2)' /\ Tallied("xss", 3)' /\ Tallied("rate_limit", 4)'
    BY <1>6 DEF Informed, Tally
  <2>2. ASSUME step > 1
        PROVE  figures["total"]
                 <= Share("sqli", 2)' + Share("xss", 3)' + Share("rate_limit", 4)'
    <3>1. figures["total"] <= Share("sqli", 2) + Share("xss", 3) + Share("rate_limit", 4)
      BY <2>2 DEF Informed, Tally
    <3>2. /\ Share("sqli", 2) \in Nat /\ Share("sqli", 2)' \in Nat
          /\ Share("sqli", 2) <= Share("sqli", 2)'
      BY <1>6
    <3>3. /\ Share("xss", 3) \in Nat /\ Share("xss", 3)' \in Nat
          /\ Share("xss", 3) <= Share("xss", 3)'
      BY <1>6
    <3>4. /\ Share("rate_limit", 4) \in Nat /\ Share("rate_limit", 4)' \in Nat
          /\ Share("rate_limit", 4) <= Share("rate_limit", 4)'
      BY <1>6
    <3> QED
      BY <1>5, <3>1, <3>2, <3>3, <3>4
  <2>3. step > 1 => Cardinality(base) <= figures["total"]
    BY DEF Informed, Tally
  <2> QED
    BY <1>1, <2>1, <2>2, <2>3 DEF Tally
<1>8. RecentTallied'
  <2> DEFINE R == rows \ (base \ Recent(base, since))
  <2>1. R \subseteq R' /\ R' \subseteq rows'
    BY <1>0, <1>1, <1>3 DEF Grown
  <2>2. IsFiniteSet(rows')
    BY PartOf, QueriesAssumption DEF Typed, TypeOK
  <2>3. IsFiniteSet(R')
    BY <2>1, <2>2, PartOf
  <2>4. Cardinality(R) \in Nat /\ Cardinality(R') \in Nat /\ Cardinality(R) <= Cardinality(R')
    BY <2>1, <2>3, PartOf
  <2>5. figures["recent"] \in Nat
    BY <1>0 DEF Counted
  <2>6. step > 6 => /\ Cardinality(Recent(base, since)) <= figures["recent"]
                    /\ figures["recent"] <= Cardinality(R)
    BY DEF Informed, RecentTallied
  <2> HIDE DEF R
  <2>7. step > 6 => figures["recent"] <= Cardinality(R')
    BY <2>4, <2>5, <2>6
  <2> QED
    BY <1>1, <1>3, <2>6, <2>7 DEF RecentTallied, R
<1>9. TopTallied'
  BY <1>1, <1>3 DEF Informed, TopTallied
<1> QED
  BY <1>7, <1>8, <1>9 DEF Informed

\* Only while no figure has been obtained does the reader do anything else.
LEMMA WalkKeepsFigures ==
  ASSUME Typed, ReaderStep, ~Execute
  PROVE  Informed'
<1>1. step' = step /\ step = 1
  BY DEF Typed, Stepped, ReaderStep, Refuse, BeginStats, BeginWalk, Fetch, CountRows, NextPage,
         Finish, stats
<1> QED
  BY <1>1 DEF Informed, Tally, Tallied, RecentTallied, TopTallied

\* The figure n of the type t is obtained.
LEMMA TypeCounted ==
  ASSUME Typed, Execute, NEW t \in Types, NEW n \in 2 .. 4, step = n,
         Selecting(t, Cardinality(Matching(rows, t)))
  PROVE  /\ Tallied(t, n)' /\ Share(t, n)' = Share(t, n)
         /\ \A u \in Types \ {t}, m \in (2 .. 4) \ {n} :
              (Tallied(u, m) => Tallied(u, m)') /\ Share(u, m)' = Share(u, m)
         /\ figures'["total"] = figures["total"]
<1>0. TypeOK /\ Stepped /\ base \subseteq rows
  BY DEF Typed, TypeOK
<1>1. UNCHANGED <<detected, kind, rows, base>> /\ step' = step + 1
  BY <1>0, ReaderFrame, ExecuteCases DEF ReaderStep
<1>2. \A u : Matching(base, u)' = Matching(base, u) /\ Matching(rows, u)' = Matching(rows, u)
  BY <1>1 DEF Matching
<1>3. /\ figures'[t] = Cardinality(Matching(rows, t))
      /\ \A u \in Counted \ {t} : figures'[u] = figures[u]
  BY <1>0 DEF Selecting, TypeOK, Counted
<1>4. Cardinality(Matching(rows, t)) \in Nat /\ Cardinality(Matching(base, t)) \in Nat
      /\ Cardinality(Matching(base, t)) <= Cardinality(Matching(rows, t))
  BY <1>0, SelectedTyped, SelectionsGrow
<1>5. Tallied(t, n)' /\ Share(t, n)' = Share(t, n)
  BY <1>1, <1>2, <1>3, <1>4 DEF Tallied, Share
<1>6. ASSUME NEW u \in Types \ {t}, NEW m \in (2 .. 4) \ {n}
      PROVE  (Tallied(u, m) => Tallied(u, m)') /\ Share(u, m)' = Share(u, m)
  <2>1. figures'[u] = figures[u]
    BY <1>3 DEF Counted
  <2>2. (step' > m) = (step > m)
    BY <1>1
  <2> QED
    BY <1>2, <2>1, <2>2 DEF Tallied, Share
<1>7. figures'["total"] = figures["total"]
  BY <1>3 DEF Counted, Types
<1> QED
  BY <1>5, <1>6, <1>7

\* A statement that counts no type.
LEMMA TypesUncounted ==
  ASSUME Typed, Execute, step \in {1, 5, 6, 7}
  PROVE  \A u \in Types, m \in 2 .. 4 :
           (Tallied(u, m) => Tallied(u, m)') /\ Share(u, m)' = Share(u, m)
<1>0. TypeOK /\ Stepped
  BY DEF Typed
<1>1. UNCHANGED <<detected, kind, rows, base>> /\ step' = step + 1
  BY <1>0, ReaderFrame, ExecuteCases DEF ReaderStep
<1>2. \A u : Matching(base, u)' = Matching(base, u) /\ Matching(rows, u)' = Matching(rows, u)
  BY <1>1 DEF Matching
<1>3. ASSUME NEW u \in Types
      PROVE  figures'[u] = figures[u]
  <2>1. CASE step \in {5, 7}
    BY <1>0, <2>1, ExecuteCases
  <2>2. CASE step = 1
    BY <1>0, <2>2, ExecuteCases DEF Selecting, TypeOK, Counted, Types
  <2>3. CASE step = 6
    BY <1>0, <2>3, ExecuteCases DEF Selecting, TypeOK, Counted, Types
  <2> QED
    BY <2>1, <2>2, <2>3
<1>4. ASSUME NEW m \in 2 .. 4
      PROVE  (step' > m) = (step > m)
  BY <1>1, <1>4
<1> QED
  BY <1>2, <1>3, <1>4 DEF Tallied, Share

\* No statement changes what the log held when the call came.
LEMMA ExecuteKeepsBase ==
  ASSUME Execute
  PROVE  base' = base
  BY DEF Execute

LEMMA ExecuteKeepsTally ==
  ASSUME Typed, Informed, Execute
  PROVE  Tally'
<1>0. TypeOK /\ Stepped /\ Tally
  BY DEF Typed, Informed
<1> {"sqli", "xss", "rate_limit"} \subseteq Types /\ {2, 3, 4} \subseteq 2 .. 4
  BY DEF Types
<1>1. step' = step + 1 /\ step \in 1 .. 7
  BY <1>0, ExecuteCases
<1>2. CASE step = 1
  <2>1. Tallied("sqli", 2)' /\ Tallied("xss", 3)' /\ Tallied("rate_limit", 4)'
    BY <1>0, <1>2, TypesUncounted DEF Tally
  <2>2. /\ Share("sqli", 2)' = Cardinality(Matching(rows, "sqli"))
        /\ Share("xss", 3)' = Cardinality(Matching(rows, "xss"))
        /\ Share("rate_limit", 4)' = Cardinality(Matching(rows, "rate_limit"))
    BY <1>2, TypesUncounted DEF Share
  <2>3. figures'["total"] = Cardinality(rows)
    BY <1>0, <1>2, ExecuteCases DEF Selecting, TypeOK, Counted
  <2>4. Cardinality(rows) = Cardinality(Matching(rows, "sqli")) + Cardinality(Matching(rows, "xss"))
                            + Cardinality(Matching(rows, "rate_limit"))
    BY <1>0, TypesAddUp
  <2>5. Cardinality(rows) \in Nat /\ Cardinality(base) <= Cardinality(rows)
    BY <1>0, RowsTyped, PartOf DEF TypeOK
  <2>6. base' = base
    BY ExecuteKeepsBase
  <2> QED
    BY <2>1, <2>2, <2>3, <2>4, <2>5, <2>6 DEF Tally
<1>3. CASE step \in {5, 6, 7}
  <2>1. Tallied("sqli", 2)' /\ Tallied("xss", 3)' /\ Tallied("rate_limit", 4)'
    BY <1>0, <1>3, TypesUncounted DEF Tally
  <2>2. /\ Share("sqli", 2)' = Share("sqli", 2) /\ Share("xss", 3)' = Share("xss", 3)
        /\ Share("rate_limit", 4)' = Share("rate_limit", 4)
    BY <1>3, TypesUncounted
  <2>3. figures'["total"] = figures["total"]
    <3>1. CASE step \in {5, 7}
      BY <1>0, <3>1, ExecuteCases
    <3>2. CASE step = 6
      BY <1>0, <3>2, ExecuteCases DEF Selecting, TypeOK, Counted
    <3> QED
      BY <1>3, <3>1, <3>2
  <2> QED
    BY <1>0, <1>3, <2>1, <2>2, <2>3, ExecuteKeepsBase DEF Tally
<1>4. CASE step = 2
  <2>1. Selecting("sqli", Cardinality(Matching(rows, "sqli")))
    BY <1>0, <1>4, ExecuteCases
  <2>2. /\ Tallied("sqli", 2)' /\ Share("sqli", 2)' = Share("sqli", 2)
        /\ \A u \in Types \ {"sqli"}, m \in (2 .. 4) \ {2} :
             (Tallied(u, m) => Tallied(u, m)') /\ Share(u, m)' = Share(u, m)
        /\ figures'["total"] = figures["total"]
    BY <1>4, <2>1, TypeCounted
  <2> QED
    BY <1>0, <1>1, <1>4, <2>2, ExecuteKeepsBase DEF Tally
<1>5. CASE step = 3
  <2>1. Selecting("xss", Cardinality(Matching(rows, "xss")))
    BY <1>0, <1>5, ExecuteCases
  <2>2. /\ Tallied("xss", 3)' /\ Share("xss", 3)' = Share("xss", 3)
        /\ \A u \in Types \ {"xss"}, m \in (2 .. 4) \ {3} :
             (Tallied(u, m) => Tallied(u, m)') /\ Share(u, m)' = Share(u, m)
        /\ figures'["total"] = figures["total"]
    BY <1>5, <2>1, TypeCounted
  <2> QED
    BY <1>0, <1>1, <1>5, <2>2, ExecuteKeepsBase DEF Tally
<1>6. CASE step = 4
  <2>1. Selecting("rate_limit", Cardinality(Matching(rows, "rate_limit")))
    BY <1>0, <1>6, ExecuteCases
  <2>2. /\ Tallied("rate_limit", 4)' /\ Share("rate_limit", 4)' = Share("rate_limit", 4)
        /\ \A u \in Types \ {"rate_limit"}, m \in (2 .. 4) \ {4} :
             (Tallied(u, m) => Tallied(u, m)') /\ Share(u, m)' = Share(u, m)
        /\ figures'["total"] = figures["total"]
    BY <1>6, <2>1, TypeCounted
  <2> QED
    BY <1>0, <1>1, <1>6, <2>2, ExecuteKeepsBase DEF Tally
<1> QED
  BY <1>1, <1>2, <1>3, <1>4, <1>5, <1>6

LEMMA ExecuteKeepsRecent ==
  ASSUME Typed, Informed, Execute
  PROVE  RecentTallied'
<1>0. TypeOK /\ Stepped /\ base \subseteq rows /\ IsFiniteSet(rows)
  BY RowsTyped DEF Typed, TypeOK
<1>1. UNCHANGED <<detected, kind, rows, base>> /\ step' = step + 1 /\ step \in 1 .. 7
  BY <1>0, ReaderFrame, ExecuteCases DEF ReaderStep
<1>2. CASE step < 6
  BY <1>1, <1>2 DEF RecentTallied
<1>3. CASE step = 6
  <2>1. since' = since /\ figures'["recent"] = Cardinality(Recent(rows, since))
    BY <1>0, <1>3, ExecuteCases DEF Selecting, TypeOK, Counted
  <2>2. Recent(base, since)' = Recent(base, since)
    BY <1>1, <2>1 DEF Recent
  <2>3. Recent(rows, since) \subseteq rows \ (base \ Recent(base, since))
    BY <1>0 DEF Recent
  <2>4. Cardinality(Recent(rows, since)) <= Cardinality(rows \ (base \ Recent(base, since)))
    <3>1. IsFiniteSet(rows \ (base \ Recent(base, since)))
      BY <1>0, PartOf
    <3> QED
      BY <2>3, <3>1, PartOf
  <2>5. Cardinality(Recent(base, since)) <= Cardinality(Recent(rows, since))
    BY <1>0, SelectionsGrow
  <2> QED
    BY <1>1, <2>1, <2>2, <2>4, <2>5 DEF RecentTallied
<1>4. CASE step = 7
  <2>1. UNCHANGED <<figures, since>>
    BY <1>0, <1>4, ExecuteCases
  <2>2. Recent(base, since)' = Recent(base, since)
    BY <1>1, <2>1 DEF Recent
  <2> QED
    BY <1>1, <1>4, <2>1, <2>2 DEF Informed, RecentTallied
<1> QED
  BY <1>1, <1>2, <1>3, <1>4

\* Whoever is left out was so because the table is full of clients not behind him.
LEMMA ExecuteKeepsTop ==
  ASSUME Typed, Execute
  PROVE  TopTallied'
<1>0. TypeOK /\ Stepped /\ base \subseteq rows /\ TopLimit \in Nat
  BY QueriesAssumption DEF Typed, TypeOK
<1>1. UNCHANGED <<detected, kind, rows, base>> /\ step' = step + 1 /\ step \in 1 .. 7
  BY <1>0, ReaderFrame, ExecuteCases DEF ReaderStep
<1>2. CASE step < 7
  BY <1>1, <1>2 DEF TopTallied
<1>3. CASE step = 7
  <2>1. PICK T \in Leading(rows) : top' = [a \in T |-> Cardinality(From(rows, a))]
    BY <1>0, <1>3, ExecuteCases
  <2>2. /\ T \subseteq Named(rows)
        /\ Cardinality(T) = AtMost(TopLimit, Cardinality(Named(rows)))
        /\ \A a \in T, b \in Named(rows) \ T :
             Cardinality(From(rows, a)) >= Cardinality(From(rows, b))
    BY DEF Leading
  <2>3. Named(base) \subseteq Named(rows) /\ IsFiniteSet(Named(rows))
        /\ \A a : /\ Cardinality(From(base, a)) \in Nat /\ Cardinality(From(rows, a)) \in Nat
                  /\ Cardinality(From(base, a)) <= Cardinality(From(rows, a))
    BY <1>0, SelectedTyped, SelectionsGrow
  <2>4. Named(base)' = Named(base) /\ \A a : From(base, a)' = From(base, a)
    BY <1>1 DEF Named, From
  <2>5. ASSUME NEW a \in Named(base) \ T
        PROVE  /\ Cardinality(T) = TopLimit
               /\ \A b \in T : Cardinality(From(base, a)) <= Cardinality(From(rows, b))
    <3>1. Cardinality(T) \in Nat /\ Cardinality(Named(rows)) \in Nat
          /\ Cardinality(T) # Cardinality(Named(rows))
      BY <2>2, <2>3, PartOf
    <3>2. Cardinality(T) = TopLimit
      BY <1>0, <2>2, <3>1 DEF AtMost
    <3> QED
      BY <2>2, <2>3, <3>2
  <2> QED
    BY <2>1, <2>4, <2>5 DEF TopTallied
<1> QED
  BY <1>1, <1>2, <1>3

LEMMA AlwaysInformed == Spec => []Informed
<1>1. Init => Informed
  BY DEF Init, Informed, Tally, Tallied, RecentTallied, TopTallied
<1>2. Typed /\ Typed' /\ Informed /\ [Next]_vars => Informed'
  <2> SUFFICES ASSUME Typed, Typed', Informed, [Next]_vars
               PROVE  Informed'
    OBVIOUS
  <2>1. CASE UNCHANGED vars
    BY <2>1 DEF vars, log, stats, list, Informed, Tally, Tallied, Share, RecentTallied,
                TopTallied, Matching, Recent, From, Named
  <2>2. CASE Execute
    BY <2>2, ExecuteKeepsTally, ExecuteKeepsRecent, ExecuteKeepsTop DEF Informed
  <2> QED
    BY <2>1, <2>2, StepCases, LogStepKeepsFigures, WalkKeepsFigures
<1> QED
  BY <1>1, <1>2, AlwaysTyped, PTL DEF Spec

\* Figures of different moments agree with each other: the types account for the whole
\* total, and nothing exceeds the log.
THEOREM FiguresAgree == Spec => []FiguresAddUp
<1>1. Typed /\ Informed => FiguresAddUp
  <2> SUFFICES ASSUME Typed, Informed, reader = "informed"
               PROVE  /\ figures["total"]
                           <= figures["sqli"] + figures["xss"] + figures["rate_limit"]
                      /\ figures["sqli"] + figures["xss"] + figures["rate_limit"]
                           <= Cardinality(rows)
                      /\ figures["recent"] <= Cardinality(rows)
    BY DEF FiguresAddUp
  <2>1. step = 8 /\ TypeOK
    BY DEF Typed, Stepped
  <2>2. /\ figures["sqli"] <= Cardinality(Matching(rows, "sqli"))
        /\ figures["xss"] <= Cardinality(Matching(rows, "xss"))
        /\ figures["rate_limit"] <= Cardinality(Matching(rows, "rate_limit"))
        /\ figures["total"] <= figures["sqli"] + figures["xss"] + figures["rate_limit"]
    BY <2>1 DEF Informed, Tally, Tallied, Share
  <2>3. /\ figures["sqli"] \in Nat /\ figures["xss"] \in Nat /\ figures["rate_limit"] \in Nat
        /\ figures["recent"] \in Nat
    BY <2>1 DEF TypeOK, Counted, Types
  <2>4. \A f : Cardinality(Matching(rows, f)) \in Nat
    BY <2>1, SelectedTyped
  <2>5. Cardinality(rows) \in Nat
        /\ Cardinality(rows) = Cardinality(Matching(rows, "sqli"))
             + Cardinality(Matching(rows, "xss")) + Cardinality(Matching(rows, "rate_limit"))
    BY <2>1, RowsTyped, TypesAddUp
  <2>6. figures["sqli"] + figures["xss"] + figures["rate_limit"] <= Cardinality(rows)
    BY <2>2, <2>3, <2>4, <2>5
  <2>7. /\ Cardinality(rows \ (base \ Recent(base, since))) \in Nat
        /\ Cardinality(rows \ (base \ Recent(base, since))) <= Cardinality(rows)
    BY <2>1, RowsTyped, PartOf
  <2>8. figures["recent"] <= Cardinality(rows)
    BY <2>1, <2>3, <2>5, <2>7 DEF Informed, RecentTallied
  <2> QED
    BY <2>2, <2>6, <2>8
<1> QED
  BY <1>1, AlwaysTyped, AlwaysInformed, PTL

\* No figure, the total included, misses an event that was in the log when the request
\* came, and the one of the last day counts none that was too old by then.
THEOREM FiguresNeverStale == Spec => []FiguresUpToDate
<1>1. Typed /\ Informed => FiguresUpToDate
  <2> SUFFICES ASSUME Typed, Informed, reader = "informed"
               PROVE  LET old == base \ Recent(base, since) IN
                      /\ Cardinality(base) <= figures["total"]
                      /\ \A t \in Types : Cardinality(Matching(base, t)) <= figures[t]
                      /\ Cardinality(base \ old) <= figures["recent"]
                      /\ figures["recent"] <= Cardinality(rows \ old)
    BY DEF FiguresUpToDate
  <2>1. step = 8
    BY DEF Typed, Stepped
  <2>2. /\ Cardinality(base) <= figures["total"]
        /\ \A t \in Types : Cardinality(Matching(base, t)) <= figures[t]
    BY <2>1 DEF Informed, Tally, Tallied, Types
  <2>3. base \ (base \ Recent(base, since)) = Recent(base, since)
    BY DEF Recent
  <2> QED
    BY <2>1, <2>2, <2>3 DEF Informed, RecentTallied
<1> QED
  BY <1>1, AlwaysTyped, AlwaysInformed, PTL

\* Nobody who led the table when the request came is missing from it.
THEOREM LeadersAreListed == Spec => []OffendersLead
<1>1. Typed /\ Informed => OffendersLead
  BY DEF Typed, Stepped, Informed, TopTallied, OffendersLead
<1> QED
  BY <1>1, AlwaysTyped, AlwaysInformed, PTL

-----------------------------------------------------------------------------
(* list_threats.                                                           *)

\* The next page begins where this one ends.
LEMMA Paging ==
  ASSUME Typed
  PROVE  /\ page_size \in Nat \ {0} /\ page \in Nat \ {0}
         /\ Offset(page) \in Nat /\ page * page_size \in Nat
         /\ page * page_size = Offset(page) + page_size
<1>1. page_size \in Nat \ {0} /\ page \in Nat \ {0}
  BY QueriesAssumption DEF Typed, TypeOK
<1>2. \A m \in Nat, n \in Nat \ {0} : (n - 1) * m \in Nat /\ n * m = (n - 1) * m + m /\ n * m \in Nat
  OBVIOUS
<1> QED
  BY <1>1, <1>2 DEF Offset

\* A page that is not empty lies within the list.
LEMMA PageWithin ==
  ASSUME Typed, NEW S \in SUBSET rows, NEW n \in Nat, NEW I \in Pages(S, n), I # {}
  PROVE  n + Cardinality(I) <= Cardinality(S)
<1>1. PICK B \in SUBSET (S \ I) :
        /\ Cardinality(B) = AtMost(n, Cardinality(S))
        /\ Cardinality(I) = AtMost(page_size, Cardinality(S) - Cardinality(B))
  BY PageTyped DEF Typed
<1>2. I \subseteq S /\ IsFiniteSet(S) /\ Cardinality(S) \in Nat /\ page_size \in Nat
  BY PageTyped, SelectedTyped, Paging DEF Typed
<1>3. IsFiniteSet(I) /\ Cardinality(I) \in Nat /\ Cardinality(I) # 0 /\ Cardinality(B) \in Nat
  BY <1>1, <1>2, PartOf, FS_EmptySet
<1> QED
  BY <1>1, <1>2, <1>3 DEF AtMost

PageCounted ==
  items # {} =>
    /\ reader = "count" => Offset(page) + Cardinality(items) <= Cardinality(Matching(rows, filter))
    /\ reader = "given" => Offset(page) + Cardinality(items) <= total

LEMMA PageCountedStep ==
  ASSUME Typed, Typed', PageCounted, [Next]_vars
  PROVE  PageCounted'
<1>0. TypeOK /\ TypeOK' /\ items \subseteq rows /\ items' \subseteq rows'
  BY DEF Typed, TypeOK
<1>1. CASE LogStep
  <2>1. Grown /\ UNCHANGED <<reader, items, page, page_size, total, filter>>
    BY <1>0, <1>1, LogFrame
  <2>2. Offset(page)' = Offset(page)
    BY <2>1 DEF Offset
  <2>3. /\ Cardinality(Matching(rows, filter)) \in Nat
        /\ Cardinality(Matching(rows, filter)') \in Nat
        /\ Cardinality(Matching(rows, filter)) <= Cardinality(Matching(rows, filter)')
    <3>1. Matching(rows, filter) \subseteq Matching(rows, filter)'
          /\ Matching(rows, filter)' \subseteq rows'
      BY <2>1 DEF Matching, Grown
    <3>2. IsFiniteSet(rows')
      BY <1>0, PartOf, QueriesAssumption DEF TypeOK
    <3>3. IsFiniteSet(Matching(rows, filter)')
      BY <3>1, <3>2, PartOf
    <3> QED
      BY <3>1, <3>3, PartOf
  <2>4. Cardinality(items) \in Nat /\ Offset(page) \in Nat
    BY <1>0, Paging, SelectedTyped
  <2> QED
    BY <2>1, <2>2, <2>3, <2>4 DEF PageCounted
<1>2. CASE Fetch
  <2>1. /\ items' \in Pages(Matching(rows, filter), Offset(page)) /\ reader' = "count"
        /\ UNCHANGED <<rows, kind, filter, page, page_size>>
    BY <1>2 DEF Fetch, log
  <2>2. Matching(rows, filter) \subseteq rows
    BY DEF Matching
  <2>3. items' # {} => Offset(page) + Cardinality(items') <= Cardinality(Matching(rows, filter))
    BY <2>1, <2>2, PageWithin, Paging
  <2>4. Matching(rows, filter)' = Matching(rows, filter) /\ Offset(page)' = Offset(page)
    BY <2>1 DEF Matching, Offset
  <2> QED
    BY <2>1, <2>3, <2>4 DEF PageCounted
<1>3. CASE CountRows
  BY <1>3 DEF CountRows, PageCounted, Offset
<1>4. CASE Refuse \/ BeginStats \/ Execute \/ BeginWalk \/ NextPage \/ Finish
  <2>1. reader' \notin {"count", "given"}
    BY <1>4 DEF Refuse, BeginStats, Execute, BeginWalk, NextPage, Finish
  <2> QED
    BY <2>1 DEF PageCounted
<1>5. CASE UNCHANGED vars
  BY <1>5 DEF PageCounted, vars, log, list, Offset, Matching
<1> QED
  BY <1>1, <1>2, <1>3, <1>4, <1>5, StepCases DEF ReaderStep

\* The total given with a page reaches at least to the end of that page.
THEOREM TotalReachesPage == Spec => []TotalCoversPage
<1>1. Init => PageCounted
  BY DEF Init, PageCounted
<1>2. Typed /\ Typed' /\ PageCounted /\ [Next]_vars => PageCounted'
  BY PageCountedStep
<1>3. PageCounted => TotalCoversPage
  BY DEF PageCounted, TotalCoversPage
<1> QED
  BY <1>1, <1>2, <1>3, AlwaysTyped, PTL DEF Spec

\* The rows of S that come before e in the list, whatever the order of ties.
Later(S, e) == {d \in S : detected[d] > detected[e]}

LEMMA LaterTyped ==
  ASSUME TypeOK, NEW S \in SUBSET rows, NEW e \in S
  PROVE  /\ Later(S, e) \subseteq S \ {e} /\ IsFiniteSet(Later(S, e))
         /\ Cardinality(Later(S, e)) \in Nat /\ Cardinality(S) \in Nat
         /\ Cardinality(Later(S, e)) < Cardinality(S)
<1>1. Later(S, e) \subseteq S \ {e}
  BY RowsTyped DEF Later
<1>2. IsFiniteSet(S)
  BY SelectedTyped
<1>3. Cardinality(Later(S, e)) # Cardinality(S)
  BY <1>1, <1>2, PartOf
<1> QED
  BY <1>1, <1>2, <1>3, PartOf

\* A page from position n on, when n rows or more come before e: if e is not on the page,
\* the page is full and the rows before e fill the list up to its end.
LEMMA PageReaches ==
  ASSUME Typed, NEW S \in SUBSET rows, NEW n \in Nat, NEW I \in Pages(S, n),
         NEW e \in S \ I, Untied(e), n <= Cardinality(Later(S, e))
  PROVE  Cardinality(I) = page_size /\ n + page_size <= Cardinality(Later(S, e))
<1>1. PICK B \in SUBSET (S \ I) :
        /\ Cardinality(B) = AtMost(n, Cardinality(S))
        /\ Cardinality(I) = AtMost(page_size, Cardinality(S) - Cardinality(B))
        /\ \A b \in B, i \in I : detected[b] >= detected[i]
        /\ \A i \in B \cup I, r \in S \ (B \cup I) : detected[i] >= detected[r]
  BY PageTyped DEF Typed
<1>2. /\ I \subseteq S /\ IsFiniteSet(S) /\ Cardinality(S) \in Nat /\ page_size \in Nat
      /\ \A r \in S : detected[r] \in Nat
  <2>1. TypeOK
    BY DEF Typed
  <2>2. I \subseteq S /\ page_size \in Nat
    BY <2>1, PageTyped, Paging
  <2>3. IsFiniteSet(S) /\ Cardinality(S) \in Nat
    BY <2>1, SelectedTyped
  <2>4. \A r \in S : detected[r] \in Nat
    BY <2>1, RowsTyped
  <2> QED
    BY <2>2, <2>3, <2>4
<1>3. /\ IsFiniteSet(B) /\ IsFiniteSet(I) /\ Cardinality(B) \in Nat /\ Cardinality(I) \in Nat
      /\ Cardinality(B \cup I) = Cardinality(B) + Cardinality(I) /\ B \cup I \subseteq S
  BY <1>1, <1>2, PartOf, PartsAddUp
<1>4. /\ IsFiniteSet(Later(S, e)) /\ Cardinality(Later(S, e)) \in Nat
  BY LaterTyped DEF Typed
<1>5. e \notin B
  <2> SUFFICES ASSUME e \in B PROVE FALSE
    OBVIOUS
  <2>1. ASSUME NEW d \in Later(S, e), d \notin B
        PROVE  FALSE
    <3>1. d \in S /\ detected[d] > detected[e] /\ detected[e] \in Nat /\ detected[d] \in Nat
      BY <1>2, <2>1 DEF Later
    <3>2. detected[e] >= detected[d]
      BY <1>1, <2>1, <3>1
    <3> QED
      BY <3>1, <3>2
  <2>2. Later(S, e) \subseteq B \ {e}
    BY <2>1, LaterTyped DEF Typed
  <2>3. IsFiniteSet(B \ {e}) /\ Cardinality(B \ {e}) \in Nat
        /\ Cardinality(B \ {e}) <= Cardinality(B) /\ Cardinality(B \ {e}) # Cardinality(B)
    BY <1>3, PartOf
  <2>4. Cardinality(Later(S, e)) <= Cardinality(B \ {e})
    BY <2>2, <2>3, PartOf
  <2>5. Cardinality(B) <= n
    BY <1>1, <1>2, LeastTyped
  <2> QED
    BY <1>3, <1>4, <2>3, <2>4, <2>5
<1>6. B \cup I \subseteq Later(S, e)
  <2> SUFFICES ASSUME NEW d \in B \cup I
               PROVE  d \in Later(S, e)
    OBVIOUS
  <2>1. d \in rows \ {e} /\ d \in S /\ detected[d] \in Nat /\ detected[e] \in Nat
    BY <1>2, <1>3, <1>5
  <2>2. detected[d] >= detected[e]
    BY <1>1, <1>5
  <2>3. detected[d] # detected[e]
    BY <2>1 DEF Untied
  <2> QED
    BY <2>1, <2>2, <2>3 DEF Later
<1>7. Cardinality(B) + Cardinality(I) <= Cardinality(Later(S, e))
  BY <1>3, <1>4, <1>6, PartOf
<1>8. Cardinality(Later(S, e)) < Cardinality(S)
  BY LaterTyped DEF Typed
<1>9. Cardinality(B) = n
  BY <1>1, <1>2, <1>3, <1>4, <1>7, <1>8 DEF AtMost
<1>10. Cardinality(I) = page_size
  BY <1>1, <1>2, <1>3, <1>4, <1>7, <1>8 DEF AtMost
<1> QED
  BY <1>7, <1>9, <1>10

\* An event not seen yet is on this page or a later one, and the reader goes on to it.
Ahead(e) ==
  LET before == Cardinality(Later(Matching(rows, filter), e)) IN
  /\ reader = "page" => e \in seen \/ Offset(page) <= before
  /\ reader = "count" =>
       \/ e \in seen \cup items
       \/ page * page_size <= before /\ Cardinality(items) = page_size
  /\ reader = "given" =>
       \/ e \in seen
       \/ /\ page * page_size <= before /\ Cardinality(items) = page_size
          /\ page * page_size < total
  /\ reader = "finished" => e \in seen

Walked ==
  /\ reader = "idle" => page = 1
  /\ \A e \in Matching(base, filter) : Untied(e) => Ahead(e)

LEMMA LogStepKeepsWalk ==
  ASSUME Typed, Typed', Walked, LogStep
  PROVE  Walked'
<1>1. /\ TypeOK /\ TypeOK' /\ base \subseteq rows /\ Grown
      /\ UNCHANGED <<reader, items, page, page_size, total, filter, seen, base>>
  BY LogFrame DEF Typed, TypeOK
<1>2. Matching(base, filter)' = Matching(base, filter) /\ Offset(page)' = Offset(page)
  BY <1>1 DEF Matching, Grown, Offset
<1>3. ASSUME NEW e \in Matching(base, filter), Untied(e)'
      PROVE  Ahead(e)'
  <2> DEFINE L == Later(Matching(rows, filter), e)
  <2>1. e \in base /\ e \in rows /\ Matching(base, filter) \subseteq Matching(rows, filter)
        /\ Matching(rows, filter) \subseteq rows
    BY <1>1 DEF Matching
  <2>2. Untied(e)
    BY <1>1, <1>3, <2>1 DEF Untied, Grown
  <2>3. Ahead(e)
    BY <2>2 DEF Walked
  <2>4. L \subseteq L' /\ L' \subseteq rows'
    BY <1>1, <2>1 DEF Later, Matching, Grown
  <2>5. IsFiniteSet(rows')
    BY <1>1, PartOf, QueriesAssumption DEF TypeOK
  <2>6. IsFiniteSet(L')
    BY <2>4, <2>5, PartOf
  <2>7. Cardinality(L) \in Nat /\ Cardinality(L') \in Nat /\ Cardinality(L) <= Cardinality(L')
    BY <2>4, <2>6, PartOf
  <2>8. Offset(page) \in Nat /\ page * page_size \in Nat
    BY Paging
  <2> HIDE DEF L
  <2>9. /\ Offset(page) <= Cardinality(L) => Offset(page) <= Cardinality(L')
        /\ page * page_size <= Cardinality(L) => page * page_size <= Cardinality(L')
    BY <2>7, <2>8
  <2> QED
    BY <1>1, <1>2, <2>3, <2>9 DEF Ahead, L
<1> QED
  BY <1>1, <1>2, <1>3 DEF Walked

LEMMA ReaderStepKeepsWalk ==
  ASSUME Typed, Typed', Walked, ReaderStep
  PROVE  Walked'
<1>0. TypeOK /\ TypeOK' /\ Stepped /\ base \subseteq rows
  BY DEF Typed, TypeOK
<1>1. UNCHANGED <<detected, kind, rows, page_size>>
  BY ReaderFrame
<1>2. \A e : Untied(e)' = Untied(e)
  BY <1>1 DEF Untied
<1>3. ASSUME NEW e \in Matching(base, filter)
      PROVE  e \in Matching(rows, filter) /\ Matching(rows, filter) \subseteq rows
  BY <1>0 DEF Matching
<1>4. CASE Refuse \/ BeginStats \/ Execute
  <2>1. reader' \notin {"idle", "page", "count", "given", "finished"}
    BY <1>4 DEF Refuse, BeginStats, Execute
  <2> QED
    BY <2>1 DEF Walked, Ahead
<1>5. CASE BeginWalk
  <2>1. reader' = "page" /\ page' = 1 /\ base' = rows
    BY <1>5 DEF BeginWalk, Walked
  <2>2. Offset(page)' = 0
    <3>1. page_size \in Nat
      BY Paging
    <3> QED
      BY <1>1, <2>1, <3>1 DEF Offset
  <2>3. ASSUME NEW e \in Matching(rows, filter)'
        PROVE  Cardinality(Later(Matching(rows, filter), e))' \in Nat
    <3>1. Later(Matching(rows, filter), e)' \subseteq rows
      BY <1>1 DEF Later, Matching
    <3>2. IsFiniteSet(rows)
      BY <1>0, RowsTyped
    <3> QED
      BY <3>1, <3>2, PartOf
  <2>4. Matching(base, filter)' = Matching(rows, filter)'
    BY <1>1, <2>1 DEF Matching
  <2> QED
    BY <2>1, <2>2, <2>3, <2>4 DEF Walked, Ahead
<1>6. CASE Fetch
  <2>1. /\ reader = "page" /\ reader' = "count"
        /\ items' \in Pages(Matching(rows, filter), Offset(page))
        /\ UNCHANGED <<filter, page, seen, base>>
    BY <1>6 DEF Fetch
  <2>2. ASSUME NEW e \in Matching(base, filter), Untied(e)
        PROVE  Ahead(e)'
    <3>1. e \in seen \/ Offset(page) <= Cardinality(Later(Matching(rows, filter), e))
      BY <2>1, <2>2 DEF Walked, Ahead
    <3>2. \/ e \in seen \cup items'
          \/ /\ page * page_size <= Cardinality(Later(Matching(rows, filter), e))
             /\ Cardinality(items') = page_size
      BY <1>3, <2>1, <2>2, <3>1, PageReaches, Paging
    <3>3. Later(Matching(rows, filter), e)' = Later(Matching(rows, filter), e)
      BY <1>1, <2>1 DEF Later, Matching
    <3> QED
      BY <1>1, <2>1, <3>2, <3>3 DEF Ahead
  <2>3. Matching(base, filter)' = Matching(base, filter)
    BY <1>1, <2>1 DEF Matching
  <2> QED
    BY <1>2, <2>1, <2>2, <2>3 DEF Walked
<1>7. CASE CountRows
  <2>1. /\ reader = "count" /\ reader' = "given" /\ seen' = seen \cup items
        /\ total' = Cardinality(Matching(rows, filter))
        /\ UNCHANGED <<filter, page, items, base>>
    BY <1>7 DEF CountRows
  <2>2. ASSUME NEW e \in Matching(base, filter), Untied(e)
        PROVE  Ahead(e)'
    <3>1. \/ e \in seen \cup items
          \/ /\ page * page_size <= Cardinality(Later(Matching(rows, filter), e))
             /\ Cardinality(items) = page_size
      BY <2>1, <2>2 DEF Walked, Ahead
    <3>2. /\ Cardinality(Later(Matching(rows, filter), e)) \in Nat /\ total' \in Nat
          /\ Cardinality(Later(Matching(rows, filter), e)) < total'
      BY <1>0, <1>3, <2>1, LaterTyped
    <3>3. page * page_size \in Nat
      BY Paging
    <3>4. Later(Matching(rows, filter), e)' = Later(Matching(rows, filter), e)
      BY <1>1, <2>1 DEF Later, Matching
    <3> QED
      BY <1>1, <2>1, <3>1, <3>2, <3>3, <3>4 DEF Ahead
  <2>3. Matching(base, filter)' = Matching(base, filter)
    BY <1>1, <2>1 DEF Matching
  <2> QED
    BY <1>2, <2>1, <2>2, <2>3 DEF Walked
<1>8. CASE NextPage
  <2>1. /\ reader = "given" /\ reader' = "page" /\ page' = page + 1
        /\ UNCHANGED <<filter, items, total, seen, base>>
    BY <1>8 DEF NextPage
  <2>2. Offset(page)' = page * page_size
    <3>1. (page + 1) - 1 = page
      BY Paging
    <3> QED
      BY <1>1, <2>1, <3>1 DEF Offset
  <2>3. ASSUME NEW e \in Matching(base, filter), Untied(e)
        PROVE  Ahead(e)'
    <3>1. e \in seen \/ page * page_size <= Cardinality(Later(Matching(rows, filter), e))
      BY <2>1, <2>3 DEF Walked, Ahead
    <3>2. Later(Matching(rows, filter), e)' = Later(Matching(rows, filter), e)
      BY <1>1, <2>1 DEF Later, Matching
    <3> QED
      BY <2>1, <2>2, <3>1, <3>2 DEF Ahead
  <2>4. Matching(base, filter)' = Matching(base, filter)
    BY <1>1, <2>1 DEF Matching
  <2> QED
    BY <1>2, <2>1, <2>3, <2>4 DEF Walked
<1>9. CASE Finish
  <2>1. /\ reader = "given" /\ LastPage /\ reader' = "finished"
        /\ UNCHANGED <<filter, page, items, total, seen, base>>
    BY <1>9 DEF Finish, list
  <2>2. ASSUME NEW e \in Matching(base, filter), Untied(e)
        PROVE  e \in seen
    <3>1. e \in seen \/ (Cardinality(items) = page_size /\ page * page_size < total)
      BY <2>1, <2>2 DEF Walked, Ahead
    <3>2. page * page_size \in Nat /\ page_size \in Nat /\ total \in Nat
      BY <1>0, Paging, RowsTyped DEF TypeOK
    <3> QED
      BY <2>1, <3>1, <3>2 DEF LastPage
  <2>3. Matching(base, filter)' = Matching(base, filter)
    BY <1>1, <2>1 DEF Matching
  <2> QED
    BY <1>2, <2>1, <2>2, <2>3 DEF Walked, Ahead
<1> QED
  BY <1>4, <1>5, <1>6, <1>7, <1>8, <1>9 DEF ReaderStep

\* A reader who pages through to the end has seen every event that was in the log when the
\* walk began and whose time is not tied, whatever is inserted meanwhile.
THEOREM EveryEventSeen == Spec => []NoEventSkipped
<1>1. Init => Walked
  BY DEF Init, Walked, Matching
<1>2. Typed /\ Typed' /\ Walked /\ [Next]_vars => Walked'
  <2> SUFFICES ASSUME Typed, Typed', Walked, [Next]_vars
               PROVE  Walked'
    OBVIOUS
  <2>1. CASE UNCHANGED vars
    BY <2>1 DEF vars, log, list, Walked, Ahead, Untied, Later, Matching, Offset
  <2> QED
    BY <2>1, StepCases, LogStepKeepsWalk, ReaderStepKeepsWalk
<1>3. Walked => NoEventSkipped
  BY DEF Walked, Ahead, NoEventSkipped
<1> QED
  BY <1>1, <1>2, <1>3, AlwaysTyped, PTL DEF Spec

=============================================================================
