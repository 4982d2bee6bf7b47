------------------------------- MODULE AuthProofs -------------------------------
(***************************************************************************)
(* Theorems about Auth, for every value of its constants.                  *)
(***************************************************************************)
EXTENDS Auth, TLAPS

-----------------------------------------------------------------------------
(* Arithmetic.                                                             *)

\* Whole seconds: rounded down, by less than a second.
LEMMA Seconds ==
  ASSUME NEW t \in Nat
  PROVE  /\ t \div TicksPerSecond \in Nat
         /\ (t \div TicksPerSecond) * TicksPerSecond <= t
         /\ t < (t \div TicksPerSecond) * TicksPerSecond + TicksPerSecond
  BY AuthAssumption

\* The end of a token's life, in ticks.
LEMMA Ends ==
  ASSUME NEW s \in Nat, NEW d \in Nat
  PROVE  (s + d) * TicksPerSecond = s * TicksPerSecond + d * TicksPerSecond
  BY AuthAssumption

-----------------------------------------------------------------------------
(* Types.                                                                  *)

LEMMA KeyType ==
  ASSUME NEW w \in Workers, NEW n \in 0 .. MaxRestarts
  PROVE  Key(w, n) \in Secrets
  BY DEF Key, Secrets

LEMMA TTLType ==
  ASSUME NEW type \in Types
  PROVE  TTL(type) \in Nat \ {0}
  BY AuthAssumption DEF TTL

\* What _create_token builds.
LEMMA CreatedType ==
  ASSUME TypeOK, NEW w \in Workers, NEW type \in Types, NEW sub \in Users,
         NEW profile \in Users \cup {NoUser}, NEW parent \in 0 .. MaxIssues,
         issues < MaxIssues
  PROVE  Created(w, type, sub, profile, parent) \in Token
  <1>1. clock \div TicksPerSecond \in Nat
    BY Seconds DEF TypeOK
  <1>2. clock \div TicksPerSecond + TTL(type) \in Nat
    BY <1>1, TTLType
  <1>3. issues + 1 \in 1 .. MaxIssues
    BY AuthAssumption DEF TypeOK
  <1>4. secret[w] \in Secrets
    BY DEF TypeOK
  <1> QED
    BY <1>1, <1>2, <1>3, <1>4 DEF Created, Token, TypeOK

\* Issuing a pair keeps the types of what it changes.
LEMMA IssueType ==
  ASSUME TypeOK, NEW w \in Workers, NEW sub \in Users,
         NEW profile \in Users \cup {NoUser}, NEW parent \in 0 .. MaxIssues,
         Issue(w, sub, profile, parent)
  PROVE  issues' \in 0 .. MaxIssues /\ tokens' \subseteq Token
  <1>1. issues < MaxIssues /\ issues' = issues + 1
    BY DEF Issue
  <1>2. /\ Created(w, "access", sub, profile, parent) \in Token
        /\ Created(w, "refresh", sub, NoUser, parent) \in Token
    BY <1>1, CreatedType DEF Types
  <1> QED
    BY <1>1, <1>2, AuthAssumption DEF Issue, TypeOK

\* An answer about at most one token.
LEMMA AnswerType ==
  ASSUME TypeOK, NEW route \in Routes, NEW why \in Verdicts, NEW used \in SUBSET Token,
         NEW profile \in Users \cup {NoUser}, Answers(route, why, used, profile)
  PROVE  answer' \in Answer
  <1>1. (IF why = "ok" THEN 200 ELSE IF why \in {"missing", "role"} THEN 403 ELSE 401)
          \in {0, 200, 401, 403}
    OBVIOUS
  <1> QED
    BY <1>1 DEF Answers, Answer, TypeOK

LEMMA VerdictType ==
  ASSUME NEW w, NEW t, NEW type
  PROVE  Verdict(w, t, type) \in Verdicts
  BY DEF Verdict, Verdicts

LEMMA TypeStep == TypeOK /\ [Next]_vars => TypeOK'
  <1> SUFFICES ASSUME TypeOK, [Next]_vars PROVE TypeOK'
    OBVIOUS
  <1>1. ASSUME NEW w \in Workers, Restart(w) PROVE TypeOK'
    <2>1. restarts[w] + 1 \in 0 .. MaxRestarts
      BY <1>1, AuthAssumption DEF Restart, TypeOK
    <2>2. Key(w, restarts[w] + 1) \in Secrets
      BY <2>1, KeyType
    <2> QED
      BY <1>1, <2>1, <2>2 DEF Restart, TypeOK
  <1>2. ASSUME NEW w \in Workers, NEW u \in Users, Login(w, u) PROVE TypeOK'
    <2>1. issues' \in 0 .. MaxIssues /\ tokens' \subseteq Token
      BY <1>2, IssueType, AuthAssumption DEF Login
    <2>2. answer' \in Answer
      BY <1>2, AnswerType DEF Login, Routes, Verdicts
    <2> QED
      BY <1>2, <2>1, <2>2 DEF Login, TypeOK
  <1>3. ASSUME NEW w \in Workers, NEW t \in tokens, Refresh(w, t) PROVE TypeOK'
    <2>1. t \in Token /\ t.sub \in Users /\ t.jti \in 0 .. MaxIssues
      BY AuthAssumption DEF TypeOK, Token
    <2>2. issues' \in 0 .. MaxIssues /\ tokens' \subseteq Token
      BY <1>3, <2>1, IssueType DEF Refresh
    <2>3. answer' \in Answer
      BY <1>3, <2>1, AnswerType DEF Refresh, Routes, Verdicts
    <2> QED
      BY <1>3, <2>2, <2>3 DEF Refresh, TypeOK
  <1>4. ASSUME NEW w \in Workers, NEW t \in tokens, RefreshRefused(w, t) PROVE TypeOK'
    <2>1. t \in Token
      BY DEF TypeOK
    <2>2. answer' \in Answer
      BY <1>4, <2>1, AnswerType, VerdictType DEF RefreshRefused, Routes
    <2> QED
      BY <1>4, <2>2 DEF RefreshRefused, TypeOK
  <1>5. ASSUME NEW w \in Workers, NEW t \in tokens, Me(w, t) PROVE TypeOK'
    <2>1. t \in Token /\ t.profile \in Users \cup {NoUser}
      BY DEF TypeOK, Token
    <2>2. answer' \in Answer
      BY <1>5, <2>1, AnswerType, VerdictType DEF Me, Routes
    <2> QED
      BY <1>5, <2>2 DEF Me, TypeOK
  <1>6. ASSUME NEW w \in Workers, NEW t \in tokens, Admin(w, t) PROVE TypeOK'
    <2> DEFINE v == Verdict(w, t, "access")
    <2>1. t \in Token
      BY DEF TypeOK
    <2>2. (IF v = "ok" /\ t.profile \notin Admins THEN "role" ELSE v) \in Verdicts
      BY VerdictType DEF Verdicts
    <2>3. answer' \in Answer
      BY <1>6, <2>1, <2>2, AnswerType DEF Admin, Routes
    <2> QED
      BY <1>6, <2>3 DEF Admin, TypeOK
  <1>7. ASSUME LoginRefused \/ NoToken PROVE TypeOK'
    <2>1. answer' \in Answer
      BY <1>7, AnswerType DEF LoginRefused, NoToken, Routes, Verdicts
    <2> QED
      BY <1>7, <2>1 DEF LoginRefused, NoToken, TypeOK
  <1>8. ASSUME Tick PROVE TypeOK'
    BY <1>8, AuthAssumption DEF Tick, TypeOK
  <1>9. ASSUME UNCHANGED vars PROVE TypeOK'
    BY <1>9 DEF vars, TypeOK
  <1> QED
    BY <1>1, <1>2, <1>3, <1>4, <1>5, <1>6, <1>7, <1>8, <1>9 DEF Next

\* Every reachable state is well typed: whatever clients present, tokens are only
\* ever what _create_token makes.
THEOREM TypeCorrect == Spec => []TypeOK
  <1>1. Init => TypeOK
    <2> SUFFICES ASSUME Init PROVE TypeOK
      OBVIOUS
    <2>1. \A w \in Workers : Key(w, 0) \in Secrets
      BY KeyType, AuthAssumption
    <2> QED
      BY <2>1, AuthAssumption DEF Init, TypeOK, Answer, Routes, Verdicts
  <1> QED
    BY <1>1, TypeStep, PTL DEF Spec

-----------------------------------------------------------------------------
(* The life of a token.                                                    *)

\* exp is the second of the issue and the lifetime of the type.
Dated ==
  \A t \in tokens : t.exp = t.born \div TicksPerSecond + TTL(t.type)

\* The edges of a token's life: less than a second is lost to rounding.
LEMMA Edges ==
  ASSUME TypeOK, Dated, NEW t \in tokens
  PROVE  /\ t.born \in Nat /\ t.type \in Types /\ Lifetime(t) \in Nat
         /\ ~Expired(t) => clock < t.born + Lifetime(t)
         /\ Expired(t) => clock > t.born + Lifetime(t) - TicksPerSecond
  <1> DEFINE s == t.born \div TicksPerSecond
  <1>1. t.born \in Nat /\ t.type \in Types /\ clock \in Nat
    BY AuthAssumption DEF TypeOK, Token
  <1>2. TTL(t.type) \in Nat
    BY <1>1, TTLType
  <1>3. s \in Nat /\ s * TicksPerSecond <= t.born /\ t.born < s * TicksPerSecond + TicksPerSecond
    BY <1>1, Seconds
  <1>4. t.exp * TicksPerSecond = s * TicksPerSecond + TTL(t.type) * TicksPerSecond
    BY <1>2, <1>3, Ends DEF Dated
  <1> HIDE DEF s
  <1>5. s * TicksPerSecond \in Nat /\ TTL(t.type) * TicksPerSecond \in Nat
    BY <1>2, <1>3, AuthAssumption
  <1> QED
    BY <1>1, <1>3, <1>4, <1>5, AuthAssumption DEF Expired, Lifetime

LEMMA DatedStep == Dated /\ [Next]_vars => Dated'
  <1> SUFFICES ASSUME Dated, [Next]_vars PROVE Dated'
    OBVIOUS
  <1>1. ASSUME NEW w \in Workers, NEW sub, NEW profile, NEW parent,
               Issue(w, sub, profile, parent), UNCHANGED clock
        PROVE  Dated'
    BY <1>1 DEF Issue, Created, Dated, TTL
  <1>2. CASE UNCHANGED tokens
    BY <1>2 DEF Dated, TTL
  <1>3. ASSUME NEW w \in Workers, NEW u \in Users, Login(w, u) PROVE Dated'
    BY <1>1, <1>3 DEF Login
  <1>4. ASSUME NEW w \in Workers, NEW t \in tokens, Refresh(w, t) PROVE Dated'
    BY <1>1, <1>4 DEF Refresh
  <1>5. ASSUME ~(\E w \in Workers, u \in Users : Login(w, u)),
               ~(\E w \in Workers, t \in tokens : Refresh(w, t))
        PROVE  UNCHANGED tokens
    BY <1>5 DEF Next, vars, Restart, RefreshRefused, Me, Admin, LoginRefused, NoToken, Tick
  <1> QED
    BY <1>2, <1>3, <1>4, <1>5

\* The answers to a request with a token say that it was alive, or over.
Timed ==
  /\ answer.route = "token" => answer.used = {}
  /\ \A t \in answer.used :
       /\ t.born \in Nat /\ t.type \in Types /\ Lifetime(t) \in Nat
       /\ Accepted => /\ t.type = (IF answer.route = "refresh" THEN "refresh" ELSE "access")
                      /\ answer.at < t.born + Lifetime(t)
       /\ answer.why = "expired" => answer.at > t.born + Lifetime(t) - TicksPerSecond

\* What decode_token says of a token, put into an answer.
LEMMA TimedAnswer ==
  ASSUME TypeOK, Dated, NEW w \in Workers, NEW t \in tokens, NEW type \in Types,
         NEW route \in Routes \ {"token"}, NEW why, NEW profile,
         route = "refresh" <=> type = "refresh",
         why = "ok" => Verdict(w, t, type) = "ok",
         why = "expired" => Verdict(w, t, type) = "expired",
         Answers(route, why, {t}, profile)
  PROVE  Timed'
  <1>1. /\ answer'.route = route /\ answer'.why = why /\ answer'.used = {t}
        /\ answer'.at = clock
        /\ answer'.status = 200 => why = "ok"
    BY DEF Answers
  <1>2. why = "ok" => ~Expired(t) /\ t.type = type
    BY DEF Verdict
  <1>3. why = "expired" => Expired(t)
    BY DEF Verdict
  <1>4. Lifetime(t)' = Lifetime(t)
    BY DEF Lifetime, TTL
  <1> QED
    BY <1>1, <1>2, <1>3, <1>4, Edges DEF Timed, Accepted, Types

LEMMA TimedStep == TypeOK /\ Dated /\ Timed /\ [Next]_vars => Timed'
  <1> SUFFICES ASSUME TypeOK, Dated, Timed, [Next]_vars PROVE Timed'
    OBVIOUS
  <1>1. CASE UNCHANGED answer
    BY <1>1 DEF Timed, Accepted, Lifetime, TTL
  <1>2. ASSUME answer'.used = {} PROVE Timed'
    BY <1>2 DEF Timed
  <1>3. ASSUME NEW w \in Workers, NEW u \in Users, Login(w, u) PROVE Timed'
    BY <1>2, <1>3 DEF Login, Answers
  <1>4. ASSUME LoginRefused \/ NoToken PROVE Timed'
    BY <1>2, <1>4 DEF LoginRefused, NoToken, Answers
  <1>5. ASSUME NEW w \in Workers, NEW t \in tokens, Refresh(w, t) PROVE Timed'
    <2>1. Answers("refresh", "ok", {t}, NoUser)
      BY <1>5 DEF Refresh
    <2> QED
      BY <1>5, <2>1, TimedAnswer DEF Refresh, Routes, Types
  <1>6. ASSUME NEW w \in Workers, NEW t \in tokens, RefreshRefused(w, t) PROVE Timed'
    <2>1. Answers("refresh", Verdict(w, t, "refresh"), {t}, NoUser)
      BY <1>6 DEF RefreshRefused
    <2> QED
      BY <1>6, <2>1, TimedAnswer DEF Routes, Types
  <1>7. ASSUME NEW w \in Workers, NEW t \in tokens, Me(w, t) PROVE Timed'
    <2>1. Answers("me", Verdict(w, t, "access"), {t},
                 IF Verdict(w, t, "access") = "ok" THEN t.profile ELSE NoUser)
      BY <1>7 DEF Me
    <2> QED
      BY <1>7, <2>1, TimedAnswer DEF Routes, Types
  <1>8. ASSUME NEW w \in Workers, NEW t \in tokens, Admin(w, t) PROVE Timed'
    <2> DEFINE v == Verdict(w, t, "access")
               why == IF v = "ok" /\ t.profile \notin Admins THEN "role" ELSE v
    <2>1. Answers("admin", why, {t}, NoUser)
      BY <1>8 DEF Admin
    <2>2. (why = "ok" => v = "ok") /\ (why = "expired" => v = "expired")
      OBVIOUS
    <2> HIDE DEF why
    <2> QED
      BY <2>1, <2>2, TimedAnswer DEF Routes, Types
  <1>9. ASSUME NEW w \in Workers, Restart(w) PROVE Timed'
    BY <1>1, <1>9 DEF Restart
  <1>10. ASSUME Tick \/ UNCHANGED vars PROVE Timed'
    BY <1>1, <1>10 DEF Tick, vars
  <1> QED
    BY <1>3, <1>4, <1>5, <1>6, <1>7, <1>8, <1>9, <1>10 DEF Next

LEMMA AlwaysTimed == Spec => [](TypeOK /\ Dated /\ Timed)
  <1>1. Init => Dated /\ Timed
    BY DEF Init, Dated, Timed
  <1> QED
    BY <1>1, TypeCorrect, DatedStep, TimedStep, PTL DEF Spec

\* No route is ever served for a token past the lifetime of the kind of token it
\* wants.
THEOREM AlwaysServedInTime == Spec => []ServedInTime
  <1>1. Timed => ServedInTime
    BY DEF Timed, ServedInTime, Lifetime, TTL
  <1> QED
    BY <1>1, AlwaysTimed, PTL

\* No token is refused as expired more than a second before its lifetime is over.
THEOREM AlwaysExpiresInTime == Spec => []ExpiresInTime
  <1>1. Timed => ExpiresInTime
    BY DEF Timed, ExpiresInTime
  <1> QED
    BY <1>1, AlwaysTimed, PTL

-----------------------------------------------------------------------------
(* Chains of rotations.                                                    *)

\* A jti names a pair, issued to one user at one time, and exchanged for pairs
\* issued later.
Numbered ==
  /\ \A t \in tokens : t.jti <= issues /\ t.parent <= issues
  /\ \A s, t \in tokens : s.jti = t.jti => s.born = t.born /\ s.sub = t.sub

LEMMA ChainStep ==
  TypeOK /\ Dated /\ Numbered /\ SessionsEndIdle /\ [Next]_vars
    => Numbered' /\ SessionsEndIdle'
  <1> SUFFICES ASSUME TypeOK, Dated, Numbered, SessionsEndIdle, [Next]_vars
               PROVE  Numbered' /\ SessionsEndIdle'
    OBVIOUS
  <1>1. ASSUME NEW w \in Workers, NEW sub \in Users, NEW profile, NEW parent \in 0 .. issues,
               Issue(w, sub, profile, parent),
               \A s \in tokens : s.jti = parent =>
                 sub = s.sub /\ clock < s.born + RefreshTTL * TicksPerSecond
        PROVE  Numbered' /\ SessionsEndIdle'
    <2> DEFINE a == Created(w, "access", sub, profile, parent)
               r == Created(w, "refresh", sub, NoUser, parent)
    <2>1. tokens' = tokens \cup {a, r} /\ issues' = issues + 1 /\ issues \in Nat
      BY <1>1, AuthAssumption DEF Issue, TypeOK
    <2>2. \A n \in {a, r} : /\ n.jti = issues + 1 /\ n.parent = parent
                           /\ n.sub = sub /\ n.born = clock
      BY DEF Created
    <2>3. \A t \in tokens : t.jti \in Nat /\ t.parent \in Nat
      BY AuthAssumption DEF TypeOK, Token
    <2> HIDE DEF a, r
    <2>4. Numbered'
      BY <2>1, <2>2, <2>3, <1>1 DEF Numbered
    <2>5. SessionsEndIdle'
      <3> SUFFICES ASSUME NEW s \in tokens', NEW t \in tokens', t.parent = s.jti
                   PROVE  t.sub = s.sub /\ t.born < s.born + RefreshTTL * TicksPerSecond
        BY DEF SessionsEndIdle
      <3>1. s \in tokens
        BY <2>1, <2>2, <2>3, <1>1 DEF Numbered
      <3>2. CASE t \in tokens
        BY <3>1, <3>2 DEF SessionsEndIdle
      <3>3. CASE t \in {a, r}
        BY <3>1, <3>3, <2>2, <1>1
      <3> QED
        BY <2>1, <3>2, <3>3
    <2> QED
      BY <2>4, <2>5
  <1>2. CASE UNCHANGED <<tokens, issues>>
    BY <1>2 DEF Numbered, SessionsEndIdle
  <1>3. ASSUME NEW w \in Workers, NEW u \in Users, Login(w, u)
        PROVE  Numbered' /\ SessionsEndIdle'
    <2>1. \A s \in tokens : s.jti # 0
      BY DEF TypeOK, Token
    <2>2. 0 \in 0 .. issues
      BY AuthAssumption DEF TypeOK
    <2> QED
      BY <1>1, <1>3, <2>1, <2>2 DEF Login
  <1>4. ASSUME NEW w \in Workers, NEW t \in tokens, Refresh(w, t)
        PROVE  Numbered' /\ SessionsEndIdle'
    <2>1. t.type = "refresh" /\ ~Expired(t)
      BY <1>4 DEF Refresh, Verdict
    <2>2. clock < t.born + RefreshTTL * TicksPerSecond
      BY <2>1, Edges DEF Lifetime, TTL
    <2>3. t.sub \in Users /\ t.jti \in 0 .. issues
      BY AuthAssumption DEF TypeOK, Token, Numbered
    <2>4. \A s \in tokens : s.jti = t.jti => s.sub = t.sub /\ s.born = t.born
      BY DEF Numbered
    <2> QED
      BY <1>1, <1>4, <2>2, <2>3, <2>4 DEF Refresh
  <1>5. ASSUME ~(\E w \in Workers, u \in Users : Login(w, u)),
               ~(\E w \in Workers, t \in tokens : Refresh(w, t))
        PROVE  UNCHANGED <<tokens, issues>>
    BY <1>5 DEF Next, vars, Restart, RefreshRefused, Me, Admin, LoginRefused, NoToken, Tick
  <1> QED
    BY <1>2, <1>3, <1>4, <1>5

\* Along every chain of rotations a token speaks for the user the chain began
\* with, and no link is longer than the life of a refresh token.
THEOREM SessionsAlwaysEndIdle == Spec => []SessionsEndIdle
  <1>1. Init => Numbered /\ SessionsEndIdle
    BY DEF Init, Numbered, SessionsEndIdle
  <1> QED
    BY <1>1, AlwaysTimed, ChainStep, PTL DEF Spec
=============================================================================
