---------------------------------- MODULE Auth ----------------------------------
(***************************************************************************)
(* Token issuance, rotation and validation: app/core/security.py,          *)
(* app/api/routes/auth.py, get_current_user of app/core/dependencies.py    *)
(* and the role check of app/api/routes/gateway.py.                        *)
(*                                                                         *)
(* Tokens are signed JWTs, and no server remembers them: a worker accepts  *)
(* a token by its signature, its times and its type alone.  Clients keep   *)
(* every token they were given and may present any of them, to any worker, *)
(* as often as they like.  JWT times are whole seconds: PyJWT rounds iat   *)
(* and exp down and compares exp with the exact time.                      *)
(***************************************************************************)
EXTENDS Naturals, FiniteSets, Sequences

CONSTANTS
  Users,           \* the demo users, each with its user_id
  Admins,          \* users whose role is "admin"
  NoUser,          \* no profile claims, or no user
  Workers,         \* uvicorn worker processes
  SecretSet,       \* whether JWT_SECRET_KEY is configured
  AccessTTL,       \* JWT_ACCESS_TOKEN_EXPIRE_MINUTES, in seconds
  RefreshTTL,      \* JWT_REFRESH_TOKEN_EXPIRE_DAYS, in seconds
  TicksPerSecond,  \* resolution of the clock
  MaxClock,        \* bound: the last tick
  MaxIssues,       \* bound: token pairs issued
  MaxRestarts      \* bound: restarts of each worker

ASSUME AuthAssumption ==
  /\ Admins \subseteq Users
  /\ NoUser \notin Users
  /\ SecretSet \in BOOLEAN
  /\ AccessTTL \in Nat \ {0}
  /\ RefreshTTL \in Nat \ {0}
  /\ TicksPerSecond \in Nat \ {0}
  /\ MaxClock \in Nat
  /\ MaxIssues \in Nat
  /\ MaxRestarts \in Nat

VARIABLES
  clock,     \* the time
  restarts,  \* how often each worker process was replaced
  secret,    \* the key each worker signs and verifies with
  issues,    \* token pairs issued so far
  tokens,    \* the tokens clients hold
  answer     \* the last request and its answer

vars == <<clock, restarts, secret, issues, tokens, answer>>

\* config.py:36: the configured key, or one drawn by the process.
Key(w, n) == IF SecretSet THEN <<>> ELSE <<w, n>>
Secrets == {<<>>} \cup (Workers \X (0 .. MaxRestarts))

Types == {"access", "refresh"}
TTL(type) == IF type = "access" THEN AccessTTL ELSE RefreshTTL

\* jti, with the type, identifies a token; born is the exact time of its issue and
\* parent the jti of the refresh token it was exchanged for, 0 at a login.
Token ==
  [jti : 1 .. MaxIssues, type : Types, sub : Users, profile : Users \cup {NoUser},
   iat : Nat, exp : Nat, key : Secrets, born : 0 .. MaxClock, parent : 0 .. MaxIssues]

Routes == {"start", "token", "refresh", "me", "admin"}
Verdicts == {"ok", "credentials", "missing", "signature", "expired", "type", "role"}
Answer ==
  [route : Routes, why : Verdicts, status : {0, 200, 401, 403},
   used : SUBSET Token,             \* the token presented, if any
   profile : Users \cup {NoUser},   \* who /auth/me says it is
   at : 0 .. MaxClock]

TypeOK ==
  /\ clock \in 0 .. MaxClock
  /\ restarts \in [Workers -> 0 .. MaxRestarts]
  /\ secret \in [Workers -> Secrets]
  /\ issues \in 0 .. MaxIssues
  /\ tokens \subseteq Token
  /\ answer \in Answer

Init ==
  /\ clock = 0
  /\ restarts = [w \in Workers |-> 0]
  /\ secret = [w \in Workers |-> Key(w, 0)]
  /\ issues = 0
  /\ tokens = {}
  /\ answer = [route |-> "start", why |-> "ok", status |-> 0, used |-> {},
               profile |-> NoUser, at |-> 0]

-----------------------------------------------------------------------------
(* Creating and decoding a token.                                          *)

\* _create_token: times are rounded down to the second when encoded.
Created(w, type, sub, profile, parent) ==
  [jti |-> issues + 1, type |-> type, sub |-> sub, profile |-> profile,
   iat |-> clock \div TicksPerSecond, exp |-> clock \div TicksPerSecond + TTL(type),
   key |-> secret[w], born |-> clock, parent |-> parent]

\* A pair; only login gives its access token the profile claims.
Issue(w, sub, profile, parent) ==
  /\ issues < MaxIssues
  /\ issues' = issues + 1
  /\ tokens' = tokens \cup {Created(w, "access", sub, profile, parent),
                            Created(w, "refresh", sub, NoUser, parent)}

\* Mutant of Expired: a token is over in the second that precedes exp.
ExpiredEarly(t) == t.exp * TicksPerSecond <= clock + TicksPerSecond

\* Mutant of Expired: exp is the last second of a token, not its end.
ExpiredLate(t) == (t.exp + 1) * TicksPerSecond <= clock

\* PyJWT: a token is over from exp on.
Expired(t) == t.exp * TicksPerSecond <= clock

\* Mutant of Verdict: the type claim is not compared.
VerdictAnyType(w, t, type) ==
  IF t.key # secret[w] THEN "signature"
  ELSE IF Expired(t) THEN "expired"
  ELSE "ok"

\* decode_token: the signature is verified first, then exp, then the type.
Verdict(w, t, type) ==
  IF t.key # secret[w] THEN "signature"
  ELSE IF Expired(t) THEN "expired"
  ELSE IF t.type # type THEN "type"
  ELSE "ok"

Answers(route, why, used, profile) ==
  answer' = [route |-> route, why |-> why, used |-> used, profile |-> profile,
             at |-> clock,
             status |-> IF why = "ok" THEN 200
                        ELSE IF why \in {"missing", "role"} THEN 403 ELSE 401]

-----------------------------------------------------------------------------
(* Requests.                                                               *)

\* POST /auth/token.
Login(w, u) ==
  /\ Issue(w, u, u, 0)
  /\ Answers("token", "ok", {}, NoUser)
  /\ UNCHANGED <<clock, restarts, secret>>

LoginRefused ==
  /\ Answers("token", "credentials", {}, NoUser)
  /\ UNCHANGED <<clock, restarts, secret, issues, tokens>>

\* Mutant of Refresh: the pair is issued to the profile claim, not to sub.
RefreshProfile(w, t) ==
  /\ Verdict(w, t, "refresh") = "ok"
  /\ Issue(w, t.profile, NoUser, t.jti)
  /\ Answers("refresh", "ok", {t}, NoUser)
  /\ UNCHANGED <<clock, restarts, secret>>

\* POST /auth/refresh: rotate_tokens.
Refresh(w, t) ==
  /\ Verdict(w, t, "refresh") = "ok"
  /\ Issue(w, t.sub, NoUser, t.jti)
  /\ Answers("refresh", "ok", {t}, NoUser)
  /\ UNCHANGED <<clock, restarts, secret>>

RefreshRefused(w, t) ==
  /\ Verdict(w, t, "refresh") # "ok"
  /\ Answers("refresh", Verdict(w, t, "refresh"), {t}, NoUser)
  /\ UNCHANGED <<clock, restarts, secret, issues, tokens>>

\* GET /auth/me and the like: get_current_user, then the claims.
Me(w, t) ==
  /\ Answers("me", Verdict(w, t, "access"), {t},
             IF Verdict(w, t, "access") = "ok" THEN t.profile ELSE NoUser)
  /\ UNCHANGED <<clock, restarts, secret, issues, tokens>>

\* GET /gateway/threats and /gateway/stats: the role claim too.
Admin(w, t) ==
  /\ LET v == Verdict(w, t, "access") IN
     Answers("admin", IF v = "ok" /\ t.profile \notin Admins THEN "role" ELSE v, {t},
             NoUser)
  /\ UNCHANGED <<clock, restarts, secret, issues, tokens>>

\* No Authorization header: HTTPBearer answers 403.
NoToken ==
  /\ \E route \in {"me", "admin"} : Answers(route, "missing", {}, NoUser)
  /\ UNCHANGED <<clock, restarts, secret, issues, tokens>>

-----------------------------------------------------------------------------
(* Time and processes.                                                     *)

Tick ==
  /\ clock < MaxClock
  /\ clock' = clock + 1
  /\ UNCHANGED <<restarts, secret, issues, tokens, answer>>

\* A worker process is replaced.
Restart(w) ==
  /\ restarts[w] < MaxRestarts
  /\ restarts' = [restarts EXCEPT ![w] = @ + 1]
  /\ secret' = [secret EXCEPT ![w] = Key(w, restarts[w] + 1)]
  /\ UNCHANGED <<clock, issues, tokens, answer>>

Next ==
  \/ \E w \in Workers : Restart(w) \/ \E u \in Users : Login(w, u)
  \/ \E w \in Workers, t \in tokens :
       Refresh(w, t) \/ RefreshRefused(w, t) \/ Me(w, t) \/ Admin(w, t)
  \/ LoginRefused \/ NoToken
  \/ Tick

Spec == Init /\ [][Next]_vars

-----------------------------------------------------------------------------
(* Properties.                                                             *)

Accepted == answer.status = 200
Lifetime(t) == TTL(t.type) * TicksPerSecond

\* What lets a client in is short-lived: a route that wants an access token is
\* never served later than AccessTTL after the issue of the token presented, one
\* that wants a refresh token never later than RefreshTTL, though both tokens are
\* signed with one key and differ in a claim (security.py:121-125).
ServedInTime ==
  \A t \in answer.used : Accepted =>
    answer.at < t.born + (IF answer.route = "refresh" THEN RefreshTTL ELSE AccessTTL)
                         * TicksPerSecond

\* The rounding of JWT times costs a client less than a second of what expires_in
\* promised (security.py:69-70, auth.py:96).
ExpiresInTime ==
  \A t \in answer.used : answer.why = "expired" =>
    answer.at > t.born + Lifetime(t) - TicksPerSecond

\* A session is one user's, and ends when it is idle: a token got by rotation
\* speaks for the user of the refresh token it was exchanged for, and was issued
\* within RefreshTTL of it, however long the chain (security.py:138-145).
SessionsEndIdle ==
  \A s, t \in tokens : t.parent = s.jti =>
    t.sub = s.sub /\ t.born < s.born + RefreshTTL * TicksPerSecond

-----------------------------------------------------------------------------
(* What the documentation and the tests say.                               *)

\* tests/test_auth.py:230, of the access token a rotation gave:
\* assert me_response2.json()["username"] == "developer"
RotationKeepsTheProfile ==
  \A t \in answer.used : Accepted /\ answer.route = "me" => answer.profile = t.sub
=============================================================================
