-------------------------------- MODULE Gateway --------------------------------
(***************************************************************************)
(* The path of a request through the gateway: app/main.py,                 *)
(* app/api/middleware/rate_limiter.py and app/api/middleware/waf.py.       *)
(*                                                                         *)
(* add_middleware puts each middleware around those added before it, so a  *)
(* request runs through logging, rate limiter, WAF, CORS and router, and   *)
(* its response back out.  Requests interleave at every await: the         *)
(* limiter's answer, the body, the handler.  The limiter is the one        *)
(* IdealBucket describes, or fails, and its commands may take tokens that  *)
(* nobody hears of; an exception of the handler goes through every         *)
(* middleware to the 500 of the exception handler.                         *)
(***************************************************************************)
EXTENDS Naturals, Sequences

CONSTANTS
  Requests,
  Kinds,       \* the requests that may arrive, as records of RequestKind
  Addresses,   \* IP addresses
  Keys,        \* API keys
  None,        \* an absent header
  Whitelist,   \* WAF_WHITELIST_IPS
  Limit,       \* RATE_LIMIT_REQUESTS
  Commands     \* how many commands of one check may each take a token, three
               \* (TokenBucket!ChargesBounded)

RequestKind ==
  [path      : {"exempt", "route"},
   peer      : Addresses,            \* request.client.host
   forwarded : Addresses \cup {None}, \* X-Forwarded-For
   key       : Keys \cup {None},      \* X-API-Key
   threat    : {"none", "sqli", "xss"},
   where     : {"head", "body"},     \* query and headers, or body
   body      : {"whole", "nested", "unreadable", "oversize"},
   handler   : {"answers", "raises"}]

ASSUME GatewayAssumption ==
  /\ Kinds \subseteq RequestKind
  /\ Whitelist \subseteq Addresses
  /\ Addresses \cap Keys = {}
  /\ None \notin Addresses \cup Keys
  /\ Limit \in Nat \ {0}
  /\ Commands \in Nat \ {0}

VARIABLES
  settings,  \* WAF_ENABLED and WAF_LOG_BLOCKED
  kind,      \* what each request is
  pc,        \* where each request is
  limiter,   \* what the limiter has said of it
  waf,       \* and what the WAF
  id,        \* its request.state.request_id
  bound,     \* the id bound to its log context
  status,    \* the status of its answer, 0 before there is one
  headers,   \* the headers the middlewares have put on its answer
  credit,    \* the limiter: tokens in each client's bucket
  paid,      \* tokens each request has taken
  events,    \* the threat events fired for each request
  logged     \* the http_request lines logged for each request

given == <<settings, kind>>
context == <<id, bound>>
answer == <<status, headers>>
budget == <<credit, paid>>
vars == <<given, pc, limiter, waf, context, answer, budget, events, logged>>

Clients == Addresses \cup Keys

\* Correlation ids are fresh UUIDs: one may be drawn by the logging middleware,
\* one by the WAF.
Ids == Requests \X {"logging", "waf"}
Headers == {"X-RateLimit", "X-Request-Id"}

Event == [type : {"sqli", "xss", "rate_limit"}, ip : Addresses, id : Ids \cup {None}]

TypeOK ==
  /\ settings \in [waf : BOOLEAN, log_blocked : BOOLEAN]
  /\ kind \in [Requests -> Kinds]
  /\ pc \in [Requests -> {"new", "limiter", "waf", "body", "route", "out", "done"}]
  /\ limiter \in [Requests -> {"unasked", "exempt", "allowed", "denied", "error"}]
  /\ waf \in [Requests -> {"unasked", "skipped", "whitelisted", "clean", "raised", "blocked",
                           "oversize"}]
  /\ id \in [Requests -> Ids \cup {None}]
  /\ bound \in [Requests -> Ids \cup {None}]
  /\ status \in [Requests -> {0, 200, 403, 413, 429, 500}]
  /\ headers \in [Requests -> SUBSET Headers]
  /\ credit \in [Clients -> 0 .. Limit]
  /\ paid \in [Requests -> 0 .. Commands]
  /\ events \in [Requests -> Seq(Event)]
  /\ logged \in [Requests -> Seq(Ids)]

Init ==
  /\ settings \in [waf : BOOLEAN, log_blocked : BOOLEAN]
  /\ kind \in [Requests -> Kinds]
  /\ pc = [r \in Requests |-> "new"]
  /\ limiter = [r \in Requests |-> "unasked"]
  /\ waf = [r \in Requests |-> "unasked"]
  /\ id = [r \in Requests |-> None]
  /\ bound = [r \in Requests |-> None]
  /\ status = [r \in Requests |-> 0]
  /\ headers = [r \in Requests |-> {}]
  /\ credit = [k \in Clients |-> Limit]
  /\ paid = [r \in Requests |-> 0]
  /\ events = [r \in Requests |-> <<>>]
  /\ logged = [r \in Requests |-> <<>>]

-----------------------------------------------------------------------------
(* Who a request comes from.                                               *)

Exempt(r) == kind[r].path = "exempt"

\* The limiter's client: the API key, the forwarded address or the peer's.
Identifier(r) ==
  IF kind[r].key # None THEN kind[r].key
  ELSE IF kind[r].forwarded # None THEN kind[r].forwarded
  ELSE kind[r].peer

\* The WAF's client: the forwarded address or the peer's.
ClientIp(r) == IF kind[r].forwarded # None THEN kind[r].forwarded ELSE kind[r].peer

\* A threat in the body is there for whoever gets the body.  A nested body is JSON
\* nested deeper than Python recurs.
Visible(r) ==
  /\ kind[r].threat # "none"
  /\ kind[r].where = "head" \/ kind[r].body \in {"whole", "nested"}

Goes(r, from, to) == pc[r] = from /\ pc' = [pc EXCEPT ![r] = to]
Limiter(r, verdict) == limiter' = [limiter EXCEPT ![r] = verdict]
Waf(r, verdict) == waf' = [waf EXCEPT ![r] = verdict]
Answers(r, code, names) ==
  /\ status' = [status EXCEPT ![r] = code]
  /\ headers' = [headers EXCEPT ![r] = names]
Pays(r) ==
  /\ credit[Identifier(r)] > 0
  /\ credit' = [credit EXCEPT ![Identifier(r)] = @ - 1]
  /\ paid' = [paid EXCEPT ![r] = @ + 1]
Fires(r, event) == events' = [events EXCEPT ![r] = Append(@, event)]

-----------------------------------------------------------------------------
(* The logging middleware and the rate limiter, inward.                    *)

\* Mutant of Arrive: the WAF was added last and runs first.
ArriveAtWaf(r) ==
  /\ Goes(r, "new", "waf")
  /\ bound' = [bound EXCEPT ![r] = IF id[r] = None THEN <<r, "logging">> ELSE id[r]]
  /\ UNCHANGED <<given, limiter, waf, id, answer, budget, events, logged>>

\* The log context is bound before the WAF has drawn a request id.
Arrive(r) ==
  /\ Goes(r, "new", "limiter")
  /\ bound' = [bound EXCEPT ![r] = IF id[r] = None THEN <<r, "logging">> ELSE id[r]]
  /\ UNCHANGED <<given, limiter, waf, id, answer, budget, events, logged>>

ExemptFromLimit(r) ==
  /\ Exempt(r)
  /\ Goes(r, "limiter", "waf")
  /\ Limiter(r, "exempt")
  /\ UNCHANGED <<given, waf, context, answer, budget, events, logged>>

\* Mutant of Admit: the token is not taken.
AdmitFreely(r) ==
  /\ ~Exempt(r)
  /\ Goes(r, "limiter", "waf")
  /\ credit[Identifier(r)] > 0
  /\ Limiter(r, "allowed")
  /\ UNCHANGED <<given, waf, context, answer, budget, events, logged>>

\* Mutant of Admit: the bucket is not looked at.
AdmitBlindly(r) ==
  /\ ~Exempt(r)
  /\ Goes(r, "limiter", "waf")
  /\ credit' = [credit EXCEPT ![Identifier(r)] = @ - 1]
  /\ paid' = [paid EXCEPT ![r] = @ + 1]
  /\ Limiter(r, "allowed")
  /\ UNCHANGED <<given, waf, context, answer, events, logged>>

\* The command whose answer is heard takes a token, whatever those before it took.
Admit(r) ==
  /\ ~Exempt(r)
  /\ Goes(r, "limiter", "waf")
  /\ paid[r] < Commands
  /\ Pays(r)
  /\ Limiter(r, "allowed")
  /\ UNCHANGED <<given, waf, context, answer, events, logged>>

\* The command whose answer is heard finds the bucket empty.  The answer is 429, and
\* the event names the peer.
Deny(r) ==
  /\ ~Exempt(r)
  /\ Goes(r, "limiter", "out")
  /\ paid[r] < Commands
  /\ credit[Identifier(r)] = 0
  /\ Limiter(r, "denied")
  /\ Answers(r, 429, {"X-RateLimit"})
  /\ Fires(r, [type |-> "rate_limit", ip |-> kind[r].peer, id |-> None])
  /\ UNCHANGED <<given, waf, context, budget, logged>>

\* check() raises: the request is let through, whatever its commands have taken.
FailOpen(r) ==
  /\ ~Exempt(r)
  /\ Goes(r, "limiter", "waf")
  /\ Limiter(r, "error")
  /\ UNCHANGED <<given, waf, context, answer, budget, events, logged>>

\* A command of the check runs and takes a token without being heard: its attempt has
\* timed out, and a retry, another outcome or an error decides about the request.  It
\* may run long after that.  A 429 leaves one command that took nothing.
PayUnheard(r) ==
  /\ ~Exempt(r)
  /\ pc[r] # "new"
  /\ paid[r] < IF limiter[r] = "denied" THEN Commands - 1 ELSE Commands
  /\ Pays(r)
  /\ UNCHANGED <<given, pc, limiter, waf, context, answer, events, logged>>

\* The bucket refills.
Refill(k) ==
  /\ credit[k] < Limit
  /\ credit' = [credit EXCEPT ![k] = @ + 1]
  /\ UNCHANGED <<given, pc, limiter, waf, context, answer, paid, events, logged>>

-----------------------------------------------------------------------------
(* The WAF, inward.                                                        *)

SkipWaf(r) ==
  /\ Exempt(r) \/ ~settings.waf
  /\ Goes(r, "waf", "route")
  /\ Waf(r, "skipped")
  /\ UNCHANGED <<given, limiter, context, answer, budget, events, logged>>

\* A request id is drawn; a whitelisted client is not inspected, and the body of
\* any other is read.
EnterWaf(r) ==
  /\ ~Exempt(r) /\ settings.waf
  /\ id' = [id EXCEPT ![r] = <<r, "waf">>]
  /\ IF ClientIp(r) \in Whitelist THEN Goes(r, "waf", "route") /\ Waf(r, "whitelisted")
     ELSE Goes(r, "waf", "body") /\ UNCHANGED waf
  /\ UNCHANGED <<given, limiter, bound, answer, budget, events, logged>>

\* A body over _MAX_BODY_SIZE ends the request with 413.
RejectBody(r) ==
  /\ kind[r].body = "oversize"
  /\ Goes(r, "body", "out")
  /\ Waf(r, "oversize")
  /\ Answers(r, 413, {})
  /\ UNCHANGED <<given, limiter, context, budget, events, logged>>

\* Mutant of Block: WAF_LOG_BLOCKED is not looked at.
BlockAndLog(r) ==
  /\ kind[r].body \notin {"nested", "oversize"}
  /\ Visible(r)
  /\ Goes(r, "body", "out")
  /\ Waf(r, "blocked")
  /\ Answers(r, 403, {"X-Request-Id"})
  /\ Fires(r, [type |-> kind[r].threat, ip |-> ClientIp(r), id |-> id[r]])
  /\ UNCHANGED <<given, limiter, context, budget, logged>>

\* Threats are found in whatever could be read: the answer is 403.
Block(r) ==
  /\ kind[r].body \notin {"nested", "oversize"}
  /\ Visible(r)
  /\ Goes(r, "body", "out")
  /\ Waf(r, "blocked")
  /\ Answers(r, 403, {"X-Request-Id"})
  /\ IF settings.log_blocked
     THEN Fires(r, [type |-> kind[r].threat, ip |-> ClientIp(r), id |-> id[r]])
     ELSE UNCHANGED events
  /\ UNCHANGED <<given, limiter, context, budget, logged>>

\* Mutant of PassClean: what comes with a body that cannot be read is not inspected.
PassUnread(r) ==
  /\ kind[r].body \notin {"nested", "oversize"}
  /\ ~Visible(r) \/ kind[r].body = "unreadable"
  /\ Goes(r, "body", "route")
  /\ Waf(r, "clean")
  /\ UNCHANGED <<given, limiter, context, answer, budget, events, logged>>

\* Nothing is found in what could be read.
PassClean(r) ==
  /\ kind[r].body \notin {"nested", "oversize"}
  /\ ~Visible(r)
  /\ Goes(r, "body", "route")
  /\ Waf(r, "clean")
  /\ UNCHANGED <<given, limiter, context, answer, budget, events, logged>>

\* Mutant of InspectionRaises: the error counts as one of parsing, and the body
\* passes as inspected.
PassNested(r) ==
  /\ kind[r].body = "nested"
  /\ Goes(r, "body", "route")
  /\ Waf(r, "clean")
  /\ UNCHANGED <<given, limiter, context, answer, budget, events, logged>>

\* A JSON body nested too deep: the parser or _inspect_dict raises RecursionError,
\* which nothing catches.  What has been found by then is dropped.
InspectionRaises(r) ==
  /\ kind[r].body = "nested"
  /\ Goes(r, "body", "done")
  /\ Waf(r, "raised")
  /\ Answers(r, 500, {})
  /\ UNCHANGED <<given, limiter, context, budget, events, logged>>

-----------------------------------------------------------------------------
(* The router, and the way out.                                            *)

\* A handler answers, with any status of its own (200 stands for them); the WAF
\* adds its headers to the answer of a request it has inspected.
Handle(r) ==
  /\ kind[r].handler = "answers"
  /\ Goes(r, "route", "out")
  /\ Answers(r, 200, IF waf[r] = "clean" THEN {"X-Request-Id"} ELSE {})
  /\ UNCHANGED <<given, limiter, waf, context, budget, events, logged>>

\* The handler raises: no middleware catches it, nothing is logged of the request.
HandlerRaises(r) ==
  /\ kind[r].handler = "raises"
  /\ Goes(r, "route", "done")
  /\ Answers(r, 500, {})
  /\ UNCHANGED <<given, limiter, waf, context, budget, events, logged>>

\* The limiter annotates the answer of a request it has allowed, and the request
\* is logged.
Return(r) ==
  /\ Goes(r, "out", "done")
  /\ headers' = IF limiter[r] = "allowed" THEN [headers EXCEPT ![r] = @ \cup {"X-RateLimit"}]
                ELSE headers
  /\ logged' = [logged EXCEPT ![r] = Append(@, bound[r])]
  /\ UNCHANGED <<given, limiter, waf, context, status, budget, events>>

Rest == (\A r \in Requests : pc[r] = "done") /\ UNCHANGED vars

Step(r) ==
  \/ Arrive(r)
  \/ ExemptFromLimit(r) \/ Admit(r) \/ Deny(r) \/ FailOpen(r)
  \/ SkipWaf(r) \/ EnterWaf(r) \/ RejectBody(r) \/ Block(r) \/ PassClean(r)
  \/ InspectionRaises(r)
  \/ Handle(r) \/ HandlerRaises(r) \/ Return(r)

Next ==
  \/ \E r \in Requests : Step(r) \/ PayUnheard(r)
  \/ \E k \in Clients : Refill(k)
  \/ Rest

Spec == Init /\ [][Next]_vars

-----------------------------------------------------------------------------
(* Properties.                                                             *)

Done(r) == pc[r] = "done"
\* The route has run, whether it answered or raised.
Handled(r) == status[r] \in {200, 500} /\ waf[r] # "raised"
Bypassed(r) == Exempt(r) \/ ~settings.waf \/ ClientIp(r) \in Whitelist

\* The client is told exactly what the threat log will say: a 429 fires one
\* rate_limit event, a 403 one of the threat found, under the id the client gets
\* and unless WAF_LOG_BLOCKED is off, and no other answer fires any.
EventsMatchAnswers ==
  \A r \in Requests : Done(r) =>
    LET blocked == status[r] = 403 /\ settings.log_blocked IN
    /\ Len(events[r]) = IF status[r] = 429 \/ blocked THEN 1 ELSE 0
    /\ status[r] = 429 => events[r][1].type = "rate_limit"
    /\ blocked => /\ events[r][1].type = kind[r].threat
                  /\ events[r][1].ip = ClientIp(r)
                  /\ events[r][1].id = id[r]

\* A threat reaches a handler only where inspection is off: whatever part of a
\* request could not be read reaches neither the inspector nor the handler, and
\* what could not be inspected for its depth gets no further (waf.py:75-126).
HandlersSeeNoThreat ==
  \A r \in Requests : Handled(r) /\ Visible(r) => Bypassed(r)

\* What is past the limiter has paid, unless it is exempt, refused, or the limiter
\* failed: an answer that tells the limit and is no refusal stands for a token taken,
\* however many commands ran unheard.  What the limiter is not asked about pays
\* nothing, and a request whose every command was paid for is not refused
\* (rate_limiter.py:89-142 over redis_service.py:41).
PassageIsPaid ==
  \A r \in Requests :
    /\ pc[r] \notin {"new", "limiter"} =>
         limiter[r] \in {"exempt", "error", "denied"} \/ paid[r] > 0
    /\ "X-RateLimit" \in headers[r] /\ status[r] # 429 => paid[r] > 0
    /\ pc[r] = "new" \/ Exempt(r) => paid[r] = 0
    /\ status[r] = 429 => paid[r] < Commands
=============================================================================
