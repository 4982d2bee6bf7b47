------------------------------ MODULE IdealBucket ------------------------------
(***************************************************************************)
(* What the rate limiter promises (app/services/redis_service.py, lines    *)
(* 7-10): every client has a bucket that refills continuously, and an      *)
(* answer takes a token or refuses, at once, by what the bucket holds at   *)
(* that moment.  There is no clock, no key, no expiry and no network here; *)
(* TokenBucket implements it as long as its commands run when they are     *)
(* stamped.                                                                *)
(***************************************************************************)
EXTENDS Naturals

CONSTANTS
  Clients, Calls, Caller,  \* as in TokenBucket
  Capacity,                \* of a bucket
  Token,                   \* what a request costs
  Rate                     \* what a bucket gains in a tick

VARIABLES
  credit,   \* what each client's bucket holds
  charged,  \* how often each call took a token
  verdict   \* the answer each call has

vars == <<credit, charged, verdict>>

Filled(amount) == IF amount <= Capacity THEN amount ELSE Capacity

Init ==
  /\ credit = [k \in Clients |-> Capacity]
  /\ charged = [c \in Calls |-> 0]
  /\ verdict = [c \in Calls |-> "none"]

\* A token is taken; the caller learns of it unless it has stopped waiting.
Admit(c) ==
  /\ credit[Caller[c]] >= Token
  /\ credit' = [credit EXCEPT ![Caller[c]] = @ - Token]
  /\ charged' = [charged EXCEPT ![c] = @ + 1]
  /\ verdict' \in {verdict, [verdict EXCEPT ![c] = "allowed"]}

\* Only an empty bucket refuses.
Refuse(c) ==
  /\ credit[Caller[c]] < Token
  /\ verdict' = [verdict EXCEPT ![c] = "denied"]
  /\ UNCHANGED <<credit, charged>>

\* A limiter without any capacity answers with an error.
Fail(c) ==
  /\ Capacity = 0
  /\ verdict' = [verdict EXCEPT ![c] = "error"]
  /\ UNCHANGED <<credit, charged>>

\* The caller stops waiting for the answer, or asks again.
Forget(c) ==
  /\ verdict' = [verdict EXCEPT ![c] = "none"]
  /\ UNCHANGED <<credit, charged>>

\* The bucket is forgotten: a full one takes its place.
Fill(k) ==
  /\ credit' = [credit EXCEPT ![k] = Capacity]
  /\ UNCHANGED <<charged, verdict>>

Elapse ==
  /\ credit' = [k \in Clients |-> Filled(credit[k] + Rate)]
  /\ UNCHANGED <<charged, verdict>>

Next ==
  \/ \E c \in Calls : Admit(c) \/ Refuse(c) \/ Fail(c) \/ Forget(c)
  \/ \E k \in Clients : Fill(k)
  \/ Elapse

Spec == Init /\ [][Next]_vars
=============================================================================
