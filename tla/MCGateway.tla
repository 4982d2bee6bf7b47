------------------------------- MODULE MCGateway -------------------------------
(***************************************************************************)
(* Gateway on small instances.                                             *)
(***************************************************************************)
EXTENDS Gateway, TLC

CONSTANTS r1, r2, proxy, client, local, key

Plain ==
  [path |-> "route", peer |-> proxy, forwarded |-> client, key |-> None,
   threat |-> "none", where |-> "head", body |-> "whole", handler |-> "answers"]

\* Requests that differ in what they hold and how they are handled.
Contents ==
  {[Plain EXCEPT !.path = p, !.handler = h] :
     p \in {"exempt", "route"}, h \in {"answers", "raises"}}
  \cup {[Plain EXCEPT !.body = b] : b \in {"nested", "unreadable", "oversize"}}
  \cup {[Plain EXCEPT !.threat = "sqli", !.where = w, !.body = b] :
          w \in {"head", "body"}, b \in {"whole", "nested", "unreadable", "oversize"}}
  \cup {[Plain EXCEPT !.path = "exempt", !.threat = "sqli"]}

\* Requests that differ in who they come from.
Sources ==
  {[Plain EXCEPT !.forwarded = f, !.key = k, !.threat = t] :
     f \in {client, local, None}, k \in {key, None}, t \in {"none", "xss"}}

AnyKind == Contents \cup Sources
SymmetricRequests == Permutations(Requests)
=============================================================================
