---------------------------- MODULE MCThreatQueries ----------------------------
(***************************************************************************)
(* ThreatQueries on a small instance.                                      *)
(***************************************************************************)
EXTENDS ThreatQueries, TLC

CONSTANTS e1, e2, e3, c1, c2

\* Every type, and two clients whose counts may be equal or not.
SomeKinds ==
  {[type |-> "sqli", ip |-> c1], [type |-> "xss", ip |-> c2],
   [type |-> "rate_limit", ip |-> c1]}

SymmetricEvents == Permutations(Events)
=============================================================================
