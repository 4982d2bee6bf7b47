------------------------------ MODULE MCShieldFlow ------------------------------
(***************************************************************************)
(* ShieldFlow on a small instance.  Every request shows a threat: the      *)
(* limiter may refuse it, the WAF block it, or, switched off, let it       *)
(* through.  MCGateway has requests of all kinds.                          *)
(***************************************************************************)
EXTENDS ShieldFlow

CONSTANTS r1, r2, client

Threat ==
  [path |-> "route", peer |-> client, forwarded |-> None, key |-> None,
   threat |-> "sqli", where |-> "head", body |-> "whole", handler |-> "answers"]

SomeKinds == {Threat}
=============================================================================
