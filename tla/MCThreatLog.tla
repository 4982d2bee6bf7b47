------------------------------ MODULE MCThreatLog ------------------------------
(***************************************************************************)
(* ThreatLog on small instances.                                           *)
(***************************************************************************)
EXTENDS ThreatLog

CONSTANTS e1, e2, q1, q2

=============================================================================
