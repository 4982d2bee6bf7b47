------------------------------- MODULE MCLifespan -------------------------------
(***************************************************************************)
(* Lifespan on a small instance.                                           *)
(***************************************************************************)
EXTENDS Lifespan

CONSTANTS w1, w2
=============================================================================
