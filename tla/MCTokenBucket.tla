----------------------------- MODULE MCTokenBucket -----------------------------
(***************************************************************************)
(* TokenBucket on small instances.                                         *)
(***************************************************************************)
EXTENDS TokenBucket, TLC

CONSTANTS c1, c2, c3, k1

\* Every call on one client's bucket.
OneClient == [c \in Calls |-> k1]

SymmetricCalls == Permutations(Calls)
=============================================================================
