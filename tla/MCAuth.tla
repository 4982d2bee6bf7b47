--------------------------------- MODULE MCAuth ---------------------------------
(***************************************************************************)
(* Auth on small instances.  Workers differ in nothing but their secret: a *)
(* restarted worker stands for another one as well.                        *)
(***************************************************************************)
EXTENDS Auth, TLC

CONSTANTS admin, developer, w1
=============================================================================
