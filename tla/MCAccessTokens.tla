-------------------------- MODULE MCAccessTokens --------------------------
(* Instances of AccessTokens for TLC.  The main run checks liveness, where *)
(* symmetry is unsound, so none is declared.                               *)
EXTENDS AccessTokens
===========================================================================
