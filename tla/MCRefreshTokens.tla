-------------------------- MODULE MCRefreshTokens --------------------------
(* Instances of RefreshTokens for TLC. *)
EXTENDS RefreshTokens, TLC

\* every user belongs to the first tenant
OneTenant == [u \in Users |-> "t1"]

\* requests are interchangeable
WorkerSymmetry == Permutations(Workers)
=============================================================================
