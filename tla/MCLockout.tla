----------------------------- MODULE MCLockout -----------------------------
(* Instances of Lockout for TLC. *)
EXTENDS Lockout, TLC

\* logins are interchangeable, and so are accounts
Symmetry == Permutations(Workers) \cup Permutations(Keys)
=============================================================================
