-------------------------- MODULE MCCredentials --------------------------
(* Instances of Credentials for TLC. *)
EXTENDS Credentials, TLC

\* requests, links and the passwords other than the first are interchangeable
Symmetry == Permutations(Workers) \cup Permutations(Links) \cup Permutations(Passwords \ {Initial})
=============================================================================
