------------------------ MODULE MCAuthorizationCodes ------------------------
(* Instances of AuthorizationCodes for TLC. *)
EXTENDS AuthorizationCodes, TLC

\* requests, codes and clients are interchangeable
Symmetry == Permutations(Workers) \cup Permutations(Codes) \cup Permutations(Clients)
=============================================================================
