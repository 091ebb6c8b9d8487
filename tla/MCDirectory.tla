--------------------------- MODULE MCDirectory ---------------------------
(* Instances of Directory for TLC. *)
EXTENDS Directory, TLC

\* requests are interchangeable
Symmetry == Permutations(Workers)
=============================================================================
