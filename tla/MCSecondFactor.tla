-------------------------- MODULE MCSecondFactor --------------------------
(* Instances of SecondFactor for TLC. *)
EXTENDS SecondFactor, TLC

\* requests are interchangeable
Symmetry == Permutations(Workers)
=============================================================================
