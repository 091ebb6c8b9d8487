-------------------------- MODULE MCTenantSettings --------------------------
(* Instances of TenantSettings for TLC. *)
EXTENDS TenantSettings, TLC

\* saves are interchangeable, and so are sections
Symmetry == Permutations(Savers) \cup Permutations(Sections)
=============================================================================
