----------------------------- MODULE MCAdminTui -----------------------------
(* Instances of AdminTui for TLC. *)
EXTENDS AdminTui, TLC
=============================================================================
