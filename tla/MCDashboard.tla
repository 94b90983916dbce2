---------------------------- MODULE MCDashboard ----------------------------
(* Dashboard on a small instance. *)
EXTENDS Dashboard
=============================================================================
