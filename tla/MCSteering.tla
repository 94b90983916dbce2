---------------------------- MODULE MCSteering ----------------------------
(* Steering on a small instance. *)
EXTENDS Steering
=============================================================================
