------------------------------ MODULE MCTunnel ------------------------------
(* Tunnel on a small instance. *)
EXTENDS Tunnel
=============================================================================
