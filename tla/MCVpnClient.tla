----------------------------- MODULE MCVpnClient -----------------------------
(* VpnClient on a small instance. *)
EXTENDS VpnClient
=============================================================================
