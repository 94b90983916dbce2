------------------------------ MODULE MCProxy ------------------------------
(* Proxy on a small instance. *)
EXTENDS Proxy
=============================================================================
