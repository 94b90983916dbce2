--------------------------- MODULE MCLinkMonitor ---------------------------
(* LinkMonitor on a small instance. *)
EXTENDS LinkMonitor
=============================================================================
