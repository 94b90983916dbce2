--------------------------- MODULE MCResequencer ---------------------------
(* Resequencer on a small instance. *)
EXTENDS Resequencer
=============================================================================
