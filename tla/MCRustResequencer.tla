------------------------- MODULE MCRustResequencer -------------------------
(* RustResequencer on a small instance. *)
EXTENDS RustResequencer
=============================================================================
