-------------------------- MODULE MCDeDuplicator --------------------------
(* DeDuplicator on a small instance. *)
EXTENDS DeDuplicator
=============================================================================
