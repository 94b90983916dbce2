---------------------------- MODULE MCDownloader ----------------------------
(* Downloader on a small instance. *)
EXTENDS Downloader
=============================================================================
