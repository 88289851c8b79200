---------------------------- MODULE MCDownloads ----------------------------
(* Small instances of Downloads for TLC. *)
EXTENDS Downloads, TLC
=============================================================================
