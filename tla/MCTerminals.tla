----------------------------- MODULE MCTerminals -----------------------------
(* Small instances of Terminals for TLC. *)
EXTENDS Terminals
=============================================================================
