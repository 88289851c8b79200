--------------------------- MODULE MCJsonCollection ---------------------------
(* Small instances of JsonCollection for TLC. *)
EXTENDS JsonCollection
=============================================================================
