--------------------------- MODULE MCStreamBridge ---------------------------
(* Small instances of StreamBridge for TLC. *)
EXTENDS StreamBridge, TLC
=============================================================================
