--------------------------- MODULE MCBridgeCustody ---------------------------
(* Two-block epochs over a chain long enough for three validator sets. *)
EXTENDS BridgeCustody

CONSTANTS strong, weak
=============================================================================
