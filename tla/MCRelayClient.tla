--------------------------- MODULE MCRelayClient ---------------------------
(* Small instances of RelayClient for TLC. *)
EXTENDS RelayClient

CONSTANTS c1, c2
=============================================================================
