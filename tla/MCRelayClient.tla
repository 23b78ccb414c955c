--------------------------- MODULE MCRelayClient ---------------------------
(* Instances of RelayClient: two relays in configured order, or one. *)
EXTENDS RelayClient
CONSTANTS r1, r2
TwoUrls == <<r1, r2>>
OneUrl == <<r1>>
=============================================================================
