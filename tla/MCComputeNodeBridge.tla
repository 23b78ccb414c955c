------------------------ MODULE MCComputeNodeBridge ------------------------
(* Two relays, two requests, one recovery attempt; the calls of one client may fail. *)
EXTENDS ComputeNodeBridge
CONSTANTS r1, r2
MCRelays == <<r1, r2>>
=============================================================================
