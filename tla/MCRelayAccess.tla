--------------------------- MODULE MCRelayAccess ---------------------------
(* One code, two devices, two claims at a time, one rotation; two replicas  *)
(* and one request, whose device moves; one failure or crash.              *)
EXTENDS RelayRequests

CONSTANTS d1, d2, c1, ha, hb, ra, rb, q1

MCDevices  == {d1, d2}
MCCodes    == {c1}
MCClaims   == {ha, hb}
MCReplicas == {ra, rb}
MCRequests == {q1}
=============================================================================
