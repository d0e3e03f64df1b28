-------------------------- MODULE MCRelayPresence --------------------------
(* Two replicas; two connections, that reach the same replica or two       *)
(* replicas, in either order.                                              *)
EXTENDS RelayPresence, TLC

CONSTANTS ra, rb, c1, c2

MCReplicas == {ra, rb}
MCConns    == {c1, c2}
MCHomes    == c1 :> {ra} @@ c2 :> {ra, rb}
=============================================================================
