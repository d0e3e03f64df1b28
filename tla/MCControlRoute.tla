--------------------------- MODULE MCControlRoute ---------------------------
(* Two clients with one call each, and two connections.  A tick is about   *)
(* 20 s: a lease lasts 3, a call 2 and a long call 4.                      *)
EXTENDS ControlRoute, TLC

CONSTANTS r1, r2, a, b, s1, s2

MCCalls    == {r1, r2}
MCClients  == {a, b}
MCSockets  == {s1, s2}
MCClientOf == r1 :> a @@ r2 :> b
MCKindsOf  == r1 :> {"long"} @@ r2 :> {"click", "read", "status"}
=============================================================================
