------------------------- MODULE MCExtensionControl -------------------------
(* Two tabs, with two commands and an event.                                  *)
EXTENDS ExtensionControl, TLC

CONSTANTS r1, r2, t1, t2

MCPair     == {r1, r2}
MCTabs     == {t1, t2}
MCPairKinds   == r1 :> {"capture", "switch", "follow", "close"} @@ r2 :> {"act", "queue"}

\* The tabs are alike.
MCSymmetry == Permutations(MCTabs)
=============================================================================
