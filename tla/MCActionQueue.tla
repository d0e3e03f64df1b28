--------------------------- MODULE MCActionQueue ---------------------------
(* The queue with three tasks, a reset() and a cancelAndDrain(), one drain(). *)
EXTENDS ActionQueue

CONSTANTS t1, t2, t3, c1, c2, d1

MCTasks      == {t1, t2, t3}
MCCancellers == {c1, c2}
MCResetters  == {c1}
MCDrainers   == {d1}
=============================================================================
