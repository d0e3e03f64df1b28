------------------------- MODULE MCChromeController -------------------------
(* Two or three operations, the recovery's reset() and one stop(). *)
EXTENDS ChromeController

CONSTANTS t1, t2, t3, recover, stop

MCTasks      == {t1, t2, t3}
MCCancellers == {recover, stop}
MCResetters  == {recover}
MCSwitching  == {t1}
MCObserving  == {t2}
=============================================================================
