SPECIFICATION ControllerSpec
CONSTANTS
    t1 = t1
    t2 = t2
    t3 = t3
    recover = recover
    stop = stop
    None = None
    MaxGeneration = 3
    Tasks <- MCTasks
    Cancellers <- MCCancellers
    Resetters <- MCResetters
    Drainers = {}
    Recoverer = recover
    Switching <- MCSwitching
    Observing <- MCObserving
INVARIANT OneTaskAtATime
CHECK_DEADLOCK FALSE
