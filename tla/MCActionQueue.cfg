SPECIFICATION FairSpec
CONSTANTS
    t1 = t1
    t2 = t2
    t3 = t3
    c1 = c1
    c2 = c2
    d1 = d1
    None = None
    MaxGeneration = 4
    Tasks <- MCTasks
    Cancellers <- MCCancellers
    Resetters <- MCResetters
    Drainers <- MCDrainers
INVARIANTS
    OneTaskAtATime
PROPERTIES
    ServesSerially
    CancelReturnsDrained
    EveryCallSettles
    EveryCancelReturns
CHECK_DEADLOCK FALSE
