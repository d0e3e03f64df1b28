SPECIFICATION FairSpec
CONSTANTS
    t1 = t1
    t2 = t2
    None = None
    TextLength = 1
    MaxSessions = 6
    Tabs <- MCTabs
    Programs <- MCPrograms
INVARIANTS
    CalmMouseGoesWhereLooked
    SessionIsReal
    ReleasedBeforeLeaving
PROPERTIES
    EveryTaskEnds
CHECK_DEADLOCK FALSE
