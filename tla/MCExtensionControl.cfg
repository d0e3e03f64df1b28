SPECIFICATION Spec
CONSTANTS
    r1 = r1
    r2 = r2
    t1 = t1
    t2 = t2
    None = None
    Commands <- MCPair
    Tabs <- MCTabs
    KindsOf <- MCPairKinds
    Items = 2
    MaxObservations = 1
    MaxEvents = 1
INVARIANTS
    ObservationsAreCurrent
PROPERTIES
    QueueStaysInContext
SYMMETRY MCSymmetry
CHECK_DEADLOCK FALSE
