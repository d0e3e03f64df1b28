SPECIFICATION Spec
CONSTANTS
    ra = ra
    rb = rb
    c1 = c1
    c2 = c2
    None = None
    Replicas <- MCReplicas
    Conns <- MCConns
    Homes <- MCHomes
    MaxFaults = 1
PROPERTIES
    RevokedIsCut
    RoutedIsPresent
    ClosedFades
CHECK_DEADLOCK FALSE
