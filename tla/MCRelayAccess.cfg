SPECIFICATION Spec
CONSTANTS
    d1 = d1
    d2 = d2
    c1 = c1
    ha = ha
    hb = hb
    ra = ra
    rb = rb
    q1 = q1
    None = None
    Devices <- MCDevices
    Codes <- MCCodes
    Claims <- MCClaims
    Replicas <- MCReplicas
    Requests <- MCRequests
    MaxToken = 1
    MaxFaults = 1
    Moves = 2
INVARIANTS
    FileIsHeeded
    IssuedOnce
    RunsOnce
PROPERTIES
    FileGoesForward
    EventuallySaved
    Answered
CHECK_DEADLOCK FALSE
