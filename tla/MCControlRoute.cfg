SPECIFICATION Spec
CONSTANTS
    r1 = r1
    r2 = r2
    a = a
    b = b
    s1 = s1
    s2 = s2
    None = None
    Calls <- MCCalls
    Clients <- MCClients
    Sockets <- MCSockets
    ClientOf <- MCClientOf
    KindsOf <- MCKindsOf
    LeaseTicks = 3
    CallTicks = 2
    LongTicks = 4
    KeepTicks = 1
    FreesLease = TRUE
INVARIANTS
    LeaseCoversCall
    OneClientActs
PROPERTIES
    EveryCallAnswered
    LeaseEnds
CHECK_DEADLOCK FALSE
