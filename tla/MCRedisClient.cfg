SPECIFICATION Spec
CONSTANTS
    a = a
    b = b
    c = c
    None = None
    Cmds <- MCCmds
    Socks = {1, 2, 3}
    Hellos <- MCHellos
INVARIANTS
    RepliesMatch
    OneConnection
PROPERTIES
    EveryCallSettles
CHECK_DEADLOCK FALSE
