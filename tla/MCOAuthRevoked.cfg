SPECIFICATION Spec
CONSTANTS
    h1 = h1
    h2 = h2
    c1 = c1
    a1 = a1
    g1 = g1
    g2 = g2
    k1 = k1
    t1 = t1
    t2 = t2
    t3 = t3
    None = None
    Handlers <- MCHandlers
    Clients <- MCClients
    Approvals <- MCApprovals
    Grants <- MCGrants
    Codes <- MCCodes
    Tokens <- MCTokens
    MaxVersion = 1
INVARIANTS
    GrantCutsTokens
CONSTRAINT ApprovalFirst
SYMMETRY Alike
CHECK_DEADLOCK FALSE
