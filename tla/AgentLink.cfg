SPECIFICATION FairSpec
CONSTANTS
    n1 = n1
    s1 = s1
    s2 = s2
    None = None
    Nodes = {n1}
    Sessions = {s1, s2}
    NodeOf <- OneNode
    InitialDelay = 1
    MaxDelay = 3
    BackoffFactor = 2
INVARIANTS
    TypeOK
    ServedIsReachable
PROPERTIES
    BackoffHolds
    Returns
