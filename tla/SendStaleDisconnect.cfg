SPECIFICATION Spec
CONSTANTS
    n1 = n1
    s1 = s1
    s2 = s2
    None = None
    Nodes = {n1}
    Sessions = {s1, s2}
    NodeOf <- OneNode
    OperatorStatuses = {}
    MaxSends = 1
    MaxFaults = 0
PROPERTIES
    StaleDisconnectSparesLive
