SPECIFICATION Spec
CONSTANTS
    n1 = n1
    n2 = n2
    s1 = s1
    s2 = s2
    r1 = r1
    r2 = r2
    q1 = q1
    q2 = q2
    MaxRequests = 2
    MaxFaults = 1
    None = None
    Nodes = {n1}
    Sessions = {s1, s2}
    Requests = {r1, r2, q1}
    NodeOf <- OneNode
    NodeFor <- SameNode
    KindOf <- OneOfEach
SYMMETRY Interchangeable
INVARIANTS
    TypeOK
    NoStuckCaller
    EndedRowAgrees
PROPERTIES
    OutputIsKept
CHECK_DEADLOCK FALSE
