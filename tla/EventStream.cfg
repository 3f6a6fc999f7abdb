SPECIFICATION FairSpec
CONSTANTS
    n1 = n1
    n2 = n2
    s1 = s1
    s2 = s2
    s3 = s3
    c1 = c1
    None = None
    Nodes = {n1, n2}
    Sessions = {s1, s2, s3}
    NodeOf <- SessionNodes
    Clients = {c1}
    QueueSize = 3
INVARIANTS
    TypeOK
    NewsIsTrue
PROPERTIES
    Heard
    LeakIsFound
