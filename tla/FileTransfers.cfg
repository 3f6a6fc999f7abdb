SPECIFICATION FairSpec
CONSTANTS
    n1 = n1
    s1 = s1
    s2 = s2
    t1 = t1
    t2 = t2
    None = None
    Nodes = {n1}
    Sessions = {s1, s2}
    Transfers = {t1, t2}
    NodeOf <- OneNode
    NodeFor <- SameNode
    DirectionOf <- PullAndPush
    PoolSize = 1
    MaxFaults = 1
INVARIANTS
    TypeOK
    NoStuckTransfer
    RowTellsOutcome
PROPERTIES
    ExitSparesOthers
    TransfersEnd
    KeepsContract
CHECK_DEADLOCK FALSE
