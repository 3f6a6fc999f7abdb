SPECIFICATION FairSpec
CONSTANTS
    n1 = n1
    s1 = s1
    s2 = s2
    None = None
    Nodes = {n1}
    Sessions = {s1, s2}
    NodeOf <- OneNode
    OperatorStatuses = {"disabled", "online"}
    MaxSends = 1
    MaxFaults = 1
INVARIANTS
    EntryIsServedOrDead
    ShownWasSeen
PROPERTIES
    ReplacedExitIsSilent
    KeepsSessions
    AbsentIsNotOnline
