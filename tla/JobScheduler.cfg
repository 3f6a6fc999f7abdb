SPECIFICATION FairSpec
CONSTANTS
    j1 = j1
    j2 = j2
    NoJob = NoJob
    Jobs = {j1, j2}
    Edited = {j1}
    MaxFailures = 1
INVARIANTS
    JobsType
    OnceMoreAtMost
PROPERTIES
    RepeatedOnlyAfterRollback
    FireIsServed
