SPECIFICATION Spec
CONSTANTS
    r1 = r1
    r2 = r2
    r3 = r3
    a = a
    b = b
    None = None
    Requests = {r1, r2, r3}
    Names = {a, b}
    FirstPort = 1
    EndPort = 3
    MaxFaults = 1
SYMMETRY Alike
INVARIANTS
    TypeOK
PROPERTIES
    AnswersAreTrue
    KeepsDirectory
CHECK_DEADLOCK FALSE
