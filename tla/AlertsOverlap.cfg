SPECIFICATION Spec
CONSTANTS
    low = low
    high = high
    ram = ram
    floor = floor
    again = again
    Missing = Missing
    c1 = c1
    c2 = c2
    Metrics = {"cpu"}
    Severities = {"warning", "critical"}
    Readings = {0, 2}
    CustomRules = {floor, again}
    BuiltinRules = {high}
    Rule <- TheRules
    Checks = {c1, c2}
    MaxCopies = 3
    MaxFaults = 1
SYMMETRY Twins
INVARIANTS
    DuplicatesAreBounded
    ToldAsItIs
PROPERTIES
    OnlyRacesDuplicate
    CommitSettles
