SPECIFICATION FairSpec
CONSTANTS
    low = low
    high = high
    ram = ram
    floor = floor
    again = again
    Missing = Missing
    c1 = c1
    c2 = c2
    Metrics = {"cpu", "ram"}
    Severities = {"warning", "critical"}
    Readings = {0, 1, 2}
    CustomRules = {floor, again}
    BuiltinRules = {low, high, ram}
    Rule <- TheRules
    Checks = {c1}
    MaxCopies = 2
    MaxFaults = 1
INVARIANTS
    TypeOK
PROPERTIES
    RecoveredIsResolved
