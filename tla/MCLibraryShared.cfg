CONSTANTS
    p1 = p1
    p2 = p2
    c1 = c1
    c2 = c2
    Ids = {p1, p2}
    Clients = {c1, c2}
    Firsts <- OnlyV2
    MaxSaves = 2
    MaxFailures = 0
    MaxStops = 0
SPECIFICATION Spec
CHECK_DEADLOCK FALSE
INVARIANTS NeverHalfWritten
