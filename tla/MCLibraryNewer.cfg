CONSTANTS
    p1 = p1
    p2 = p2
    c1 = c1
    c2 = c2
    Ids = {p1, p2}
    Clients = {c1}
    Firsts <- OnlyV3
    MaxSaves = 1
    MaxFailures = 0
    MaxStops = 0
SPECIFICATION Spec
CHECK_DEADLOCK FALSE
INVARIANTS NewerLeftUntouched
