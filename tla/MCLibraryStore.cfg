CONSTANTS
    p1 = p1
    p2 = p2
    c1 = c1
    c2 = c2
    Ids = {p1, p2}
    Clients = {c1}
    Firsts <- AnyFirst
    MaxSaves = 3
    MaxFailures = 2
    MaxStops = 2
SPECIFICATION Spec
CHECK_DEADLOCK FALSE
INVARIANTS SavedIsSafe SaveIsAllOrNothing NothingDropped
