SPECIFICATION MCSpec
CONSTANTS
    Sizes = {"s1", "s2"}  FirstSize = "s1"  MaxEvents = 4
    FrontEnd = "x11"  MaxInputs = 6  MaxBatch = 3  MaxDrops = 1
INVARIANTS ShownIsCurrent FitFollows HeardAsDone
CHECK_DEADLOCK FALSE
