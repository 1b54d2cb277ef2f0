CONSTANTS
    a = a
    b = b
    d = d
    Keys <- ThreeKeys
    Callers = {p1}
    HasCallback = TRUE
    Faulty = TRUE
    MaxDepth = 4
    MayDepend <- SomePairs
    MaxChanges = 1
SPECIFICATION FairSpec
CHECK_DEADLOCK FALSE
INVARIANTS TypeOK DeleteIsComplete
PROPERTIES DeleteEnds ImplementsStore
