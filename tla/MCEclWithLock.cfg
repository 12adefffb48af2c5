CONSTANTS
    Process = {p1, p2}
    r1 = r1
    n1 = n1
    Lock <- MCLock
    Recursive <- MCRecursive
    CV = {c1}
    Nil = Nil
    MaxCount = 3
    MaxNest = 3
    Points <- SafePoints
SPECIFICATION WithSpec
INVARIANTS  BodyOwnsLock AllReleased
SYMMETRY Symmetry
CHECK_DEADLOCK FALSE
