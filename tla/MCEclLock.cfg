CONSTANTS
    Process = {p1, p2, p3}
    r1 = r1
    n1 = n1
    Lock <- MCLock
    Recursive <- MCRecursive
    CV = {c1}
    Nil = Nil
    MaxCount = 2
SPECIFICATION LockSpec
INVARIANTS LockInv HolderOwnsMutex NoOrphanMutex
PROPERTY ImplementsAbstractLock
CHECK_DEADLOCK FALSE
