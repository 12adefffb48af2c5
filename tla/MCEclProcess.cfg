CONSTANTS
    Proc = {a, f}
    Imported = {f}
    Thread = {t1, t2}
    User = {u1, u2}
    Nil = Nil
    Calls = {"enable", "join", "interrupt", "quit"}
    Careful = {TRUE, FALSE}
SPECIFICATION ProcessSpec
INVARIANTS ProcessInv JoinLeavesNoLock ListedHasEnv ActiveIsSetUp WaitedForExit
SYMMETRY Symmetry
VIEW MCView
CHECK_DEADLOCK FALSE
