CONSTANTS
    Proc = {a, f}
    Imported = {f}
    Thread = {t1, t2}
    User = {u1}
    Nil = Nil
    Calls = {"enable", "join"}
    Careful = {TRUE}
SPECIFICATION FairProcessSpec
PROPERTIES JoinReturns EnvsFreed
CHECK_DEADLOCK FALSE
