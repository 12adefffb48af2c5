CONSTANTS
    Kinds = {"bds", "frs"}
    Base = 2
    Margin = 1
    Tag = {a}
    Junk = Junk
    MaxSize = 9
    MaxErrors = 4
    Limits <- MCLimits
SPECIFICATION StackSpec
INVARIANTS TopInArray JunkIsPending
PROPERTIES ExtendKeepsBindings
CHECK_DEADLOCK FALSE
