CONSTANTS
    Kinds = {"frs"}
    Base = 2
    Margin = 1
    Tag = {a}
    Junk = Junk
    MaxSize = 9
    MaxErrors = 3
    Limits <- MCFramesLimits
SPECIFICATION StackSpec
PROPERTY ExtendKeepsFrames
CHECK_DEADLOCK FALSE
