CONSTANTS
    p1 = p1
    p2 = p2
    Process = {p1, p2}
    Key = {s1, s2}
    Value = {v1, v2}
    OBJNULL = OBJNULL
    Cnil = Cnil
    Shared = Shared
    Word = 4
    Modes = {"calm", "overflow", "free"}
    InitialSize = 2
    MaxSize = 3
    Hash <- MCHash
    MaxDepth <- MCDepth
    MaxNest <- MCNest
    Setters <- MCSetters
SPECIFICATION CellsSpec
INVARIANTS TableOK 
SYMMETRY MCSym
VIEW MCView
