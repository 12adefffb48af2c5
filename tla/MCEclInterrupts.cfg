CONSTANTS
    Sender = {s1, s2}
    Rec = {q1, q2}
    Nil = Nil
    Modes <- MCModes
SPECIFICATION FairInterruptsSpec
INVARIANTS  RecordsConserved HandledOnce SectionsRespected
PROPERTIES EventuallyRun TrapSprings
CHECK_DEADLOCK FALSE
