SPECIFICATION Spec
CONSTANTS
    t1 = t1
    t2 = t2
    t3 = t3
    c1 = c1
    f1 = f1
    f2 = f2
    NoTurn = NoTurn
    Ask = {t1, t2}
    Cont = {c1}
    Follow = {f1}
    DiskFaults = TRUE
    MaxResponses = 3
INVARIANTS
    TypeOK
    CallsArePaired
    NoRowTwice
    CutTurnIsClosed
    NoFalseInterruption
PROPERTIES
    HistoryGrows
    CheckpointSurvives
CHECK_DEADLOCK FALSE
