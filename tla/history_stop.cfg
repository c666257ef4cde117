SPECIFICATION Spec
CONSTANTS
    t1 = t1
    t2 = t2
    t3 = t3
    c1 = c1
    f1 = f1
    f2 = f2
    NoTurn = NoTurn
    Ask = {t1}
    Cont = {}
    Follow = {}
    DiskFaults = FALSE
    MaxResponses = 2
PROPERTIES
    StopKeepsWork
CHECK_DEADLOCK FALSE
