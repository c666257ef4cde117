SPECIFICATION FairSpec
CONSTANTS
    t1 = t1
    t2 = t2
    t3 = t3
    Topics = FALSE
    Turn = {t1,t2,t3}
    SessionOf <- MCSessionOf
    ChatOf <- MCChatOf
    MaxTries = 2
    MaxTurns = 2
    MaxPieces = 2
    MaxEnds = 1
    MaxQueue = 3
    MaxFaults = 2
CHECK_DEADLOCK FALSE
INVARIANTS
    TypeOK
    InOrder
    StreamComplete
PROPERTIES
    QueueDrains
