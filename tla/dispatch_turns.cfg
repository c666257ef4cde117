SPECIFICATION FairSpec
CONSTANTS
    s1 = s1
    s2 = s2
    u1 = u1
    u2 = u2
    u3 = u3
    a1 = a1
    a2 = a2
    a3 = a3
    b1 = b1
    p1 = p1
    c1 = c1
    e1 = e1
    n1 = n1
    d1 = d1
    k1 = k1
    NoMsg = NoMsg
    Msg = {u1, a1, a2, e1, k1}
    Session = {s1, s2}
    SessionOf <- Home
    Kind <- Ordinary
    NeedsSession = {}
    Coalesce = FALSE
    GateSize = 1
    PendingMax = 2
    RunNowAllowed = FALSE
INVARIANTS
    DeferredHasPublisher
    EndedTurnSettled
PROPERTIES
    EveryTaskEnds
    SubmitAnswered
CHECK_DEADLOCK FALSE
