SPECIFICATION FairSpec
CONSTANTS
    c1 = c1
    c2 = c2
    Call = {c1, c2}
    Persistent = {c2}
    Fallbacks = 2
    Attempts = 2
    Identical = 2
    Threshold = 2
    MaxFailures = 2
INVARIANTS
    TypeOK
    OneVoice
PROPERTIES
    PersistentStops
