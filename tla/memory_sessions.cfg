SPECIFICATION FairSpec
CONSTANTS
    MaxTurns = 2
    MaxNotes = 1
    MaxScans = 1
    MaxResets = 2
    MaxDeaths = 1
    MaxFaults = 1
    NoObject = NoObject
INVARIANTS
    TypeOK
    SkipsNothing
    TurnRowsKept
PROPERTIES
    CompactionEnds
    ClearedIsArchived
CHECK_DEADLOCK FALSE
