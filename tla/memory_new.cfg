SPECIFICATION Spec
CONSTANTS
    MaxTurns = 2
    MaxNotes = 1
    MaxScans = 1
    MaxResets = 1
    MaxDeaths = 1
    MaxFaults = 1
    NoObject = NoObject
INVARIANTS
    FreshStart
CHECK_DEADLOCK FALSE
