SPECIFICATION FairSpec
CONSTANTS
    j1 = j1
    j2 = j2
    NoJob = NoJob
    NoLine = NoLine
    m1 = m1
    Job = {j1, j2}
    OneTime = {j2}
    At <- DueAt
    Stored = {j1}
    Manual = {m1}
    Every = 2
    Timers = 3
    MaxSleep = 2
    MaxTime = 4
    MaxRequests = 3
    MaxFaults = 1
    MaxDeaths = 1
INVARIANTS
    TypeOK
    OneLiveTimer
    RemovedForGood
    AddedIsKept
PROPERTIES
    NoReplay
    DueJobRuns
