SPECIFICATION FairSpec
CONSTANTS
    g1 = g1
    g2 = g2
    NoFile = NoFile
    Trigger = {g1, g2}
    MaxDeliveries = 3
    TriggerOf <- Owners
    MaxAttempts = 3
    BatchSize = 2
    DiskFaults = TRUE
INVARIANTS
    TypeOK
    DeliveryKept
    RunsBounded
PROPERTIES
    KeepsPromise
    QueueEmpties
