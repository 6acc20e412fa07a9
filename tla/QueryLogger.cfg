CONSTANTS
    MaxSubmitted = 3
    QueueLimit = 2
    BatchLimit = 2
    MaxAttempts = 2
    PruneEvery = 2
    PruneChunk = 1
    KeepChoices = {1, 2}
    IdGaps = FALSE
    MaxFaults = 2
    MaxSettings = 1
SPECIFICATION FairSpec
INVARIANTS
    TypeOK
    LoggedOnce
    Conservation
PROPERTIES
    RemovesOnlyExcess
    EventuallyDrained
    EventuallyWithinLimit
CHECK_DEADLOCK FALSE
