CONSTANTS
    MaxSubmitted = 4
    QueueLimit = 2
    BatchLimit = 2
    MaxAttempts = 3
    PruneEvery = 2
    PruneChunk = 1
    KeepChoices = {2}
    IdGaps = TRUE
    MaxFaults = 1
    MaxSettings = 0
SPECIFICATION Spec
PROPERTY
    RemovesOnlyExcess
CHECK_DEADLOCK FALSE
