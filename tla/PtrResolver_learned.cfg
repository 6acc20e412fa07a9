CONSTANTS
    Clients = {c1}
    Names = {n1}
    NoName = NoName
    Workers = 1
    BatchSize = 1
    ChunkSize = 1
    MaxRows = 0
    MaxFlushes = 0
    MaxFaults = 1
SPECIFICATION RefreshingSpec
PROPERTY
    NamesReachThePolicy
