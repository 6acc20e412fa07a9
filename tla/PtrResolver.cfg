CONSTANTS
    Clients = {c1, c2}
    Names = {n1, n2}
    c1 = c1
    n2 = n2
    NoName = NoName
    Workers = 1
    BatchSize = 1
    ChunkSize = 1
    MaxRows = 2
    MaxFlushes = 1
    MaxFaults = 1
SPECIFICATION MCSpec
INVARIANTS
    TypeOK
    AnswersPostdateFlush
    NamesArrive
PROPERTIES
    RowsGetTheirNames
    NobodyStaysPending
    ObservedIsTracked
