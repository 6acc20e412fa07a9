CONSTANTS
    Handlers = {h1, h2}
    Recovery = recovery
    NoThread = NoThread
    ScopeIds = {s1}
    Clients = {c1}
    Names = {n1}
    NoName = NoName
    Untouched = Untouched
    AmbiguousCommits = FALSE
    InitialLists = 1
    MaxLists = 2
    MaxEdits = 2
    MaxFaults = 1
SPECIFICATION Spec
INVARIANT
    StaleIsReported
