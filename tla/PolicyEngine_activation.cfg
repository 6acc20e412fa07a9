CONSTANTS
    Handlers = {h1, h2}
    Recovery = recovery
    NoThread = NoThread
    ScopeIds = {s1}
    Clients = {c1}
    Names = {n1}
    NoName = NoName
    Untouched = Untouched
    AmbiguousCommits = TRUE
    InitialLists = 2
    MaxLists = 3
    MaxEdits = 3
    MaxFaults = 1
SYMMETRY Symmetry
SPECIFICATION Spec
INVARIANTS
    Inductive
    MasksMatchOrder
    StaleIsAccounted
    NamesTracked
    FreshIsExact
PROPERTY
    ImplementsActivation
