CONSTANTS
    ManualLists = {m1}
    UrlLists = {u1}
    StoreDomains = {x, y}
    StoreHandlers = {h1, h2}
    MaxStoreOps = 4
    PoolThreads = {t1, t2, t3}
    PoolConnections = {c1, c2, c3}
    PoolSize = 2
    MaxUses = 3
    MaxTrouble = 2
    Minutes = {1, 2}
    MaxRows = 3
    MaxTransactions = 3
    OldLists = {l1}
    OldDomains = {x, y}
    OldScopes = {s1, s2}
    OldClients = {c1, c2}
    MaxCrashes = 2
    MaxEdits = 2
    RowIds = {"r1", "r2"}
    Twins = {"r1", "r2"}
    Reordered = {"r1", "r2"}
    MaxRuns = 2
    MaxSourceChanges = 2
    MaxRunFaults = 1
    Handlers = {h1, h2}
    Requesters = {p1}
    Secrets = {s1, s2}
    Legacy = Legacy
    CacheLimit = 1
    MaxId = 3
    MaxOps = 2
    MaxFaults = 1
    Visitors = {p1, p2, p3}
    MaxTokens = 2
    MaxCredentials = 2
    MaxSessionFaults = 1
    Plain = {g1}
    Posts = {p1, p2}
    Slots = 2
    Workers = 1
    MaxAdmissionFaults = 1
    Peers = {p1, p2, p3}
    Window = 2
    PeerLimit = 2
    GlobalLimit = 3
    Capacity = 2
    MaxClock = 4
    Resolvers = {h1, h2}
    Addresses = {x, y, z}
    PositiveTtl = 2
    NegativeTtl = 1
    Limit = 2
    ExpiredBatch = 1
    OldestBatch = 1
    MaxRdnsTime = 2
    MaxClears = 1
    Viewers = {p1, p2}
    Keys = {x, y, z}
    Ttl = 2
    CacheSize = 2
    MaxViewTime = 3
SPECIFICATION ConsoleSpec
INVARIANTS
    ListsAreKept
    PoolIsSound
    StatisticsAreKept
    UpgradesKeepData
    MigrationsAreWhole
    AccessIsCurrent
    SessionsAreCurrent
    AdmissionIsBounded
    CachesAreSound
CHECK_DEADLOCK FALSE
