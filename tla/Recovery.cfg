CONSTANTS
    h1 = h1
    h2 = h2
    recovery = recovery
    noThread = noThread
    s1 = s1
    c1 = c1
    n1 = n1
    noName = noName
    untouched = untouched
    Hosts = {"a", "b"}
    Requests <- MCRequests
    MaxRequests = 2
    MaxFaults = 1
SPECIFICATION RecoverySpec
INVARIANTS
    ConfigurationsAgree
PROPERTIES
    EventuallyActive
    ReconcilesCurrent
    CaddyIsServed
CHECK_DEADLOCK FALSE
