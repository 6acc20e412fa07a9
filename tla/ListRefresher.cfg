CONSTANTS
    Lists = {l1}
    Editors = {e1}
    Urls = {u1}
    Formats = {plain, hosts}
    Docs = {d1, d2}
    u1 = u1
    d1 = d1
    d2 = d2
    plain = plain
    hosts = hosts
    Serves <- MCServes
    Parse <- MCParse
    Null = Null
    MaxEdits = 3
    MaxPublished = 1
    MaxFaults = 1
SPECIFICATION FairSpec
INVARIANTS
    TypeOK
    ValidatorsMatchContent
    ChangesAreLoaded
PROPERTIES
    RefreshesWhatIsConfigured
    EventuallyMirrored
