CONSTANTS
    Lists = {l1}
    Editors = {e1, e2}
    Urls = {u1}
    Formats = {plain, hosts}
    Docs = {d1, d2}
    u1 = u1
    d1 = d1
    d2 = d2
    plain = plain
    hosts = hosts
    Serves <- MCServes
    Parse <- MCParse
    Null = Null
    MaxEdits = 2
    MaxPublished = 1
    MaxFaults = 1
SPECIFICATION Spec
PROPERTY
    ChangeClearsValidators
