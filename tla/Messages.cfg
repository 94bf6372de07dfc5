SPECIFICATION FairSpec
CONSTANTS
    p1 = p1
    p2 = p2
    p3 = p3
    free = free
    other = other
    wf1 = wf1
    wf2 = wf2
    ta = ta
    k = k
    NoKey = NoKey
    NoTask = NoTask
    NoMessage = NoMessage
    Posts = {p1, p2, p3, free, other}
    Workflows = {wf1, wf2}
    Tasks = {ta}
    Keys = {k}
    WorkflowOf <- TaskRows
    On <- Urls
    KeyOf <- KeyColumn
    TaskOf <- TaskColumn
    Synced = {p1, p2, other}
    MaxFaults = 1
    Defects = {}
INVARIANTS
    TypeOK
    RetriesAgree
    SyncedOnce
PROPERTIES
    StoredIsRemembered
