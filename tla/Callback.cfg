SPECIFICATION FairSpec
CONSTANTS
    ta = ta
    tb = tb
    tc = tc
    na = na
    nb = nb
    nc = nc
    wf1 = wf1
    wf2 = wf2
    Nobody = Nobody
    NoTask = NoTask
    NoJob = NoJob
    NoRow = NoRow
    NoCall = NoCall
    Workflows = {wf1}
    InitialWorkflows = {wf1}
    Tasks = {ta, tb}
    InitialTasks = {ta, tb}
    Names = {na, nb}
    WorkflowOf <- PairInOneWorkflow
    NameOf <- PairNames
    Upstream <- Pair
    Workers = {w1}
    Requests = {r1, r2, r3}
    Calls <- CallbackCalls
    MaxRetries = 1
    MaxFaults = 0
    MaxCrashes = 0
    MaxReaps = 0
    ExpireOnCommit = TRUE
    Defects = {}
PROPERTIES
    ReadyIsDispatched
