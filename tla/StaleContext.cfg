SPECIFICATION Spec
CONSTANTS
    ta = ta
    tb = tb
    tc = tc
    na = na
    nb = nb
    nc = nc
    wf1 = wf1
    wf2 = wf2
    Nobody = Nobody
    NoTask = NoTask
    NoJob = NoJob
    NoRow = NoRow
    NoCall = NoCall
    Workflows = {wf1}
    InitialWorkflows = {wf1}
    Tasks = {ta, tb, tc}
    InitialTasks = {ta, tb, tc}
    Names = {na, nb, nc}
    WorkflowOf <- TripleInOneWorkflow
    NameOf <- TripleNames
    Upstream <- Join
    Workers = {w1, w2}
    Requests = {r1, r2, r3}
    Calls <- JoinCalls
    MaxRetries = 1
    MaxFaults = 0
    MaxCrashes = 0
    MaxReaps = 0
    ExpireOnCommit = FALSE
    Defects = {}
INVARIANTS
    PayloadComplete
SYMMETRY Interchangeable
