SPECIFICATION Spec
CONSTANTS
    ta = ta
    tb = tb
    tc = tc
    na = na
    nb = nb
    nc = nc
    wf1 = wf1
    wf2 = wf2
    Nobody = Nobody
    NoTask = NoTask
    NoJob = NoJob
    NoRow = NoRow
    NoCall = NoCall
    Workflows = {wf1, wf2}
    InitialWorkflows = {wf1, wf2}
    Tasks = {ta, tb, tc}
    InitialTasks = {ta, tb}
    Names = {na, nb, nc}
    WorkflowOf <- TripleAcross
    NameOf <- TripleNames
    Upstream <- Crossed
    Workers = {w1, w2}
    Requests = {r1, r2, r3, r4}
    Calls <- CircleCalls
    MaxRetries = 0
    MaxFaults = 0
    MaxCrashes = 0
    MaxReaps = 0
    ExpireOnCommit = TRUE
    Defects = {}
INVARIANTS
    SomebodyMoves
    NobodyStuck
PROPERTIES
    DeadlocksLast
SYMMETRY Interchangeable
