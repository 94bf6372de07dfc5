SPECIFICATION Spec
CONSTANTS
    ta = ta
    tb = tb
    tc = tc
    na = na
    nb = nb
    nc = nc
    wf1 = wf1
    wf2 = wf2
    Nobody = Nobody
    NoTask = NoTask
    NoJob = NoJob
    NoRow = NoRow
    NoCall = NoCall
    Workflows = {wf1, wf2}
    InitialWorkflows = {wf1}
    Tasks = {ta, tb, tc}
    InitialTasks = {ta}
    Names = {na, nb, nc}
    WorkflowOf <- TripleInOneWorkflow
    NameOf <- TripleNames
    Upstream <- Edited
    Workers = {w1}
    Requests = {r1, r2, r3, r4}
    Calls <- EditCalls
    MaxRetries = 1
    MaxFaults = 0
    MaxCrashes = 0
    MaxReaps = 0
    ExpireOnCommit = TRUE
    Defects = {}
INVARIANTS
    DispatchAfterUpstream
    OneDispatchPerAttempt
    DispatchOnlyWhileActive
    NoOrphans
    SomebodyMoves
PROPERTIES
    CreatedWithDependencies
    CompletionIsEarned
    ExecutesDag
SYMMETRY Interchangeable
