SPECIFICATION Spec
CONSTANTS
    ta = ta
    tb = tb
    tc = tc
    na = na
    nb = nb
    nc = nc
    wf1 = wf1
    wf2 = wf2
    Nobody = Nobody
    NoTask = NoTask
    NoJob = NoJob
    NoRow = NoRow
    NoCall = NoCall
    Workflows = {wf1}
    InitialWorkflows = {wf1}
    Tasks = {ta}
    InitialTasks = {ta}
    Names = {na}
    WorkflowOf <- SingleInOneWorkflow
    NameOf <- SingleNames
    Upstream <- Alone
    Workers = {w1}
    Requests = {r1, r2, r3}
    Calls <- ZombieCalls
    MaxRetries = 1
    MaxFaults = 0
    MaxCrashes = 0
    MaxReaps = 1
    ExpireOnCommit = TRUE
    Defects = {}
PROPERTIES
    TerminalTaskIsFinal
