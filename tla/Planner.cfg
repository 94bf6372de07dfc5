SPECIFICATION Spec
CONSTANTS
    a = a
    b = b
    PlanIds = {a, b}
    Planners = {p1, p2}
    Clients = {c1}
    MaxDefs = 2
    Plans <- SensiblePlans
    WorkflowPatches = {"RUNNING", "PAUSED"}
    TaskPatches = {"RUNNING", "PAUSED", "COMPLETED"}
    MaxDue = 2
    Defects = {}
INVARIANTS
    TypeOK
    SavedGraphIsAcyclic
PROPERTIES
    EvaluationsLeaveWork
SYMMETRY InterchangeablePlanners
