SPECIFICATION Spec
CONSTANTS
    a = a
    b = b
    PlanIds = {a, b}
    Planners = {p1}
    Clients = {}
    MaxDefs = 3
    Plans <- AnyPlans
    WorkflowPatches = {}
    TaskPatches = {}
    MaxDue = 1
    Defects = {}
INVARIANTS
    SavedGraphIsAcyclic
