SPECIFICATION Spec
CONSTANTS
    None = None
    p1 = p1
    p2 = p2
    Posts = {p1}
    Pred <- NoThread
    Instances = {i1}
    Slots = {s1}
    EnableReconciler = TRUE
    EnableLegacy = TRUE
    MaxJobs = 3
    Faults <- FaultKinds
    MaxFaults = 2
    MaxAttempts = 2
INVARIANTS
    DuplicatesPaidFor
PROPERTIES
    DeletedStaysOut
