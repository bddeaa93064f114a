SPECIFICATION FairSpec
CONSTANTS
    None = None
    p1 = p1
    p2 = p2
    Posts = {p1}
    Pred <- NoThread
    Instances = {i1}
    Slots = {s1}
    EnableReconciler = TRUE
    EnableLegacy = FALSE
    MaxJobs = 1
    Faults <- NoFaults
    MaxFaults = 0
    MaxAttempts = 2
PROPERTIES
    FailedJobRetried
