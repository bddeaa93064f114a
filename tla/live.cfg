SPECIFICATION FairSpec
CONSTANTS
    None = None
    p1 = p1
    p2 = p2
    Posts = {p1}
    Pred <- NoThread
    Instances = {i1, i2}
    Slots = {s1, s2}
    EnableReconciler = TRUE
    EnableLegacy = TRUE
    MaxJobs = 2
    Faults <- AllButUsers
    MaxFaults = 1
    MaxAttempts = 2
PROPERTIES
    DuePostSettles
    LockReturns
