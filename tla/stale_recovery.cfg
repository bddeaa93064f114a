SPECIFICATION Spec
CONSTANTS
    None = None
    p1 = p1
    p2 = p2
    Posts = {p1}
    Pred <- NoThread
    Instances = {i1}
    Slots = {s1, s2}
    EnableReconciler = TRUE
    EnableLegacy = FALSE
    MaxJobs = 1
    Faults <- SlowOnly
    MaxFaults = 1
    MaxAttempts = 2
INVARIANTS
    AtMostOneTweet
