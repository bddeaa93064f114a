SPECIFICATION Spec
CONSTANTS
    None = None
    p1 = p1
    p2 = p2
    Posts = {p1, p2}
    Pred <- Thread
    Instances = {i1, i2}
    Slots = {s1, s2}
    EnableReconciler = TRUE
    EnableLegacy = TRUE
    MaxJobs = 2
    Faults <- MildFaults
    MaxFaults = 1
    MaxAttempts = 2
INVARIANTS
    TypeOK
    AtMostOneTweet
    SingleFlight
    StatusTellsTweet
    CompletedMeansPublished
    ThreadOrder
    LockExclusion
    LegacyExclusive
PROPERTIES
    ImplementsLifecycle
SYMMETRY ProcessSymmetry
