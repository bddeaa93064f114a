SPECIFICATION Spec
CONSTANTS
    None = None
    Posts = {p1}
    Others = {}
    Instances = {i1, i2}
    Slots = {s1, s2}
    EnableArq = TRUE
    EnableLegacy = FALSE
    MaxJobs = 3
    BatchSize = 1
    MaxPasses = 3
    MaxQueued = 1
    Faults <- OverlapFaults
    MaxFaults = 1
    MaxAttempts = 2
INVARIANTS
    TypeOK
    CompletedHasSnapshot
    FreshJobsPaidFor
    DeadLetterEarned
SYMMETRY ProcessSymmetry
CHECK_DEADLOCK FALSE
