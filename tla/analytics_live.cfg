SPECIFICATION FairSpec
CONSTANTS
    None = None
    Posts = {p1}
    Others = {p2}
    Instances = {i1}
    Slots = {s1}
    EnableArq = TRUE
    EnableLegacy = TRUE
    MaxJobs = 2
    BatchSize = 1
    MaxPasses = None
    MaxQueued = 1
    Faults <- FaultKinds
    MaxFaults = 1
    MaxAttempts = 1
PROPERTIES
    OpenJobEnds
