SPECIFICATION Spec
CONSTANTS
    None = None
    Posts = {p1, p2}
    Procs = {c1, c2}
    Requests = {r1, r2}
    Cooldown = 1
    Window = 2
    Limit = 2
    MaxFaults = 1
INVARIANTS
    TypeOK
    RedisBudget
    FallbackBudget
    CooldownHolds
    OrphanNeedsFault
SYMMETRY Symmetric
