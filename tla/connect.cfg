SPECIFICATION Spec
CONSTANTS
    None = None
    g = g
    f = f
    d = d
    a = a
    b = b
    e = e
    Logins <- People
    Dev <- DevUser
    Requests = {r1, r2}
    Sessions = {k1}
    States = {s1}
    Procs = {c1, c2}
    Ttl = 1
    MaxFaults = 1
INVARIANTS
    TypeOK
    SpentStateUseless
    ExpiredStateUseless
    RefusalsBounded
SYMMETRY Symmetric
