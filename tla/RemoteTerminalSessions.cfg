\* The life of sessions: two Claws, room for two terminals, no input.
SPECIFICATION Spec
CONSTANTS
    Tenants = {t1, t2}
    Sessions = {s1, s2}
    Shells = {h1, h2, h3}
    Requests = {r1, r2}
    Keys = {k1}
    None = None
    MaxActive = 2
    MaxAttempts = 1
    MaxRate = 1
    MaxSeq = 0
    MaxGen = 0
SYMMETRY Symmetry
INVARIANTS
    TypeOK
    OneTerminalPerTenant
    CapacityKept
    CodeRedeemedOnce
    
