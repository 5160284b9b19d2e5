\* Each part by itself; some of them stop when they are done.
SPECIFICATION ServicesSpec
CONSTANTS
    None = None
    Tenants = {t1, t2}
    Canary = t1
    MaxPort = 3
    Concurrent = FALSE
    Kinds = {"options", "paths", "text", "block", "body"}
    Options = {"a", "b"}
    Versions = {1, 2, 3}
    MaxCuts = 1
    UncheckedEdits = FALSE
    MayBeKilled = TRUE
    GatewayKeys = {k1, k2}
    NoKey = NoKey
    Idle = Idle
    MintEarly = FALSE
    Guests = {g1, g2}
    Nodes = {n1, n2}
    Nowhere = Nowhere
    Users = {u1, u2}
    Claws = {claw1, claw2}
    Calls = {c1, c2}
    MaxRequests = 1
    Streams = {w1, w2}
    MaxSockets = 1
    Tabs = {b1, b2}
    NoTab = NoTab
    Remembered = 2
    MaxQueued = 1
    MaxBytes = 2
    BatchBytes = 2
    MaxPending = 2
    InputBytes = 2
    MaxInputs = 3
    MaxOutputs = 3
INVARIANTS TypesOK   KeysKept 
    PoolCarriesAll  FlagsOwned AccessEnds  StreamsWhole
PROPERTIES SyncConverges   Sticky
CHECK_DEADLOCK FALSE
