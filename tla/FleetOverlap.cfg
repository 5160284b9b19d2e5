\* Operations are called while an update awaits its canary.
SPECIFICATION Spec
CONSTANTS
    Tenants = {t1, t2}
    Canary = t1
    None = None
    MaxPort = 3
    Concurrent = TRUE
INVARIANT GoneStaysGone
