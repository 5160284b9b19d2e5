\* What the Claw reads of its session while requests of replaced ones end late.
SPECIFICATION Spec
CONSTANTS
    Tenants = {t1}
    Sessions = {s1, s2}
    Conns = {h1, h2}
    Requests = {r1, r2}
    Keys = {k1}
    None = None
    MaxActive = 2
    MaxAttempts = 1
    MaxTickets = 0
INVARIANT ConnectedIsOnFile
