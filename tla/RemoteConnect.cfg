\* Either broker with one Claw, two connections and two requests in flight.
SPECIFICATION Spec
CONSTANTS
    Tenants = {t1}
    Sessions = {s1, s2}
    Conns = {h1, h2}
    Requests = {r1, r2}
    Keys = {k1}
    None = None
    MaxActive = 2
    MaxAttempts = 1
    MaxTickets = 1
SYMMETRY Symmetry
INVARIANTS
    OneSessionPerTenant
    ConnectionsHeld
    CommandsOfItsSession
    RedeemedOnce
PROPERTIES
    EndedStaysEnded
