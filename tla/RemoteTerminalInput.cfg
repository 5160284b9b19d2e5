\* One session's input, shell changes and shutdown, with requests in flight.
SPECIFICATION FairSpec
CONSTANTS
    Tenants = {t1}
    Sessions = {s1}
    Shells = {h1, h2}
    Requests = {r1, r2}
    Keys = {k1}
    None = None
    MaxActive = 1
    MaxAttempts = 1
    MaxRate = 1
    MaxSeq = 2
    MaxGen = 1
INVARIANTS
    ShellsAreHeld
    TypedOnceInOrder
    AckedWasTyped
    ChangingIsOwned
PROPERTIES
    EndedIsFinal
    RevokedGetsNothing
    
