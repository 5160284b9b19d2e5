SPECIFICATION FairSpec
CONSTANTS
    Inbound = {c1, c2}
    Outbound = {b1}
    Old = {c2}
    Followed = {c1}
    Tools = {u1, u2}
    None = None
    MaxImport = 1
    MaxCrashes = 1
INVARIANTS
    OncePerCall
    ResolvedOnEvidence
PROPERTIES
    ResolvedIsFinal
    
