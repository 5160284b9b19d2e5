SPECIFICATION Spec
CONSTANTS
    Inbound = {c1}
    Outbound = {b1}
    Old = {c1}
    Followed = {c1}
    Tools = {u1}
    None = None
    MaxImport = 1
    MaxCrashes = 1
INVARIANT OldCallNotNoticed
