SPECIFICATION FairSpec
CONSTANTS
    Inbound = {c1}
    Outbound = {b1}
    Old = {}
    Followed = {c1}
    Tools = {u1, u2}
    None = None
    MaxImport = 1
    MaxCrashes = 1
PROPERTY LinkIsKept
