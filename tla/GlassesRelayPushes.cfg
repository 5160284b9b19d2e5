SPECIFICATION FairSpec
CONSTANTS
    Users = {u1, u2}
    Owners = {u1, u2}
    Speakers = {u1}
    Ids = {d1}
    Slots = {1}
    Actions = {a1}
    Installs = {i1}
    Tokens = {p1, p2}
    None = None
    MaxPending = 1
    MaxAttempts = 1
    MaxSeals = 2
    MaxCrashes = 1
PROPERTIES PushedToItsOwner OutboxDrains
