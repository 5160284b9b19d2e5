SPECIFICATION FairSpec
CONSTANTS
    Users = {u1}
    Owners = {u1, None}
    Speakers = {u1}
    Ids = {d1, d2, d3}
    Slots = {1, 2}
    Actions = {}
    Installs = {}
    Tokens = {}
    None = None
    MaxPending = 2
    MaxAttempts = 1
    MaxSeals = 2
    MaxCrashes = 2
PROPERTIES RunsAtMostOnce RequestAnswered
