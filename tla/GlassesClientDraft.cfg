\* One account with two Claws, two requests of the user and two calls in flight.
SPECIFICATION Spec
CONSTANTS
    Users = {u1}
    Claws = {claw1, claw2}
    None = None
    Calls = {c1, c2}
    MaxRequests = 2
INVARIANT DraftKept
