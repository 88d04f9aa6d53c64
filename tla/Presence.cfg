SPECIFICATION Spec
CONSTANTS
    Clients = {c1, c2}
    Instances = {i1, i2}
    MaxSockets = 2
    MaxEvents = 5
INVARIANTS
    OwnerAhead
    GhostsHaveReturned
    PresenceReturns
SYMMETRY Symmetry
CHECK_DEADLOCK FALSE
