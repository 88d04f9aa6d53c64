\* One trouble, one socket of a client at a time; no symmetry, because of liveness.
SPECIFICATION FairSpec
CONSTANTS
    Clients = {c1, c2}
    Instances = {i1, i2}
    e1 = e1
    e2 = e2
    Edits = {e1, e2}
    before <- InOrder
    MaxSockets = 1
    MAX_QUEUED_FRAMES = 1
    MaxTroubles = 1
PROPERTY EditsArrive
CHECK_DEADLOCK FALSE
