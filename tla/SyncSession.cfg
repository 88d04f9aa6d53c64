\* Two clients and two instances; a client may reconnect before the server has
\* seen its last socket go.
SPECIFICATION Spec
CONSTANTS
    Clients = {c1, c2}
    Instances = {i1, i2}
    e1 = e1
    e2 = e2
    Edits = {e1, e2}
    before <- InAnyOrder
    MaxSockets = 2
    MAX_QUEUED_FRAMES = 1
    MaxTroubles = 1
SYMMETRY Symmetry
INVARIANTS
    OneAttempt
    ClientIsHeard
    ClientIsToldInOrder
    ShownIsRecordedInOrder
CHECK_DEADLOCK FALSE
