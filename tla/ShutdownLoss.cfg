SPECIFICATION ShutdownSpec
CONSTANTS
    Clients = {c1}
    Edits = {e1, e2}
    MaxRooms = 1
    MAX_QUEUED_FRAMES = 1
    StoreMayFail = TRUE
    StoreFails = FALSE
    BusMayFail = FALSE
INVARIANT RestartLosesNothing
CHECK_DEADLOCK FALSE
