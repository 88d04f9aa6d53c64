\* Two updates, so that one can be pending behind a write when the pool ends.
SPECIFICATION FairShutdown
CONSTANTS
    Clients = {c1, c2}
    Edits = {e1, e2}
    MaxRooms = 2
    MAX_QUEUED_FRAMES = 1
    StoreMayFail = TRUE
    StoreFails = TRUE
    BusMayFail = TRUE
INVARIANTS
    CloseAllFindsNothing
    ExitLosesOnlyLate
PROPERTIES
    NothingAcceptedLate
    ShutdownEnds
CHECK_DEADLOCK FALSE
