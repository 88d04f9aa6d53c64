\* Three sockets, so that two can share a load while a third comes later.
SPECIFICATION FairSpec
CONSTANTS
    Clients = {c1, c2, c3}
    Edits = {e1, e2}
    MaxRooms = 2
    MAX_QUEUED_FRAMES = 1
    StoreMayFail = TRUE
INVARIANTS
    OneRoom
    NoGhosts
    RoomHasClients
    AcceptedKept
PROPERTIES
    JoinsEnd
    RoomsAreReleased
CHECK_DEADLOCK FALSE
