\* The smallest interval LinkAssumption allows; frames below the minimum cost,
\* within the burst and above it.
SPECIFICATION Spec
CONSTANTS
    INTERVAL = 4
    HANDSHAKE = 2
    SOFT = 0
    HARD = 1
    RATE = 1
    MIN_FRAME_COST = 1
    Sizes = {0, 2, 3}
    LATENCY = 0
    MaxTime = 3
INVARIANTS
    TakeIsExact
    ReaderIsKept
    NobodyLingers
    NothingSkipped
CHECK_DEADLOCK FALSE
