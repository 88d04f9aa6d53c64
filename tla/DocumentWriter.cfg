SPECIFICATION FairSpec
CONSTANTS
    Edits = {e1, e2, e3}
    Sizes = {1, 2}
    DebounceMs = 2
    MaxBatchBytes = 3
    CompactAfter = 2
    InitialRows = {0, 3}
INVARIANTS
    TypeOK
    NothingForgotten
    PendingWillFlush
    DebounceBound
    WrittenOnce
PROPERTIES
    EditsSettle
    CloseReturns
CHECK_DEADLOCK FALSE
