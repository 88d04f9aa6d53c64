\* Two writers, as when two instances hold the document, and one load; no
\* symmetry, because of liveness.
SPECIFICATION FairSpec
CONSTANTS
    Writers = {w1, w2}
    Loaders = {l1}
    Batches = {b1, b2}
    MaxSeq = 3
INVARIANTS
    StoreInv
    AckedReadableUnlessOvertaken
    LoadCompleteUnlessRaced
PROPERTIES
    SnapshotGrows
    CallsReturn
