\* Two writers: a row can commit behind the cutoff of a running compaction.
SPECIFICATION Spec
CONSTANTS
    Writers = {w1, w2}
    Loaders = {}
    Batches = {b1, b2}
    MaxSeq = 3
INVARIANT AckedReadable
