\* One writer, as on a single instance: nothing acknowledged is ever lost.
SPECIFICATION Spec
CONSTANTS
    Writers = {w1}
    Loaders = {l1}
    Batches = {b1, b2, b3}
    MaxSeq = 4
INVARIANT AckedReadable
PROPERTY StoreSpec
