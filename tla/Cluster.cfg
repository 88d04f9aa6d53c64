\* Rooms close, instances die and start again, the broker goes and comes back.
SPECIFICATION Spec
CONSTANTS
    Instances = {i1, i2}
    e1 = e1
    e2 = e2
    Edits = {e1, e2}
    dep <- Chain
    MaxOpens = 3
    MaxFrames = 2
SYMMETRY Symmetry
INVARIANTS
    ConvergedUnlessOrphaned
    ReadableUnlessCrashed
CHECK_DEADLOCK FALSE
