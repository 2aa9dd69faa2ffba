SPECIFICATION Spec
CONSTANTS
    w1 = w1
    w2 = w2
    Writers = {w1, w2}
    Ids = {1, 2, 3, 4}
    MaxClock = 1
    Limits = {0, 1, 3}
    MaxLimit = 2
INVARIANTS WalkOrdered WalkComplete
SYMMETRY WriterSymmetry
