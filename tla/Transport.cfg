SPECIFICATION FairSpec
CONSTANTS
    Writers = {w1, w2, w3}
    Closers = {k1, k2}
    Pieces = 2
    MaxSets = 1
INVARIANTS
    PayloadsWhole
    CutOffIsLast
    NothingAfterClose
PROPERTIES
    OwnDeadline
    CloseFreesAll
    TimeoutBounds
