SPECIFICATION Spec
CONSTANTS
    Tasks = {t1, t2}
    MaxMsgs = 2
    MaxObjs = 4
SYMMETRY TaskSymmetry
INVARIANTS
    OneOwner
    OwnData
    PooledClean
