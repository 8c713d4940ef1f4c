SPECIFICATION Spec
CONSTANTS
    Listeners = {l1, l2}
    Conns = {c1, c2}
    MaxConnections = 1
    MinBackoff = 1
    MaxBackoff = 3
SYMMETRY Symmetry
INVARIANT
    NilMeansNoneRunning
