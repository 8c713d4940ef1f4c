SPECIFICATION Spec
CONSTANTS
    Listeners = {l1, l2}
    Conns = {c1, c2, c3}
    MaxConnections = 2
    MinBackoff = 1
    MaxBackoff = 1
SYMMETRY Symmetry
INVARIANTS
    TypeOK
    ConnLimit
    NoSlotLeak
    EveryConnWoken
    NilMeansFinishedOrCancelled
    GiveUpClosesAll
PROPERTIES
    ShutdownIsNotAnError
