SPECIFICATION Spec
CONSTANTS
    Notifies = {n1, n2}
    MaxInFlight = 1
    HandshakeTimeout = TRUE
    IdleTimeout = TRUE
    WriteTimeout = TRUE
    MaxControl = 2
    MaxQueue = 2
SYMMETRY Symmetry
INVARIANT
    AtMostOneGoodbye
