SPECIFICATION SessionFairSpec
CONSTANTS
    Notifies = {n1, n2}
    MaxInFlight = 0
    HandshakeTimeout = FALSE
    IdleTimeout = FALSE
    WriteTimeout = FALSE
    MaxControl = 2
    MaxQueue = 2
INVARIANTS
    OwnAck
PROPERTIES
    CallsReturn
