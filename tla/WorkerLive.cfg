SPECIFICATION FairSpec
CONSTANTS
    Notifies = {n1, n2}
    MaxInFlight = 1
    HandshakeTimeout = FALSE
    IdleTimeout = FALSE
    WriteTimeout = FALSE
    MaxControl = 1
    MaxQueue = 2
PROPERTIES
    GoodbyeThenClose
    ParkedMovesOn
    ForcedCloseCompletes
    LeavesWhenTold
