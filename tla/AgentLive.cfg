SPECIFICATION FairSpec
CONSTANTS
    Listeners = {l1}
    Conns = {c1, c2}
    MaxConnections = 2
    MinBackoff = 2
    MaxBackoff = 3
PROPERTIES
    EveryCallReturns
    EveryoneLeaves
    ImplementsConnections
