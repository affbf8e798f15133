CONSTANTS
    c1 = c1
    c2 = c2
    Conns = {c1, c2}
    NoConn = NoConn
    Hasty = FALSE
    MaxListens = 3
    MaxFailures = 1
SPECIFICATION FairSpec
INVARIANT OneChain
INVARIANT HandedOver
PROPERTY KeepsAccepting
CHECK_DEADLOCK FALSE
