SPECIFICATION FairSpec
CHECK_DEADLOCK FALSE
CONSTANTS
    k1 = k1
    k2 = k2
    Conns <- MCConns
    MAX_FAULTS = 1
    MAX_SENDS = 2
    SRV_MAX_LEN = 2
    INTERVAL = 3
INVARIANTS
    EchoesInOrder
    BytesBalance
    RowsAreWholeIntervals
PROPERTIES
    ImplementsEcho
    ServerForgets
