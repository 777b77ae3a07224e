CHECK_DEADLOCK FALSE
SPECIFICATION FairSpec
CONSTANTS
    k1 = k1
    k2 = k2
    Conns <- MCConns
    MAX_DATA_LEN = 3
    PIPELINE = 1
    MAX_MSGS = 2
    INTERVAL = 2
INVARIANTS
    UsTypeOK
    EchoStream
    InBounds
    UsBytesBalance
    EchoesCounted
PROPERTIES
    ImplementsEcho
