CHECK_DEADLOCK FALSE
SPECIFICATION Spec
CONSTANTS
    k1 = k1
    k2 = k2
    Conns <- MCOneConn
    MAX_DATA_LEN = 3
    PIPELINE = 1
    MAX_MSGS = 2
    INTERVAL = 2
INVARIANT
    ReceivedMessagesCounted
