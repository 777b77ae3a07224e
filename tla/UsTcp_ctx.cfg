CHECK_DEADLOCK FALSE
SPECIFICATION Spec
CONSTANTS
    k1 = k1
    k2 = k2
    Conns <- MCConns
    MAX_DATA_LEN = 2
    PIPELINE = 1
    MAX_MSGS = 1
    INTERVAL = 2
INVARIANT
    CtxCountIsActive
