CHECK_DEADLOCK FALSE
SPECIFICATION Spec
CONSTANTS
    k1 = k1
    k2 = k2
    Conns <- MCConns
    Window <- MCWindow
    Sizes = {1, 2, 3}
    MAX_DATA_LEN = 2
    MAX_BYTES = 3
    MAX_BACKPRESSURE = 2
    FRAME_HEADER = 1
    MAX_MSGS = 3
    INTERVAL = 2
INVARIANTS
    LibTypeOK
    LibBalance
    RowsMatchIntervals
    NoRowOverdue
