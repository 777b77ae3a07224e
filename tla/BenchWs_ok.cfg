SPECIFICATION Spec
CONSTANTS
    process_cnt = 3
    SIZE_CNT = 3
INVARIANTS
    BenchWsTypeOK
    OneSizeAtATime
    RowsInOrder
    NoOrphans
