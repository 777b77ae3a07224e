SPECIFICATION Spec
CONSTANTS
    process_cnt = 2
    SIZE_CNT = 1
INVARIANT
    PrimaryExitsLast
