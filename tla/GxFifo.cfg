SPECIFICATION FifoSpec
CONSTANTS
    Capacity = 5
    ListDepth = 2
    WriteSizes = {1, 2, 4}
    ListAt <- MCListAt
    MaxStream = 7
INVARIANTS
    FifoTypeOK
    StreamDecoded
    FinishSignalled

    
\* the run ends when MaxStream bytes are written
CHECK_DEADLOCK FALSE
