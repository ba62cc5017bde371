SPECIFICATION PacingFairSpec
CONSTANTS
    JobBlocks = 3
    TickCapacity = 2
INVARIANT
    PacingTypeOK
PROPERTIES
    RetraceArrives
    JobsRun
    NoTicksAhead
