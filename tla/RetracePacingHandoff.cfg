SPECIFICATION PacingFairSpec
CONSTANTS
    JobBlocks = 3
    TickCapacity = 2
PROPERTY
    HandoffGiven
