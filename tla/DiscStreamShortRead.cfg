SPECIFICATION Spec
CONSTANTS
    FileCount = 2
    DiscSize = 4
    MaxSize = 3
    ReadBuffer = 2
    ShortReads = TRUE
    NoFile = NoFile
INVARIANT
    ReadsExact
