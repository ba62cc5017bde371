SPECIFICATION Spec
CONSTANTS
    CyclesPerTick = 2
    DecModulus = 5
    SampleModulus = 4
    TicksPerSecond = 3
    SlowRate = 1
    FastRate = 2
    MaxSlice = 2
    MaxTime = 7
    MaxRebase = 1
    MailHigh = {"80f3", "8000", "8123"}
    MailLow = {"a001", "d001", "n0", "n2"}
    CommandHigh = "80f3"
    ZeroHigh = "8000"
    BootLow = {"a001"}
    StartLow = "d001"
    PacketLength <- MCPacketLength
    NoMail = NoMail
    Channel = {0}
    ExiByte = {0, 1}
    Ones = 1
    CommandLength = 2
    Writes <- MCWrites
    Target <- MCTarget
    Offset <- MCOffset
    SramSize = 2
    RomSize = 2
    RomByte <- MCRomByte
    RamSize = 2
    ImmediateSize = 2
    GuestSelect <- MCSelect
    GuestMask <- MCMask
    MaxShifted = 3
    GpioBit = {1, 2}
    Owned <- MCOwned
    DirectionReset <- MCDirectionReset
    GpioPattern <- MCPattern
    FdBase = 32
    FdCount = 3
    GuestPath <- MCPath
    PathDepth = 4
    FileByte = {1, 2}
    MaxLength = 2
    Inode = {f1, f2}
    NoInode = NoInode
    GuestMode = {1, 3}
    StreamPath <- MCStreamPath
    MaxFailures = 1
    PageSize = 4
    WordSize = 2
    AddressSpace = 32
    Mirror = 16
    SparseFirst = 8
    SparseEnd = 16
    MaxCopy = 6
    Flat <- MCFlat
    BufferSize = {0, 1, 2, 3, 5}
    DirectoryName <- MCDirectoryName
    NameLength <- MCNameLength
    LongestName = 3
    MaxNames = 2
    DolMemory = 3
    DolMirror = 4
    GlobalsCell = 2
    DolFileSize = 2
    DolAddress = {0, 1, 5}
    SectionCount = 2
    MaxSection = 2
    FstLength = 4
    FstName = {"a", "b", ".."}
    BadName = {".."}
    Folded <- MCFolded
    ParentNumber = {0, 1, 2}
    NextNumber = {2, 3, 4}
    WordNumber = {0, 1}
    SizeNumber = {1}
    OffsetUnit = 1
    LookupName = {"A", "b", ".."}
    PathLength = 2
    CurrentCell = {0, 1, 4}
    MaxDepth = 2
    DiscTable <- MCTable
    Radix = 2
    GroupBits = 2
    LongBase = 4
    OutputBudget = 2
    Stream <- MCStream
    Refill = 7
    OutputFirst = 3
    OutputEnd = 9
    OutputBacked = {8, 9}
    HostKey = {"A", "X"}
    TextureMap = {1}
    ImageAddress = {1, 2}
    ImageSize = {1}
    Sampled = {0, 1}
    Unsampled = {0}
    Palette = {0, 1}
    Drawing = {0, 1}
    KeyCount = 1
    MaxCaptures = 2
    VertexFormat <- MCVertexFormat
    Primitive = {1, 3, 4}
    MaxVertices = 4
    MaxCount = 5
INVARIANTS
    TypeOK
    ClockExact
    
    TransactionDecoded
    LanesExact
    
    CopyExact
    ListingExact
    ImageComplete
    ImageExact
    Yaz0Exact
    BatchWalked
PROPERTIES
    FilesKept
    OnlyTitleData
    
    
CHECK_DEADLOCK FALSE
