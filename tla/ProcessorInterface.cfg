SPECIFICATION InterfaceFairSpec
CONSTANTS
    MailHigh = {"80f3", "8000"}
    MailLow = {"a001", "d001", "n2"}
    CommandHigh = "80f3"
    ZeroHigh = "8000"
    BootLow = {"a001"}
    StartLow = "d001"
    PacketLength <- MCPacketLength
    NoMail = NoMail
    Channel = {0, 1}
    ExiByte = {0, 1}
    Ones = 1
    CommandLength = 2
    Writes <- MCWrites
    Target <- MCTarget
    Offset <- MCOffset
    SramSize = 1
    RomSize = 2
    RomByte <- MCRomByte
    RamSize = 1
    ImmediateSize = 1
    GuestSelect <- MCSelect
    GuestMask <- MCMask
    MaxShifted = 0
    GuestChannel = {1}
    GuestLow = {"d001", "n2"}
INVARIANTS
    InterfaceTypeOK
    LatchFollowsLines
PROPERTY
    LinesServed
