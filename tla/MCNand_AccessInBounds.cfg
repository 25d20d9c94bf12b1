CONSTANTS
    BytesPerPage = 5
    PagesPerBlockLg2 = 2
    BlocksPerDevice = 3
    Flags <- MCFlags
    DevIdLen = 2
    ByteBits = 2
    StorageBytes = 20
    DirtyWordBits = 3
    EraseBusy = 3
    ProgramBusy = 2
    ReadBusy = 1
    AddrValues <- MCWideAddrValues
    UnknownCmds <- MCUnknownCmds
    MaxWrites = 2
SPECIFICATION Spec
INVARIANT AccessInBounds
