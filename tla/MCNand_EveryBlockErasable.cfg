CONSTANTS
    BytesPerPage = 5
    PagesPerBlockLg2 = 2
    BlocksPerDevice = 5
    Flags <- MCBothFlags
    DevIdLen = 2
    ByteBits = 2
    StorageBytes = 20
    DirtyWordBits = 4
    EraseBusy = 3
    ProgramBusy = 2
    ReadBusy = 1
    AddrValues <- MCAddrValues
    UnknownCmds <- MCUnknownCmds
    MaxWrites = 1
SPECIFICATION Spec

INVARIANT EveryBlockErasable
