CONSTANTS
    ReadTpcs <- MCReadTpcs
    WriteTpcs <- MCWriteTpcs
    TransferSizes <- MCTransferSizes
    DataSizeMask <- MCDataSizeMask
    BufferCapacity <- MCBufferCapacity
    FifoDepth <- MCFifoDepth
    DataOutSizes <- MCDataOutSizes
    FlagWrites <- MCFlagWrites

SPECIFICATION CpuSpec

INVARIANT IrqLineReported
