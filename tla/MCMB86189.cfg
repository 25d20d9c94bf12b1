CONSTANTS
    ReadTpcs <- MCReadTpcs
    WriteTpcs <- MCWriteTpcs
    TransferSizes <- MCTransferSizes
    DataSizeMask <- MCDataSizeMask
    BufferCapacity <- MCBufferCapacity
    FifoDepth <- MCFifoDepth
    DataOutSizes <- MCDataOutSizes
    FlagWrites <- MCFlagWrites

SPECIFICATION Spec

INVARIANT TypeOK
INVARIANT NoWriteOverrun
INVARIANT WriteDataIntegrity
INVARIANT MscsReportsBuffer
INVARIANT SavestateRoundTrip
