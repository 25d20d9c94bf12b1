CONSTANTS
    BlocksTotal <- MCBlocksTotal
    PagesPerBlock <- MCPagesPerBlock
    BlockArgs <- MCBlockArgs
    PageRanges <- MCPageRanges
    ShmArgs <- MCShmArgs
    UnknownCmds <- MCUnknownCmds
    AccessSizes = {2}
    MaskValues <- MCMaskValues
    CpuAddrs = {}
SPECIFICATION CpuSpec
INVARIANT IrqEdgeNotified
