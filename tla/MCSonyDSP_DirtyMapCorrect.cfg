CONSTANTS
    BlocksTotal <- MCBlocksTotal
    PagesPerBlock <- MCPagesPerBlock
    BlockArgs <- MCBlockArgs
    PageRanges <- MCPageRanges
    ShmArgs <- MCDirtyShmArgs
    UnknownCmds <- MCUnknownCmds
    AccessSizes = {2}
    MaskValues <- MCMaskValues
    CpuAddrs = {}
SPECIFICATION Spec
INVARIANT DirtyMapCorrect
