CONSTANTS
    BlocksTotal <- MCBlocksTotal
    PagesPerBlock <- MCPagesPerBlock
    BlockArgs <- MCBlockArgs
    PageRanges <- MCPageRanges
    ShmArgs <- MCShmArgs
    UnknownCmds <- MCUnknownCmds
    AccessSizes = {2}
    MaskValues = {{}}
    CpuAddrs = {}
SPECIFICATION Spec
INVARIANT TypeOK
INVARIANT ShmAccessInBounds
INVARIANT ResultsOnlyOnSuccess
