\* Card presence and the IRQ line: every mask value and access size, with
\* arguments that make the storage commands return early, and the CPU's own
\* data writes into the window.
CONSTANTS
    BlocksTotal <- MCBlocksTotal
    PagesPerBlock <- MCPagesPerBlock
    BlockArgs = {3}
    PageRanges <- MCCardPageRanges
    ShmArgs = {16383}
    UnknownCmds <- MCUnknownCmds
    AccessSizes = {1, 2}
    MaskValues <- MCMaskValues
    CpuAddrs <- MCCpuAddrs
SPECIFICATION Spec
INVARIANT CardBitsMatchMount
INVARIANT CpuWritesMarked
INVARIANT SavestateRoundTrip
