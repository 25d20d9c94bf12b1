CONSTANTS
    FramebufferSize = 81920
    Offsets <- MCOffsets
    Values <- MCValues
    ChunkImages <- MCChunkImages
SPECIFICATION Spec
INVARIANTS TypeOK StoredImageCurrent
