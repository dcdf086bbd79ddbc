SPECIFICATION FairSpec
CONSTANTS
    ChunkMultiple = 2
    ChunkMax = 8
    MaxChunkAttempts = 2
    ChunkRequested = 5
    MaxAttempts = 2
    WriteSizes = {2, 5}
    MaxBytes = 9
    MaxLate = 1
INVARIANTS
    TypeOK
    BrokenStreamNeverPublished
    PublishedOnce
    ChunksAreValid
    SessionReleased
PROPERTIES
    CallsReturn
    ImplementsAtomicPublish
CHECK_DEADLOCK FALSE
