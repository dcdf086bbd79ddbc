SPECIFICATION Spec
CONSTANTS
    ChunkMultiple = 2
    ChunkMax = 8
    MaxChunkAttempts = 1
    ChunkRequested = 5
    MaxAttempts = 2
    WriteSizes = {2}
    MaxBytes = 2
    MaxLate = 1
INVARIANT
    FailureMeansUnpublished
CHECK_DEADLOCK FALSE
