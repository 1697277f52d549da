SPECIFICATION Spec
CONSTANTS
    Sizes = {1, 2}
    HeaderSize = 1
    Threshold = 4
    FlushEvery = 2
    Tears = {"nothing", "part"}
    MaxEvents = 7
INVARIANTS
    NothingLostSilently
    CompletedVerifies
    ChunksWithinThreshold
CHECK_DEADLOCK FALSE
