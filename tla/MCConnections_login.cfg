SPECIFICATION OneSpec
CONSTANTS
    BufSize = 2
    MaxSent = 3
    Streams <- MCStreams
    Base = 4
    MaxBytes = 3
    Size = 32
    Weight <- MCWeight
    Threshold = 4
    MaxTicks = 2
    Captures <- MCCaptures
    Chunks = 3
    Plans <- MCPlans
    FrameStreams <- MCFrameStreams
CHECK_DEADLOCK FALSE
INVARIANT LoginComesFirst
