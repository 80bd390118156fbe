SPECIFICATION OneSpec
CONSTANTS
    BufSize = 2
    MaxSent = 3
    Streams <- MCStreams
    Base = 4
    MaxBytes = 3
    Size = 32
    Weight <- MCWeight
    Threshold = 4
    MaxTicks = 2
    Captures <- MCCaptures
    Chunks = 3
    Plans <- MCPlans
    FrameStreams <- MCFrameStreams
\* A connection ends, and a silent client keeps it waiting.
CHECK_DEADLOCK FALSE
INVARIANTS
    TypeOK
    TailIsDelivered
    ReadInItsState
    DecodableOnArrival
    NothingLostAtSwitch
    BatchesAreWhole
    RepliesMatchRequests
    FramesIntact
PROPERTIES
    ImplementsPipe
    EverythingArrives
    TasksEnd
    AllHandedOn
    JoinCompletes
    RequestsAreAnswered
