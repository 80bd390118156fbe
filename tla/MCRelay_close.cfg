SPECIFICATION Spec
CONSTANTS
    BufSize = 1
    MaxSent = 2
    Streams <- MCStreams
CHECK_DEADLOCK FALSE
PROPERTY BackendCloseReachesClient
