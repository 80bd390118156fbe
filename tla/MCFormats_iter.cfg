SPECIFICATION OneSpec
CONSTANTS
    Side = 2
    Coords <- MCCoords
    MaxSaves = 3
    MaxSize = 2
    Base = 4
    MaxBytes = 3
    Size = 32
    Weight <- MCWeight
    Foreign <- MCForeign
    Inputs <- MCInputs
    Payloads <- MCPayloads
    Bodies <- MCBodies
    Layouts <- MCLayouts
    Height = 4
    LongBits = 5
    MinBits = 2
    MaxBits = 3
    Power <- MCPower
    Chunks <- MCChunks
    Conns = {1, 2}
    PacketIds = {1}
    First = 1
    Most = 2
    MaxPackets = 4
    MaxRuns = 2
CHECK_DEADLOCK FALSE
INVARIANT IteratesAllBlocks
