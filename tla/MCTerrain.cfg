SPECIFICATION EitherSpec
CONSTANTS
    s1 = s1
    s2 = s2
    near = near
    far = far
    Sessions <- MCSessions
    Blocks <- MCBlocks
    Spawn <- MCSpawn
    Walks <- MCWalks
    InitialLoads = 2
    Radius = 1
    Reach <- WideReach
    ChunkOf <- WideChunkOf
INVARIANTS
    TypeOK
    HolesAreRecorded
    SpawnViewRestored
    StreamTypeOK
    SurroundingsShown
    BookkeepingMatchesClient
    CenterIsFurnished
PROPERTIES
    EverySessionKeepsView
    SessionsSettle
    HolesStayOpen
    StreamedOnce
    ImplementsView
