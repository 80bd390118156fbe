SPECIFICATION EitherSafe
CONSTANTS
    s1 = s1
    s2 = s2
    near = near
    far = far
    Sessions <- MCSessions
    Blocks <- MCBlocks
    Spawn <- MCSpawn
    Walks <- MCWalks
    InitialLoads = 2
    Radius = 0
    Reach <- NarrowReach
    ChunkOf <- NarrowChunkOf
INVARIANT SurvivesReconnect
