SPECIFICATION SafeSpec
CONSTANTS
    Slots = {0, 1}
    Hotbar = {0}
    MaxStack = 1
    Blocks <- MCBlocks
    Spots <- NearSpots
    Home <- MCHome
    MaxDigs = 3
    MaxUp = 1
CHECK_DEADLOCK FALSE
INVARIANT NothingLost
