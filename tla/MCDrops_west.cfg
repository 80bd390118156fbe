SPECIFICATION SafeSpec
CONSTANTS
    Slots = {0, 1}
    Hotbar = {0}
    MaxStack = 2
    Blocks <- WestBlocks
    Spots <- NearSpots
    Home <- MCHome
    MaxDigs = 1
    MaxUp = 1
CHECK_DEADLOCK FALSE
INVARIANT DropsAtBlock
