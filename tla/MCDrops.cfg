SPECIFICATION Spec
CONSTANTS
    Slots = {0, 1}
    Hotbar = {0, 1}
    MaxStack = 2
    Blocks <- MCBlocks
    Spots <- NearSpots
    Home <- MCHome
    MaxDigs = 4
    MaxUp = 2
CHECK_DEADLOCK FALSE
INVARIANTS
    TypeOK
    Conserved
    PlacementHitsItsSlot
    ClientMissesNothing
PROPERTY EntitiesAreCollected
