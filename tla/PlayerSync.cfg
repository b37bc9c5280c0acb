CONSTANTS
    i1 = i1
    i2 = i2
    i3 = i3
    None = None
    Items = {i1, i2, i3}
    Slots = {1, 2}
    MaxMoves = 2
    MaxHandovers = 2
SYMMETRY Alike
SPECIFICATION Spec
INVARIANTS TypeOK TimersAreRegistered
PROPERTIES HandoverMovesOnce PageIsPinned
CHECK_DEADLOCK FALSE
