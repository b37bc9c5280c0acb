CONSTANTS
    None = None
    c1 = c1
    c2 = c2
    h1 = h1
    Threads = {c1}
    Handovers = {h1}
    MaxRows = 3
SPECIFICATION Spec
INVARIANTS TypeOK OnlyMovesFail
PROPERTIES ImplementsOrder
