CONSTANTS
    shelf = shelf
    store = store
    o1 = o1
    o2 = o2
    w1 = w1
    w2 = w2
    Keys = {shelf, store}
    Refs = {o1, o2}
    Workers = {w1, w2}
    NoRef = NoRef
    MaxHolds = 3
    MaxQty = 1
    MaxLines = 2
    MaxOnHand = 1
    MaxDrift = 1
SYMMETRY Symmetry
SPECIFICATION RowsSpec
INVARIANTS
    BookkeepingExact
PROPERTIES
    TransfersConserve
CONSTRAINT DriftBounded
CHECK_DEADLOCK FALSE
