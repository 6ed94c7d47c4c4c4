CONSTANTS
    shelf = shelf
    store = store
    o1 = o1
    o2 = o2
    w1 = w1
    w2 = w2
    Keys = {shelf}
    Refs = {o1, o2}
    Workers = {w1, w2}
    NoRef = NoRef
    MaxHolds = 2
    MaxQty = 2
    MaxLines = 1
    MaxOnHand = 2
    MaxDrift = 1
SYMMETRY Symmetry
SPECIFICATION Spec
INVARIANTS
    CountersSound
    BookkeepingExact
    OneActiveHold
    Inductive
PROPERTIES
    NewHoldsFit
CONSTRAINT DriftBounded
