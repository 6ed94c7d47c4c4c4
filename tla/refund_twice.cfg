CONSTANTS
    w1 = w1
    w2 = w2
    Workers = {w1, w2}
    Total = 3
    Amounts = {1, 2}
    MaxRefunds = 3
    Stages = {"paid", "delivered"}
    Nothing = Nothing
SPECIFICATION Spec
INVARIANTS
    AppliedOnce
CHECK_DEADLOCK FALSE
