CONSTANTS
    r1 = r1
    r2 = r2
    l1 = l1
    l2 = l2
    v1 = v1
    v2 = v2
    g1 = g1
    g2 = g2
    Requests = {r1, r2}
    Lines = {l1, l2}
    PanelPayments = {"pending"}
    Nothing = Nothing
    Visits = {v1, v2}
    Goods = {g1, g2}
    UsageLimit = 1
    MinLines = 2
    MaxItems = 2
    MaxOrders = 2
SYMMETRY Symmetry
SPECIFICATION OrdersSpec
INVARIANTS
    OrdersInv
    LinesTogether
    HeldUntilShipped
    EarnedInOrder
    CouponOnItsTerms
    OrderedOnce
    NothingForgotten
PROPERTIES
    ShipsHeldStock
    KeepsPromise
CHECK_DEADLOCK FALSE
