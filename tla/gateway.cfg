CONSTANTS
    r1 = r1
    r2 = r2
    l1 = l1
    Requests = {r1, r2}
    Lines = {l1}
    PanelPayments = {}
    Nothing = Nothing
    Providers = {"razorpay", "cashfree"}
    MaxAttempts = 2
    Announced = {1}
    MaxTasks = 1
    Tills = {r1, r2}
    SaleTotal = 2
    MaxCodes = 2
SPECIFICATION PaymentsSpec
SYMMETRY Symmetry
INVARIANTS
    TakenOnce
    PaidIsCaptured
    PaidCodesCount
CHECK_DEADLOCK FALSE
