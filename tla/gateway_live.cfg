CONSTANTS
    r1 = r1
    r2 = r2
    l1 = l1
    Requests = {r1, r2}
    Lines = {l1}
    PanelPayments = {}
    Nothing = Nothing
    Providers = {"razorpay", "cashfree"}
    MaxAttempts = 1
    Announced = {1}
    MaxTasks = 1
SPECIFICATION BoundedSpec
PROPERTIES
    CapturedIsCollected
CHECK_DEADLOCK FALSE
