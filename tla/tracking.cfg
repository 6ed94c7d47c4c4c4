CONSTANTS
    r1 = r1
    r2 = r2
    l1 = l1
    Requests = {r1, r2}
    Lines = {l1}
    PanelPayments = {}
    Nothing = Nothing
    Journey <- ToTheDoor
    MaxBookings = 1
    ByHand = {"processing", "cancelled"}
SPECIFICATION TrackingSpec
PROPERTIES
    TrackingCatchesUp
CHECK_DEADLOCK FALSE
