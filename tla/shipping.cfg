CONSTANTS
    r1 = r1
    r2 = r2
    l1 = l1
    Requests = {r1, r2}
    Lines = {l1}
    PanelPayments = {}
    Nothing = Nothing
    Journey <- ToTheDoor
    MaxBookings = 2
    ByHand = {"processing", "cancelled"}
SYMMETRY Symmetry
SPECIFICATION BoundedSpec
INVARIANTS
    ShippingInv
    DeliveredIsTrue
    OneBookingAtATime
    CancelledFreesStock
CHECK_DEADLOCK FALSE
