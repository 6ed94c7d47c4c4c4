CONSTANTS
    till = till
    webhook = webhook
    pay = pay
    c1 = c1
    c2 = c2
    Requests = {till, webhook}
    Refs = {pay}
    NoRef = NoRef
    Price = 2
    MaxTenders = 3
    Clerks = {c1, c2}
    MaxShifts = 2
    MaxRows = 3
    Desks = {c1, c2}
    MaxPieces = 2
    MaxCount = 1
    MaxSales = 2
SYMMETRY Symmetry
SPECIFICATION CounterSpec
INVARIANTS
    StatusFollowsLedger
    PaymentRecordedOnce
    CounterInv
    CountedOrOvertaken
    ExpensesBalance
    PiecesBalance
PROPERTIES
    NeverOverCollects
    GoodsOnlyForMoney
    SettledOnce
