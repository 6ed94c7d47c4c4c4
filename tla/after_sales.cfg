CONSTANTS
    w1 = w1
    w2 = w2
    s1 = s1
    s2 = s2
    i1 = i1
    Workers = {w1, w2}
    Total = 3
    Amounts = {1, 2}
    MaxRefunds = 3
    Stages = {"paid", "delivered"}
    Nothing = Nothing
    Staff = {s1, s2}
    Items = {i1}
    Mailers = {s1, s2}
    MaxRetries = 3
    MaxTasks = 2
SPECIFICATION AfterSalesSpec
SYMMETRY Symmetry
INVARIANTS
    AfterSalesInv
    AggregatesAgree
    MailsAccountedFor
    RefundIsEarned
    GivenBackOnce
PROPERTIES
    CountedWithItsRow
CHECK_DEADLOCK FALSE
