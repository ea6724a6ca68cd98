SPECIFICATION Spec
CONSTANTS
    p1 = p1
    p2 = p2
    o1 = o1
    o2 = o2
    w1 = w1
    w2 = w2
    r1 = r1
    NoPayment = NoPayment
    NoOrder = NoOrder
    NoRef = NoRef
    NoEvent = NoEvent
    PaymentIds = {p1}
    Orders = {o1, o2}
    Refs = {r1}
    Kind <- AllFees
    Amounts <- TwoPrices
    Workers = {w1, w2}
    ProcOf <- OwnProcess
    Roles <- RetryAndSettle
    MaxFaults = 0
CHECK_DEADLOCK FALSE
SYMMETRY IdSymmetry
INVARIANTS
    PaidMeansCaptured
    EntitlementIsCovered
