SPECIFICATION Spec
CONSTANTS
    p1 = p1
    p2 = p2
    o1 = o1
    o2 = o2
    w1 = w1
    w2 = w2
    r1 = r1
    NoPayment = NoPayment
    NoOrder = NoOrder
    NoRef = NoRef
    NoEvent = NoEvent
    PaymentIds = {p1, p2}
    Orders = {o1}
    Refs = {r1}
    Kind <- AllSubscriptions
    Amounts <- Price
    Workers = {w1, w2}
    ProcOf <- OwnProcess
    Roles <- OpenAndSettle
    MaxFaults = 1
CHECK_DEADLOCK FALSE
PROPERTIES
    CaptureReconciles
