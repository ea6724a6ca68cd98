SPECIFICATION FairSpec
CONSTANTS
    w1 = w1
    w2 = w2
    Workers = {w1, w2}
    Roles <- ClientAndStore
    MaxPeriods = 1
    Refetches = TRUE
    Linked = TRUE
    LastDay = 2
    MaxFaults = 1
    MaxNotices = 3
    Plans = {1}
    TrialPlan = 1
    GraceDays = 0
    TrialDays = 1
    PeriodDays = 1
    FreeDays = 1
CHECK_DEADLOCK FALSE
PROPERTIES PurchaseIsGranted
