SPECIFICATION Spec
CONSTANTS
    u1 = u1
    u2 = u2
    w1 = w1
    w2 = w2
    NoUser = NoUser
    Users = {u1}
    Workers = {w1, w2}
    Roles <- BatchAndUsers
    BatchLimit = 1
    LastDay = 6
    LastSale = 6
    MaxPays = 3
    MaxFaults = 0
    Plans = {1, 2}
    TrialPlan = 1
    GraceDays = 1
    TrialDays = 1
    PeriodDays = 2
    FreeDays = 1
CHECK_DEADLOCK FALSE
PROPERTIES DowngradeWaitsForGrace
