SPECIFICATION FairSpec
CONSTANTS
    u1 = u1
    u2 = u2
    w1 = w1
    w2 = w2
    NoUser = NoUser
    Users = {u1, u2}
    Workers = {w1, w2}
    Roles <- BatchBesideUsers
    BatchLimit = 1
    LastDay = 4
    LastSale = 2
    MaxPays = 1
    MaxFaults = 1
    Plans = {1}
    TrialPlan = 1
    GraceDays = 1
    TrialDays = 1
    PeriodDays = 1
    FreeDays = 1
CHECK_DEADLOCK FALSE
INVARIANTS TypeOK PaidTimeIsKept NoUnpaidAccess TrialIsOnce OnlyPaymentOvertakes Inductive
PROPERTIES ExpiredIsDowngraded
