SPECIFICATION Spec
CONSTANTS
    w1 = w1
    w2 = w2
    Workers = {w1, w2}
    Roles <- ClientOrStore
    MaxPeriods = 2
    Refetches = TRUE
    Linked = TRUE
    LastDay = 1
    MaxFaults = 0
    MaxNotices = 2
    Plans = {1, 2}
    TrialPlan = 1
    GraceDays = 0
    TrialDays = 1
    PeriodDays = 1
    FreeDays = 1
CHECK_DEADLOCK FALSE
INVARIANTS TypeOK PlanIsBacked ActiveIsPaid ClaimIsExclusive GrantsAreSound
PROPERTIES ImplementsLedger
