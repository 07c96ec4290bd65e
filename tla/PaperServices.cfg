SPECIFICATION ServicesSpec
CONSTANTS
    Workers = {w1, w2, w3}
    PassNow = {w1}
    Scheduled = {w2}
    Earliest = 1
    SlotLength = 3
    Midnight = 7
    Bars = {b1, b2}
    Bad = Bad
    None = None
    Absent = Absent
    a = a
    b = b
    c = c
    t1 = t1
    t2 = t2
    t3 = t3
    scheduler = scheduler
    other = other
    Securities = {a, b, c}
    Actions <- MCActions
    Releases = 2
    LastDay = 3
    Price = 2
    Commission = 1
    Wanted = 3
    Portfolio = {a, b}
    InitialCash = 8
    Plans <- MCPlans
    MaxPositions = 2
    Ticks = {t1, t2, t3}
    WorkerOf <- MCWorkerOf
    LeaseLength = 1
    Nothing = Nothing
    LastTime = 2
    MaxCrashes = 1
INVARIANTS
    PeriodIsCausal
    ArchiveIsCommitted
    CashIsExplained
    DueDividendsArePaid
PROPERTIES
    MonthEndGetsItsPeriod
    KillShows
CHECK_DEADLOCK FALSE
