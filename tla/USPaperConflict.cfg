SPECIFICATION PaperSpec
CONSTANTS
    s1 = s1
    s2 = s2
    p1 = p1
    p2 = p2
    p3 = p3
    one = one
    another = another
    None = None
    Unset = Unset
    Securities <- MCSecurities
    LastSession = 3
    MonthEnds <- MCMonthEnds
    Prices <- MCPrices
    StopDistance = 1
    MaxPositions = 1
    QuotesAgree = TRUE
    Processes = {p1, p2, p3}
    WorkerOf <- MCWorkerOf
    Symbols = {spy}
    Close = 4
    OpeningEnd = 0
    LeaseSlots = 3
    Lag = 1
    LastTime = 4
    Sources = {raw}
    Absent = Absent
    short = short
    long = long
    Strategies = {short, long}
    OneSession = {short}
    Validity <- MCValidity
    Codes = {k}
    Opens = {"open", "no bar"}
    MaxStrategyPositions = 1
    MaxTotalPositions = 1
    Operators = {h1, h2}
    LastDay = 2
    MaxSignals = 2
SYMMETRY MCSymmetry
INVARIANT
    ConflictOnlyOnReuse
CHECK_DEADLOCK FALSE
