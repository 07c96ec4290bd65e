SPECIFICATION RecordsSpec
CONSTANTS
    b1 = b1
    b2 = b2
    b3 = b3
    y1 = y1
    y2 = y2
    wide = wide
    narrow = narrow
    daily = daily
    bars = bars
    limitup = limitup
    None = None
    Never = Never
    Backtests = {b1, b2, b3}
    Syncs = {}
    Operators = {o1}
    Keys = {wide, narrow, daily}
    KeyOf <- MCKeyOf
    Covers <- MCCovers
    Datasets <- OneDataset
    Events = {limitup}
    Limit = 1
    p1 = p1
    p2 = p2
    Commands = {p1, p2}
    LastSession = 4
    Nobody = Nobody
    r1 = r1
    r2 = r2
    Codes = {c1}
    EpisodeGap = 2
    Window = 3
    Refreshers = {r1, r2}
    LastWeek = 4
    Scan = Scan
    a1 = a1
    a2 = a2
    a3 = a3
    pair = pair
    Stocks = {a1, a2}
    Pairs = {pair}
    LegsOf <- MCLegsOf
    LastDay = 4
    MaxStrategy = 2
    MaxTotal = 2
    OtherTrades <- MCOtherTrades
SYMMETRY RecordsSymmetry
INVARIANTS
    CapturesFormAChain
    EveryLoanSettlesOnce
    StoredIsNotReportedLost
    OutcomesAreEarned
PROPERTIES
    ReadyGivesWayToReady
    OnlyAnOverlapReopens
    ExitsTakeTheFirstOpening
CHECK_DEADLOCK FALSE
