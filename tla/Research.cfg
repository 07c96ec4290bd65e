SPECIFICATION ResearchSpec
CONSTANTS
    None = None
    Callers = {c1, c2}
    Workers = {w1, w2}
    scan = scan
    backtest = backtest
    NoPrint = NoPrint
    Fingerprints <- MCFingerprints
    TypeOf <- MCTypeOf
    Asking = {scan}
    Exclusive = {scan, backtest}
    MaxJobs = 3
    MemoryKeys = {k1, k2, k3}
    Sizes <- MCSizes
    LimitBytes = 3
    NoPut = NoPut
    g1 = g1
    g2 = g2
    g3 = g3
    api = api
    cli = cli
    Getters = {g1, g2, g3}
    Pruners = {p1}
    Processes = {api, cli}
    ProcessOf <- MCProcessOf
    b1 = b1
    y1 = y1
    y2 = y2
    minutes = minutes
    daily = daily
    limitup = limitup
    Backtests = {b1}
    Syncs = {y1, y2}
    Operators = {}
    Keys = {minutes, daily}
    KeyOf <- MCKeyOf
    Covers = {}
    Datasets <- MCDatasets
    Events = {limitup}
    Limit = 1
INVARIANTS
    OneFlightPerFingerprint
    WithinLimit
PROPERTIES
    HandedOverJobsFinish
    FlightsEnd
    BuildersEnd
CHECK_DEADLOCK FALSE
