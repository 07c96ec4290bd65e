SPECIFICATION Spec
CONSTANTS
    b1 = b1
    b2 = b2
    b3 = b3
    y1 = y1
    y2 = y2
    wide = wide
    narrow = narrow
    daily = daily
    bars = bars
    limitup = limitup
    None = None
    Backtests = {b1, b3}
    Syncs = {}
    Operators = {o1}
    Keys = {wide, narrow, daily}
    KeyOf <- MCKeyOf
    Covers <- MCCovers
    Datasets <- MCDatasets
    Events = {limitup}
    Limit = 1
INVARIANT
    ReferencedSnapshotsStay
CHECK_DEADLOCK FALSE
