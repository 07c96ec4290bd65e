SPECIFICATION Spec
CONSTANTS
    Workers = {w1, w2, w3}
    PassNow = {w1}
    Scheduled = {w1}
    Earliest = 1
    SlotLength = 3
    Midnight = 7
    Bars = {b1, b2}
    Bad = Bad
    None = None
PROPERTY
    MonthEndGetsItsPeriod
CHECK_DEADLOCK FALSE
