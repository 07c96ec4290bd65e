SPECIFICATION TriangleSpec
CONSTANTS
    Codes = {c1}
    EpisodeGap = 2
    Window = 3
    Refreshers = {r1}
    LastWeek = 4
    Scan = Scan
INVARIANT
    ConversionsAreTrue
CHECK_DEADLOCK FALSE
