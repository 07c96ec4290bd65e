SPECIFICATION MCSpec
CONSTANTS
    base = base
    next = next
    later = later
    fork = fork
    foreign = foreign
    blocked = blocked
    h1 = h1
    None = None
    Flat = Flat
    Releases <- MCReleases
    Ready <- MCReady
    Catalog <- MCCatalog
    History <- MCHistory
    Hashes = {h1, h2}
    Admitters = {a1, a2}
    Workers = {w1}
    Issues = {1, 2, 3}
    LastSession = 5
    MonthEnds = {1, 3, 4}
    Members <- MCMembers
    Actions <- MCActions
    MaxPositions = 2
    Prices = {1, 2}
    StopDistance = 1
    Halted = Halted
    Missing = Missing
INVARIANTS
    EvidenceCountsOnce
    RowReplaysLog
    PaperRestsOnEvidence
    RuntimeFollowsProgram
    PeriodsAreAdmitted
    EveryPositionIsWatched
PROPERTIES
    OutsidersLeave
    QualifiedReleaseIsFrozen
    ImplementsGate
    StrandedForGood
    RetryHeals
CHECK_DEADLOCK FALSE
