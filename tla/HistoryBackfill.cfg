SPECIFICATION FairSpec
CONSTANTS
    MaxMessage = 4
    Ts <- SpreadTs
    MaxTs = 5
    MaxTime = 6
    MaxClock = 1
    PageSize = 2
    Requests = 2
    Pass = {p1}
    NoRow = NoRow
    NoTime = NoTime
INVARIANTS
    CoverageSound
    HistoryStartSound
PROPERTIES
    OnlyAPageWithdrawsExhaustion
    ReachesTheBeginning
