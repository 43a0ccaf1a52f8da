SPECIFICATION Spec
CONSTANTS
    MaxMessage = 3
    Ts <- TieTs
    MaxTs = 3
    MaxTime = 4
    MaxClock = 1
    PageSize = 1
    Requests = 1
    Pass = {p1, p2}
    NoRow = NoRow
    NoTime = NoTime
SYMMETRY PassSymmetry
INVARIANTS
    CoverageSound
