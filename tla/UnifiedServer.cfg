SPECIFICATION Spec
CONSTANTS
    Number <- Numbers
    MergeWindow = 2
    SecondsBelow = 8
    PerSecond = 2
    HashOrder <- MCHashOrder
    Histories <- MCHistories
    Relays <- GivenRelays
    Telephonies <- GivenTelephonies
    Startup = startup
    Request = {r1, r2}
    Limit = 2
    None = None
SYMMETRY Requests
CONSTRAINT SyncsThatMatter
CHECK_DEADLOCK FALSE
INVARIANTS
    TypeOK
    NothingLostNorTwice
    OnlyTheSameMerge
    SeenByBothIsOne
    ServedIsOfOneOwner
    PagesShowEachOnce
    SyncIsServed
