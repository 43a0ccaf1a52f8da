SPECIFICATION LedgerSpec
CONSTANTS
    MaxTime = 4
    MaxClock = 3
    NoRow = NoRow
    NoTime = NoTime
INVARIANTS
    NormalForm
    WeakestClaim
PROPERTY
    ImplementsVerifiedHistory
