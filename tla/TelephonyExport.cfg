SPECIFICATION FairSpec
CONSTANTS
    Exporter = {1, 2}
    Histories <- MCHistories
    OldArchives <- MCOldArchives
    IncludePartData = TRUE
    MaxOpenFiles = 2
CONSTRAINT CompetitionThatMatters
CHECK_DEADLOCK FALSE
INVARIANTS
    TypeOK
    VerifiedIsLossless
    SteadyIsWhole
    AllOrNothing
PROPERTIES
    NeverLost
    EndsAfterSummary
