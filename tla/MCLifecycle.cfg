CONSTANTS
    tonight = tonight
    Incidents <- MCIncidents
    Past <- MCPast
    Sweeps <- MCSweeps
    Backoff = 1
SPECIFICATION FairSpec
INVARIANTS
    TypeOK
    CompleteIsPersisted
    FactsArePublished
    CleanSweepLeavesNone
PROPERTIES
    ActionsStayClosed
    EveryJobEnds
CHECK_DEADLOCK FALSE
