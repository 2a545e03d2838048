CONSTANTS
    logs = logs
    git = git
    alerts = alerts
    Collectors <- MCCollectors
    MaxRetries = 2
SPECIFICATION Spec
INVARIANTS
    TypeOK
    SpendBound
    LimitSparesHonestRuns
    ReasonsOverCompleteGraph
PROPERTY ImplementsGate
CHECK_DEADLOCK FALSE
