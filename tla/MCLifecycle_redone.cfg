CONSTANTS
    tonight = tonight
    Incidents <- MCIncidents
    Past <- MCPast
    Sweeps <- MCSweeps
    Backoff = 1
SPECIFICATION Spec
INVARIANT SweepsOnlyUnfinished
CHECK_DEADLOCK FALSE
