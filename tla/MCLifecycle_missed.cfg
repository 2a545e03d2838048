CONSTANTS
    tonight = tonight
    Incidents <- MCIncidents
    Past <- MCPast
    Sweeps <- MCSweeps
    Backoff = 1
SPECIFICATION Spec
INVARIANT CrashedRunsAreCaught
CHECK_DEADLOCK FALSE
