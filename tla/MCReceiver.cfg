CONSTANTS
    old = old
    new = new
    latency = latency
    errors = errors
    NoPod = NoPod
    Pods <- MCPods
    Alerts <- MCAlerts
    Start <- TwinStarts
    Series <- TwoSeries
    MaxFaults = 1
    MaxExpiries = 1
SPECIFICATION FairSpec
INVARIANTS
    TypeOK
    JobFindsIncident
    NoRivalJob
    OneJobPerClaim
PROPERTIES
    Acknowledged
    CoveredUnlessFaulted
    NoLeakUnlessFaulted
CHECK_DEADLOCK FALSE
