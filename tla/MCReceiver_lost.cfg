CONSTANTS
    old = old
    new = new
    latency = latency
    errors = errors
    NoPod = NoPod
    Pods <- MCPods
    Alerts <- MCAlerts
    Start <- TwinStarts
    Series <- TwoSeries
    MaxFaults = 1
    MaxExpiries = 0
SPECIFICATION Spec
INVARIANT DedupedIsHandled
CHECK_DEADLOCK FALSE
