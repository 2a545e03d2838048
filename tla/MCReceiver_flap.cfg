CONSTANTS
    old = old
    new = new
    latency = latency
    errors = errors
    NoPod = NoPod
    Pods <- MCPods
    Alerts <- FlapAlerts
    Start <- FlapStarts
    Series <- OneFlapping
    MaxFaults = 0
    MaxExpiries = 0
SPECIFICATION Spec
INVARIANT FlapsShareOneJob
CHECK_DEADLOCK FALSE
