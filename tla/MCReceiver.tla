----------------------------- MODULE MCReceiver -----------------------------
(* Receiver during a rolling update, when two pods overlap.                 *)
EXTENDS Receiver

CONSTANTS old, new, latency, errors

MCPods == {old, new}

\* Two alerts that start together, as those of one rule evaluation do, and may
\* resolve together or not; the first of them may fire again.
MCAlerts == {1, 2, 3}
TwoSeries == [a \in MCAlerts |-> IF a = 2 THEN errors ELSE latency]
TwinStarts == [a \in MCAlerts |-> IF a = 3 THEN 2 ELSE 1]

\* One alert that fires twice.
FlapAlerts == {1, 2}
OneFlapping == [a \in FlapAlerts |-> latency]
FlapStarts == [a \in FlapAlerts |-> a]
=============================================================================
