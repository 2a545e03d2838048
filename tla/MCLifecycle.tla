---------------------------- MODULE MCLifecycle ----------------------------
(* Lifecycle with an incident of the day before and one of tonight, and     *)
(* every Job tried twice.                                                   *)
EXTENDS Lifecycle

CONSTANT tonight

MCIncidents == {1, 2}
MCPast == {1}
MCSweeps == {tonight}
=============================================================================
