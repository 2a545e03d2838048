----------------------------- MODULE MCPipeline -----------------------------
(* Pipeline on the three collectors cli.py builds, with the default retry   *)
(* budget of two.                                                           *)
EXTENDS Pipeline

CONSTANTS logs, git, alerts

MCCollectors == {logs, git, alerts}
=============================================================================
