-------------------------- MODULE MCDeploymentRuns --------------------------
(* Small instances of DeploymentRuns for TLC. *)
EXTENDS DeploymentRuns

CONSTANTS admin, worker

MCCaller == {admin, worker}
MCOpId == 1..3
=============================================================================
