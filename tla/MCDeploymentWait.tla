--------------------------- MODULE MCDeploymentWait ---------------------------
(* A small instance of DeploymentWait, see the configuration.                  *)
EXTENDS DeploymentPromises
=============================================================================
