---------------------------- MODULE MCDeployment ----------------------------
(* Instances of Deployment for TLC: two deployments, the second of which finds *)
(* the first in any of its states.                                             *)
EXTENDS Deployment

AllOperations ==
    {"request", "restart", "rollback", "redeploy", "stop", "stopProject", "disable"}
=============================================================================
