---------------------------- MODULE MCDeployment ----------------------------
(* Both networks; bounds in the configuration.                                 *)
EXTENDS Deployment
=============================================================================
