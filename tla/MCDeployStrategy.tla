-------------------------- MODULE MCDeployStrategy --------------------------
(* Two deploy processes, two services, and a version published meanwhile. *)
EXTENDS DeployStrategy
=============================================================================
