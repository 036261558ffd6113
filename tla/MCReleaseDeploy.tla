-------------------------- MODULE MCReleaseDeploy --------------------------
(* Every plan of a rollout over three releases, with a bundle loaded and   *)
(* activated before it starts or after it ends.                            *)
EXTENDS ReleaseDeploy
=============================================================================
