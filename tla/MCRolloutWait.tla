---------------------------- MODULE MCRolloutWait ----------------------------
(* RolloutWait for TLC.  The pods are alike, but the run checks liveness too,  *)
(* which TLC's symmetry does not allow: the pods stay apart.                   *)
EXTENDS RolloutWait
==============================================================================
