-------------------------- MODULE MCBuildLifecycle --------------------------
(* BuildLifecycle for TLC; no symmetry, for there is a liveness property. *)
EXTENDS BuildLifecycle
==============================================================================
