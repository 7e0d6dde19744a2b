--------------------------- MODULE MCStackLifecycle ---------------------------
(* StackLifecycle for TLC. *)
EXTENDS StackLifecycle
==============================================================================
