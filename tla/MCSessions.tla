------------------------------ MODULE MCSessions ------------------------------
(* Sessions for TLC: its constants are sets of model values. *)
EXTENDS Sessions
==============================================================================
