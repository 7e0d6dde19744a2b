----------------------------- MODULE MCWorkloads -----------------------------
(* Workloads for TLC: builds, environments and handlers are interchangeable. *)
EXTENDS Workloads, TLC

Symmetry == Permutations(Builds) \cup Permutations(Envs) \cup Permutations(Handlers)
==============================================================================
