--------------------------- MODULE MCSharedIngress ---------------------------
(* SharedIngress for TLC: requests, apps, ports and the domains without a    *)
(* certificate are interchangeable.                                          *)
EXTENDS SharedIngress, TLC

Symmetry ==
  UNION {Permutations(S) : S \in {Apps, Handlers, Ports, Domains \ CertDomains}}
==============================================================================
