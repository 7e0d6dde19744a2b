----------------------------- MODULE MCAppRecord -----------------------------
(* AppRecord for TLC: everything but the providers is interchangeable. *)
EXTENDS AppRecord, TLC

Symmetry ==
  UNION {Permutations(S) : S \in {Handlers, Domains, Builds, Apps, ReleaseIds}}

\* A bound of the run with overlapping handlers: with the secret store, whose
\* property is about which records exist, one build at a time is there, saved or
\* released.  Two are needed for the properties of aws.
OneLocalBuild ==
  provider = "local" =>
    Cardinality(UNION {builds[a] : a \in Apps}
                \cup {releases[id].build : id \in SavedIds(Apps)}) <= 1
==============================================================================
