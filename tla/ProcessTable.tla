---------------------------- MODULE ProcessTable ----------------------------
(***************************************************************************)
(* What the clients of the API are promised about the processes of an app: *)
(* a table with one entry per process type, in which a deploy, a change of *)
(* scale, a change of limits or of the environment is one atomic change to *)
(* the fields it is about, made to the entry as it is at that moment.      *)
(***************************************************************************)
EXTENDS Integers

CONSTANTS Procs, Builds, Envs, MaxReplicas, Resources, Limits, NoLimit, Absent

VARIABLE table

Entry == [build : Builds, env : Envs, replicas : 0..MaxReplicas,
          limits : [Resources -> Limits \cup {NoLimit}]]

Init == table = [p \in Procs |-> Absent]

Present(p) == table[p] # Absent

Start(p, b, e, n) ==
  /\ ~ Present(p)
  /\ table' = [table EXCEPT ![p] = [build |-> b, env |-> e, replicas |-> n,
                                    limits |-> [r \in Resources |-> NoLimit]]]

Release(p, b, e) ==
  Present(p) /\ table' = [table EXCEPT ![p].build = b, ![p].env = e]

Scale(p, b, e, n) ==
  Present(p) /\ table' = [table EXCEPT ![p].build = b, ![p].env = e, ![p].replicas = n]

Stop(p) == Present(p) /\ table' = [table EXCEPT ![p].replicas = 0]

Configure(p, e) == Present(p) /\ table' = [table EXCEPT ![p].env = e]

\* Setting one resource resets the others.
SetLimit(p, r, l) ==
  Present(p) /\ table' = [table EXCEPT ![p].limits = [s \in Resources |-> IF s = r THEN l ELSE NoLimit]]

Unlimit(p, r) == Present(p) /\ table' = [table EXCEPT ![p].limits[r] = NoLimit]

Remove(p) == Present(p) /\ table' = [table EXCEPT ![p] = Absent]

Next ==
  \E p \in Procs :
    \/ \E b \in Builds, e \in Envs :
         Release(p, b, e) \/ \E n \in 0..MaxReplicas : Start(p, b, e, n) \/ Scale(p, b, e, n)
    \/ \E e \in Envs : Configure(p, e)
    \/ \E r \in Resources : Unlimit(p, r) \/ \E l \in Limits : SetLimit(p, r, l)
    \/ Stop(p) \/ Remove(p)

Spec == Init /\ [][Next]_table
=============================================================================
