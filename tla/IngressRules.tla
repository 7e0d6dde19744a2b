---------------------------- MODULE IngressRules ----------------------------
(***************************************************************************)
(* mergeIngressRules: all apps of a stack share one Ingress object, and a  *)
(* deploy merges the rules of its app into those the object has.  A rule   *)
(* is a host and a backend, the service and port the host is routed to.    *)
(*                                                                         *)
(* The code removes stale rules from a slice while it ranges over it.  The *)
(* loop visits the indices the slice had at its start, and removing a rule *)
(* shifts the rest of the backing array: a list of rules is therefore its  *)
(* cells and its length, and cells beyond the length are read too.         *)
(***************************************************************************)
EXTENDS Integers, Sequences, SequencesExt

Hosts(rules)    == {rules[i].host : i \in DOMAIN rules}
BackendsOf(rules) == {rules[i].backend : i \in DOMAIN rules}

\* The rule added only if its host has none, or whether or not it has one.
PutIfAbsent(rules, r) == IF r.host \in Hosts(rules) THEN rules ELSE Append(rules, r)
PutTwice(rules, r) == Append(rules, r)

\* One rule of the source replaces the first rule of its host, or is added.
Put(rules, r) ==
  IF r.host \in Hosts(rules)
  THEN LET i == SelectInSeq(rules, LAMBDA rr : rr.host = r.host)
       IN  [rules EXCEPT ![i] = r]
  ELSE Append(rules, r)

\* r routes to a backend of the source, and the source has no such host.
Stale(r, source) == r.backend \in BackendsOf(source) /\ r.host \notin Hosts(source)

\* append(rules[:i], rules[i+1:]...) on a slice of the given length; it panics
\* when i is beyond the end.
RemoveCell(slice, i) ==
  IF i > slice.len
  THEN [slice EXCEPT !.panics = TRUE]
  ELSE [slice EXCEPT !.len = @ - 1,
                     !.cells = [k \in DOMAIN @ |-> IF k \in i..(slice.len - 1) THEN @[k + 1]
                                                                              ELSE @[k]]]

RemoveStale(rules, source) ==
  LET visit(slice, i) ==
        IF ~ slice.panics /\ Stale(slice.cells[i], source) THEN RemoveCell(slice, i) ELSE slice
  IN  FoldLeft(visit, [cells |-> rules, len |-> Len(rules), panics |-> FALSE],
               [i \in 1..Len(rules) |-> i])

PutAll(dest, source) == FoldLeft(Put, dest, source)

MergeIngressRules(dest, source) ==
  LET slice == RemoveStale(PutAll(dest, source), source)
  IN  [rules |-> SubSeq(slice.cells, 1, slice.len), panics |-> slice.panics]

ingressRulesManifest(backend, domains) ==
  [i \in DOMAIN domains |-> [host |-> domains[i], backend |-> backend]]
=============================================================================
