--------------------------- MODULE WorkloadsProofs ---------------------------
(***************************************************************************)
(* Proofs about Workloads, for any processes, builds, environments, limits *)
(* and any number of overlapping requests.                                 *)
(*                                                                         *)
(* That a write is one atomic change of the process as it is rests on the  *)
(* copies: what a request holds as fresh is what is there (Copied), but    *)
(* only of the processes it has still to write, for it does not read again *)
(* what it has written.  A request that writes from a list must therefore  *)
(* not have a process twice in its queue (Listed).                         *)
(*                                                                         *)
(* What a deploy and a delete promise at their end holds of requests that  *)
(* nobody overlaps: what they have still to do is in the queue (AloneInv). *)
(***************************************************************************)
EXTENDS Workloads, FiniteSetTheorems, TLAPS

All == Procs \cup CronProcs

Args == {<<>>} \cup UNION {[S -> (0..MaxReplicas) \cup Limits \cup {NoLimit}] : S \in SUBSET All}

Job == [kind : Kinds, build : Builds \cup {None}, env : Envs \cup {None}, args : Args,
        resource : Resources \cup {None}, queue : Seq(All), read : BOOLEAN, alone : BOOLEAN,
        copy : [All -> Deployment \cup CronJob \cup {None}], fresh : [All -> BOOLEAN]]

Rolling(j) == j.kind \in {"deploy", "scale"}
Listing(j) == j.kind \in {"limit", "restart", "delete"}

------------------------------------------------------------------------------
(* The invariant                                                            *)

\* The arguments of a request are those of its kind.
Argued(j) ==
  /\ Rolling(j) => j.build \in Builds /\ j.env \in Envs
  /\ j.kind = "scale" =>
       /\ \A i \in DOMAIN j.queue : j.queue[i] \in DOMAIN j.args
       /\ \A p \in DOMAIN j.args : j.args[p] \in 0..MaxReplicas
  /\ j.kind = "limit" =>
       j.resource \in Resources /\ \A p \in DOMAIN j.args : j.args[p] \in Limits \cup {NoLimit}
  /\ j.kind = "restart" => j.env \in Envs
  /\ \A p \in Procs : j.copy[p] \in Deployment \cup {None}

\* What a request has listed, it writes once.
Listed(j) ==
  /\ Listing(j) => IsInjective(j.queue) /\ \A i \in DOMAIN j.queue : j.queue[i] \in Procs
  /\ j.kind \in {"limit", "restart"} => j.read

\* Fresh copies of what the request has still to write are what is there.
Copied(ds, j) ==
  /\ Rolling(j) /\ j.queue # <<>> /\ j.read =>
       LET p == Head(j.queue) IN p \in Procs /\ j.fresh[p] => j.copy[p] = ds[p]
  /\ Listing(j) =>
       \A i \in DOMAIN j.queue :
         j.fresh[j.queue[i]] /\ (i > 1 \/ j.read) => j.copy[j.queue[i]] = ds[j.queue[i]]

Good(ds, j) == j \in Job /\ Argued(j) /\ Listed(j) /\ Copied(ds, j)

TableInv ==
  /\ deployments \in [Procs -> Deployment \cup {None}]
  /\ crons \in [CronProcs -> CronJob \cup {None}]

JobInv == DOMAIN job = Handlers /\ \A h \in Handlers : Good(deployments, job[h])

Inv == TableInv /\ JobInv

------------------------------------------------------------------------------
(* Queues                                                                   *)

LEMMA SetToSeqIs ==
  ASSUME NEW S, IsFiniteSet(S)
  PROVE  SetToSeq(S) \in Seq(S) /\ IsInjective(SetToSeq(S)) /\ ToSet(SetToSeq(S)) = S
<1> DEFINE n == Cardinality(S)
           q == SetToSeq(S)
<1>1. n \in Nat /\ ExistsBijection(1..n, S)
  BY FS_CardinalityType
<1>2. \E f \in [1..n -> S] : IsInjective(f)
  BY <1>1 DEF ExistsBijection, Bijection, Injection
<1>3. q \in [1..n -> S] /\ IsInjective(q)
  BY <1>2 DEF SetToSeq
<1>4. q \in Surjection(1..n, S)
  <2>1. IsFiniteSet(1..n) /\ Cardinality(1..n) = n
    BY <1>1, FS_Interval
  <2>2. q \in Injection(1..n, S)
    BY <1>3 DEF Injection
  <2> HIDE DEF q
  <2> QED BY <2>1, <2>2, FS_Injection
<1>5. \A t \in S : \E i \in 1..n : q[i] = t
  BY <1>4 DEF Surjection
<1> HIDE DEF q
<1>6. q \in Seq(S) /\ ToSet(q) = S
  BY <1>1, <1>3, <1>5 DEF ToSet
<1> QED BY <1>3, <1>6 DEF q

LEMMA OrdersAre ==
  ASSUME NEW S \in SUBSET All, NEW q \in Orders(S)
  PROVE  q \in Seq(All) /\ ToSet(q) = S
<1>1. Cardinality(S) \in Nat
  BY ProcsAssumption, FS_Subset, FS_CardinalityType DEF All
<1> QED BY <1>1 DEF Orders

LEMMA TailIs ==
  ASSUME NEW S, NEW q \in Seq(S), q # <<>>
  PROVE  /\ Head(q) \in S /\ Tail(q) \in Seq(S) /\ DOMAIN Tail(q) = 1..(Len(q) - 1)
         /\ DOMAIN q = 1..Len(q) /\ Len(q) \in Nat \ {0} /\ Head(q) = q[1]
         /\ \A i \in DOMAIN Tail(q) : i + 1 \in DOMAIN q /\ Tail(q)[i] = q[i + 1]
  OBVIOUS

------------------------------------------------------------------------------
(* Requests that go on                                                      *)

LEMMA IdleIs == Idle \in Job
  BY DEF Idle, Job, Kinds, Args, All

LEMMA IdleGood == ASSUME NEW ds PROVE Good(ds, Idle)
<1>1. Idle \in Job
  BY IdleIs
<1>2. \A p \in Procs : Idle.copy[p] = None
  BY DEF Idle
<1> QED BY <1>1, <1>2 DEF Good, Argued, Listed, Copied, Rolling, Listing, Idle

\* Another request has written p.
LEMMA StaleGood ==
  ASSUME NEW ds, NEW ds2, NEW j, Good(ds, j), NEW p \in All, \A q \in Procs \ {p} : ds2[q] = ds[q]
  PROVE  Good(ds2, [j EXCEPT !.fresh[p] = FALSE])
<1> DEFINE g == [j EXCEPT !.fresh[p] = FALSE]
<1>1. /\ g \in Job /\ g.kind = j.kind /\ g.queue = j.queue /\ g.read = j.read /\ g.copy = j.copy
      /\ g.build = j.build /\ g.env = j.env /\ g.args = j.args /\ g.resource = j.resource
      /\ ~ g.fresh[p] /\ \A q \in All \ {p} : g.fresh[q] = j.fresh[q]
  BY DEF Good, Job
<1>2. Argued(j) /\ Listed(j) /\ Copied(ds, j) /\ j.queue \in Seq(All)
  BY DEF Good, Job
<1> HIDE DEF g
<1>3. Argued(g) /\ Listed(g)
  BY <1>1, <1>2 DEF Argued, Listed, Rolling, Listing
<1>4. Copied(ds2, g)
  <2>1. ASSUME Rolling(g), g.queue # <<>>, g.read, Head(g.queue) \in Procs, g.fresh[Head(g.queue)]
        PROVE  g.copy[Head(g.queue)] = ds2[Head(g.queue)]
    BY <1>1, <1>2, <2>1 DEF Copied, Rolling, All
  <2>2. ASSUME Listing(g), NEW i \in DOMAIN g.queue, g.fresh[g.queue[i]], i > 1 \/ g.read
        PROVE  g.copy[g.queue[i]] = ds2[g.queue[i]]
    BY <1>1, <1>2, <2>2 DEF Copied, Listed, Listing, All
  <2> QED BY <2>1, <2>2 DEF Copied
<1> QED BY <1>1, <1>3, <1>4 DEF Good, g

\* The request has written, or skipped, the first process of its queue.
LEMMA AdvanceGood ==
  ASSUME NEW ds, NEW ds2, NEW j, Good(ds, j), j.queue # <<>>, j.kind # "idle",
         \A q \in Procs \ {Head(j.queue)} : ds2[q] = ds[q]
  PROVE  Good(ds2, Advance(j))
<1>1. CASE Len(j.queue) = 1 /\ j.kind # "delete"
  BY <1>1, IdleGood DEF Advance
<1>2. CASE ~ (Len(j.queue) = 1 /\ j.kind # "delete")
  <2> DEFINE g == [j EXCEPT !.queue = Tail(@), !.read = j.kind \notin {"deploy", "scale"}]
  <2>1. j \in Job /\ Argued(j) /\ Listed(j) /\ Copied(ds, j) /\ j.queue \in Seq(All)
    BY DEF Good, Job
  <2>2. /\ Head(j.queue) \in All /\ Tail(j.queue) \in Seq(All) /\ Head(j.queue) = j.queue[1] /\ 1 \in DOMAIN j.queue
        /\ \A i \in DOMAIN Tail(j.queue) :
             /\ i + 1 \in DOMAIN j.queue /\ i + 1 > 1 /\ i \in Nat /\ i + 1 # 1
             /\ Tail(j.queue)[i] = j.queue[i + 1]
    BY <2>1, TailIs
  <2>3. /\ g \in Job /\ g.kind = j.kind /\ g.queue = Tail(j.queue) /\ g.copy = j.copy /\ g.fresh = j.fresh
        /\ g.build = j.build /\ g.env = j.env /\ g.args = j.args /\ g.resource = j.resource
        /\ g.read = (j.kind \notin {"deploy", "scale"})
    BY <2>1, <2>2 DEF Job
  <2> HIDE DEF g
  <2>4. Argued(g)
    BY <2>1, <2>2, <2>3 DEF Argued, Rolling
  <2>5. Listing(g) => \A i \in DOMAIN g.queue : g.queue[i] # Head(j.queue)
    BY <2>1, <2>2, <2>3 DEF Listed, Listing, IsInjective
  <2>6. Listed(g)
    <3>1. ASSUME Listing(g), NEW a \in DOMAIN g.queue, NEW b \in DOMAIN g.queue, g.queue[a] = g.queue[b]
          PROVE  a = b
      <4>1. a + 1 = b + 1
        BY <2>1, <2>2, <2>3, <3>1 DEF Listed, Listing, IsInjective
      <4> QED BY <2>2, <2>3, <4>1
    <3>2. Listing(g) => \A i \in DOMAIN g.queue : g.queue[i] \in Procs
      BY <2>1, <2>2, <2>3 DEF Listed, Listing
    <3> QED BY <2>3, <3>1, <3>2 DEF Listed, IsInjective
  <2>7. Copied(ds2, g)
    <3>1. ~ (Rolling(g) /\ g.read)
      BY <2>3 DEF Rolling
    <3>2. ASSUME Listing(g), NEW i \in DOMAIN g.queue, g.fresh[g.queue[i]]
          PROVE  g.copy[g.queue[i]] = ds2[g.queue[i]]
      <4>1. g.queue[i] = j.queue[i + 1] /\ i + 1 \in DOMAIN j.queue /\ i + 1 > 1 /\ g.queue[i] \in Procs
        BY <2>2, <2>3, <2>6, <3>2 DEF Listed
      <4>2. j.copy[j.queue[i + 1]] = ds[j.queue[i + 1]]
        BY <2>1, <2>3, <3>2, <4>1 DEF Copied, Listing
      <4> QED BY <2>3, <2>5, <3>2, <4>1, <4>2
    <3> QED BY <3>1, <3>2 DEF Copied
  <2>8. Good(ds2, g)
    BY <2>3, <2>4, <2>6, <2>7 DEF Good
  <2> QED BY <1>2, <2>8 DEF Advance, g
<1> QED BY <1>1, <1>2

------------------------------------------------------------------------------
(* Steps                                                                    *)

LEMMA JobPrimed ==
  ASSUME DOMAIN job' = Handlers, \A h \in Handlers : Good(deployments', job'[h])
  PROVE  JobInv'
  BY DEF JobInv, Good, Argued, Listed, Copied, Rolling, Listing

\* Nothing but what request h holds changes.
LEMMA SetGood ==
  ASSUME Inv, NEW h \in Handlers, NEW j, Set(h, j), Good(deployments, j), UNCHANGED <<deployments, crons>>
  PROVE  Inv'
<1>1. DOMAIN job' = Handlers /\ \A k \in Handlers : Good(deployments', job'[k])
  BY DEF Inv, JobInv, Set
<1>2. TableInv'
  BY DEF Inv, TableInv
<1> QED BY <1>1, <1>2, JobPrimed DEF Inv

LEMMA ReturnGood ==
  ASSUME Inv, NEW h \in Handlers, Return(h), UNCHANGED <<deployments, crons>>
  PROVE  Inv'
  BY IdleGood, SetGood DEF Return

\* A request is busy with the first process of its queue.
Busy(h) == ~ At(h, "idle") /\ job[h].queue # <<>>

LEMMA BusyIs ==
  ASSUME Inv, NEW h \in Handlers, Busy(h)
  PROVE  /\ Good(deployments, job[h]) /\ job[h] \in Job /\ Current(h) \in All /\ job[h].queue \in Seq(All)
         /\ Current(h) = job[h].queue[1] /\ 1 \in DOMAIN job[h].queue
<1>1. Good(deployments, job[h]) /\ job[h] \in Job /\ job[h].queue \in Seq(All)
  BY DEF Inv, JobInv, Good, Job
<1> QED BY <1>1, TailIs DEF Busy, Current

LEMMA WrittenGood ==
  ASSUME Inv, NEW h \in Handlers, Busy(h), Written(h, Current(h)), TableInv',
         \A q \in Procs \ {Current(h)} : deployments'[q] = deployments[q]
  PROVE  Inv'
<1> DEFINE p == Current(h)
<1>1. \A k \in Handlers : job'[k] = IF k = h THEN Advance(job[h]) ELSE [job[k] EXCEPT !.fresh[p] = FALSE]
  BY DEF Written
<1>2. Good(deployments', Advance(job[h]))
  BY BusyIs, AdvanceGood DEF Busy, At, Current
<1>3. \A k \in Handlers : Good(deployments', [job[k] EXCEPT !.fresh[p] = FALSE])
  <2>1. p \in All /\ \A q \in Procs \ {p} : deployments'[q] = deployments[q]
    BY BusyIs
  <2>2. \A k \in Handlers : Good(deployments, job[k])
    BY DEF Inv, JobInv
  <2> HIDE DEF p
  <2> QED BY <2>1, <2>2, StaleGood
<1>4. DOMAIN job' = Handlers
  BY DEF Written
<1> QED BY <1>1, <1>2, <1>3, <1>4, JobPrimed DEF Inv

LEMMA PutGood ==
  ASSUME Inv, NEW h \in Handlers, Busy(h), Current(h) \in Procs, NEW d \in Deployment \cup {None},
         Put(h, Current(h), d) \/ Create(h, Current(h), d), UNCHANGED crons
  PROVE  Inv'
<1>1. CASE UNCHANGED deployments /\ Return(h)
  BY <1>1, ReturnGood
<1>2. CASE deployments' = [deployments EXCEPT ![Current(h)] = d] /\ Written(h, Current(h))
  <2>1. TableInv' /\ \A q \in Procs \ {Current(h)} : deployments'[q] = deployments[q]
    BY <1>2 DEF Inv, TableInv
  <2> QED BY <1>2, <2>1, WrittenGood
<1> QED BY <1>1, <1>2 DEF Put, Create

\* What a request may begin with.
LEMMA BeginGood ==
  ASSUME Inv, NEW h \in Handlers, NEW j, Begin(h, j), Good(deployments, j)
  PROVE  Inv'
<1> DEFINE others == {k \in Handlers \ {h} : ~ At(k, "idle")}
<1>1. /\ job' = [k \in Handlers |->
                   IF k = h THEN [j EXCEPT !.alone = others = {}] ELSE [job[k] EXCEPT !.alone = FALSE]]
      /\ UNCHANGED <<deployments, crons>>
  BY DEF Begin
<1>2. ASSUME NEW r, NEW a \in BOOLEAN, Good(deployments, r)
      PROVE  Good(deployments, [r EXCEPT !.alone = a])
  <2> DEFINE g == [r EXCEPT !.alone = a]
  <2>1. /\ g \in Job /\ g.kind = r.kind /\ g.queue = r.queue /\ g.read = r.read /\ g.copy = r.copy
        /\ g.build = r.build /\ g.env = r.env /\ g.args = r.args /\ g.resource = r.resource /\ g.fresh = r.fresh
    BY <1>2 DEF Good, Job
  <2> HIDE DEF g
  <2>2. Good(deployments, g)
    BY <1>2, <2>1 DEF Good, Argued, Listed, Copied, Rolling, Listing
  <2> QED BY <2>2 DEF g
<1>3. (others = {}) \in BOOLEAN
  OBVIOUS
<1> HIDE DEF others
<1>4. \A k \in Handlers : Good(deployments', job'[k])
  BY <1>1, <1>2, <1>3 DEF Inv, JobInv
<1>5. TableInv' /\ DOMAIN job' = Handlers
  BY <1>1 DEF Inv, TableInv
<1> QED BY <1>4, <1>5, JobPrimed DEF Inv

LEMMA DeployGood ==
  ASSUME Inv, NEW h \in Handlers, NEW b \in Builds, NEW e \in Envs, Deploy(h, b, e)
  PROVE  Inv'
<1>1. PICK cs \in SUBSET {p \in CronProcs : crons[p] # None} :
        LET ps == ToUpdate(b, cs)
            first == GetDefaultProctype(b)
        IN Begin(h, [Idle EXCEPT !.kind = "deploy", !.build = b, !.env = e,
                                 !.queue = <<first>> \o SetToSeq(ps \ {first})])
  BY DEF Deploy
<1> DEFINE first == GetDefaultProctype(b)
           rest == ToUpdate(b, cs) \ {first}
           q == <<first>> \o SetToSeq(rest)
           g == [Idle EXCEPT !.kind = "deploy", !.build = b, !.env = e, !.queue = q]
<1>2. first \in Procs /\ rest \subseteq All
  BY ProcsAssumption DEF ToUpdate, ProcessList, Running, All
<1>3. SetToSeq(rest) \in Seq(All)
  <2> HIDE DEF rest
  <2>1. IsFiniteSet(rest)
    BY <1>2, ProcsAssumption, FS_Subset DEF All
  <2> QED BY <1>2, <2>1, SetToSeqIs
<1>4. q \in Seq(All)
  BY <1>2, <1>3 DEF All
<1> HIDE DEF q
<1>5. g \in Job /\ g.kind = "deploy" /\ g.build = b /\ g.env = e /\ ~ g.read /\ \A p \in Procs : g.copy[p] = None
  BY <1>4 DEF Idle, Job, Kinds, Args, All
<1> HIDE DEF g
<1>6. Good(deployments, g)
  BY <1>5 DEF Good, Argued, Listed, Copied, Rolling, Listing
<1> QED BY <1>1, <1>6, BeginGood DEF g, q

LEMMA OptionsAre ==
  ASSUME NEW S, NEW V, NEW c \in FlagsToOptions(S, V)
  PROVE  DOMAIN c \subseteq S /\ c \in [DOMAIN c -> V]
  BY DEF FlagsToOptions

LEMMA SaveProcessIs ==
  ASSUME NEW c \in SaveProcess
  PROVE  DOMAIN c \subseteq All /\ c \in [DOMAIN c -> 0..MaxReplicas]
<1>1. CASE c \in cmdAppScale
  BY <1>1, OptionsAre DEF cmdAppScale, All
<1>2. CASE c \in cmdAppStart \cup cmdAppStop
  <2>1. PICK q \in All, n \in {0, 1} : c = [p \in {q} |-> n]
    BY <1>2 DEF cmdAppStart, cmdAppStop, All
  <2>2. n \in 0..MaxReplicas
    BY ProcsAssumption
  <2>3. DOMAIN c = {q} /\ c[q] = n
    BY <2>1
  <2> QED BY <2>1, <2>2, <2>3
<1> QED BY <1>1, <1>2 DEF SaveProcess

LEMMA ArgsAre ==
  ASSUME NEW c, DOMAIN c \subseteq All,
         c \in [DOMAIN c -> 0..MaxReplicas] \/ c \in [DOMAIN c -> Limits \cup {NoLimit}]
  PROVE  c \in Args
<1>1. c \in [DOMAIN c -> (0..MaxReplicas) \cup Limits \cup {NoLimit}]
  OBVIOUS
<1> QED BY <1>1 DEF Args

LEMMA ScaleGood ==
  ASSUME Inv, NEW h \in Handlers, ProcessSave(h)
  PROVE  Inv'
<1>1. PICK b \in Builds, e \in Envs, c \in SaveProcess : Scale(h, c, b, e)
  BY DEF ProcessSave
<1>2. PICK q \in Orders(DOMAIN c) :
        Begin(h, [Idle EXCEPT !.kind = "scale", !.build = b, !.env = e, !.args = c, !.queue = q])
  BY <1>1 DEF Scale
<1>3. DOMAIN c \subseteq All /\ c \in Args /\ \A p \in DOMAIN c : c[p] \in 0..MaxReplicas
  BY SaveProcessIs, ArgsAre
<1>4. q \in Seq(All) /\ \A i \in DOMAIN q : q[i] \in DOMAIN c
  BY <1>3, OrdersAre DEF ToSet
<1> DEFINE g == [Idle EXCEPT !.kind = "scale", !.build = b, !.env = e, !.args = c, !.queue = q]
<1>5. /\ g \in Job /\ g.kind = "scale" /\ g.build = b /\ g.env = e /\ ~ g.read /\ g.args = c /\ g.queue = q
      /\ \A p \in Procs : g.copy[p] = None
  BY <1>3, <1>4 DEF Idle, Job, Kinds, All
<1> HIDE DEF g
<1>6. Good(deployments, g)
  BY <1>3, <1>4, <1>5 DEF Good, Argued, Listed, Copied, Rolling, Listing
<1> QED BY <1>2, <1>6, BeginGood DEF g

\* Requests that list first.
LEMMA ListGood ==
  ASSUME Inv, NEW h \in Handlers, NEW j \in Job, List(h, j), Listing(j),
         j.kind = "limit" =>
           j.resource \in Resources /\ \A p \in DOMAIN j.args : j.args[p] \in Limits \cup {NoLimit},
         j.kind = "restart" => j.env \in Envs
  PROVE  Inv'
<1> DEFINE ps == {p \in Procs : deployments[p] # None}
           copy == [p \in All |-> IF p \in ps THEN deployments[p] ELSE None]
           fresh == [p \in All |-> p \in ps]
           q == SetToSeq(ps)
           g == [j EXCEPT !.queue = q, !.read = TRUE, !.copy = copy, !.fresh = fresh]
<1>1. Begin(h, g)
  BY DEF List, All
<1>2. q \in Seq(ps) /\ IsInjective(q)
  <2>1. IsFiniteSet(ps)
    BY ProcsAssumption, FS_Subset
  <2> HIDE DEF ps
  <2> QED BY <2>1, SetToSeqIs
<1>3. q \in Seq(All) /\ \A i \in DOMAIN q : q[i] \in ps
  <2>1. ps \subseteq All
    BY DEF All
  <2> HIDE DEF ps, q
  <2> QED BY <1>2, <2>1
<1>4. copy \in [All -> Deployment \cup CronJob \cup {None}] /\ fresh \in [All -> BOOLEAN]
      /\ \A p \in Procs : copy[p] \in Deployment \cup {None}
  BY DEF Inv, TableInv, All
<1>5. \A p \in ps : copy[p] = deployments[p] /\ p \in Procs
  BY DEF All
<1> HIDE DEF q, copy, fresh, ps
<1>6. /\ g \in Job /\ g.kind = j.kind /\ g.resource = j.resource /\ g.args = j.args /\ g.env = j.env
      /\ g.queue = q /\ g.read /\ g.copy = copy
  BY <1>3, <1>4 DEF Job
<1> HIDE DEF g
<1>7. Argued(g)
  BY <1>4, <1>6 DEF Argued, Listing, Rolling
<1>8. Listed(g) /\ Copied(deployments, g)
  BY <1>2, <1>3, <1>5, <1>6 DEF Listed, Copied, Listing, Rolling
<1>9. Good(deployments, g)
  BY <1>6, <1>7, <1>8 DEF Good
<1> QED BY <1>1, <1>9, BeginGood

LEMMA RequestGood ==
  ASSUME Inv, NEW h \in Handlers, Request(h)
  PROVE  Inv'
<1>1. ASSUME NEW r \in Resources, NEW c, SetLimits(h, r, c), c \in Args,
             \A p \in DOMAIN c : c[p] \in Limits \cup {NoLimit}
      PROVE  Inv'
  <2> DEFINE g == [Idle EXCEPT !.kind = "limit", !.resource = r, !.args = c]
  <2>1. g \in Job /\ g.kind = "limit" /\ g.resource = r /\ g.args = c
    BY <1>1, IdleIs DEF Job, Kinds
  <2>2. List(h, g)
    BY <1>1 DEF SetLimits
  <2> HIDE DEF g
  <2> QED BY <1>1, <2>1, <2>2, ListGood DEF Listing
<1>2. ASSUME NEW e \in Envs, Restart(h, e) PROVE Inv'
  <2> DEFINE g == [Idle EXCEPT !.kind = "restart", !.env = e]
  <2>1. g \in Job /\ g.kind = "restart" /\ g.env = e
    BY IdleIs DEF Job, Kinds
  <2>2. List(h, g)
    BY <1>2 DEF Restart
  <2> HIDE DEF g
  <2> QED BY <2>1, <2>2, ListGood DEF Listing
<1>3. ASSUME Delete(h) PROVE Inv'
  <2> DEFINE g == [Idle EXCEPT !.kind = "delete"]
  <2>1. g \in Job /\ g.kind = "delete"
    BY IdleIs DEF Job, Kinds
  <2>2. List(h, g) \/ Begin(h, g)
    BY <1>3 DEF Delete, Unlisted
  <2>3. Good(deployments, g)
    BY <2>1 DEF Idle, Good, Argued, Listed, Copied, Rolling, Listing, IsInjective
  <2> HIDE DEF g
  <2> QED BY <2>1, <2>2, <2>3, ListGood, BeginGood DEF Listing
<1>4. ASSUME cmdLimitsSet(h) \/ cmdLimitsUnSet(h) PROVE Inv'
  <2>1. PICK u \in BOOLEAN : \E args \in parseResourceArgs(u) : SetLimits(h, args[1], args[2])
    BY <1>4 DEF cmdLimitsSet, cmdLimitsUnSet
  <2>2. PICK args \in parseResourceArgs(u) : SetLimits(h, args[1], args[2])
    BY <2>1
  <2> DEFINE V == IF u THEN {NoLimit} ELSE Limits \cup {NoLimit}
  <2>3. args[1] \in Resources /\ args[2] \in FlagsToOptions(Procs, V)
    BY DEF parseResourceArgs
  <2>4. DOMAIN args[2] \subseteq All /\ args[2] \in [DOMAIN args[2] -> Limits \cup {NoLimit}]
    BY <2>3, OptionsAre DEF All
  <2> QED BY <1>1, <2>2, <2>3, <2>4, ArgsAre
<1> QED BY <1>2, <1>3, <1>4, DeployGood, ScaleGood DEF Request

------------------------------------------------------------------------------
(* Writes                                                                   *)

LEMMA BusyWhen ==
  ASSUME NEW h \in Handlers,
         Rolls(h) \/ Writes(h, "limit") \/ Writes(h, "restart") \/ Writes(h, "delete")
  PROVE  Busy(h)
  BY DEF Rolls, Writes, Busy, At

LEMMA ReadGood ==
  ASSUME Inv, NEW h \in Handlers, Rolls(h), NEW object \in Deployment \cup CronJob \cup {None},
         Current(h) \in Procs => object = deployments[Current(h)],
         Read(h, Current(h), object), UNCHANGED <<deployments, crons>>
  PROVE  Inv'
<1> DEFINE p == Current(h)
           j == job[h]
           g == [j EXCEPT !.read = TRUE, !.copy[p] = object, !.fresh[p] = TRUE]
<1>1. Good(deployments, j) /\ j \in Job /\ p \in All /\ p = Head(j.queue) /\ Rolling(j)
  BY BusyWhen, BusyIs DEF Current, Rolls, Rolling, At
<1>2. /\ g \in Job /\ g.kind = j.kind /\ g.queue = j.queue /\ g.build = j.build /\ g.env = j.env
      /\ g.args = j.args /\ g.resource = j.resource /\ g.copy[p] = object
      /\ \A q \in All \ {p} : g.copy[q] = j.copy[q]
  BY <1>1 DEF Job
<1> HIDE DEF g
<1>3. Argued(g)
  <2>1. \A q \in Procs : g.copy[q] \in Deployment \cup {None}
    BY <1>1, <1>2 DEF Good, Argued, Inv, TableInv, All
  <2> QED BY <1>1, <1>2, <2>1 DEF Good, Argued, Rolling
<1>4. Listed(g) /\ Copied(deployments, g)
  BY <1>1, <1>2 DEF Listed, Copied, Rolling, Listing
<1>5. Good(deployments, g) /\ Set(h, g)
  BY <1>2, <1>3, <1>4 DEF Good, Read, g
<1> QED BY <1>5, SetGood

\* The Deployments requests write.
LEMMA NewDeploymentIs ==
  ASSUME Inv, NEW h \in Handlers, Rolls(h)
  PROVE  /\ Replicas(h) \in (0..MaxReplicas) \cup {None}
         /\ NewDeployment(h) \in Deployment
         /\ \A old \in Deployment : Redeployed(h, old) \in Deployment
<1>1. /\ Good(deployments, job[h]) /\ job[h] \in Job /\ Rolling(job[h])
      /\ Current(h) = job[h].queue[1] /\ 1 \in DOMAIN job[h].queue
  BY BusyWhen, BusyIs DEF Rolls, Rolling, At
<1>2. job[h].build \in Builds /\ job[h].env \in Envs /\ Replicas(h) \in (0..MaxReplicas) \cup {None}
  BY <1>1 DEF Good, Argued, Replicas, At
<1>3. NewDeployment(h) \in Deployment
  BY <1>2, ProcsAssumption, NoneIsNothing DEF NewDeployment, Deployment
<1>4. ASSUME NEW old \in Deployment PROVE Redeployed(h, old) \in Deployment
  <2>1. old.limits \in [Resources -> Limits \cup {NoLimit}] /\ old.replicas \in 0..MaxReplicas
    BY DEF Deployment
  <2>2. NewDeployment(h).replicas \in 0..MaxReplicas
    BY <1>3 DEF Deployment
  <2> QED BY <1>3, <2>1, <2>2, NoneIsNothing, <1>2 DEF Redeployed, Deployment
<1> QED BY <1>2, <1>3, <1>4

LEMMA RollGood ==
  ASSUME Inv, NEW h \in Handlers, GetDeployment(h) \/ CreateOrUpdateDeployment(h)
  PROVE  Inv'
<1>1. CASE GetDeployment(h)
  <2>1. deployments[Current(h)] \in Deployment \cup CronJob \cup {None}
    BY <1>1 DEF GetDeployment, Inv, TableInv
  <2> QED BY <1>1, <2>1, ReadGood DEF GetDeployment
<1>2. CASE CreateOrUpdateDeployment(h)
  <2> DEFINE p == Current(h)
             old == job[h].copy[p]
  <2>1. Rolls(h) /\ Busy(h) /\ p \in Procs /\ UNCHANGED crons /\ old \in Deployment \cup {None}
    BY <1>2, BusyWhen, BusyIs DEF CreateOrUpdateDeployment, Good, Argued
  <2>2. CASE old = None
    <3>1. Create(h, p, NewDeployment(h)) /\ NewDeployment(h) \in Deployment \cup {None}
      BY <1>2, <2>1, <2>2, NewDeploymentIs DEF CreateOrUpdateDeployment
    <3> QED BY <2>1, <3>1, PutGood
  <2>3. CASE old # None
    <3>1. Put(h, p, Redeployed(h, old)) /\ Redeployed(h, old) \in Deployment \cup {None}
      BY <1>2, <2>1, <2>3, NewDeploymentIs DEF CreateOrUpdateDeployment
    <3> QED BY <2>1, <3>1, PutGood
  <2> QED BY <2>2, <2>3
<1> QED BY <1>1, <1>2

LEMMA CronGood ==
  ASSUME Inv, NEW h \in Handlers, CreateCronJob(h) \/ UpdateCronJob(h) \/ DeleteCronJob(h)
  PROVE  Inv'
<1> DEFINE p == Current(h)
<1>1. Rolls(h) /\ Busy(h) /\ p \in CronProcs /\ p \notin Procs /\ UNCHANGED deployments
  BY BusyWhen, ProcsAssumption DEF CreateCronJob, UpdateCronJob, DeleteCronJob
<1>2. NewCronJob(h) \in CronJob
  <2>1. job[h].build \in Builds /\ job[h].env \in Envs
    BY <1>1, BusyIs DEF Good, Argued, Rolls, Rolling, At
  <2> QED BY <1>1, <2>1, NewDeploymentIs DEF NewCronJob, CronJob
<1>3. ASSUME NEW cj \in CronJob \cup {None}, crons' = [crons EXCEPT ![p] = cj], Written(h, p)
      PROVE  Inv'
  <2>1. TableInv'
    BY <1>1, <1>3 DEF Inv, TableInv
  <2> QED BY <1>1, <1>3, <2>1, WrittenGood
<1>4. UNCHANGED crons /\ Return(h) => Inv'
  BY <1>1, ReturnGood
<1>5. UNCHANGED crons /\ Read(h, p, crons[p]) => Inv'
  <2>1. crons[p] \in Deployment \cup CronJob \cup {None}
    BY <1>1 DEF Inv, TableInv
  <2> QED BY <1>1, <2>1, ReadGood
<1> QED BY <1>2, <1>3, <1>4, <1>5 DEF CreateCronJob, UpdateCronJob, DeleteCronJob

\* Merging limits.
LEMMA MergeIs ==
  ASSUME NEW limits \in [Resources -> Limits \cup {NoLimit}], NEW r \in Resources,
         NEW l \in Limits \cup {NoLimit}
  PROVE  mergeResourceConstraints(limits, r, l) \in [Resources -> Limits \cup {NoLimit}]
  BY DEF mergeResourceConstraints

LEMMA LimitGood ==
  ASSUME Inv, NEW h \in Handlers, UpdateLimits(h)
  PROVE  Inv'
<1> DEFINE p == Current(h)
           d == job[h].copy[p]
           n == [d EXCEPT !.limits = mergeResourceConstraints(@, job[h].resource, job[h].args[p])]
<1>1. /\ Busy(h) /\ Good(deployments, job[h]) /\ p = job[h].queue[1] /\ 1 \in DOMAIN job[h].queue
      /\ At(h, "limit") /\ UNCHANGED crons
  BY BusyWhen, BusyIs DEF UpdateLimits, Writes
<1>2. p \in Procs /\ d \in Deployment \cup {None}
  BY <1>1 DEF Good, Listed, Listing, Argued, At
<1>3. CASE p \in DOMAIN job[h].args
  <2>1. job[h].resource \in Resources /\ job[h].args[p] \in Limits \cup {NoLimit}
    BY <1>1, <1>3 DEF Good, Argued, At
  <2>2. Put(h, p, n)
    BY <1>3 DEF UpdateLimits
  <2>3. CASE d # None
    <3>1. n \in Deployment
      BY <1>2, <2>1, <2>3, MergeIs DEF Deployment
    <3> HIDE DEF n
    <3> QED BY <1>1, <1>2, <2>2, <3>1, PutGood
  <2>4. CASE d = None
    <3>1. ~ (deployments[p] # None /\ job[h].fresh[p])
      BY <1>1, <2>4 DEF Good, Listed, Copied, Listing, At
    <3>2. Return(h) /\ UNCHANGED deployments
      BY <2>2, <3>1 DEF Put
    <3> QED BY <1>1, <3>2, ReturnGood
  <2> QED BY <2>3, <2>4
<1>4. CASE p \notin DOMAIN job[h].args
  <2>1. Set(h, Advance(job[h])) /\ UNCHANGED deployments
    BY <1>4 DEF UpdateLimits
  <2>2. Good(deployments, Advance(job[h]))
    BY <1>1, AdvanceGood DEF Busy, At
  <2> QED BY <1>1, <2>1, <2>2, SetGood
<1> QED BY <1>3, <1>4

LEMMA EnvGood ==
  ASSUME Inv, NEW h \in Handlers, UpdateEnv(h)
  PROVE  Inv'
<1> DEFINE p == Current(h)
           d == job[h].copy[p]
           n == [d EXCEPT !.env = job[h].env]
<1>1. /\ Busy(h) /\ Good(deployments, job[h]) /\ p = job[h].queue[1] /\ 1 \in DOMAIN job[h].queue
      /\ At(h, "restart") /\ UNCHANGED crons /\ Put(h, p, n)
  BY BusyWhen, BusyIs DEF UpdateEnv, Writes
<1>2. p \in Procs /\ d \in Deployment \cup {None} /\ job[h].env \in Envs
  BY <1>1 DEF Good, Listed, Listing, Argued, At
<1>3. CASE d # None
  <2>1. n \in Deployment
    BY <1>2, <1>3 DEF Deployment
  <2> HIDE DEF n
  <2> QED BY <1>1, <1>2, <2>1, PutGood
<1>4. CASE d = None
  <2>1. ~ (deployments[p] # None /\ job[h].fresh[p])
    BY <1>1, <1>4 DEF Good, Listed, Copied, Listing, At
  <2>2. Return(h) /\ UNCHANGED deployments
    BY <1>1, <2>1 DEF Put
  <2> QED BY <1>1, <2>2, ReturnGood
<1> QED BY <1>3, <1>4

LEMMA ScaleDownGood ==
  ASSUME Inv, NEW h \in Handlers, ScaleDown(h)
  PROVE  Inv'
<1> DEFINE p == Current(h)
           j == job[h]
           n == [j.copy[p] EXCEPT !.replicas = 0]
           g == [j EXCEPT !.read = FALSE]
<1>1. /\ Busy(h) /\ Good(deployments, j) /\ j \in Job /\ p = j.queue[1] /\ 1 \in DOMAIN j.queue
      /\ j.kind = "delete" /\ j.read /\ UNCHANGED crons /\ j.queue \in Seq(All)
  BY BusyWhen, BusyIs DEF ScaleDown, Writes, At
<1>2. p \in Procs /\ j.copy[p] \in Deployment \cup {None}
  BY <1>1 DEF Good, Listed, Listing, Argued
<1>3. CASE UNCHANGED deployments /\ Return(h)
  BY <1>1, <1>3, ReturnGood
<1>4. CASE /\ deployments[p] # None /\ j.fresh[p]
           /\ deployments' = [deployments EXCEPT ![p] = n]
           /\ job' = [k \in Handlers |-> IF k = h THEN g ELSE [job[k] EXCEPT !.fresh[p] = FALSE]]
  <2>1. j.copy[p] = deployments[p]
    BY <1>1, <1>4 DEF Good, Copied, Listing
  <2>2. n \in Deployment
    BY <1>2, <1>4, <2>1, ProcsAssumption DEF Deployment
  <2> HIDE DEF n
  <2>3. TableInv' /\ \A q \in Procs \ {p} : deployments'[q] = deployments[q]
    BY <1>1, <1>4, <2>2 DEF Inv, TableInv
  <2>4. \A k \in Handlers : Good(deployments', [job[k] EXCEPT !.fresh[p] = FALSE])
    BY <1>2, <2>3, StaleGood DEF Inv, JobInv, All
  <2>5. /\ g \in Job /\ g.kind = j.kind /\ g.queue = j.queue /\ ~ g.read /\ g.copy = j.copy /\ g.fresh = j.fresh
    BY <1>1 DEF Job
  <2> HIDE DEF g
  <2>6. Argued(g) /\ Listed(g)
    BY <1>1, <2>5 DEF Good, Argued, Listed, Rolling, Listing
  <2>7. \A i \in DOMAIN j.queue : i > 1 => j.queue[i] # p /\ j.queue[i] \in Procs
    BY <1>1 DEF Good, Listed, Listing, IsInjective
  <2>8. Copied(deployments', g)
    BY <1>1, <2>3, <2>5, <2>7 DEF Good, Copied, Rolling, Listing
  <2>9. Good(deployments', g)
    BY <2>5, <2>6, <2>8 DEF Good
  <2>10. DOMAIN job' = Handlers /\ \A k \in Handlers : Good(deployments', job'[k])
    BY <1>4, <2>4, <2>9
  <2> QED BY <2>3, <2>10, JobPrimed DEF Inv
<1> QED BY <1>1, <1>3, <1>4 DEF ScaleDown

LEMMA DeleteGood ==
  ASSUME Inv, NEW h \in Handlers, DeleteDeployment(h)
  PROVE  Inv'
<1> DEFINE p == Current(h)
<1>1. Busy(h) /\ p \in Procs /\ UNCHANGED crons
  BY BusyWhen, BusyIs DEF DeleteDeployment, Writes, At, Good, Listed, Listing
<1>2. CASE UNCHANGED deployments /\ Return(h)
  BY <1>1, <1>2, ReturnGood
<1>3. CASE deployments' = [deployments EXCEPT ![p] = None] /\ Written(h, p)
  <2>1. TableInv' /\ \A q \in Procs \ {p} : deployments'[q] = deployments[q]
    BY <1>1, <1>3 DEF Inv, TableInv
  <2> QED BY <1>1, <1>3, <2>1, WrittenGood
<1> QED BY <1>2, <1>3 DEF DeleteDeployment

LEMMA FinishGood ==
  ASSUME Inv, NEW h \in Handlers, Finish(h) \/ Fail(h)
  PROVE  Inv'
<1>1. CASE Fail(h)
  BY <1>1, ReturnGood DEF Fail
<1>2. CASE Finish(h)
  <2>1. TableInv'
    BY <1>2 DEF Finish, Inv, TableInv
  <2>2. DOMAIN job' = Handlers /\ \A k \in Handlers : Good(deployments', job'[k])
    BY <1>2, IdleGood DEF Finish, Return, Set, Inv, JobInv
  <2> QED BY <2>1, <2>2, JobPrimed DEF Inv
<1> QED BY <1>1, <1>2

LEMMA InitGood == Init => Inv
<1> SUFFICES ASSUME Init PROVE Inv
  OBVIOUS
<1>1. TableInv /\ DOMAIN job = Handlers
  BY DEF Init, TableInv
<1>2. \A h \in Handlers : Good(deployments, job[h])
  BY IdleGood DEF Init
<1> QED BY <1>1, <1>2 DEF Inv, JobInv

LEMMA NextGood == Inv /\ [Next]_vars => Inv'
<1> SUFFICES ASSUME Inv, [Next]_vars PROVE Inv'
  OBVIOUS
<1>1. ASSUME NEW h \in Handlers, Step(h) PROVE Inv'
  BY <1>1, RollGood, CronGood, LimitGood, EnvGood, ScaleDownGood, DeleteGood, FinishGood DEF Step
<1>2. ASSUME NEW h \in Handlers, Request(h) PROVE Inv'
  BY <1>2, RequestGood
<1>3. CASE UNCHANGED vars
  BY <1>3 DEF vars, Inv, TableInv, JobInv, Good, Argued, Listed, Copied, Rolling, Listing
<1> QED BY <1>1, <1>2, <1>3 DEF Next

LEMMA Invariant == Spec => []Inv
  BY InitGood, NextGood, PTL DEF Spec

\* The objects in the cluster and what every request holds have their types.
THEOREM TypeCorrect == Spec => []TypeOK
<1>1. Inv => TypeOK
  BY DEF Inv, TableInv, JobInv, Good, Job, TypeOK, All
<1> QED BY <1>1, Invariant, PTL

------------------------------------------------------------------------------
(* What a step does to a Deployment: it writes the one that is there, not a *)
(* copy that has aged.                                                      *)

Writing(p, d) == p \in Procs /\ deployments' = [deployments EXCEPT ![p] = d]

Created(h, p) == Rolls(h) /\ deployments[p] = None /\ Writing(p, NewDeployment(h))
Renewed(h, p) == Rolls(h) /\ deployments[p] # None /\ Writing(p, Redeployed(h, deployments[p]))

Limited(h, p) ==
  /\ UpdateLimits(h) /\ p = Current(h) /\ deployments[p] # None
  /\ \E r \in Resources, l \in Limits \cup {NoLimit} :
       Writing(p, [deployments[p] EXCEPT !.limits = mergeResourceConstraints(@, r, l)])

Configured(p) ==
  deployments[p] # None /\ \E e \in Envs : Writing(p, [deployments[p] EXCEPT !.env = e])

Stopped(p) == deployments[p] # None /\ Writing(p, [deployments[p] EXCEPT !.replicas = 0])
Removed(p) == deployments[p] # None /\ Writing(p, None)

Changed(h, p) ==
  Created(h, p) \/ Renewed(h, p) \/ Limited(h, p) \/ Configured(p) \/ Stopped(p) \/ Removed(p)

LEMMA StepChanges ==
  ASSUME Inv, NEW h \in Handlers, Step(h)
  PROVE  UNCHANGED deployments \/ Changed(h, Current(h))
<1> DEFINE p == Current(h)
           old == job[h].copy[p]
<1>1. CASE CreateOrUpdateDeployment(h)
  <2>1. Rolls(h) /\ p \in Procs /\ job[h].read /\ Good(deployments, job[h]) /\ job[h].queue # <<>>
    BY <1>1, BusyWhen, BusyIs DEF CreateOrUpdateDeployment, Rolls
  <2>2. job[h].fresh[p] => old = deployments[p]
    BY <2>1 DEF Good, Copied, Rolling, Rolls, At, Current
  <2> QED BY <1>1, <2>1, <2>2 DEF CreateOrUpdateDeployment, Create, Put, Changed, Created, Renewed, Writing
<1>2. CASE UpdateLimits(h)
  <2>1. /\ Good(deployments, job[h]) /\ p = job[h].queue[1] /\ 1 \in DOMAIN job[h].queue /\ At(h, "limit")
    BY <1>2, BusyWhen, BusyIs DEF UpdateLimits, Writes
  <2>2. p \in Procs /\ (job[h].fresh[p] => old = deployments[p])
    BY <2>1 DEF Good, Listed, Copied, Listing, At
  <2>3. p \in DOMAIN job[h].args => job[h].resource \in Resources /\ job[h].args[p] \in Limits \cup {NoLimit}
    BY <2>1 DEF Good, Argued, At
  <2> QED BY <1>2, <2>2, <2>3 DEF UpdateLimits, Put, Changed, Limited, Writing
<1>3. CASE UpdateEnv(h)
  <2>1. /\ Good(deployments, job[h]) /\ p = job[h].queue[1] /\ 1 \in DOMAIN job[h].queue /\ At(h, "restart")
    BY <1>3, BusyWhen, BusyIs DEF UpdateEnv, Writes
  <2>2. p \in Procs /\ (job[h].fresh[p] => old = deployments[p]) /\ job[h].env \in Envs
    BY <2>1 DEF Good, Listed, Copied, Listing, At, Argued
  <2> QED BY <1>3, <2>2 DEF UpdateEnv, Put, Changed, Configured, Writing
<1>4. CASE ScaleDown(h)
  <2>1. /\ Good(deployments, job[h]) /\ p = job[h].queue[1] /\ 1 \in DOMAIN job[h].queue /\ At(h, "delete")
        /\ job[h].read
    BY <1>4, BusyWhen, BusyIs DEF ScaleDown, Writes
  <2>2. p \in Procs /\ (job[h].fresh[p] => old = deployments[p])
    BY <2>1 DEF Good, Listed, Copied, Listing, At
  <2> QED BY <1>4, <2>2 DEF ScaleDown, Changed, Stopped, Writing
<1>5. CASE DeleteDeployment(h)
  <2>1. /\ Good(deployments, job[h]) /\ p = job[h].queue[1] /\ 1 \in DOMAIN job[h].queue /\ At(h, "delete")
    BY <1>5, BusyWhen, BusyIs DEF DeleteDeployment, Writes
  <2>2. p \in Procs
    BY <2>1 DEF Good, Listed, Listing, At
  <2> QED BY <1>5, <2>2 DEF DeleteDeployment, Changed, Removed, Writing
<1> QED BY <1>1, <1>2, <1>3, <1>4, <1>5
       DEF Step, GetDeployment, CreateCronJob, UpdateCronJob, DeleteCronJob, Finish, Fail

LEMMA NextChanges ==
  ASSUME Inv, [Next]_vars
  PROVE  UNCHANGED deployments \/ \E h \in Handlers, p \in Procs : Changed(h, p)
<1>1. ASSUME NEW h \in Handlers, Step(h)
      PROVE  UNCHANGED deployments \/ \E p \in Procs : Changed(h, p)
  <2>1. Changed(h, Current(h)) => Current(h) \in Procs
    BY DEF Changed, Created, Renewed, Limited, Configured, Stopped, Removed, Writing
  <2> QED BY <1>1, <2>1, StepChanges
<1>2. ASSUME NEW h \in Handlers, Request(h) PROVE UNCHANGED deployments
  BY <1>2 DEF Request, Deploy, ProcessSave, Scale, cmdLimitsSet, cmdLimitsUnSet, SetLimits, Restart, Delete,
              Unlisted, List, Begin
<1> QED BY <1>1, <1>2 DEF Next, vars

\* However requests overlap, deploys and scaling keep the limits of a
\* Deployment that is there.
THEOREM LimitsAreKept == Spec => LimitsPersist
<1>1. ASSUME Inv, [Next]_vars, NEW p \in Procs, deployments[p] # None, deployments'[p] # None,
             deployments'[p].limits # deployments[p].limits
      PROVE  \E h \in Handlers : UpdateLimits(h) /\ Current(h) = p
  <2>1. PICK h \in Handlers, q \in Procs : Changed(h, q)
    BY <1>1, NextChanges
  <2>2. deployments[p] \in Deployment
    BY <1>1 DEF Inv, TableInv
  <2>3. q = p
    BY <1>1, <2>1 DEF Changed, Created, Renewed, Limited, Configured, Stopped, Removed, Writing, Inv, TableInv
  <2>4. ~ Created(h, p) /\ ~ Removed(p)
    BY <1>1 DEF Created, Removed, Writing, Inv, TableInv
  <2>5. ~ Configured(p) /\ ~ Stopped(p)
    BY <1>1, <2>2 DEF Configured, Stopped, Writing, Deployment, Inv, TableInv
  <2>6. ~ Renewed(h, p)
    BY <1>1, <2>2 DEF Renewed, Writing, Redeployed, NewDeployment, Deployment, Inv, TableInv
  <2> QED BY <2>1, <2>3, <2>4, <2>5, <2>6 DEF Changed, Limited
<1>2. Inv /\ [Next]_vars =>
        [\A p \in Procs :
           deployments[p] # None /\ deployments'[p] # None
             /\ deployments'[p].limits # deployments[p].limits =>
               \E h \in Handlers : UpdateLimits(h) /\ Current(h) = p]_vars
  BY <1>1
<1> QED BY <1>2, Invariant, PTL DEF Spec, LimitsPersist

------------------------------------------------------------------------------
(* The table of processes                                                   *)

Entries(ds) ==
  [p \in Procs |->
     IF ds[p] = None THEN None
     ELSE [build |-> ds[p].build, env |-> ds[p].env, replicas |-> ds[p].replicas, limits |-> ds[p].limits]]

LEMMA EntriesAre == ASSUME NEW ds \in [Procs -> Deployment \cup {None}] PROVE Entries(ds) = ds
<1>1. \A p \in Procs : Entries(ds)[p] = ds[p]
  BY DEF Entries, Deployment
<1> QED BY <1>1 DEF Entries

\* Deployments as the requests change them.
LEMMA RenewedIs ==
  ASSUME NEW h, NEW d \in Deployment
  PROVE  Redeployed(h, d) =
           [build |-> job[h].build, env |-> job[h].env,
            replicas |-> IF Replicas(h) = None THEN d.replicas ELSE Replicas(h), limits |-> d.limits]
<1> DEFINE n == IF Replicas(h) = None THEN d.replicas ELSE Replicas(h)
<1>1. Redeployed(h, d) \in [build : {job[h].build}, env : {job[h].env}, replicas : {n}, limits : {d.limits}]
  BY DEF Redeployed, NewDeployment
<1> HIDE DEF n
<1>2. Redeployed(h, d) = [build |-> job[h].build, env |-> job[h].env, replicas |-> n, limits |-> d.limits]
  BY <1>1
<1> QED BY <1>2 DEF n

\* The entry of a process is created, or given a build.
LEMMA TableSteps ==
  ASSUME NEW p \in Procs, NEW b \in Builds, NEW e \in Envs,
         Table!Release(p, b, e) \/ \E n \in 0..MaxReplicas : Table!Start(p, b, e, n) \/ Table!Scale(p, b, e, n)
  PROVE  Table!Next
<1>1. \E c \in Builds, f \in Envs :
        Table!Release(p, c, f) \/ \E n \in 0..MaxReplicas : Table!Start(p, c, f, n) \/ Table!Scale(p, c, f, n)
  OBVIOUS
<1> QED BY <1>1 DEF Table!Next

LEMMA TableChanges ==
  ASSUME Inv, NEW h \in Handlers, NEW p \in Procs, Changed(h, p),
         Entries(deployments) = deployments, Entries(deployments') = deployments'
  PROVE  Table!Next
<1>1. deployments[p] \in Deployment \cup {None} /\ deployments \in [Procs -> Deployment \cup {None}]
  BY DEF Inv, TableInv
<1>2. Rolls(h) => /\ job[h].build \in Builds /\ job[h].env \in Envs
                  /\ Replicas(h) \in (0..MaxReplicas) \cup {None}
  BY BusyWhen, BusyIs, NewDeploymentIs DEF Good, Argued, Rolls, Rolling, At
<1>3. CASE Created(h, p)
  <2>1. (IF Replicas(h) = None THEN 1 ELSE Replicas(h)) \in 0..MaxReplicas
    BY <1>2, <1>3, ProcsAssumption DEF Created
  <2>2. PICK b \in Builds, e \in Envs, n \in 0..MaxReplicas :
          b = job[h].build /\ e = job[h].env /\ n = IF Replicas(h) = None THEN 1 ELSE Replicas(h)
    BY <1>2, <1>3, <2>1 DEF Created
  <2>3. Table!Start(p, b, e, n)
    BY <1>3, <2>2 DEF Created, Writing, NewDeployment, Table!Start, Table!Present, Entries
  <2> QED BY <2>3, TableSteps
<1>4. CASE Renewed(h, p)
  <2> PICK d \in Deployment : d = deployments[p]
    BY <1>1, <1>4 DEF Renewed
  <2>1. /\ d = deployments[p] /\ d # None /\ d.replicas \in 0..MaxReplicas
        /\ deployments' = [deployments EXCEPT ![p] = Redeployed(h, d)]
    BY <1>1, <1>4 DEF Renewed, Writing, Deployment
  <2>2. (IF Replicas(h) = None THEN d.replicas ELSE Replicas(h)) \in 0..MaxReplicas
    BY <1>2, <1>4, <2>1 DEF Renewed
  <2>3. PICK b \in Builds, e \in Envs, n \in 0..MaxReplicas :
          b = job[h].build /\ e = job[h].env /\ n = IF Replicas(h) = None THEN d.replicas ELSE Replicas(h)
    BY <1>2, <1>4, <2>2 DEF Renewed
  <2>4. Redeployed(h, d) = [build |-> b, env |-> e, replicas |-> n, limits |-> d.limits]
    BY <2>1, <2>3, RenewedIs
  <2>5. Redeployed(h, d) = [d EXCEPT !.build = b, !.env = e, !.replicas = n]
    <3> DEFINE r == [d EXCEPT !.build = b, !.env = e, !.replicas = n]
    <3>1. r \in [build : {b}, env : {e}, replicas : {n}, limits : {d.limits}]
      BY <2>1 DEF Deployment
    <3> HIDE DEF r
    <3>2. r = [build |-> b, env |-> e, replicas |-> n, limits |-> d.limits]
      BY <3>1
    <3> QED BY <2>4, <3>2 DEF r
  <2>6. CASE Replicas(h) = None
    <3>1. Redeployed(h, d) = [d EXCEPT !.build = b, !.env = e]
      <4>1. [d EXCEPT !.build = b, !.env = e] = [d EXCEPT !.build = b, !.env = e, !.replicas = d.replicas]
        BY <2>1 DEF Deployment
      <4> QED BY <2>3, <2>5, <2>6, <4>1
    <3>2. deployments' = [deployments EXCEPT ![p].build = b, ![p].env = e]
      BY <1>1, <2>1, <3>1
    <3>3. Table!Release(p, b, e)
      BY <2>1, <3>2 DEF Table!Release, Table!Present, Entries
    <3> QED BY <3>3, TableSteps
  <2>7. CASE Replicas(h) # None
    <3>1. deployments' = [deployments EXCEPT ![p].build = b, ![p].env = e, ![p].replicas = n]
      BY <1>1, <2>1, <2>5
    <3>2. Table!Scale(p, b, e, n)
      BY <2>1, <3>1 DEF Table!Scale, Table!Present, Entries
    <3> QED BY <3>2, TableSteps
  <2> QED BY <2>6, <2>7
<1>5. CASE Limited(h, p)
  <2>1. PICK r \in Resources, l \in Limits \cup {NoLimit} :
          Writing(p, [deployments[p] EXCEPT !.limits = mergeResourceConstraints(@, r, l)])
    BY <1>5 DEF Limited
  <2>2. deployments[p] \in Deployment
    BY <1>1, <1>5 DEF Limited
  <2>3. CASE l = NoLimit
    <3>1. Table!Unlimit(p, r)
      BY <1>1, <1>5, <2>1, <2>2, <2>3
         DEF Limited, Writing, Deployment, mergeResourceConstraints, Table!Unlimit, Table!Present, Entries
    <3> QED BY <3>1 DEF Table!Next
  <2>4. CASE l # NoLimit
    <3>1. Table!SetLimit(p, r, l)
      BY <1>1, <1>5, <2>1, <2>2, <2>4
         DEF Limited, Writing, Deployment, mergeResourceConstraints, Table!SetLimit, Table!Present, Entries
    <3> QED BY <2>4, <3>1 DEF Table!Next
  <2> QED BY <2>3, <2>4
<1>6. CASE Configured(p)
  <2>1. PICK f \in Envs : Writing(p, [deployments[p] EXCEPT !.env = f])
    BY <1>6 DEF Configured
  <2>2. Table!Configure(p, f)
    BY <1>1, <1>6, <2>1 DEF Configured, Writing, Table!Configure, Table!Present, Entries
  <2> QED BY <2>2 DEF Table!Next
<1>7. CASE Stopped(p)
  <2>1. Table!Stop(p)
    BY <1>1, <1>7 DEF Stopped, Writing, Table!Stop, Table!Present, Entries
  <2> QED BY <2>1 DEF Table!Next
<1>8. CASE Removed(p)
  <2>1. Table!Remove(p)
    BY <1>1, <1>8 DEF Removed, Writing, Table!Remove, Table!Present, Entries
  <2> QED BY <2>1 DEF Table!Next
<1> QED BY <1>3, <1>4, <1>5, <1>6, <1>7, <1>8 DEF Changed

\* Whatever overlaps, every write is one atomic change of the entry of one
\* process as it is: the requests implement the table of processes.
THEOREM TableImplemented == Spec => ImplementsTable
<1>1. Init => Table!Init
  BY DEF Init, Table!Init
<1>2. Inv /\ Inv' /\ [Next]_vars => [Table!Next]_(Entries(deployments))
  <2> SUFFICES ASSUME Inv, Inv', [Next]_vars PROVE Table!Next \/ Entries(deployments') = Entries(deployments)
    BY DEF Entries
  <2>1. Entries(deployments) = deployments /\ Entries(deployments') = deployments'
    BY EntriesAre DEF Inv, TableInv
  <2> QED BY <2>1, NextChanges, TableChanges
<1>3. Inv /\ Inv' /\ [Next]_vars => [Table!Next]_([p \in Procs |->
        IF deployments[p] = None THEN None
        ELSE [build |-> deployments[p].build, env |-> deployments[p].env,
              replicas |-> deployments[p].replicas, limits |-> deployments[p].limits]])
  BY <1>2 DEF Entries
<1> QED BY <1>1, <1>3, Invariant, PTL DEF Spec, ImplementsTable, Table!Spec

------------------------------------------------------------------------------
(* Requests that nobody overlaps                                            *)

\* The processes a deploy must reach, as the Deployments are.
Targets(ds, b) ==
  {GetDefaultProctype(b)} \cup ({p \in Procs : ds[p] # None /\ ds[p].replicas > 0} \ {Web, Cmd})

\* Each of them is still in its queue, or done.
Reaching(ds, j) ==
  j.kind = "deploy" /\ j.alone =>
    \A p \in Targets(ds, j.build) :
      p \in ToSet(j.queue) \/ (ds[p] # None /\ ds[p].build = j.build /\ ds[p].env = j.env)

\* What a delete has not deleted is in its queue; when its list has failed the
\* queue is empty and nothing is read.
Deleting(ds, j) ==
  j.kind = "delete" /\ j.alone /\ (j.queue # <<>> \/ j.read) =>
    \A p \in Procs : ds[p] # None => p \in ToSet(j.queue)

AloneInv ==
  /\ \A h \in Handlers : job[h].alone => \A k \in Handlers \ {h} : At(k, "idle")
  /\ \A h \in Handlers : Reaching(deployments, job[h]) /\ Deleting(deployments, job[h])

LEMMA StepsBusy == ASSUME NEW h \in Handlers, Step(h) PROVE ~ At(h, "idle")
  BY DEF Step, GetDeployment, CreateOrUpdateDeployment, CreateCronJob, UpdateCronJob, DeleteCronJob,
         UpdateLimits, UpdateEnv, ScaleDown, DeleteDeployment, Finish, Fail, Rolls, Writes, At

LEMMA TailSet ==
  ASSUME NEW S, NEW q \in Seq(S), q # <<>>
  PROVE  \A x \in ToSet(q) : x = Head(q) \/ x \in ToSet(Tail(q))
<1> SUFFICES ASSUME NEW i \in DOMAIN q, i # 1 PROVE q[i] \in ToSet(Tail(q))
  BY TailIs DEF ToSet
<1>1. i - 1 \in DOMAIN Tail(q) /\ Tail(q)[i - 1] = q[i]
  OBVIOUS
<1> QED BY <1>1 DEF ToSet

\* A request has nobody with it while it is alone, so only its own step matters.
LEMMA AloneStep ==
  ASSUME Inv, AloneInv, NEW h \in Handlers, Step(h), DOMAIN job' = Handlers,
         \A k \in Handlers \ {h} : job'[k].alone = job[k].alone /\ job'[k].kind = job[k].kind,
         job'[h].alone => job[h].alone,
         Reaching(deployments', job'[h]) /\ Deleting(deployments', job'[h])
  PROVE  AloneInv'
<1>1. \A k \in Handlers \ {h} : ~ job'[k].alone
  BY StepsBusy DEF AloneInv
<1>2. \A k \in Handlers : job'[k].alone => \A m \in Handlers \ {k} : job'[m].kind = "idle"
  BY <1>1 DEF AloneInv, At
<1>3. \A k \in Handlers : Reaching(deployments', job'[k]) /\ Deleting(deployments', job'[k])
  BY <1>1 DEF Reaching, Deleting
<1> QED BY <1>2, <1>3 DEF AloneInv, At, Reaching, Deleting, Targets

\* Steps by which the request ends, or reads.
LEMMA AloneSet ==
  ASSUME Inv, AloneInv, NEW h \in Handlers, Step(h), NEW j, Set(h, j), UNCHANGED deployments,
         \/ j = Idle
         \/ /\ j.alone = job[h].alone /\ j.kind = job[h].kind /\ j.queue = job[h].queue
            /\ j.build = job[h].build /\ j.env = job[h].env /\ ~ At(h, "delete")
  PROVE  AloneInv'
<1>1. DOMAIN job' = Handlers /\ job'[h] = j /\ \A k \in Handlers \ {h} : job'[k] = job[k]
  BY DEF Set, Inv, JobInv
<1>2. ~ Idle.alone /\ Idle.kind = "idle"
  BY DEF Idle
<1>3. Reaching(deployments', j) /\ Deleting(deployments', j)
  BY <1>2 DEF AloneInv, Reaching, Deleting, At
<1> QED BY <1>1, <1>2, <1>3, AloneStep

\* Steps by which it writes the first process of its queue, or skips it.
LEMMA AloneAdvance ==
  ASSUME Inv, AloneInv, NEW h \in Handlers, Step(h), Busy(h), DOMAIN job' = Handlers,
         job'[h] = Advance(job[h]),
         \A k \in Handlers \ {h} : job'[k].alone = job[k].alone /\ job'[k].kind = job[k].kind,
         \A q \in Procs \ {Current(h)} : deployments'[q] = deployments[q],
         At(h, "deploy") /\ Current(h) \in Procs =>
           LET d == deployments'[Current(h)]
           IN  d # None /\ d.build = job[h].build /\ d.env = job[h].env,
         At(h, "delete") => deployments'[Current(h)] = None
  PROVE  AloneInv'
<1> DEFINE j == job[h]
           g == [j EXCEPT !.queue = Tail(@), !.read = j.kind \notin {"deploy", "scale"}]
<1>1. j \in Job /\ j.queue \in Seq(All) /\ j.queue # <<>>
  BY BusyIs DEF Busy
<1>2. ~ Idle.alone /\ Idle.kind = "idle"
  BY DEF Idle
<1>3. CASE Advance(j) = Idle
  BY <1>2, <1>3, AloneStep DEF Reaching, Deleting
<1>4. CASE Advance(j) = g
  <2>1. /\ g.kind = j.kind /\ g.alone = j.alone /\ g.build = j.build /\ g.env = j.env
        /\ g.queue = Tail(j.queue)
    BY <1>1 DEF Job
  <2>2. \A x \in ToSet(j.queue) : x = Current(h) \/ x \in ToSet(Tail(j.queue))
    BY <1>1, TailSet DEF Current
  <2> HIDE DEF g
  <2>3. ASSUME j.kind = "deploy", j.alone, NEW p \in Targets(deployments', j.build)
        PROVE  \/ p \in ToSet(g.queue)
               \/ deployments'[p] # None /\ deployments'[p].build = j.build /\ deployments'[p].env = j.env
    <3>1. j.build \in Builds /\ p \in Procs
      BY <2>3, BusyIs, ProcsAssumption DEF Targets, Good, Argued, Rolling
    <3>2. CASE p = Current(h)
      BY <2>3, <3>1, <3>2 DEF At
    <3>3. CASE p # Current(h)
      <4>1. p \in Targets(deployments, j.build)
        BY <2>3, <3>1, <3>3 DEF Targets
      <4> QED BY <2>1, <2>2, <2>3, <3>1, <3>3, <4>1 DEF AloneInv, Reaching
    <3> QED BY <3>2, <3>3
  <2>4. ASSUME j.kind = "delete", j.alone, NEW p \in Procs, deployments'[p] # None
        PROVE  p \in ToSet(g.queue)
    BY <1>1, <2>1, <2>2, <2>4 DEF AloneInv, Deleting, At
  <2>5. Reaching(deployments', g) /\ Deleting(deployments', g)
    BY <2>1, <2>3, <2>4 DEF Reaching, Deleting
  <2> QED BY <1>4, <2>1, <2>5, AloneStep
<1> QED BY <1>3, <1>4 DEF Advance

LEMMA WrittenIs ==
  ASSUME Inv, NEW h \in Handlers, NEW p \in All, Written(h, p)
  PROVE  /\ DOMAIN job' = Handlers /\ job'[h] = Advance(job[h])
         /\ \A k \in Handlers \ {h} : job'[k].alone = job[k].alone /\ job'[k].kind = job[k].kind
<1>1. \A k \in Handlers : job[k] \in Job
  BY DEF Inv, JobInv, Good
<1> QED BY <1>1 DEF Written, Job

LEMMA AloneDeploy ==
  ASSUME Inv, AloneInv, NEW h \in Handlers, Step(h),
         GetDeployment(h) \/ CreateOrUpdateDeployment(h)
  PROVE  AloneInv'
<1>1. job[h] \in Job /\ Busy(h) /\ Rolls(h) /\ Current(h) \in Procs /\ Current(h) \in All
  BY BusyWhen, BusyIs DEF GetDeployment, CreateOrUpdateDeployment, All
<1>2. CASE GetDeployment(h)
  <2> DEFINE j == [job[h] EXCEPT !.read = TRUE, !.copy[Current(h)] = deployments[Current(h)],
                                 !.fresh[Current(h)] = TRUE]
  <2>1. Set(h, j) /\ UNCHANGED deployments
    BY <1>2 DEF GetDeployment, Read
  <2>2. /\ j.alone = job[h].alone /\ j.kind = job[h].kind /\ j.queue = job[h].queue
        /\ j.build = job[h].build /\ j.env = job[h].env
    BY <1>1 DEF Job
  <2> HIDE DEF j
  <2> QED BY <1>1, <2>1, <2>2, AloneSet DEF Rolls, At
<1>3. CASE CreateOrUpdateDeployment(h)
  <2>1. CASE UNCHANGED deployments /\ Return(h)
    BY <2>1, AloneSet DEF Return
  <2>2. ASSUME NEW d, d.build = job[h].build, d.env = job[h].env, d \in Deployment,
               deployments' = [deployments EXCEPT ![Current(h)] = d], Written(h, Current(h))
        PROVE  AloneInv'
    <3>1. /\ deployments'[Current(h)] = d /\ d # None
          /\ \A q \in Procs \ {Current(h)} : deployments'[q] = deployments[q]
      BY <1>1, <2>2, NoneIsNothing DEF Inv, TableInv
    <3> QED BY <1>1, <2>2, <3>1, WrittenIs, AloneAdvance DEF Rolls, At
  <2> DEFINE old == job[h].copy[Current(h)]
  <2>3. CASE old = None
    <3>1. NewDeployment(h).build = job[h].build /\ NewDeployment(h).env = job[h].env /\ NewDeployment(h) \in Deployment
      BY <1>1, NewDeploymentIs DEF NewDeployment
    <3> QED BY <1>3, <2>1, <2>2, <2>3, <3>1 DEF CreateOrUpdateDeployment, Create
  <2>4. CASE old # None
    <3>1. old \in Deployment
      BY <1>1, <2>4, BusyIs DEF Good, Argued
    <3>2. /\ Redeployed(h, old).build = job[h].build /\ Redeployed(h, old).env = job[h].env
          /\ Redeployed(h, old) \in Deployment
      BY <1>1, <3>1, NewDeploymentIs DEF Redeployed, NewDeployment
    <3> QED BY <1>3, <2>1, <2>2, <2>4, <3>2 DEF CreateOrUpdateDeployment, Put
  <2> QED BY <2>3, <2>4
<1> QED BY <1>2, <1>3

LEMMA AloneCron ==
  ASSUME Inv, AloneInv, NEW h \in Handlers, Step(h),
         CreateCronJob(h) \/ UpdateCronJob(h) \/ DeleteCronJob(h)
  PROVE  AloneInv'
<1>1. /\ job[h] \in Job /\ Busy(h) /\ Rolls(h) /\ Current(h) \in CronProcs /\ Current(h) \notin Procs
      /\ Current(h) \in All /\ UNCHANGED deployments
  BY BusyWhen, BusyIs, ProcsAssumption DEF CreateCronJob, UpdateCronJob, DeleteCronJob
<1>2. CASE Return(h)
  BY <1>1, <1>2, AloneSet DEF Return
<1>3. CASE Written(h, Current(h))
  BY <1>1, <1>3, WrittenIs, AloneAdvance DEF Rolls, At
<1>4. CASE Read(h, Current(h), crons[Current(h)])
  <2> DEFINE j == [job[h] EXCEPT !.read = TRUE, !.copy[Current(h)] = crons[Current(h)],
                                 !.fresh[Current(h)] = TRUE]
  <2>1. Set(h, j)
    BY <1>4 DEF Read
  <2>2. /\ j.alone = job[h].alone /\ j.kind = job[h].kind /\ j.queue = job[h].queue
        /\ j.build = job[h].build /\ j.env = job[h].env
    BY <1>1 DEF Job
  <2> HIDE DEF j
  <2> QED BY <1>1, <2>1, <2>2, AloneSet DEF Rolls, At
<1> QED BY <1>2, <1>3, <1>4 DEF CreateCronJob, UpdateCronJob, DeleteCronJob

LEMMA AloneListed ==
  ASSUME Inv, AloneInv, NEW h \in Handlers, Step(h), UpdateLimits(h) \/ UpdateEnv(h)
  PROVE  AloneInv'
<1>1. job[h] \in Job /\ Busy(h) /\ (At(h, "limit") \/ At(h, "restart")) /\ Current(h) \in All
  BY BusyWhen, BusyIs DEF UpdateLimits, UpdateEnv, Writes
<1>2. CASE Return(h) /\ UNCHANGED deployments
  BY <1>2, AloneSet DEF Return
<1>3. CASE Set(h, Advance(job[h])) /\ UNCHANGED deployments
  <2>1. DOMAIN job' = Handlers /\ job'[h] = Advance(job[h]) /\ \A k \in Handlers \ {h} : job'[k] = job[k]
    BY <1>3 DEF Set, Inv, JobInv
  <2> QED BY <1>1, <1>3, <2>1, AloneAdvance DEF At
<1>4. CASE Written(h, Current(h)) /\ \E d : deployments' = [deployments EXCEPT ![Current(h)] = d]
  <2>1. \A q \in Procs \ {Current(h)} : deployments'[q] = deployments[q]
    BY <1>4 DEF Inv, TableInv
  <2> QED BY <1>1, <1>4, <2>1, WrittenIs, AloneAdvance DEF At
<1> QED BY <1>2, <1>3, <1>4 DEF UpdateLimits, UpdateEnv, Put

LEMMA AloneDelete ==
  ASSUME Inv, AloneInv, NEW h \in Handlers, Step(h), ScaleDown(h) \/ DeleteDeployment(h)
  PROVE  AloneInv'
<1>1. /\ job[h] \in Job /\ Busy(h) /\ At(h, "delete") /\ Current(h) \in All /\ Current(h) \in Procs
      /\ Good(deployments, job[h])
  BY BusyWhen, BusyIs DEF ScaleDown, DeleteDeployment, Writes, Good, Listed, Listing, At
<1>2. CASE Return(h) /\ UNCHANGED deployments
  BY <1>2, AloneSet DEF Return
<1>3. CASE Written(h, Current(h)) /\ deployments' = [deployments EXCEPT ![Current(h)] = None]
  <2>1. deployments'[Current(h)] = None /\ \A q \in Procs \ {Current(h)} : deployments'[q] = deployments[q]
    BY <1>1, <1>3 DEF Inv, TableInv
  <2> QED BY <1>1, <1>3, <2>1, WrittenIs, AloneAdvance DEF At
<1>4. CASE /\ ScaleDown(h) /\ deployments[Current(h)] # None
           /\ deployments' = [deployments EXCEPT ![Current(h)] = [job[h].copy[Current(h)] EXCEPT !.replicas = 0]]
           /\ job' = [k \in Handlers |-> IF k = h THEN [job[h] EXCEPT !.read = FALSE]
                                         ELSE [job[k] EXCEPT !.fresh[Current(h)] = FALSE]]
  <2>1. \A k \in Handlers : job[k] \in Job
    BY DEF Inv, JobInv, Good
  <2>2. /\ DOMAIN job' = Handlers
        /\ \A k \in Handlers \ {h} : job'[k].alone = job[k].alone /\ job'[k].kind = job[k].kind
        /\ job'[h].alone = job[h].alone /\ job'[h].kind = "delete" /\ job'[h].queue = job[h].queue
    BY <1>1, <1>4, <2>1 DEF Job, At
  <2>3. \A q \in Procs : deployments'[q] # None => deployments[q] # None
    BY <1>1, <1>4 DEF Inv, TableInv
  <2>4. Reaching(deployments', job'[h]) /\ Deleting(deployments', job'[h])
    BY <1>1, <2>2, <2>3 DEF AloneInv, Reaching, Deleting, At, Busy
  <2> QED BY <2>2, <2>4, AloneStep
<1> QED BY <1>2, <1>3, <1>4 DEF ScaleDown, DeleteDeployment

LEMMA AloneBegin ==
  ASSUME Inv, AloneInv, NEW h \in Handlers, NEW j \in Job, Begin(h, j), ~ j.alone,
         Reaching(deployments, [j EXCEPT !.alone = TRUE]), Deleting(deployments, [j EXCEPT !.alone = TRUE])
  PROVE  AloneInv'
<1> DEFINE others == {k \in Handlers \ {h} : ~ At(k, "idle")}
<1>1. /\ job' = [k \in Handlers |->
                   IF k = h THEN [j EXCEPT !.alone = others = {}] ELSE [job[k] EXCEPT !.alone = FALSE]]
      /\ UNCHANGED deployments
  BY DEF Begin
<1>2. \A k \in Handlers : job[k] \in Job
  BY DEF Inv, JobInv, Good
<1>3. \A k \in Handlers \ {h} : ~ job'[k].alone /\ job'[k].kind = job[k].kind
  BY <1>1, <1>2 DEF Job
<1>4. job'[h].alone => others = {} /\ job'[h] = [j EXCEPT !.alone = TRUE]
  <2>1. job'[h] = [j EXCEPT !.alone = others = {}]
    BY <1>1
  <2>2. job'[h].alone = (others = {})
    BY <2>1 DEF Job
  <2> HIDE DEF others
  <2> QED BY <2>1, <2>2
<1>5. \A k \in Handlers : job'[k].alone => \A m \in Handlers \ {k} : job'[m].kind = "idle"
  BY <1>3, <1>4 DEF At
<1>6. Reaching(deployments', job'[h]) /\ Deleting(deployments', job'[h])
  BY <1>1, <1>4 DEF Reaching, Deleting
<1>7. \A k \in Handlers : Reaching(deployments', job'[k]) /\ Deleting(deployments', job'[k])
  BY <1>3, <1>6 DEF Reaching, Deleting
<1> QED BY <1>5, <1>7 DEF AloneInv, At, Reaching, Deleting, Targets

LEMMA AloneDeployBegins ==
  ASSUME Inv, AloneInv, NEW h \in Handlers, NEW b \in Builds, NEW e \in Envs, Deploy(h, b, e)
  PROVE  AloneInv'
<1>1. PICK cs \in SUBSET {p \in CronProcs : crons[p] # None} :
        LET ps == ToUpdate(b, cs)
            first == GetDefaultProctype(b)
        IN Begin(h, [Idle EXCEPT !.kind = "deploy", !.build = b, !.env = e,
                                 !.queue = <<first>> \o SetToSeq(ps \ {first})])
  BY DEF Deploy
<1> DEFINE first == GetDefaultProctype(b)
           rest == ToUpdate(b, cs) \ {first}
           q == <<first>> \o SetToSeq(rest)
           g == [Idle EXCEPT !.kind = "deploy", !.build = b, !.env = e, !.queue = q]
           a == [g EXCEPT !.alone = TRUE]
<1>2. first \in Procs /\ rest \subseteq All /\ first \in All
  BY ProcsAssumption DEF ToUpdate, ProcessList, Running, All
<1>3. SetToSeq(rest) \in Seq(All) /\ ToSet(SetToSeq(rest)) = rest
  <2> HIDE DEF rest
  <2>1. IsFiniteSet(rest)
    BY <1>2, ProcsAssumption, FS_Subset DEF All
  <2> QED BY <1>2, <2>1, SetToSeqIs
<1>4. q \in Seq(All) /\ \A p \in rest \cup {first} : p \in ToSet(q)
  <2> DEFINE s == SetToSeq(rest)
  <2> HIDE DEF s, rest, first
  <2>1. <<first>> \o s \in Seq(All) /\ s \in Seq(All)
    BY <1>2, <1>3 DEF s
  <2>2. first \in ToSet(<<first>> \o s)
    <3>1. 1 \in DOMAIN (<<first>> \o s) /\ (<<first>> \o s)[1] = first
      BY <2>1
    <3> QED BY <3>1 DEF ToSet
  <2>3. ASSUME NEW i \in DOMAIN s PROVE s[i] \in ToSet(<<first>> \o s)
    <3>1. i + 1 \in DOMAIN (<<first>> \o s) /\ (<<first>> \o s)[i + 1] = s[i]
      BY <2>1
    <3> QED BY <3>1 DEF ToSet
  <2>4. \A p \in ToSet(s) : p \in ToSet(<<first>> \o s)
    BY <2>3 DEF ToSet
  <2> QED BY <1>3, <2>1, <2>2, <2>4 DEF s
<1>5. Targets(deployments, b) \subseteq rest \cup {first}
  BY DEF Targets, ToUpdate, ProcessList, Running
<1> HIDE DEF q, rest, first
<1>6. g \in Job /\ ~ g.alone
  BY <1>4 DEF Idle, Job, Kinds, Args, All
<1>7. a.kind = "deploy" /\ a.build = b /\ a.queue = q
  BY DEF Idle
<1> HIDE DEF a
<1>8. Reaching(deployments, a) /\ Deleting(deployments, a)
  BY <1>4, <1>5, <1>7 DEF Reaching, Deleting
<1>9. Begin(h, g)
  BY <1>1 DEF q, rest, first
<1> HIDE DEF g
<1> QED BY <1>6, <1>8, <1>9, AloneBegin DEF a

LEMMA AloneScaleBegins ==
  ASSUME Inv, AloneInv, NEW h \in Handlers, ProcessSave(h)
  PROVE  AloneInv'
<1>1. PICK b \in Builds, e \in Envs, c \in SaveProcess : Scale(h, c, b, e)
  BY DEF ProcessSave
<1>2. PICK q \in Orders(DOMAIN c) :
        Begin(h, [Idle EXCEPT !.kind = "scale", !.build = b, !.env = e, !.args = c, !.queue = q])
  BY <1>1 DEF Scale
<1>3. DOMAIN c \subseteq All /\ c \in Args
  BY SaveProcessIs, ArgsAre
<1>4. q \in Seq(All)
  BY <1>3, OrdersAre
<1> DEFINE g == [Idle EXCEPT !.kind = "scale", !.build = b, !.env = e, !.args = c, !.queue = q]
           a == [g EXCEPT !.alone = TRUE]
<1>5. g \in Job /\ ~ g.alone /\ a.kind = "scale"
  BY <1>3, <1>4 DEF Idle, Job, Kinds, All
<1> HIDE DEF g
<1>6. Reaching(deployments, a) /\ Deleting(deployments, a)
  BY <1>5 DEF Reaching, Deleting
<1> QED BY <1>2, <1>5, <1>6, AloneBegin DEF g

LEMMA AloneListBegins ==
  ASSUME Inv, AloneInv, NEW h \in Handlers, NEW j \in Job, List(h, j), Listing(j), ~ j.alone
  PROVE  AloneInv'
<1> DEFINE ps == {p \in Procs : deployments[p] # None}
           copy == [p \in All |-> IF p \in ps THEN deployments[p] ELSE None]
           fresh == [p \in All |-> p \in ps]
           q == SetToSeq(ps)
           g == [j EXCEPT !.queue = q, !.read = TRUE, !.copy = copy, !.fresh = fresh]
           a == [g EXCEPT !.alone = TRUE]
<1>1. Begin(h, g)
  BY DEF List, All
<1>2. q \in Seq(All) /\ ToSet(q) = ps
  <2>1. IsFiniteSet(ps) /\ ps \subseteq All
    BY ProcsAssumption, FS_Subset DEF All
  <2> HIDE DEF ps
  <2>2. q \in Seq(ps) /\ ToSet(q) = ps
    BY <2>1, SetToSeqIs
  <2> HIDE DEF q
  <2> QED BY <2>1, <2>2
<1>3. copy \in [All -> Deployment \cup CronJob \cup {None}] /\ fresh \in [All -> BOOLEAN]
  BY DEF Inv, TableInv, All
<1>4. \A p \in Procs : deployments[p] # None => p \in ToSet(q)
  BY <1>2
<1> HIDE DEF q, copy, fresh, ps
<1>5. g \in Job /\ ~ g.alone /\ a.kind = j.kind /\ a.queue = q
  BY <1>2, <1>3 DEF Job
<1> HIDE DEF g, a
<1>6. Reaching(deployments, a) /\ Deleting(deployments, a)
  BY <1>4, <1>5 DEF Reaching, Deleting, Listing
<1> QED BY <1>1, <1>5, <1>6, AloneBegin DEF a

LEMMA AloneRequest ==
  ASSUME Inv, AloneInv, NEW h \in Handlers, Request(h)
  PROVE  AloneInv'
<1>1. ASSUME NEW r \in Resources, NEW c \in Args, SetLimits(h, r, c)
      PROVE  AloneInv'
  <2> DEFINE g == [Idle EXCEPT !.kind = "limit", !.resource = r, !.args = c]
  <2>1. g \in Job /\ g.kind = "limit" /\ ~ g.alone
    BY IdleIs DEF Job, Kinds, Idle
  <2>2. List(h, g)
    BY <1>1 DEF SetLimits
  <2> HIDE DEF g
  <2> QED BY <2>1, <2>2, AloneListBegins DEF Listing
<1>2. ASSUME NEW e \in Envs, Restart(h, e) PROVE AloneInv'
  <2> DEFINE g == [Idle EXCEPT !.kind = "restart", !.env = e]
  <2>1. g \in Job /\ g.kind = "restart" /\ ~ g.alone
    BY IdleIs DEF Job, Kinds, Idle
  <2>2. List(h, g)
    BY <1>2 DEF Restart
  <2> HIDE DEF g
  <2> QED BY <2>1, <2>2, AloneListBegins DEF Listing
<1>3. ASSUME Delete(h) PROVE AloneInv'
  <2> DEFINE g == [Idle EXCEPT !.kind = "delete"]
  <2>1. g \in Job /\ g.kind = "delete" /\ ~ g.alone
    BY IdleIs DEF Job, Kinds, Idle
  <2>2. List(h, g) \/ Begin(h, g)
    BY <1>3 DEF Delete, Unlisted
  <2> DEFINE a == [g EXCEPT !.alone = TRUE]
  <2>3. a.kind = "delete" /\ a.queue = <<>> /\ a.read = FALSE
    BY DEF Idle
  <2> HIDE DEF g, a
  <2>4. Reaching(deployments, a) /\ Deleting(deployments, a)
    BY <2>3 DEF Reaching, Deleting
  <2> QED BY <2>1, <2>2, <2>4, AloneListBegins, AloneBegin DEF Listing, a
<1>4. ASSUME cmdLimitsSet(h) \/ cmdLimitsUnSet(h) PROVE AloneInv'
  <2>1. PICK u \in BOOLEAN : \E args \in parseResourceArgs(u) : SetLimits(h, args[1], args[2])
    BY <1>4 DEF cmdLimitsSet, cmdLimitsUnSet
  <2>2. PICK args \in parseResourceArgs(u) : SetLimits(h, args[1], args[2])
    BY <2>1
  <2> DEFINE V == IF u THEN {NoLimit} ELSE Limits \cup {NoLimit}
  <2>3. args[1] \in Resources /\ args[2] \in FlagsToOptions(Procs, V)
    BY DEF parseResourceArgs
  <2>4. DOMAIN args[2] \subseteq All /\ args[2] \in [DOMAIN args[2] -> Limits \cup {NoLimit}]
    BY <2>3, OptionsAre DEF All
  <2> QED BY <1>1, <2>2, <2>3, <2>4, ArgsAre
<1> QED BY <1>2, <1>3, <1>4, AloneDeployBegins, AloneScaleBegins DEF Request

LEMMA AloneInit == Init => AloneInv
  BY DEF Init, AloneInv, Idle, Reaching, Deleting, At

LEMMA AloneNext == Inv /\ AloneInv /\ [Next]_vars => AloneInv'
<1> SUFFICES ASSUME Inv, AloneInv, [Next]_vars PROVE AloneInv'
  OBVIOUS
<1>1. ASSUME NEW h \in Handlers, Step(h) PROVE AloneInv'
  <2>1. CASE Finish(h) \/ Fail(h)
    BY <1>1, <2>1, AloneSet DEF Finish, Fail, Return
  <2> QED BY <1>1, <2>1, AloneDeploy, AloneCron, AloneListed, AloneDelete DEF Step
<1>2. ASSUME NEW h \in Handlers, Request(h) PROVE AloneInv'
  BY <1>2, AloneRequest
<1>3. CASE UNCHANGED vars
  BY <1>3 DEF vars, AloneInv, Reaching, Deleting, Targets, At
<1> QED BY <1>1, <1>2, <1>3 DEF Next

LEMMA AloneInvariant == Spec => [](Inv /\ AloneInv)
<1>1. Init => Inv /\ AloneInv
  BY InitGood, AloneInit
<1>2. Inv /\ AloneInv /\ [Next]_vars => (Inv /\ AloneInv)'
  BY NextGood, AloneNext
<1> QED BY <1>1, <1>2, PTL DEF Spec

\* While a request is alone, every step that changes an object is one of its.
LEMMA AloneActs ==
  ASSUME Inv, AloneInv, [Next]_vars, NEW h \in Handlers, job[h].alone,
         deployments' # deployments \/ crons' # crons
  PROVE  Step(h)
<1>1. PICK k \in Handlers : Request(k) \/ Step(k)
  BY DEF Next, vars
<1>2. ~ Request(k)
  BY DEF Request, Deploy, ProcessSave, Scale, cmdLimitsSet, cmdLimitsUnSet, SetLimits, Restart, Delete,
         Unlisted, List, Begin
<1>3. k = h
  BY <1>1, <1>2, StepsBusy DEF AloneInv
<1> QED BY <1>1, <1>2, <1>3

\* What a step of a deploy writes.
LEMMA DeployWrites ==
  ASSUME Inv, NEW h \in Handlers, Step(h), At(h, "deploy"), job[h].queue # <<>>
  PROVE  /\ \A q \in Procs \ {Current(h)} : deployments'[q] = deployments[q]
         /\ (deployments' # deployments \/ crons' # crons) /\ Current(h) \in Procs =>
              deployments'[Current(h)].build = job[h].build /\ deployments'[Current(h)].env = job[h].env
<1>1. job[h] \in Job /\ Busy(h) /\ Good(deployments, job[h]) /\ Current(h) \in All
  BY BusyIs DEF Busy, At
<1> DEFINE old == job[h].copy[Current(h)]
<1>2. CASE CreateOrUpdateDeployment(h)
  <2>1. /\ NewDeployment(h).build = job[h].build /\ NewDeployment(h).env = job[h].env
        /\ Redeployed(h, old).build = job[h].build /\ Redeployed(h, old).env = job[h].env
    BY DEF Redeployed, NewDeployment
  <2> QED BY <1>1, <1>2, <2>1 DEF CreateOrUpdateDeployment, Create, Put, Inv, TableInv
<1>3. CASE UNCHANGED deployments /\ (UNCHANGED crons \/ Current(h) \in CronProcs)
  BY <1>3, ProcsAssumption
<1> QED BY <1>2, <1>3
       DEF Step, GetDeployment, CreateCronJob, UpdateCronJob, DeleteCronJob, UpdateLimits, UpdateEnv,
           ScaleDown, DeleteDeployment, Finish, Fail, Writes, At

\* A deploy that nobody overlaps and that gets to its end has put its build and
\* environment in the process that serves requests and in every worker with pods.
THEOREM DeployReaches == Spec => DeployReachesAll
<1>1. ASSUME Inv, AloneInv, [Next]_vars, NEW h \in Handlers, Deployed(h)
      PROVE  /\ Updated(h, GetDefaultProctype(job[h].build))
             /\ \A p \in Running \ {Web, Cmd} : Updated(h, p)
  <2>1. /\ At(h, "deploy") /\ Len(job[h].queue) = 1 /\ job[h].alone
        /\ deployments' # deployments \/ crons' # crons
    BY <1>1 DEF Deployed
  <2>2. Step(h)
    BY <1>1, <2>1, AloneActs
  <2>3. job[h].queue # <<>> /\ job[h].queue \in Seq(All) /\ Good(deployments, job[h])
    <3>1. job[h].queue \in Seq(All) /\ Good(deployments, job[h])
      BY <1>1 DEF Inv, JobInv, Good, Job
    <3> QED BY <2>1, <3>1
  <2>4. \A p \in ToSet(job[h].queue) : p = Current(h)
    <3>1. ToSet(Tail(job[h].queue)) = {}
      BY <2>1, <2>3, TailIs DEF ToSet
    <3> QED BY <2>3, <3>1, TailSet DEF Current
  <2>5. ASSUME NEW p \in Targets(deployments, job[h].build) PROVE Updated(h, p)
    <3>1. p \in Procs
      BY <2>1, <2>3, ProcsAssumption DEF Targets, Good, Argued, Rolling, At
    <3>2. CASE p = Current(h)
      BY <1>1, <2>1, <2>2, <2>3, <3>1, <3>2, DeployWrites DEF Updated
    <3>3. CASE p # Current(h)
      <4>1. deployments[p].build = job[h].build /\ deployments[p].env = job[h].env
        BY <1>1, <2>1, <2>4, <3>3 DEF AloneInv, Reaching, At
      <4> QED BY <1>1, <2>1, <2>2, <2>3, <3>1, <3>3, <4>1, DeployWrites DEF Updated
    <3> QED BY <3>2, <3>3
  <2> QED BY <2>5 DEF Targets, Running
<1>2. Inv /\ AloneInv /\ [Next]_vars =>
        [\A h \in Handlers : Deployed(h) =>
           /\ Updated(h, GetDefaultProctype(job[h].build))
           /\ \A p \in Running \ {Web, Cmd} : Updated(h, p)]_vars
  BY <1>1
<1> QED BY <1>2, AloneInvariant, PTL DEF Spec, DeployReachesAll

\* A delete that nobody overlaps, whose list of Deployments was answered, leaves
\* none of them when it gets to its end.
THEOREM DeleteEmpties == Spec => DeleteLeavesNothing
<1>1. ASSUME Inv, AloneInv, [Next]_vars, NEW h \in Handlers,
             At(h, "delete"), job[h].alone, job[h].read, Finish(h)
      PROVE  \A p \in Procs : deployments'[p] = None
  <2>1. \A p \in Procs : deployments[p] = None
    BY <1>1 DEF Finish, AloneInv, Deleting, At, ToSet
  <2> QED BY <1>1, <2>1 DEF Finish
<1>2. Inv /\ AloneInv /\ [Next]_vars =>
        [\A h \in Handlers :
           At(h, "delete") /\ job[h].alone /\ job[h].read /\ Finish(h) =>
             \A p \in Procs : deployments'[p] = None]_vars
  BY <1>1
<1> QED BY <1>2, AloneInvariant, PTL DEF Spec, DeleteLeavesNothing
==============================================================================
