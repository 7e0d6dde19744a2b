------------------------------ MODULE Workloads ------------------------------
(***************************************************************************)
(* The processes of one app in the cluster, and the requests that change   *)
(* them: deploy (UpdateApp), scale (ScaleApp), limits (ProcessLimits),     *)
(* restart (SetPodEnv) and delete (DeleteApp).                             *)
(*                                                                         *)
(* A process runs as a Deployment; a process with a schedule as a CronJob. *)
(* A request reads an object and writes it back changed; Kubernetes        *)
(* refuses the write when the object was written since (fresh).  A request *)
(* over several processes works through a queue and stops at its first     *)
(* error, leaving what it wrote.  Requests overlap.                        *)
(*                                                                         *)
(* Abstracted: pods follow the replicas of a Deployment at once (waiting   *)
(* for them is the subject of RolloutWait), commands, ports, probes, the  *)
(* service and the Ingress (SharedIngress), namespaces, limit ranges.      *)
(***************************************************************************)
EXTENDS Integers, Sequences, FiniteSets, SequencesExt

CONSTANTS
  Procs,        \* process types that run as Deployments
  CronProcs,    \* process types with a schedule
  Web,          \* the process that serves requests in a build with a Procfile
  Cmd,          \* and in a build without
  Builds,
  Procfiles,    \* the builds with a Procfile
  Envs,         \* environments
  MaxReplicas,  \* bound on the replicas of a process
  Resources,    \* cpu and memory
  Limits,       \* values of a limit
  NoLimit,
  Handlers,     \* requests in flight: a bound on the concurrency
  MaxNamed,     \* bound on the processes a client names in a request
  MaxRequests,  \* bound on the requests of a run
  None          \* no object, no value

GetDefaultProctype(b) == IF b \in Procfiles THEN Web ELSE Cmd

ASSUME ProcsAssumption ==
  /\ Web # Cmd
  /\ CronProcs \cap (Procs \cup {Web, Cmd}) = {}
  /\ \A b \in Builds : GetDefaultProctype(b) \in Procs
  /\ IsFiniteSet(Procs \cup CronProcs)
  /\ MaxReplicas \in Nat \ {0}

VARIABLES
  deployments,  \* process -> Deployment
  crons,        \* process -> CronJob
  job,          \* per request: what it does and what it has read
  requests      \* requests so far, only to bound them

vars == <<deployments, crons, job, requests>>

Deployment == [build : Builds, env : Envs, replicas : 0..MaxReplicas,
               limits : [Resources -> Limits \cup {NoLimit}]]

CronJob == [build : Builds, env : Envs, parallel : (0..MaxReplicas) \cup {None}]

ASSUME NoneIsNothing == None \notin Deployment \cup (0..MaxReplicas)

Kinds == {"idle", "deploy", "scale", "limit", "restart", "delete"}

\* The kind of the request, its arguments (args: the count or the limit of
\* each process it names), the processes still to do, whether the object of the
\* first of them (the list, for a request that begins with one) is read, whether no other request has overlapped (alone, which
\* only properties read), and the copies.
Idle == [kind |-> "idle", build |-> None, env |-> None, args |-> <<>>,
         resource |-> None, queue |-> <<>>, read |-> FALSE, alone |-> FALSE,
         copy |-> [p \in Procs \cup CronProcs |-> None],
         fresh |-> [p \in Procs \cup CronProcs |-> FALSE]]

At(h, kind) == job[h].kind = kind

Set(h, j) == job' = [job EXCEPT ![h] = j] /\ UNCHANGED requests

Begin(h, j) ==
  LET others == {k \in Handlers \ {h} : ~ At(k, "idle")} IN
  /\ At(h, "idle") /\ requests < MaxRequests
  /\ requests' = requests + 1
  /\ job' = [k \in Handlers |->
               IF k = h THEN [j EXCEPT !.alone = others = {}]
               ELSE [job[k] EXCEPT !.alone = FALSE]]
  /\ UNCHANGED <<deployments, crons>>

Return(h) == Set(h, Idle)
Current(h) == Head(job[h].queue)

\* The request is done with the first process of its queue; after the last
\* one it has answered, except that a delete goes on with the CronJobs.
Advance(j) ==
  IF Len(j.queue) = 1 /\ j.kind # "delete"
  THEN Idle
  ELSE [j EXCEPT !.queue = Tail(@), !.read = j.kind \notin {"deploy", "scale"}]

\* Request h has written p: it advances, and the copies of p that others hold
\* are stale.
Written(h, p) ==
  /\ job' = [k \in Handlers |->
            IF k = h THEN Advance(job[h]) ELSE [job[k] EXCEPT !.fresh[p] = FALSE]]
  /\ UNCHANGED requests

\* Update: refused when p was written or removed since it was read.
Put(h, p, d) ==
  IF deployments[p] # None /\ job[h].fresh[p]
  THEN deployments' = [deployments EXCEPT ![p] = d] /\ Written(h, p)
  ELSE Return(h) /\ UNCHANGED deployments

Create(h, p, d) ==
  IF deployments[p] = None
  THEN deployments' = [deployments EXCEPT ![p] = d] /\ Written(h, p)
  ELSE Return(h) /\ UNCHANGED deployments

------------------------------------------------------------------------------
(* UpdateApp: the default process and every other process that has pods.   *)

Running == {p \in Procs : deployments[p] # None /\ deployments[p].replicas > 0}

\* A CronJob has pods when a run of it is still around.
ProcessList(cronsWithPods) == Running \cup cronsWithPods

\* The mistake of a deploy of the default process alone.
DefaultOnly(b, cronsWithPods) == {GetDefaultProctype(b)}

\* Of the web and cmd processes only the default one.
ToUpdate(b, cronsWithPods) ==
  {GetDefaultProctype(b)} \cup (ProcessList(cronsWithPods) \ {Web, Cmd})

Deploy(h, b, e) ==
  \E cs \in SUBSET {p \in CronProcs : crons[p] # None} :
    LET ps == ToUpdate(b, cs)
        first == GetDefaultProctype(b)
    IN Begin(h, [Idle EXCEPT !.kind = "deploy", !.build = b, !.env = e,
                             !.queue = <<first>> \o SetToSeq(ps \ {first})])

Orders(ps) == {q \in [1..Cardinality(ps) -> ps] : ToSet(q) = ps}

\* ScaleApp: the client names processes and counts; a Go map has no order.
\* The processes it may name are those of the Procfile, or cmd.
HasProcessType(p) == p \in (Procs \ {Cmd}) \cup CronProcs
Scalable(b) == IF b \in Procfiles THEN {p \in Procs \cup CronProcs : HasProcessType(p)} ELSE {Cmd}

Scale(h, counts, b, e) ==
  /\ DOMAIN counts \subseteq Scalable(b)
  /\ \E q \in Orders(DOMAIN counts) :
       Begin(h, [Idle EXCEPT !.kind = "scale", !.build = b, !.env = e,
                             !.args = counts, !.queue = q])

Rolls(h) == (At(h, "deploy") \/ At(h, "scale")) /\ job[h].queue # <<>>

\* Replicas of the request: a deploy has none.
Replicas(h) == IF At(h, "scale") THEN job[h].args[Current(h)] ELSE None

Read(h, p, object) ==
  Set(h, [job[h] EXCEPT !.read = TRUE, !.copy[p] = object, !.fresh[p] = TRUE])

GetDeployment(h) ==
  /\ Rolls(h) /\ Current(h) \in Procs /\ ~ job[h].read
  /\ Read(h, Current(h), deployments[Current(h)])
  /\ UNCHANGED <<deployments, crons>>

\* The mistake of keeping the missing replicas of a deploy missing.
NilReplicas(h) ==
  [build |-> job[h].build, env |-> job[h].env, replicas |-> Replicas(h),
   limits |-> [r \in Resources |-> NoLimit]]

NewDeployment(h) ==
  [build |-> job[h].build, env |-> job[h].env,
   replicas |-> IF Replicas(h) = None THEN 1 ELSE Replicas(h),
   limits |-> [r \in Resources |-> NoLimit]]

\* The mistake of a new container with no limits.
Replaced(h, old) ==
  [NewDeployment(h) EXCEPT !.replicas = IF Replicas(h) = None THEN old.replicas ELSE @]

\* A new container with the limits of the old one; replicas if there are any.
Redeployed(h, old) ==
  [NewDeployment(h) EXCEPT !.limits = old.limits,
                           !.replicas = IF Replicas(h) = None THEN old.replicas ELSE @]

CreateOrUpdateDeployment(h) ==
  LET p == Current(h) IN
  /\ Rolls(h) /\ p \in Procs /\ job[h].read
  /\ IF job[h].copy[p] = None
     THEN Create(h, p, NewDeployment(h))
     ELSE Put(h, p, Redeployed(h, job[h].copy[p]))
  /\ UNCHANGED crons

------------------------------------------------------------------------------
(* CronJobs: create, and if there is one already, get it and update it.     *)

NewCronJob(h) == [build |-> job[h].build, env |-> job[h].env, parallel |-> Replicas(h)]

CreateCronJob(h) ==
  LET p == Current(h) IN
  /\ Rolls(h) /\ p \in CronProcs /\ ~ job[h].read
  /\ Replicas(h) # 0
  /\ IF crons[p] = None
     THEN crons' = [crons EXCEPT ![p] = NewCronJob(h)] /\ Written(h, p)
     ELSE Read(h, p, crons[p]) /\ UNCHANGED crons
  /\ UNCHANGED deployments

UpdateCronJob(h) ==
  LET p == Current(h) IN
  /\ Rolls(h) /\ p \in CronProcs /\ job[h].read
  /\ IF crons[p] # None /\ job[h].fresh[p]
     THEN crons' = [crons EXCEPT ![p] = NewCronJob(h)] /\ Written(h, p)
     ELSE Return(h) /\ UNCHANGED crons
  /\ UNCHANGED deployments

\* Scaling a scheduled process to zero deletes it; it is an error if it is gone.
DeleteCronJob(h) ==
  LET p == Current(h) IN
  /\ Rolls(h) /\ p \in CronProcs /\ ~ job[h].read
  /\ Replicas(h) = 0
  /\ IF crons[p] # None
     THEN crons' = [crons EXCEPT ![p] = None] /\ Written(h, p)
     ELSE Return(h) /\ UNCHANGED crons
  /\ UNCHANGED deployments

------------------------------------------------------------------------------
(* Requests that list the Deployments first and write each from that list.  *)

List(h, j) ==
  LET ps == {p \in Procs : deployments[p] # None} IN
  Begin(h, [j EXCEPT !.queue = SetToSeq(ps), !.read = TRUE,
                     !.copy = [p \in Procs \cup CronProcs |->
                                 IF p \in ps THEN deployments[p] ELSE None],
                     !.fresh = [p \in Procs \cup CronProcs |-> p \in ps]])

SetLimits(h, r, limits) ==
  List(h, [Idle EXCEPT !.kind = "limit", !.resource = r, !.args = limits])
Restart(h, e) == List(h, [Idle EXCEPT !.kind = "restart", !.env = e])

\* A list that fails ends SetLimits and Restart before they begin.  A delete drops
\* the error and goes on with a list that is empty, and not read.
Unlisted(h) == Begin(h, [Idle EXCEPT !.kind = "delete"])
Delete(h)   == List(h, [Idle EXCEPT !.kind = "delete"]) \/ Unlisted(h)

Writes(h, kind) == At(h, kind) /\ job[h].queue # <<>>

\* Setting a value starts from no limits at all, "0" unsets one resource.
mergeResourceConstraints(limits, r, l) ==
  IF l = NoLimit
  THEN [limits EXCEPT ![r] = NoLimit]
  ELSE [s \in Resources |-> IF s = r THEN l ELSE NoLimit]

\* The mistake of repeating a refused update with the newer version's number.
UpdateLimitsAnyway(h) ==
  LET p == Current(h) IN
  /\ Writes(h, "limit") /\ p \in DOMAIN job[h].args /\ deployments[p] # None
  /\ deployments' = [deployments EXCEPT ![p] =
       [job[h].copy[p] EXCEPT !.limits =
          mergeResourceConstraints(@, job[h].resource, job[h].args[p])]]
  /\ Written(h, p) /\ UNCHANGED crons

UpdateLimits(h) ==
  LET p == Current(h)
      d == job[h].copy[p]
  IN
  /\ Writes(h, "limit")
  /\ IF p \in DOMAIN job[h].args
     THEN Put(h, p, [d EXCEPT !.limits =
                       mergeResourceConstraints(@, job[h].resource, job[h].args[p])])
     ELSE Set(h, Advance(job[h])) /\ UNCHANGED deployments
  /\ UNCHANGED crons

UpdateEnv(h) ==
  /\ Writes(h, "restart")
  /\ Put(h, Current(h), [job[h].copy[Current(h)] EXCEPT !.env = job[h].env])
  /\ UNCHANGED crons

\* DeleteApp scales each Deployment down, then deletes it by its name.
ScaleDown(h) ==
  LET p == Current(h) IN
  /\ Writes(h, "delete") /\ job[h].read
  /\ IF deployments[p] # None /\ job[h].fresh[p]
     THEN /\ deployments' = [deployments EXCEPT ![p] = [job[h].copy[p] EXCEPT !.replicas = 0]]
          /\ job' = [k \in Handlers |->
                       IF k = h THEN [job[h] EXCEPT !.read = FALSE]
                       ELSE [job[k] EXCEPT !.fresh[p] = FALSE]]
          /\ UNCHANGED requests
     ELSE Return(h) /\ UNCHANGED deployments
  /\ UNCHANGED crons

\* The mistake of leaving a scaled down Deployment.
KeepDeployment(h) ==
  /\ Writes(h, "delete") /\ ~ job[h].read
  /\ Written(h, Current(h)) /\ UNCHANGED <<deployments, crons>>

DeleteDeployment(h) ==
  LET p == Current(h) IN
  /\ Writes(h, "delete") /\ ~ job[h].read
  /\ IF deployments[p] # None
     THEN deployments' = [deployments EXCEPT ![p] = None] /\ Written(h, p)
     ELSE Return(h) /\ UNCHANGED deployments
  /\ UNCHANGED crons

\* The list is done: nothing is left to do but the CronJobs of a deleted app,
\* where a failure is only logged.
Finish(h) ==
  /\ ~ At(h, "idle") /\ job[h].queue = <<>>
  /\ Return(h)
  /\ \/ At(h, "delete") /\ crons' = [p \in CronProcs |-> None]
     \/ UNCHANGED crons
  /\ UNCHANGED deployments

\* A call fails, or a pod of the process does not come up.
Fail(h) == ~ At(h, "idle") /\ Return(h) /\ UNCHANGED <<deployments, crons>>

------------------------------------------------------------------------------
Init ==
  /\ deployments = [p \in Procs |-> None]
  /\ crons = [p \in CronProcs |-> None]
  /\ job = [h \in Handlers |-> Idle]
  /\ requests = 0

\* What a command line may say of some of the processes.
FlagsToOptions(ps, values) ==
  UNION {[S -> values] : S \in {T \in SUBSET ps : Cardinality(T) \in 1..MaxNamed}}

cmdAppScale == FlagsToOptions(Procs \cup CronProcs, 0..MaxReplicas)
cmdAppStart == {[p \in {q} |-> 1] : q \in Procs \cup CronProcs}
cmdAppStop  == {[p \in {q} |-> 0] : q \in Procs \cup CronProcs}

SaveProcess == cmdAppScale \cup cmdAppStart \cup cmdAppStop

\* The build is that of the record; an environment that cannot be read counts as
\* an empty one.
ProcessSave(h) == \E b \in Builds, e \in Envs : \E c \in SaveProcess : Scale(h, c, b, e)

parseResourceArgs(unset) ==
  Resources \X FlagsToOptions(Procs, IF unset THEN {NoLimit} ELSE Limits \cup {NoLimit})

cmdLimitsSet(h)   == \E args \in parseResourceArgs(FALSE) : SetLimits(h, args[1], args[2])
cmdLimitsUnSet(h) == \E args \in parseResourceArgs(TRUE) : SetLimits(h, args[1], args[2])

Request(h) ==
  \/ \E b \in Builds, e \in Envs : Deploy(h, b, e)
  \/ ProcessSave(h)
  \/ cmdLimitsSet(h) \/ cmdLimitsUnSet(h)
  \/ \E e \in Envs : Restart(h, e)
  \/ Delete(h)

Step(h) ==
  \/ GetDeployment(h) \/ CreateOrUpdateDeployment(h)
  \/ CreateCronJob(h) \/ UpdateCronJob(h) \/ DeleteCronJob(h)
  \/ UpdateLimits(h) \/ UpdateEnv(h) \/ ScaleDown(h) \/ DeleteDeployment(h) \/ Finish(h) \/ Fail(h)

Next == \E h \in Handlers : Request(h) \/ Step(h)

Spec == Init /\ [][Next]_vars

------------------------------------------------------------------------------
(* Properties *)

TypeOK ==
  /\ deployments \in [Procs -> Deployment \cup {None}]
  /\ crons \in [CronProcs -> CronJob \cup {None}]
  /\ \A h \in Handlers :
       /\ job[h].kind \in Kinds
       /\ job[h].queue \in Seq(Procs \cup CronProcs)
       /\ job[h].copy \in [Procs \cup CronProcs -> Deployment \cup CronJob \cup {None}]
       /\ job[h].fresh \in [Procs \cup CronProcs -> BOOLEAN]

\* However requests overlap, a Deployment that is there keeps its limits
\* unless a limits request writes them: deploys and scaling persist them.
LimitsPersist ==
  [][\A p \in Procs :
       deployments[p] # None /\ deployments'[p] # None
         /\ deployments'[p].limits # deployments[p].limits =>
           \E h \in Handlers : UpdateLimits(h) /\ Current(h) = p]_vars

\* The last write of a deploy that no other request has overlapped.
Deployed(h) ==
  /\ At(h, "deploy") /\ Len(job[h].queue) = 1 /\ job[h].alone
  /\ deployments' # deployments \/ crons' # crons

Updated(h, p) == deployments'[p].build = job[h].build /\ deployments'[p].env = job[h].env

\* A deploy that gets to its end, though it works through the processes one by
\* one and each may fail, has put its build and environment in the process that
\* serves requests and in every worker that has pods.
DeployReachesAll ==
  [][\A h \in Handlers : Deployed(h) =>
       /\ Updated(h, GetDefaultProctype(job[h].build))
       /\ \A p \in Running \ {Web, Cmd} : Updated(h, p)]_vars

\* A delete that nobody overlaps, and that was told the Deployments there are,
\* leaves none of them when it comes to its end: what it has not deleted it has
\* failed at.  (A delete whose list fails ends well too, and leaves them all.)
DeleteLeavesNothing ==
  [][\A h \in Handlers :
       At(h, "delete") /\ job[h].alone /\ job[h].read /\ Finish(h) =>
         \A p \in Procs : deployments'[p] = None]_vars

\* Whatever overlaps, every write is one atomic change of one process.
Table ==
  INSTANCE ProcessTable WITH
    Absent <- None,
    table <- [p \in Procs |->
                IF deployments[p] = None THEN None
                ELSE [build |-> deployments[p].build, env |-> deployments[p].env,
                      replicas |-> deployments[p].replicas, limits |-> deployments[p].limits]]

ImplementsTable == Table!Spec
==============================================================================
