--------------------------- MODULE RolloutWaitProofs ---------------------------
(***************************************************************************)
(* Proofs about RolloutWait, for any pods, replicas, deploys and polls.    *)
(*                                                                         *)
(* That the replicas found ready are those of the deploy that waits rests  *)
(* on what a report says of its generation: a report as new as the         *)
(* Deployment is of its template (Current), and once the first loop has    *)
(* seen such a report the status stays one of this deploy for as long as   *)
(* the Deployment is (Seen), since another deploy takes another template.  *)
(* That there is a ReplicaSet to index rests on what had to be there for   *)
(* that report (Made).                                                     *)
(***************************************************************************)
EXTENDS RolloutWait, FiniteSetTheorems, TLAPS

------------------------------------------------------------------------------
(* The invariant                                                            *)

\* A Deployment is not older than what is reported of it.
Current ==
  spec # None =>
    /\ status.observed <= spec.generation
    /\ status.observed = spec.generation => status.template = spec.template

\* No deploy has the number of one to come.
Numbered ==
  /\ waiter.template <= templates
  /\ spec # None => spec.template <= templates

\* What the first loop has seen stays true of the Deployment it waits for.
Seen ==
  waiter.saw /\ spec # None /\ spec.template = waiter.template =>
    status.observed > 0 /\ status.template = waiter.template

\* What is reported had a ReplicaSet, which is there as long as none is removed.
Made == status.observed > 0 \/ waiter.saw => gone \/ sets # {}

\* The loops have not run out while they poll, and nothing is seen before.
Polling ==
  /\ At("idle") \/ At("updated") => ~ waiter.saw /\ waiter.polls < UpdatePolls
  /\ At("pending") => waiter.waited < Timeout

WaitInv == TypeOK /\ Current /\ Numbered /\ Seen /\ Made /\ Polling

LEMMA UnreportedType == Unreported \in Status
  BY WaitAssumption DEF Unreported, Status

LEMMA InitOK == Init => WaitInv
<1> SUFFICES ASSUME Init PROVE WaitInv
  OBVIOUS
<1>1. waiter \in Waiter /\ waiter.step = "idle" /\ ~ waiter.saw /\ waiter.polls = 0
      /\ waiter.template = 0
  BY WaitAssumption DEF Init, Waiter, Steps
<1>2. TypeOK
  <2>1. /\ spec = None /\ status \in Status /\ sets \subseteq 1..MaxTemplate /\ gone \in BOOLEAN
        /\ deleter \in {"idle", "scaled", "drops"}
    BY UnreportedType DEF Init
  <2>2. templates \in 0..MaxTemplate
    BY WaitAssumption DEF Init
  <2>3. pods \in [Pods -> Pod \cup {None}]
    BY DEF Init
  <2> QED BY <1>1, <2>1, <2>2, <2>3 DEF TypeOK
<1>3. Current /\ Numbered /\ Seen /\ Made /\ Polling
  BY <1>1, WaitAssumption DEF Init, Current, Numbered, Seen, Made, Unreported, Polling, At
<1> QED BY <1>2, <1>3 DEF WaitInv

------------------------------------------------------------------------------
(* Writes                                                                   *)

\* A deploy writes a Deployment of a template of its own, newer than any report.
LEMMA RolledOK ==
  ASSUME spec \in Deployment \cup {None}, Room, templates \in Nat, templates < MaxTemplate
  PROVE  /\ Rolled(templates + 1) \in Deployment
         /\ Rolled(templates + 1).template = templates + 1
         /\ spec # None => Rolled(templates + 1).generation = spec.generation + 1
         /\ spec = None => Rolled(templates + 1).generation = 1
<1>1. CASE spec = None
  BY <1>1, WaitAssumption DEF Rolled, Deployment
<1>2. CASE spec # None
  <2>1. spec \in Deployment /\ spec.generation < MaxGeneration
    BY <1>2 DEF Room
  <2>2. /\ Rolled(templates + 1) = [spec EXCEPT !.generation = spec.generation + 1,
                                              !.template = templates + 1]
        /\ spec.generation + 1 \in 1..MaxGeneration /\ templates + 1 \in 1..MaxTemplate
    BY <1>2, <2>1, WaitAssumption DEF Rolled, Deployment
  <2> QED BY <1>2, <2>1, <2>2 DEF Deployment
<1> QED BY <1>1, <1>2

LEMMA RedeployOK ==
  ASSUME WaitInv, Redeploy
  PROVE  /\ spec' \in Deployment /\ spec' # None /\ spec'.template = templates + 1
         /\ status' \in Status /\ templates' = templates + 1 /\ templates' \in 0..MaxTemplate
         /\ status'.observed < spec'.generation
         /\ status'.observed > 0 => status.observed > 0
         /\ UNCHANGED <<pods, sets, gone, deleter>>
<1> DEFINE r == Rolled(templates + 1)
<1>1. /\ spec \in Deployment \cup {None} /\ Room /\ templates \in Nat /\ templates < MaxTemplate
      /\ status \in Status /\ Current /\ spec' = r /\ templates' = templates + 1
      /\ status' = IF spec = None THEN Unreported ELSE status
  BY WaitAssumption DEF WaitInv, TypeOK, Redeploy
<1>2. /\ r \in Deployment /\ r.template = templates + 1
      /\ spec # None => r.generation = spec.generation + 1
      /\ spec = None => r.generation = 1
  BY <1>1, RolledOK
<1>3. spec' # None /\ status' \in Status /\ templates' \in 0..MaxTemplate
  BY <1>1, <1>2, NoneIsNothing, UnreportedType, WaitAssumption
<1>4. status'.observed < r.generation
  <2>1. CASE spec = None
    BY <1>1, <1>2, <2>1 DEF Unreported
  <2>2. CASE spec # None
    BY <1>1, <1>2, <2>2, WaitAssumption DEF Current, Deployment, Status
  <2> QED BY <2>1, <2>2
<1>5. (status'.observed > 0 => status.observed > 0) /\ UNCHANGED <<pods, sets, gone, deleter>>
  BY <1>1 DEF Redeploy, Unreported
<1> HIDE DEF r
<1> QED BY <1>1, <1>2, <1>3, <1>4, <1>5

LEMMA DeployOK == WaitInv /\ Deploy => WaitInv'
<1> SUFFICES ASSUME WaitInv, Deploy PROVE WaitInv'
  OBVIOUS
<1>1. /\ spec' \in Deployment /\ spec' # None /\ spec'.template = templates + 1
      /\ status' \in Status /\ templates' = templates + 1 /\ templates' \in 0..MaxTemplate
      /\ status'.observed < spec'.generation
      /\ status'.observed > 0 => status.observed > 0
      /\ UNCHANGED <<pods, sets, gone, deleter>>
  BY RedeployOK DEF Deploy
<1>2. /\ waiter' = [waiter EXCEPT !.step = "updated", !.template = templates + 1]
      /\ waiter \in Waiter /\ ~ waiter.saw /\ templates \in Nat
  BY WaitAssumption DEF Deploy, WaitInv, TypeOK, Polling
<1>3. waiter' \in Waiter /\ waiter'.step = "updated" /\ ~ waiter'.saw
      /\ waiter'.template = templates + 1 /\ waiter'.polls = waiter.polls
  BY <1>1, <1>2 DEF Waiter, Steps
<1>4. TypeOK'
  BY <1>1, <1>2, <1>3 DEF WaitInv, TypeOK
<1>5. Current' /\ Numbered' /\ Seen' /\ Made'
  BY <1>1, <1>2, <1>3 DEF WaitInv, Current, Numbered, Seen, Made, Deployment, Status
<1>6. Polling'
  BY <1>2, <1>3 DEF Polling, At, Deploy, WaitInv
<1> QED BY <1>4, <1>5, <1>6 DEF WaitInv

LEMMA RedeployByOtherOK == WaitInv /\ RedeployByOther => WaitInv'
<1> SUFFICES ASSUME WaitInv, RedeployByOther PROVE WaitInv'
  OBVIOUS
<1>1. /\ spec' \in Deployment /\ spec' # None /\ spec'.template = templates + 1
      /\ status' \in Status /\ templates' = templates + 1 /\ templates' \in 0..MaxTemplate
      /\ status'.observed < spec'.generation
      /\ status'.observed > 0 => status.observed > 0
      /\ UNCHANGED <<pods, sets, gone, deleter>>
  BY RedeployOK DEF RedeployByOther
<1>2. waiter' = waiter /\ waiter \in Waiter
  BY DEF RedeployByOther, WaitInv, TypeOK
<1>3. waiter.template <= templates /\ waiter.template \in Nat /\ templates \in Nat
  BY WaitAssumption DEF WaitInv, TypeOK, Numbered, Waiter
<1>4. TypeOK'
  BY <1>1, <1>2 DEF WaitInv, TypeOK
<1>5. Current' /\ Numbered' /\ Seen' /\ Made'
  BY <1>1, <1>2, <1>3 DEF WaitInv, Current, Numbered, Seen, Made, Deployment, Status
<1>6. Polling'
  BY <1>2 DEF Polling, At, WaitInv
<1> QED BY <1>4, <1>5, <1>6 DEF WaitInv

\* A write of the replicas alone: a newer generation of the same template.
LEMMA ReplicasOK ==
  ASSUME WaitInv, NEW n \in 0..MaxReplicas, spec # None, Room,
         spec' = [spec EXCEPT !.generation = @ + 1, !.replicas = n],
         UNCHANGED <<status, pods, sets, gone, templates, waiter>>,
         deleter' \in {"idle", "scaled", "drops"}
  PROVE  WaitInv'
<1>1. spec \in Deployment /\ spec.generation < MaxGeneration
  BY DEF WaitInv, TypeOK, Room
<1>2. /\ spec' = [spec EXCEPT !.generation = spec.generation + 1, !.replicas = n]
      /\ spec.generation + 1 \in 1..MaxGeneration
  BY <1>1, WaitAssumption DEF Deployment
<1>3. /\ spec' \in Deployment /\ spec'.template = spec.template
      /\ spec'.generation = spec.generation + 1
  BY <1>1, <1>2 DEF Deployment
<1>4. TypeOK'
  BY <1>3 DEF WaitInv, TypeOK
<1>5. Current'
  BY <1>1, <1>3, WaitAssumption DEF WaitInv, TypeOK, Current, Deployment, Status
<1>6. Numbered' /\ Seen' /\ Made' /\ Polling'
  BY <1>1, <1>3 DEF WaitInv, Numbered, Seen, Made, Polling, At
<1> QED BY <1>4, <1>5, <1>6 DEF WaitInv

LEMMA ScaleOK == ASSUME NEW n \in 0..MaxReplicas PROVE WaitInv /\ Scale(n) => WaitInv'
  BY ReplicasOK DEF Scale, WaitInv, TypeOK

\* The delete of the app: what it removes takes nothing from the invariant, for
\* it says that it has (gone).
LEMMA DeleteOK == WaitInv /\ Delete => WaitInv'
<1> SUFFICES ASSUME WaitInv, Delete PROVE WaitInv'
  OBVIOUS
<1>1. ASSUME UNCHANGED <<spec, status, pods, sets, gone, templates, waiter>>,
             deleter' \in {"idle", "scaled", "drops"}
      PROVE  WaitInv'
  BY <1>1 DEF WaitInv, TypeOK, Current, Numbered, Seen, Made, Polling, At
<1>2. CASE DeleteOfOtherProcess \/ EndDelete
  <2>1. /\ UNCHANGED <<spec, status, pods, sets, gone, templates, waiter>>
        /\ deleter' \in {"idle", "scaled", "drops"}
    BY <1>2 DEF DeleteOfOtherProcess, EndDelete
  <2> QED BY <1>1, <2>1
<1>3. CASE \E t \in sets : DropReplicaSet(t)
  <2>1. PICK t \in sets : DropReplicaSet(t)
    BY <1>3
  <2>2. /\ UNCHANGED <<spec, status, pods, deleter, templates, waiter>>
        /\ sets' \subseteq 1..MaxTemplate /\ gone' = TRUE
    BY <2>1 DEF DropReplicaSet, WaitInv, TypeOK
  <2> QED BY <2>2 DEF WaitInv, TypeOK, Current, Numbered, Seen, Made, Polling, At
<1>4. CASE ScaleDown
  <2>1. 0 \in 0..MaxReplicas
    BY WaitAssumption
  <2>2. CASE spec.replicas = 0
    <3>1. UNCHANGED <<spec, status, pods, sets, gone, templates, waiter>> /\ deleter' = "scaled"
      BY <1>4, <2>2 DEF ScaleDown
    <3> QED BY <1>1, <3>1
  <2>3. CASE spec.replicas # 0
    <3>1. /\ spec # None /\ Room /\ spec' = [spec EXCEPT !.generation = @ + 1, !.replicas = 0]
          /\ UNCHANGED <<status, pods, sets, gone, templates, waiter>> /\ deleter' = "scaled"
      BY <1>4, <2>3 DEF ScaleDown
    <3> QED BY <2>1, <3>1, ReplicasOK
  <2> QED BY <2>2, <2>3
<1>5. CASE DeleteDeployment
  <2>1. /\ spec' = None /\ status' = Unreported /\ status' \in Status /\ deleter' = "drops"
        /\ UNCHANGED <<pods, sets, gone, templates, waiter>>
    BY <1>5, UnreportedType DEF DeleteDeployment
  <2> QED BY <2>1 DEF WaitInv, TypeOK, Current, Numbered, Seen, Made, Unreported, Polling, At
<1> QED BY <1>2, <1>3, <1>4, <1>5 DEF Delete

------------------------------------------------------------------------------
(* The controller and the pods                                              *)

LEMMA CountType == \A S \in SUBSET Pods : Cardinality(S) \in Nat
  BY FS_Subset, FS_CardinalityType, WaitAssumption

LEMMA ReportOK == WaitInv /\ Report => WaitInv'
<1> SUFFICES ASSUME WaitInv, Report PROVE WaitInv'
  OBVIOUS
<1>1. spec \in Deployment /\ spec # None
  BY DEF WaitInv, TypeOK, Report
<1>2. UNCHANGED <<spec, pods, sets, deleter, templates, waiter>>
  BY DEF Report
<1>3. gone' \in BOOLEAN /\ (gone' = TRUE \/ sets # {})
  <2>1. CASE spec.template \in sets /\ gone' = FALSE
    BY <2>1
  <2>2. CASE gone /\ UNCHANGED gone
    BY <2>2 DEF WaitInv, TypeOK
  <2> QED BY <2>1, <2>2 DEF Report
<1>4. /\ Cardinality(Live) \in Nat /\ Cardinality(Of(spec.template)) \in Nat
      /\ Cardinality({p \in Live : pods[p].state = "ready"}) \in Nat
  BY CountType DEF Live, Of
<1>5. status' \in Status
  BY <1>1, <1>4 DEF Report, Status, Deployment
<1>6. status'.observed = spec.generation /\ status'.template = spec.template
  BY DEF Report
<1>7. TypeOK'
  BY <1>2, <1>5, <1>3 DEF WaitInv, TypeOK
<1>8. Current' /\ Numbered' /\ Seen' /\ Polling'
  BY <1>1, <1>2, <1>6 DEF WaitInv, Current, Numbered, Seen, Polling, At, Deployment
<1>9. Made'
  BY <1>2, <1>3 DEF Made
<1> QED BY <1>7, <1>8, <1>9 DEF WaitInv

LEMMA CreateReplicaSetOK == WaitInv /\ CreateReplicaSet => WaitInv'
<1> SUFFICES ASSUME WaitInv, CreateReplicaSet PROVE WaitInv'
  OBVIOUS
<1>1. /\ UNCHANGED <<spec, status, pods, deleter, templates, waiter>> /\ gone' = FALSE
      /\ spec \in Deployment /\ sets' = sets \cup {spec.template}
  BY DEF CreateReplicaSet, WaitInv, TypeOK
<1>2. sets' \subseteq 1..MaxTemplate /\ sets' # {}
  BY <1>1 DEF WaitInv, TypeOK, Deployment
<1> QED BY <1>1, <1>2 DEF WaitInv, TypeOK, Current, Numbered, Seen, Made, Polling, At

\* The pods are no part of the invariant but for their type.
LEMMA PodsOK ==
  ASSUME WaitInv, UNCHANGED <<spec, status, sets, gone, deleter, templates, waiter>>,
         pods' \in [Pods -> Pod \cup {None}]
  PROVE  WaitInv'
  BY DEF WaitInv, TypeOK, Current, Numbered, Seen, Made, Polling, At

LEMMA PodStepOK ==
  ASSUME NEW p \in Pods, WaitInv, CreatePod(p) \/ RemovePod(p) \/ PodTurns(p)
  PROVE  WaitInv'
<1>1. pods \in [Pods -> Pod \cup {None}] /\ spec \in Deployment \cup {None}
  BY DEF WaitInv, TypeOK
<1>2. CASE CreatePod(p)
  <2>1. UNCHANGED <<spec, status, sets, gone, deleter, templates, waiter>> /\ spec \in Deployment
    BY <1>1, <1>2 DEF CreatePod
  <2>2. [template |-> spec.template, state |-> "pending"] \in Pod
    BY <2>1 DEF Pod, PodStates, Deployment
  <2>3. pods' \in [Pods -> Pod \cup {None}]
    BY <1>1, <1>2, <2>2 DEF CreatePod
  <2> QED BY <2>1, <2>3, PodsOK
<1>3. CASE RemovePod(p)
  <2>1. UNCHANGED <<spec, status, sets, gone, deleter, templates, waiter>>
    BY <1>3 DEF RemovePod
  <2>2. pods' \in [Pods -> Pod \cup {None}]
    BY <1>1, <1>3 DEF RemovePod
  <2> QED BY <1>1, <2>1, <2>2, PodsOK
<1>4. CASE PodTurns(p)
  <2>1. UNCHANGED <<spec, status, sets, gone, deleter, templates, waiter>> /\ pods[p] \in Pod
    BY <1>1, <1>4 DEF PodTurns, Live
  <2>2. PICK new \in PodStates : pods' = [pods EXCEPT ![p].state = new]
    BY <1>4 DEF PodTurns
  <2>3. [pods[p] EXCEPT !.state = new] \in Pod
    BY <2>1 DEF Pod
  <2>4. pods' = [pods EXCEPT ![p] = [pods[p] EXCEPT !.state = new]]
    BY <1>1, <2>1, <2>2 DEF Pod
  <2>5. pods' \in [Pods -> Pod \cup {None}]
    BY <1>1, <2>3, <2>4
  <2> QED BY <1>1, <2>1, <2>5, PodsOK
<1> QED BY <1>2, <1>3, <1>4

------------------------------------------------------------------------------
(* The loops                                                                *)

\* A step of the waiter that leaves the cluster alone and sees nothing new.
LEMMA WaiterOK ==
  ASSUME WaitInv, UNCHANGED Cluster, waiter' \in Waiter,
         waiter'.template = waiter.template, waiter'.saw = waiter.saw,
         waiter'.step # "idle",
         waiter'.step = "updated" => waiter.step = "updated" /\ waiter'.polls < UpdatePolls,
         waiter'.step = "pending" => waiter'.waited < Timeout
  PROVE  WaitInv'
  BY DEF WaitInv, TypeOK, Current, Numbered, Seen, Made, Polling, At, Cluster

\* A step that moves the waiter and does nothing else.
LEMMA GoesOK ==
  ASSUME WaitInv, UNCHANGED Cluster, NEW step \in Steps \ {"idle", "updated"}, Goes(step),
         step = "pending" => waiter.waited < Timeout
  PROVE  WaitInv'
<1>1. waiter \in Waiter
  BY DEF WaitInv, TypeOK
<1>2. /\ waiter' \in Waiter /\ waiter'.step = step /\ waiter'.template = waiter.template
      /\ waiter'.saw = waiter.saw /\ waiter'.waited = waiter.waited
  BY <1>1 DEF Goes, Waiter
<1> QED BY <1>2, WaiterOK

LEMMA SeesGenerationOK == WaitInv /\ SeesGeneration => WaitInv'
<1> SUFFICES ASSUME WaitInv, SeesGeneration PROVE WaitInv'
  OBVIOUS
<1>1. /\ spec \in Deployment /\ spec # None /\ status.observed >= spec.generation
      /\ status \in Status /\ waiter \in Waiter
      /\ UNCHANGED <<spec, status, pods, sets, gone, deleter, templates>>
  BY DEF WaitInv, TypeOK, SeesGeneration, Observed, Cluster
<1>2. status.observed = spec.generation /\ status.template = spec.template /\ status.observed > 0
  BY <1>1, WaitAssumption DEF WaitInv, Current, Deployment, Status
<1>3. waiter' \in Waiter /\ waiter'.step = "events" /\ waiter'.template = waiter.template
  BY <1>1 DEF SeesGeneration, Waiter, Steps
<1>4. TypeOK'
  BY <1>1, <1>3 DEF WaitInv, TypeOK
<1> QED BY <1>1, <1>2, <1>3, <1>4 DEF WaitInv, Current, Numbered, Seen, Made, Polling, At

LEMMA SeesOldGenerationOK == WaitInv /\ SeesOldGeneration => WaitInv'
<1> SUFFICES ASSUME WaitInv, SeesOldGeneration PROVE WaitInv'
  OBVIOUS
<1> DEFINE n == waiter.polls + 1
           step == IF n = UpdatePolls THEN "events" ELSE "updated"
<1>1. waiter \in Waiter /\ waiter.step = "updated" /\ waiter.polls < UpdatePolls
  BY DEF WaitInv, TypeOK, Polling, At, SeesOldGeneration
<1>2. waiter' = [waiter EXCEPT !.polls = n, !.step = step] /\ UNCHANGED Cluster
  BY <1>1 DEF SeesOldGeneration
<1>3. n \in 0..UpdatePolls /\ (n # UpdatePolls => n < UpdatePolls)
  BY <1>1, WaitAssumption DEF Waiter
<1>4. step \in Steps \ {"idle", "pending"} /\ (step = "updated" => n < UpdatePolls)
  BY <1>3 DEF Steps
<1> HIDE DEF n, step
<1>5. /\ waiter' \in Waiter /\ waiter'.step = step /\ waiter'.polls = n
      /\ waiter'.template = waiter.template /\ waiter'.saw = waiter.saw
  BY <1>1, <1>2, <1>3, <1>4 DEF Waiter
<1> QED BY <1>1, <1>2, <1>4, <1>5, WaiterOK

\* One more second, back in the loop.
LEMMA SecondOK ==
  ASSUME WaitInv, UNCHANGED Cluster, waiter.waited < Timeout,
         waiter' = [waiter EXCEPT !.step = "ready", !.waited = NextSecond]
  PROVE  WaitInv'
<1>1. waiter \in Waiter
  BY DEF WaitInv, TypeOK
<1>2. NextSecond \in 0..Timeout
  BY <1>1, WaitAssumption DEF NextSecond, Waiter
<1>3. /\ waiter' \in Waiter /\ waiter'.step = "ready"
      /\ waiter'.template = waiter.template /\ waiter'.saw = waiter.saw
  BY <1>1, <1>2 DEF Waiter, Steps
<1> QED BY <1>3, WaiterOK

LEMMA SeesNotReadyOK == WaitInv /\ SeesNotReady => WaitInv'
<1> SUFFICES ASSUME WaitInv, SeesNotReady PROVE WaitInv'
  OBVIOUS
<1>1. UNCHANGED Cluster /\ waiter.waited < Timeout /\ waiter.step = "ready" /\ waiter \in Waiter
  BY DEF SeesNotReady, At, WaitInv, TypeOK
<1>2. CASE Goes("pending")
  BY <1>1, <1>2, GoesOK DEF Steps
<1>3. CASE waiter' = [waiter EXCEPT !.waited = NextSecond]
  <2>1. waiter' = [waiter EXCEPT !.step = "ready", !.waited = NextSecond]
    BY <1>1, <1>3 DEF Waiter
  <2> QED BY <1>1, <2>1, SecondOK
<1> QED BY <1>2, <1>3 DEF SeesNotReady

LEMMA WaitOK == WaitInv /\ (Wait \/ Fail) => WaitInv'
<1> SUFFICES ASSUME WaitInv, Wait \/ Fail PROVE WaitInv'
  OBVIOUS
<1>1. CASE GetDeployment \/ CheckEvents
  BY <1>1, GoesOK DEF GetDeployment, CheckEvents, Steps
<1>2. CASE TimesOut \/ SeesReady
  BY <1>2, GoesOK DEF TimesOut, SeesReady, Steps
<1>3. CASE CheckPending
  <2>1. waiter.waited < Timeout /\ UNCHANGED Cluster
    BY <1>3 DEF CheckPending, WaitInv, Polling
  <2> QED BY <1>3, <2>1, GoesOK, SecondOK DEF CheckPending, Steps
<1>4. CASE FinalCheck \/ CheckUnready \/ Fail
  BY <1>4, GoesOK DEF FinalCheck, CheckUnready, Fail, Steps
<1> QED
  BY <1>1, <1>2, <1>3, <1>4, SeesGenerationOK, SeesOldGenerationOK, SeesNotReadyOK DEF Wait

------------------------------------------------------------------------------
(* Theorems                                                                 *)

LEMMA StepOK == WaitInv /\ [Next]_vars => WaitInv'
<1> SUFFICES ASSUME WaitInv, [Next]_vars PROVE WaitInv'
  OBVIOUS
<1>1. CASE UNCHANGED vars
  BY <1>1 DEF vars, WaitInv, TypeOK, Current, Numbered, Seen, Made, Polling, At
<1>2. CASE Environment
  BY <1>2, RedeployByOtherOK, DeleteOK, ScaleOK, CreateReplicaSetOK, ReportOK, PodStepOK
     DEF Environment
<1> QED BY <1>1, <1>2, DeployOK, WaitOK DEF Next

LEMMA InvariantHolds == Spec => []WaitInv
  BY InitOK, StepOK, PTL DEF Spec

\* The Deployment, its status, the pods and the deploy that waits always have
\* their types: the loops never count past their bounds.
THEOREM TypeCorrect == Spec => []TypeOK
<1>1. WaitInv => TypeOK
  BY DEF WaitInv
<1> QED BY <1>1, InvariantHolds, PTL

\* Whatever other requests and the controller do between the two loops, replicas
\* found ready after the first loop has seen its generation are of the template
\* of this deploy, and all of them.
THEOREM ReadyMeansThisDeploy == Spec => ReadyIsOfThisDeploy
<1>1. ASSUME WaitInv, SeesReady, waiter.saw, spec.template = waiter.template
      PROVE  status.template = waiter.template /\ status.updated = status.replicas
  <2>1. spec # None /\ {status.replicas, status.updated, status.available} = {spec.replicas}
    BY <1>1 DEF SeesReady, AllReady
  <2>2. status.updated = status.replicas
    BY <2>1
  <2> QED BY <1>1, <2>1, <2>2 DEF WaitInv, Seen
<1>2. WaitInv =>
        [SeesReady /\ waiter.saw /\ spec.template = waiter.template =>
           status.template = waiter.template /\ status.updated = status.replicas]_vars
  BY <1>1
<1> QED BY <1>2, InvariantHolds, PTL DEF ReadyIsOfThisDeploy

\* Once the first loop has seen its generation there is a ReplicaSet for
\* checkforFailedEvents to index, unless a delete of the app has removed one that
\* the controller has not made again.
THEOREM PanicNeedsDelete == Spec => PanicsOnlyAlongDelete
<1>1. ASSUME WaitInv, CheckEvents, waiter'.step = "panicked", waiter.saw
      PROVE  gone
  <2>1. waiter \in Waiter
    BY <1>1 DEF WaitInv, TypeOK
  <2>2. sets = {}
    BY <1>1, <2>1 DEF CheckEvents, Goes, Waiter
  <2> QED BY <1>1, <2>2 DEF WaitInv, Made
<1>2. WaitInv => [CheckEvents /\ waiter'.step = "panicked" /\ waiter.saw => gone]_vars
  BY <1>1
<1> QED BY <1>2, InvariantHolds, PTL DEF PanicsOnlyAlongDelete
==============================================================================
