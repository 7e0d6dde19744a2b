----------------------------- MODULE RolloutWait -----------------------------
(***************************************************************************)
(* How a deploy waits for its rollout.  Deployer.Run writes the Deployment *)
(* and polls twice: until the controller has seen the new generation       *)
(* (waitUntilDeploymentUpdated), then until the status shows all replicas  *)
(* updated and available (waitUntilDeploymentReady).  Both loops are       *)
(* bounded and a loop that runs out is no error.                           *)
(*                                                                         *)
(* Meanwhile other requests scale or redeploy the Deployment, a delete of  *)
(* its app removes it and the ReplicaSets of all processes, the controller *)
(* replaces pods and reports with delay, and pods come up, fail or fall    *)
(* back.  The controller and the pods are Kubernetes: modelled as the code *)
(* uses them.                                                              *)
(*                                                                         *)
(* Abstracted: a second of waiting is a poll.  What the events of a pod    *)
(* say is left open: where the code asks for them, both answers are taken. *)
(* That the cluster refuses to create a pod is an event that ends the      *)
(* server, like the failure of a call just before (CheckEvents): it needs  *)
(* no state of its own.                                                    *)
(***************************************************************************)
EXTENDS Naturals, FiniteSets

CONSTANTS
  Pods,          \* identities of pods
  MaxReplicas,   \* bound on the replicas asked for
  MaxTemplate,   \* bound on the deploys of a run
  MaxGeneration, \* bound on the writes of one Deployment
  UpdatePolls,   \* 30 in the code: polls for the generation
  Timeout,       \* 120 in the code: polls for the replicas
  Every,         \* 10 in the code: polls between two looks at the pods
  None

ASSUME WaitAssumption ==
  /\ UpdatePolls \in Nat \ {0} /\ Timeout \in Nat \ {0} /\ Every \in Nat \ {0}
  /\ MaxReplicas \in Nat \ {0} /\ MaxTemplate \in Nat /\ MaxGeneration \in Nat \ {0}
  /\ IsFiniteSet(Pods)

VARIABLES
  spec,       \* the Deployment as written, or None
  status,     \* the Deployment as the controller last reported it
  pods,       \* pod -> its state, or None
  sets,       \* the templates of the process that have a ReplicaSet
  gone,       \* has one been removed that the controller may not have missed
  deleter,    \* where the delete of the app is: "idle" also between two Deployments
  templates,  \* deploys so far
  waiter      \* the deploy that waits

vars == <<spec, status, pods, sets, gone, deleter, templates, waiter>>

Deployment == [generation : 1..MaxGeneration, template : 1..MaxTemplate, replicas : 0..MaxReplicas]

\* observed and template say what the controller had seen when it reported.
Status == [observed : 0..MaxGeneration, template : 0..MaxTemplate,
           replicas : Nat, updated : Nat, available : Nat]

Unreported == [observed |-> 0, template |-> 0, replicas |-> 0, updated |-> 0, available |-> 0]

\* A pod is pending, running but not ready, ready, or waiting between crashes.
PodStates == {"pending", "starting", "ready", "crashing"}
Pod == [template : 1..MaxTemplate, state : PodStates]

ASSUME NoneIsNothing == None \notin Deployment \cup Pod

Steps == {"idle", "updated", "events", "sets", "ready", "pending", "final", "unready",
          "ok", "error", "dead", "panicked"}

\* saw: has the first loop seen the generation it waits for.
Waiter == [step : Steps, template : 0..MaxTemplate, polls : 0..UpdatePolls, waited : 0..Timeout,
           saw : BOOLEAN]

At(step) == waiter.step = step
Goes(step) == waiter' = [waiter EXCEPT !.step = step]
Cluster == <<spec, status, pods, sets, gone, deleter, templates>>

------------------------------------------------------------------------------
(* Writes: the deploy that waits, and other requests.                       *)

\* CreateOrUpdateDeployment: no replicas are asked for, a new one gets one from
\* the cluster; the mistake of a new one whose replicas stay unset.
RolledUnset(t) ==
  IF spec = None THEN [generation |-> 1, template |-> t, replicas |-> None]
  ELSE [spec EXCEPT !.generation = @ + 1, !.template = t]

Rolled(t) ==
  IF spec = None THEN [generation |-> 1, template |-> t, replicas |-> 1]
  ELSE [spec EXCEPT !.generation = @ + 1, !.template = t]

Room == spec # None => spec.generation < MaxGeneration

Redeploy ==
  /\ templates < MaxTemplate /\ Room
  /\ templates' = templates + 1
  /\ spec' = Rolled(templates + 1)
  /\ status' = IF spec = None THEN Unreported ELSE status
  /\ UNCHANGED <<pods, sets, gone, deleter>>

Deploy ==
  /\ At("idle")
  /\ Redeploy
  /\ waiter' = [waiter EXCEPT !.step = "updated", !.template = templates + 1]

RedeployByOther == Redeploy /\ UNCHANGED waiter

Scale(n) ==
  /\ spec # None /\ Room
  /\ spec' = [spec EXCEPT !.generation = @ + 1, !.replicas = n]
  /\ UNCHANGED <<status, pods, sets, gone, deleter, templates, waiter>>

\* DeleteApp goes through the Deployments of the app.  It scales each to zero and
\* deletes it, then deletes the ReplicaSets of every process of the app and goes
\* on with the next Deployment.
\* A write that changes nothing makes no generation.
ScaleDown ==
  /\ deleter = "idle" /\ spec # None
  /\ spec.replicas = 0 \/ Room
  /\ spec' = IF spec.replicas = 0 THEN spec
             ELSE [spec EXCEPT !.generation = @ + 1, !.replicas = 0]
  /\ deleter' = "scaled"
  /\ UNCHANGED <<status, pods, sets, gone, templates, waiter>>

\* Its ReplicaSets stay until they are deleted themselves.
DeleteDeployment ==
  /\ deleter = "scaled" /\ spec # None
  /\ spec' = None /\ status' = Unreported
  /\ deleter' = "drops"
  /\ UNCHANGED <<pods, sets, gone, templates, waiter>>

DeleteOfOtherProcess ==
  /\ deleter = "idle" /\ deleter' = "drops"
  /\ UNCHANGED <<spec, status, pods, sets, gone, templates, waiter>>

\* One that cannot be deleted is only logged.
DropReplicaSet(t) ==
  /\ deleter = "drops" /\ t \in sets
  /\ sets' = sets \ {t} /\ gone' = TRUE
  /\ UNCHANGED <<spec, status, pods, deleter, templates, waiter>>

\* The next Deployment, the end, or a call that has failed.
EndDelete ==
  /\ deleter # "idle" /\ deleter' = "idle"
  /\ UNCHANGED <<spec, status, pods, sets, gone, templates, waiter>>

Delete ==
  \/ ScaleDown \/ DeleteDeployment \/ DeleteOfOtherProcess
  \/ (\E t \in sets : DropReplicaSet(t)) \/ EndDelete

------------------------------------------------------------------------------
(* The Deployment controller and the pods                                   *)

Live == {p \in Pods : pods[p] # None}
Of(t) == {p \in Live : pods[p].template = t}

\* Also one that has been removed under the Deployment.
CreateReplicaSet ==
  /\ spec # None /\ spec.template \notin sets
  /\ sets' = sets \cup {spec.template} /\ gone' = FALSE
  /\ UNCHANGED <<spec, status, pods, deleter, templates, waiter>>

\* The controller reports of a Deployment once it has a ReplicaSet for it, or
\* has not missed the one that was removed.
Report ==
  /\ spec # None
  /\ \/ spec.template \in sets /\ gone' = FALSE
     \/ gone /\ UNCHANGED gone
  /\ status' = [observed |-> spec.generation, template |-> spec.template,
                replicas |-> Cardinality(Live),
                updated |-> Cardinality(Of(spec.template)),
                available |-> Cardinality({p \in Live : pods[p].state = "ready"})]
  /\ UNCHANGED <<spec, pods, sets, deleter, templates, waiter>>

\* One pod beyond the replicas while it rolls out.
CreatePod(p) ==
  /\ spec # None /\ spec.template \in sets
  /\ pods[p] = None
  /\ Cardinality(Live) <= spec.replicas /\ Cardinality(Of(spec.template)) < spec.replicas
  /\ pods' = [pods EXCEPT ![p] = [template |-> spec.template, state |-> "pending"]]
  /\ UNCHANGED <<spec, status, sets, gone, deleter, templates, waiter>>

RemovePod(p) ==
  /\ p \in Live
  /\ spec # None => pods[p].template # spec.template \/ Cardinality(Live) > spec.replicas
  /\ pods' = [pods EXCEPT ![p] = None]
  /\ UNCHANGED <<spec, status, sets, gone, deleter, templates, waiter>>

PodTurns(p) ==
  /\ p \in Live
  /\ \E new \in PodStates :
       /\ <<pods[p].state, new>> \in
            {<<"pending", "starting">>, <<"starting", "ready">>, <<"starting", "crashing">>,
             <<"crashing", "starting">>, <<"ready", "starting">>}
       /\ pods' = [pods EXCEPT ![p].state = new]
  /\ UNCHANGED <<spec, status, sets, gone, deleter, templates, waiter>>

------------------------------------------------------------------------------
(* waitUntilDeploymentUpdated                                               *)

\* The mistake of a wait that any report satisfies.
AnyReport == spec # None

Observed == spec # None /\ status.observed >= spec.generation

SeesGeneration ==
  /\ At("updated") /\ Observed
  /\ waiter' = [waiter EXCEPT !.step = "events", !.saw = TRUE]
  /\ UNCHANGED Cluster

\* A Deployment that is not there counts as one that is not observed.
SeesOldGeneration ==
  /\ At("updated") /\ ~ Observed
  /\ waiter' = [waiter EXCEPT !.polls = @ + 1,
                              !.step = IF waiter.polls + 1 = UpdatePolls THEN "events" ELSE @]
  /\ UNCHANGED Cluster

------------------------------------------------------------------------------
(* waitUntilDeploymentReady                                                 *)

GetDeployment ==
  /\ At("events")
  /\ Goes(IF spec = None THEN "error" ELSE "sets")
  /\ UNCHANGED Cluster

\* checkforFailedEvents takes the first ReplicaSet of the process, of whichever
\* deploy: without one, the index ends the server.  So does a list that fails,
\* and an event that a pod of it could not be created.
CheckEvents ==
  /\ At("sets")
  /\ \/ sets = {} /\ Goes("panicked")
     \/ sets # {} /\ Goes("ready")
     \/ Goes("dead")
  /\ UNCHANGED Cluster

AllReady ==
  /\ spec # None
  /\ status.available >= status.replicas
  /\ {status.replicas, status.updated, status.available} = {spec.replicas}

TimesOut ==
  /\ At("ready") /\ waiter.waited >= Timeout
  /\ Goes("final")
  /\ UNCHANGED Cluster

SeesReady ==
  /\ At("ready") /\ waiter.waited < Timeout /\ AllReady
  /\ Goes("final")
  /\ UNCHANGED Cluster

\* The mistake of a second that is not counted.
SameSecond == waiter.waited

NextSecond == waiter.waited + 1

\* A call that fails counts as replicas that are not ready.
SeesNotReady ==
  /\ At("ready") /\ waiter.waited < Timeout
  /\ IF waiter.waited > 0 /\ waiter.waited % Every = 0
     THEN Goes("pending")
     ELSE waiter' = [waiter EXCEPT !.waited = NextSecond]
  /\ UNCHANGED Cluster

\* The pods that are looked at have the labels of the process: those of earlier
\* deploys are among them.
LatestPods == Live

\* handlePendingPods.  A pod that crashes counts whatever is said of it, any other
\* one if it has an event Failed.
CheckPending ==
  /\ At("pending")
  /\ \/ LatestPods # {} /\ Goes("error")
     \/ /\ \A p \in LatestPods : pods[p].state # "crashing"
        /\ waiter' = [waiter EXCEPT !.step = "ready", !.waited = NextSecond]
  /\ UNCHANGED Cluster

FinalCheck ==
  /\ At("final")
  /\ (AllReady /\ Goes("ok")) \/ Goes("unready")
  /\ UNCHANGED Cluster

\* handleNotReadyPods: an error if a pod that runs and is not ready has said why.
CheckUnready ==
  /\ At("unready")
  /\ \/ (\E p \in Live : pods[p].state \in {"starting", "crashing"}) /\ Goes("error")
     \/ Goes("ok")
  /\ UNCHANGED Cluster

Waiting == waiter.step \in {"updated", "events", "pending", "unready"}

\* A call to the cluster fails, where that is an error of the deploy.
Fail == Waiting /\ Goes("error") /\ UNCHANGED Cluster

------------------------------------------------------------------------------
Init ==
  /\ spec = None /\ status = Unreported
  /\ pods = [p \in Pods |-> None]
  /\ sets = {} /\ gone = FALSE
  /\ deleter = "idle"
  /\ templates = 0
  /\ waiter = [step |-> "idle", template |-> 0, polls |-> 0, waited |-> 0, saw |-> FALSE]

Wait ==
  \/ SeesGeneration \/ SeesOldGeneration \/ GetDeployment \/ CheckEvents \/ TimesOut \/ SeesReady
  \/ SeesNotReady \/ CheckPending \/ FinalCheck \/ CheckUnready

Environment ==
  \/ RedeployByOther \/ Delete \/ (\E n \in 0..MaxReplicas : Scale(n))
  \/ CreateReplicaSet \/ Report \/ (\E p \in Pods : CreatePod(p) \/ RemovePod(p) \/ PodTurns(p))

Over == waiter.step \in {"ok", "error", "dead", "panicked"}

\* What the cluster does after the wait is no part of it.
Next == Deploy \/ Wait \/ Fail \/ (~ Over /\ Environment)

\* The loops run in a goroutine of the server that nothing blocks.
Spec == Init /\ [][Next]_vars /\ WF_vars(Wait)

------------------------------------------------------------------------------
(* Properties *)

TypeOK ==
  /\ spec \in Deployment \cup {None}
  /\ status \in Status
  /\ pods \in [Pods -> Pod \cup {None}]
  /\ sets \subseteq 1..MaxTemplate
  /\ gone \in BOOLEAN
  /\ deleter \in {"idle", "scaled", "drops"}
  /\ templates \in 0..MaxTemplate
  /\ waiter \in Waiter

\* If the first loop saw its generation, the replicas the second loop finds
\* ready are those of this deploy or of a later one, whatever other requests
\* wrote in between: the order of the two loops is what makes "ready" mean it.
ReadyIsOfThisDeploy ==
  [][SeesReady /\ waiter.saw /\ spec.template = waiter.template =>
       status.template = waiter.template /\ status.updated = status.replicas]_vars

\* Once the first loop has seen its generation, the index of checkforFailedEvents
\* ends the server only if a delete of the app has meanwhile removed ReplicaSets
\* and the controller has made none since; the Deployment itself need be neither
\* deleted nor deployed again for that.
PanicsOnlyAlongDelete ==
  [][CheckEvents /\ waiter'.step = "panicked" /\ waiter.saw => gone]_vars

\* The wait ends, whatever the cluster does.
WaitEnds == At("updated") ~> Over
=============================================================================
