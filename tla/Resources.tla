------------------------------ MODULE Resources ------------------------------
(***************************************************************************)
(* Databases and other services a stack creates for its apps, the links of *)
(* one app to them, and the environment of that app.                       *)
(*                                                                         *)
(* A resource is a CloudFormation stack (aws) or a Deployment Manager      *)
(* deployment (gcp) that the cloud builds and removes while the command    *)
(* line waits.  On gcp linking a database changes four places one after    *)
(* the other: a secret with credentials, the Deployments of the app (a     *)
(* proxy container beside the first one), the stored environment and the   *)
(* record of the app.  aws checks and keeps nothing.                       *)
(*                                                                         *)
(* Every command is a list of calls still to make; calls of different      *)
(* terminals interleave and any of them may fail.                          *)
(*                                                                         *)
(* Abstracted: templates and parameters of a resource, the values of       *)
(* variables (a variable is set or not; DATABASE_URL and INSTANCE_NAME     *)
(* together are the database they name), what Deployments hold beside the  *)
(* proxy container (module Workloads) and the record beside the links      *)
(* (module AppRecord).                                                     *)
(***************************************************************************)
EXTENDS Sequences

CONSTANTS
  Providers,    \* the cloud.Providers a server may be started with
  Databases,    \* names of resources of kind mysql or postgres
  KindNamed,    \* those whose name begins with their kind, as the default name does
  Processes,    \* processes of the app that can have a Deployment
  Variables,    \* environment variables that users set
  Terminals,    \* command lines
  Nothing       \* no formation, no database, no Deployment

ASSUME ResourceAssumption ==
  /\ Providers \subseteq {"aws", "gcp"}
  /\ KindNamed \subseteq Databases
  /\ Nothing \notin Databases \cup Processes \cup Variables

VARIABLES
  provider,     \* the provider of the server
  users,        \* the terminals somebody works at
  formation,    \* per resource: what the cloud is doing, or has done, with it
  secret,       \* the secret with the credentials of the proxy exists
  store,        \* the stored environment of the app
  links,        \* the resources that the record of the app lists
  pods,         \* per process: its Deployment
  todo,         \* per terminal: the calls its command has still to make
  frame         \* per terminal: arguments and local variables of the command

state == <<formation, secret, store, links, pods>>
vars  == <<provider, users, state, todo, frame>>

------------------------------------------------------------------------------
(* Data *)

Env        == [db : Databases \cup {Nothing}, vars : SUBSET Variables]
Deployment == [proxy : Databases \cup {Nothing}]
Formation  == [event : {"CREATE", "DELETE"}, done : BOOLEAN, error : BOOLEAN]

ASSUME FormationAssumption == Nothing \notin Formation

EmptyEnv == [db |-> Nothing, vars |-> {}]
NoPods   == [p \in Processes |-> Nothing]

\* got: since its request was accepted, has the resource been made, or removed, as
\* the command asked; only properties read it.
Idle == [command |-> "none", got |-> FALSE, db |-> Nothing, variable |-> Nothing, process |-> Nothing,
         seen |-> NoPods, left |-> {}, env |-> EmptyEnv, copy |-> {}]

On(aws, gcp) == IF provider = "gcp" THEN gcp ELSE aws

\* The status of a formation, CREATE_COMPLETE being <<"CREATE", "COMPLETE">>; a
\* creation that fails is rolled back.
StackStatus(f) ==
  CASE ~ f.done -> <<f.event, "IN_PROGRESS">>
    [] f.done /\ ~ f.error -> <<f.event, "COMPLETE">>
    [] f.done /\ f.error -> IF f.event = "CREATE" THEN <<"ROLLBACK", "COMPLETE">> ELSE <<"DELETE", "FAILED">>

\* The status of the operation with its error overlooked.
OperationStatus(f) == IF f.done THEN "DONE" ELSE "RUNNING"

\* Deployment Manager reports DONE and an error, which the provider turns into FAILED.
DeploymentStatus(f) == IF f.error THEN "FAILED" ELSE OperationStatus(f)

Status(r) == On(StackStatus(formation[r]), DeploymentStatus(formation[r]))

------------------------------------------------------------------------------
(* Commands: the calls each of them makes, in the order of the code. *)

RestartCalls == <<"restartList", "applyEnv">>

StackLinkCalls   == <<"loadApp", "describe">>
StackUnlinkCalls == <<"loadApp", "describe", "refuse">>

DatabaseLinkCalls ==
  <<"describe", "putSecret", "list", "merge", "readEnv", "putDbEnv">>
    \o RestartCalls \o <<"loadApp", "saveLink">>

DatabaseUnlinkCalls == <<"describe", "dropSecret", "list", "prune", "loadApp", "saveUnlink">>

DeployCalls == <<"readEnv", "loadApp", "list", "deploy">>

CreateCalls == On(<<"createStack", "await">>, <<"insert", "await">>)
DeleteCalls == On(<<"deleteStack", "await">>, <<"delete", "await">>)
EnvCalls    == <<"getEnv", "putEnv">>

Begin(t, f, calls) ==
  /\ t \in users /\ todo[t] = <<>>
  /\ todo' = [todo EXCEPT ![t] = calls]
  /\ frame' = [frame EXCEPT ![t] = f]
  /\ UNCHANGED <<provider, users, state>>

ResourceCreate(t, r) == Begin(t, [Idle EXCEPT !.command = "CREATE", !.db = r], CreateCalls)
ResourceDelete(t, r) == Begin(t, [Idle EXCEPT !.command = "DELETE", !.db = r], DeleteCalls)
ResourceLink(t, r)   == Begin(t, [Idle EXCEPT !.command = "link", !.db = r],
                               On(StackLinkCalls, DatabaseLinkCalls))
ResourceUnlink(t, r) == Begin(t, [Idle EXCEPT !.command = "unlink", !.db = r],
                               On(StackUnlinkCalls, DatabaseUnlinkCalls))
AppRestart(t)        == Begin(t, [Idle EXCEPT !.command = "restart"], RestartCalls)
EnvSet(t, v)         == Begin(t, [Idle EXCEPT !.command = "set", !.variable = v], EnvCalls)
EnvUnset(t, v)       == Begin(t, [Idle EXCEPT !.command = "unset", !.variable = v], EnvCalls)
Deploy(t, p)         == Begin(t, [Idle EXCEPT !.command = "deploy", !.process = p], DeployCalls)

At(t, call) == todo[t] # <<>> /\ Head(todo[t]) = call

\* The command goes on with the calls and local variables f, or has ended.
Continue(t, calls, f) ==
  /\ todo' = [todo EXCEPT ![t] = calls]
  /\ frame' = [frame EXCEPT ![t] = IF calls = <<>> THEN Idle ELSE f]
  /\ UNCHANGED <<provider, users>>

Proceed(t, f) == Continue(t, Tail(todo[t]), f)
End(t)        == Continue(t, <<>>, Idle)

------------------------------------------------------------------------------
(* Creating and deleting a resource.  The deletion of aws asks which apps   *)
(* are linked, and is always told that none is; gcp does not ask.           *)

\* The cloud begins what the call asks for, or refuses.
Ask(t, r, event, accepted) ==
  /\ IF accepted
     THEN /\ formation' = [formation EXCEPT ![r] =
                             [event |-> event, done |-> FALSE, error |-> FALSE]]
          /\ Proceed(t, frame[t])
     ELSE End(t) /\ UNCHANGED formation
  /\ UNCHANGED <<secret, store, links, pods>>

CreateStack(t) ==
  /\ At(t, "createStack")
  /\ LET r == frame[t].db IN Ask(t, r, "CREATE", formation[r] = Nothing)

InsertDeployment(t) ==
  /\ At(t, "insert")
  /\ LET r == frame[t].db IN Ask(t, r, "CREATE", formation[r] = Nothing)

DeleteStack(t) ==
  /\ At(t, "deleteStack")
  /\ LET r == frame[t].db IN Ask(t, r, "DELETE", formation[r] # Nothing)

DeleteDeployment(t) ==       \* refused while an operation runs on it
  /\ At(t, "delete")
  /\ LET r == frame[t].db IN
     Ask(t, r, "DELETE", formation[r] # Nothing /\ formation[r].done)

\* Terminals that wait for the resource to be what this event makes of it.
WaitFor(r, event) == {t \in Terminals : At(t, "await") /\ frame[t].db = r /\ frame[t].command = event}

\* The cloud ends what it does with a resource; one that is deleted is gone.
FormationEnds(r) ==
  /\ formation[r] # Nothing /\ ~ formation[r].done
  /\ \/ /\ formation' = [formation EXCEPT ![r].done = TRUE, ![r].error = TRUE]
        /\ UNCHANGED frame
     \/ LET event == formation[r].event IN
        /\ formation' = [formation EXCEPT ![r] = IF event = "DELETE" THEN Nothing
                                                ELSE [@ EXCEPT !.done = TRUE]]
        /\ frame' = [t \in Terminals |-> IF t \in WaitFor(r, event) THEN [frame[t] EXCEPT !.got = TRUE]
                                         ELSE frame[t]]
  /\ UNCHANGED <<provider, users, secret, store, links, pods, todo>>

\* The command polls until the status is one of the two it knows, the resource
\* cannot be found, or five minutes are over.
StackEnds(event)      == [done |-> <<event, "COMPLETE">>, failed |-> <<event, "FAILED">>]
DeploymentEnds(event) == [done |-> "DONE", failed |-> "FAILED"]

Awaits(t) == On(StackEnds(frame[t].command), DeploymentEnds(frame[t].command))

AwaitDone(t) ==
  /\ At(t, "await") /\ formation[frame[t].db] # Nothing
  /\ Status(frame[t].db) = Awaits(t).done
  /\ End(t)
  /\ UNCHANGED state

AwaitFailed(t) ==
  /\ At(t, "await") /\ formation[frame[t].db] # Nothing
  /\ Status(frame[t].db) = Awaits(t).failed
  /\ End(t)
  /\ UNCHANGED state

\* GetResource fails, which a deletion takes for success and a creation for
\* failure, or five minutes are over, which is told like a success.
AwaitGivesUp(t) ==
  /\ At(t, "await")
  /\ End(t)
  /\ UNCHANGED state

------------------------------------------------------------------------------
(* Linking on gcp.  List takes a snapshot of the Deployments; each is then  *)
(* changed and written back, which Kubernetes refuses when it is not the    *)
(* one that was read any more.                                              *)

Describe(t) ==
  /\ At(t, "describe")
  /\ IF formation[frame[t].db] # Nothing THEN Proceed(t, frame[t]) ELSE End(t)
  /\ UNCHANGED state

\* A secret that exists taken for a link that is complete.
SecretOnce(t) ==
  /\ At(t, "putSecret")
  /\ secret' = TRUE
  /\ IF secret THEN Continue(t, SubSeq(todo[t], 4, Len(todo[t])), frame[t])
     ELSE Proceed(t, frame[t])
  /\ UNCHANGED <<formation, store, links, pods>>

PutSecret(t) ==      \* a secret that exists already is kept
  /\ At(t, "putSecret")
  /\ secret' = TRUE
  /\ Proceed(t, frame[t])
  /\ UNCHANGED <<formation, store, links, pods>>

\* A deletion that fails ends tearCloudProxy without an error: the Deployments
\* are left alone and unlinking goes on with the record.
DropSecret(t) ==
  /\ At(t, "dropSecret")
  /\ \/ secret /\ secret' = FALSE /\ Proceed(t, frame[t])
     \/ Continue(t, <<"loadApp", "saveUnlink">>, frame[t]) /\ UNCHANGED secret
  /\ UNCHANGED <<formation, store, links, pods>>

List(t) ==
  /\ At(t, "list") \/ At(t, "restartList")
  /\ Proceed(t, [frame[t] EXCEPT !.seen = pods, !.left = {p \in Processes : pods[p] # Nothing}])
  /\ UNCHANGED state

\* A restart inside a link may fail: that is logged and the link goes on.
GiveUp(t) ==
  IF frame[t].command = "link" /\ Head(todo[t]) \in {"restartList", "applyEnv"}
  THEN Continue(t, <<"loadApp", "saveLink">>,
                [Idle EXCEPT !.command = "link", !.db = frame[t].db])
  ELSE End(t)

\* An update that is never refused, and the one that is.
Overwrites(t, p) == TRUE
Fresh(t, p) == pods[p] = frame[t].seen[p]

\* The loop over the listed Deployments: updated[p] is written for each p.
UpdateEach(t, updated) ==
  \/ /\ frame[t].left = {}
     /\ Proceed(t, [frame[t] EXCEPT !.seen = NoPods])
     /\ UNCHANGED pods
  \/ \E p \in frame[t].left :
       IF Fresh(t, p)
       THEN /\ pods' = [pods EXCEPT ![p] = updated[p]]
            /\ Continue(t, todo[t], [frame[t] EXCEPT !.left = @ \ {p}])
       ELSE GiveUp(t) /\ UNCHANGED pods

\* MergeCloudSQLManifest: the container is added, or replaced if there is one.
WithProxy(dp, r) == [dp EXCEPT !.proxy = r]

Merge(t) ==
  /\ At(t, "merge")
  /\ UpdateEach(t, [p \in frame[t].left |-> WithProxy(frame[t].seen[p], frame[t].db)])
  /\ UNCHANGED <<formation, secret, store, links>>

\* PruneCloudSQLManifest takes the container away, whichever database it is for.
Prune(t) ==
  /\ At(t, "prune")
  /\ UpdateEach(t, [p \in frame[t].left |-> WithProxy(frame[t].seen[p], Nothing)])
  /\ UNCHANGED <<formation, secret, store, links>>

\* SetPodEnv writes the stored environment into the first container.
ApplyEnv(t) ==
  /\ At(t, "applyEnv")
  /\ UpdateEach(t, frame[t].seen)
  /\ UNCHANGED <<formation, secret, store, links>>

\* AppGet; that it writes what it read back is module AppRecord's subject.
LoadApp(t) ==
  /\ At(t, "loadApp")
  /\ Proceed(t, [frame[t] EXCEPT !.copy = links])
  /\ UNCHANGED state

\* A failed write of the record is only logged.
SaveLink(t) ==
  /\ At(t, "saveLink")
  /\ links' \in {links, frame[t].copy \cup {frame[t].db}}
  /\ Proceed(t, frame[t])
  /\ UNCHANGED <<formation, secret, store, pods>>

SaveUnlink(t) ==
  /\ At(t, "saveUnlink")
  /\ links' \in {links, frame[t].copy \ {frame[t].db}}
  /\ Proceed(t, frame[t])
  /\ UNCHANGED <<formation, secret, store, pods>>

Refuse(t) ==         \* aws: no resource is ever linked to an app
  /\ At(t, "refuse")
  /\ End(t)
  /\ UNCHANGED state

------------------------------------------------------------------------------
(* The environment is read and written as a whole.  "env set" takes one it  *)
(* cannot read for an empty one.                                            *)

ReadEnv(t) ==
  /\ At(t, "readEnv") \/ At(t, "getEnv")
  /\ Proceed(t, [frame[t] EXCEPT !.env = store])
  /\ UNCHANGED state

ReadFails(t) ==
  /\ At(t, "getEnv") /\ frame[t].command = "set"
  /\ Proceed(t, [frame[t] EXCEPT !.env = EmptyEnv])
  /\ UNCHANGED state

DbEnv(t) == [frame[t].env EXCEPT !.db = frame[t].db]

PutDbEnv(t) ==
  /\ At(t, "putDbEnv")
  /\ store' = DbEnv(t)
  /\ Proceed(t, [frame[t] EXCEPT !.env = EmptyEnv])
  /\ UNCHANGED <<formation, secret, links, pods>>

Edited(f) ==
  [f.env EXCEPT !.vars = IF f.command = "set" THEN @ \cup {f.variable} ELSE @ \ {f.variable}]

PutEnv(t) ==
  /\ At(t, "putEnv")
  /\ store' = Edited(frame[t])
  /\ Proceed(t, frame[t])
  /\ UNCHANGED <<formation, secret, links, pods>>

------------------------------------------------------------------------------
(* The deploy of a process: a new Deployment has the proxy if the record    *)
(* lists a resource named after its kind and the environment has a          *)
(* database; an existing one has only its own container replaced.           *)

Linked(copy) == provider = "gcp" /\ copy \cap KindNamed # {}

Created(f) == [proxy |-> IF Linked(f.copy) THEN f.env.db ELSE Nothing]

CreateOrUpdateDeployment(t) ==
  LET f == frame[t]  p == f.process IN
  /\ At(t, "deploy")
  /\ IF Fresh(t, p)
     THEN /\ pods' = [pods EXCEPT ![p] =
                        IF @ = Nothing THEN Created(f) ELSE f.seen[p]]
          /\ Proceed(t, f)
     ELSE End(t) /\ UNCHANGED pods
  /\ UNCHANGED <<formation, secret, store, links>>

------------------------------------------------------------------------------
(* A call that fails ends its command with an error, a restart inside a     *)
(* link excepted.  What was written stays.                                  *)

Fail(t) ==
  /\ todo[t] # <<>>
  /\ Head(todo[t]) \notin {"await", "refuse", "saveLink", "saveUnlink", "dropSecret"}
  /\ GiveUp(t)
  /\ UNCHANGED state

Init ==
  /\ provider \in Providers
  /\ users \in SUBSET Terminals \ {{}}
  /\ formation = [r \in Databases |-> Nothing]
  /\ secret = FALSE
  /\ store = EmptyEnv
  /\ links = {}
  /\ pods = NoPods
  /\ todo = [t \in Terminals |-> <<>>]
  /\ frame = [t \in Terminals |-> Idle]

Command(t) ==
  \/ \E r \in Databases :
       ResourceCreate(t, r) \/ ResourceDelete(t, r) \/ ResourceLink(t, r) \/ ResourceUnlink(t, r)
  \/ AppRestart(t)
  \/ \E v \in Variables : EnvSet(t, v) \/ EnvUnset(t, v)
  \/ \E p \in Processes : Deploy(t, p)

Step(t) ==
  \/ CreateStack(t) \/ InsertDeployment(t) \/ DeleteStack(t) \/ DeleteDeployment(t)
  \/ AwaitDone(t) \/ AwaitFailed(t) \/ AwaitGivesUp(t)
  \/ Describe(t) \/ PutSecret(t) \/ DropSecret(t) \/ List(t) \/ Merge(t) \/ Prune(t)
  \/ ApplyEnv(t) \/ LoadApp(t) \/ SaveLink(t) \/ SaveUnlink(t) \/ Refuse(t)
  \/ ReadEnv(t) \/ ReadFails(t) \/ PutDbEnv(t) \/ PutEnv(t)
  \/ CreateOrUpdateDeployment(t) \/ Fail(t)

Next ==
  \/ \E t \in Terminals : Command(t) \/ Step(t)
  \/ \E r \in Databases : FormationEnds(r)

Spec == Init /\ [][Next]_vars

------------------------------------------------------------------------------
(* Properties *)

\* Formations, environments and Deployments are of the right kind.
TypeOK ==
  /\ provider \in Providers /\ users \subseteq Terminals
  /\ formation \in [Databases -> Formation \cup {Nothing}]
  /\ secret \in BOOLEAN /\ store \in Env /\ links \subseteq Databases
  /\ pods \in [Processes -> Deployment \cup {Nothing}]

AloneOnGcp == provider = "gcp" /\ \E t \in Terminals : users = {t}

\* A wait that ends with a status of success is right: since its request was
\* accepted the resource has been made, or removed, as the command asked.  The
\* status says what was last done with the resource, which may have been asked by
\* another terminal meanwhile; on gcp it does not even say whether that was a
\* creation or a deletion.
DoneAsAsked == [][\A t \in Terminals : AwaitDone(t) => frame[t].got]_vars

\* Deploys, restarts and links that overlap never lose the proxy container of
\* a Deployment: only unlinking a database takes it away.
ProxyKept ==
  [][\A p \in Processes :
       pods[p] # Nothing /\ pods[p].proxy # Nothing /\ pods'[p].proxy = Nothing =>
         \E t \in Terminals : Prune(t)]_vars

\* When one user works at a time, a gcp link that is answered without an error
\* has reached every Deployment and the stored environment, whatever failed in
\* earlier links, unlinks and deploys.
LinkTakesEffect ==
  [][\A t \in Terminals :
       AloneOnGcp /\ SaveLink(t) =>
         /\ store.db = frame[t].db
         /\ \A p \in Processes : pods[p] # Nothing => pods[p].proxy = frame[t].db]_vars
==============================================================================
