# Datacol in TLA+

Datacol is a small platform as a service: a command line tool and an API
server that build, release, run, scale and delete apps on a Kubernetes cluster
in AWS, in Google Cloud or on a laptop. This directory holds TLA+ modules
translated from its Go source, the TLC configurations that check them, and
TLAPS proofs. Sources are named relative to the root of the repository.

## 1. Inventory

```
 datacol CLI (cmd/, client/)  --gRPC, websocket-->  API server (api/)
                                                        |
                                                 cloud.Provider
                                        aws        |     gcp      |   local
                                   CloudFormation  | Deployment   |  memory
                                   CodeBuild, S3   | Manager, GCB |  docker
                                        |          |              |
                                   DynamoDB        | Datastore    | k8s Secrets   (store.Store)
                                        \__________|______________/
                                                   |
                                  common/apps.go, k8s/ (scheduler)
                                                   |
                                         Kubernetes API server
```

No part of the server takes a lock: gRPC starts one goroutine per request, and
all of them share the store and the cluster. gRPC does not recover a panic, and
some code calls `log.Fatal`: both end the server and every request in flight.

| Component | State | Operations | Hard part | What makes it correct |
|---|---|---|---|---|
| App records (`api/`, `cloud/*/apps.go`, `cloud/*/releases.go`, `cloud/*/store/app.go`, `k8s/store/app.go`) | table of apps, releases, builds; a private copy of the record per request | create, get, delete, domains, release | read-modify-write without versions; a get that writes; calls that fail half way; crashes | build and release of a record belong together; a deleted app stays deleted; a record has its stack; versions tell releases apart |
| Ingress of a stack (`k8s/helper.go`, `k8s/certs.go`, `k8s/deployer.go`, `k8s/common.go`) | one Ingress object shared by all apps: rules, TLS entries, resourceVersion | merge the rules of a deploy, set and delete certificates, delete an app | edits a slice while ranging over it; update conflicts; secret and Ingress written one after the other | a host has one rule; other apps' rules stay; every TLS entry has its secret |
| Ingress controller (`k8s/ingress.go`) | RBAC, default backend, controller objects in the namespace | set up, remove | staged creation that stops at an error; removal that only logs errors | the controller is complete before rules are written |
| Workloads (`common/apps.go`, `k8s/deployer.go`, `k8s/deployment.go`, `k8s/pod.go`, `k8s/process.go`) | Deployments, CronJobs, their specs and resourceVersions | deploy, scale, limits, environment, delete | get-then-update races; partial failure over several processes; fields a deploy must not reset | limits survive a deploy; no write undoes another; deploys and deletes reach every process |
| Rollout waiting (`k8s/deployment.go`, `k8s/pod.go`) | poll counters, pod phases | wait for update, readiness, pods | bounded polls that end without an answer | success is reported only for pods that are ready |
| Builds (`cloud/*/builder.go`, `cloud/local/build.go`, `*/store/build.go`, `client/build.go`, `cmd/build.go`, `cmd/deploy.go`) | build rows, remote builds, archives, images | create, upload, import, status, delete, release | remote job started before the row is saved; status refreshed lazily by readers that write | a success has its image; a recorded end stays; waiting ends |
| Resources (`cloud/*/resources.go`, `cloud/google/cloudsql.go`, `cmd/infra.go`) | CloudFormation stacks, deployments, a secret, the proxy container, links | create, delete, link, unlink | one link changes four places, any of which may fail; deploys rewrite the same Deployments | a link reaches all of them; the proxy is not lost; a wait reports what its own command got |
| Environment (`cmd/env.go`, `cloud/*/environ*.go`) | env of an app, in an object store or a secret | get, set, unset, restart | read-modify-write in the client; linking writes it too | what is linked is in the environment and in the pods |
| Provisioning and client configuration (`cmd/stack.go`, `cmd/login.go`, `cmd/provider/*`, `cmd/stdcli/apprc.go`) | the cloud stack, a configuration file with credentials per stack and a context | init, login, destroy | waits with interrupts that know some of the final states; a whole file rewritten from an old copy | the context is a listed stack; every command ends; a teardown leaves nothing |
| One-off processes and streams (`k8s/process.go`, `k8s/pod.go`, `k8s/logs.go`, `api/process.go`, `api/logs.go`, `api/helper.go`, `client/`) | pods, connections, goroutines | run, logs, proxy | goroutines that share a slice; two copy loops awaited together; a pod that never runs | a run's pod is removed; a session that nothing holds ends |
| Credentials of the server (`cloud/*/kubeconfig.go`, `api/server.go`, `api/kubectl.go`) | the file with the cluster's configuration, the client made from it once | fetch, make the client, start | a file taken for complete wherever it is found; several that fetch it | once complete it stays so |

## 2. Modules

| Module | Models | Relations |
|---|---|---|
| `AppRecord` | the app record and the handlers of `cloud/*/apps.go`, `cloud/*/releases.go`, with the three stores | implements `AppRegistry` |
| `AppRegistry` | abstract: a table of apps in which each request takes effect at once | |
| `IngressRules` | `mergeIngressRules` as a function of two rule lists, with Go's slice semantics | |
| `SharedIngress` | the Ingress object all apps share and the nginx controller that serves it: deploys, certificates, deletes | extends `IngressRules` |
| `Workloads` | Deployments and CronJobs of an app: deploy, scale, limits, restart, delete | implements `ProcessTable` |
| `ProcessTable` | abstract: a table of processes, one changed at a time | |
| `RolloutWait` | the two bounded waits of a deploy against controller, pods and other requests | |
| `BuildLifecycle` | builds from a source to a release, on three providers | |
| `StackLifecycle` | init, login and destroy against the cloud and the configuration file | |
| `Resources` | databases, links, the environment, and the proxy container in the Deployments | |
| `Credentials` | how the server comes by its access to the cluster | |
| `Sessions` | run, logs and proxy sessions with both their ends | extends `Credentials` |

`MCAppRecord`, `MCSharedIngress`, `MCWorkloads`, `MCBuildLifecycle`,
`MCRolloutWait`, `MCStackLifecycle`, `MCResources` and `MCSessions` extend the
module they are named for with what TLC needs, the symmetry of its sets where no
liveness is checked. `AppRecordProofs`, `SharedIngressProofs`,
`WorkloadsProofs`, `RolloutWaitProofs`, `BuildLifecycleProofs`,
`StackLifecycleProofs`, `ResourcesProofs` and `SessionsProofs` hold theorems.

The modules divide the server where its parts meet in few calls. A release
writes the record (`AppRecord`), then rolls out: the order of the calls of one
rollout is in `Workloads`, its wait in `RolloutWait`, its routes in
`SharedIngress`. In `AppRecord` the rollout is therefore one call, and
`Resources` knows of a Deployment only the container that linking adds. What a
command line does before a release, and whether it gets there, is in
`BuildLifecycle`. `Sessions` needs the credentials to hold while they are
fetched, and is composed with them.

### How state and actions correspond to the code

One convention holds throughout: an action is the code between two calls to
something shared (a store, the cluster, the cloud, a file, a queue), for that is
where others run; `Fail` ends a request at a call whose error the code returns.
The provider of a server is a variable that never changes, chosen in `Init`.

**AppRecord.** `apps`, `builds` and `releases` are the tables of the store,
`stacks` the CloudFormation stacks of aws apps, `live` what the cluster runs,
`deploys` the slice `LocalCloud.Releases`, which is memory of the server. A
request is a list of calls (`todo`) and a frame with its arguments and local
variables (`frame`). The lists (`AwsReleaseCalls`, `GcpDeleteCalls`, ...) are
the handlers' bodies in their order, one list per provider; a step makes the
first call of a list, takes the early returns that follow it, and leaves the
rest. `Crash` is the death of the server at any moment, and
`ListBuildsPanics` the slice expression `builds[0:-1]` of the secret store.
`ReleaseCount` is the set of answers the count of releases may give, 0 among
them on the clouds, where an error of the count is logged and taken for none.

**IngressRules, SharedIngress.** A list of rules is an array with a length,
because the second loop of `mergeIngressRules` shortens the slice it ranges
over: `RemoveCell` does what `append(s[:i], s[i+1:]...)` does, reads beyond the
new length included. `SharedIngress` has one action per call of
`CreateOrUpdateIngress`, `CertificateSet`, `CertificateDelete` and the cleanup in
`DeleteApp`. Optimistic concurrency of Kubernetes is the flag `fresh`: a
request's copy stops being fresh when the object is written, and an update from
it is then refused. `controller` is the set of the pieces of the nginx
controller that exist, `asleep` those of them that are Deployments scaled to
no replicas. `Setup` creates the pieces of one function that are not there, in
order, and may stop after any of them; it scales nothing up.
`RemoveController` scales each Deployment to 0 and then deletes it, may fail at
either with only a log line, and never deletes two of the pieces, whose names it
takes from another.

**Workloads.** A request has a queue of processes and works through it with one
Get and one conditional write each (`GetDeployment`,
`CreateOrUpdateDeployment`); limits and environment take all their copies first
(`UpdateLimits`, `UpdateEnv`), as the code lists before it loops. A delete
drops the error of its list and goes on with nothing to delete (`Unlisted`), and
a CronJob it fails to delete is only warned about. `alone` is a
history variable: no other request was in flight since this one began.

**RolloutWait.** `waiter.step` is the place in `waitUntilDeploymentUpdated` and
`waitUntilDeploymentReady`. The Deployment has a generation, the status the
generation the controller had seen; the controller (`Report`, `CreateReplicaSet`,
`CreatePod`, `RemovePod`) and the pods (`PodTurns`) are external. `sets` are the
templates with a ReplicaSet. A delete of the app (`deleter`: `ScaleDown`,
`DeleteDeployment`, `DropReplicaSet`, `EndDelete`) goes through the Deployments of all processes and removes the
ReplicaSets of all of them after each (`DeleteOfOtherProcess`), so this
Deployment can stand without any; `gone` remembers that one was removed and not
made again. What the events of a pod say is left open: `CheckPending` and
`CheckUnready` take both answers wherever the code asks for them. Steps that poll take a failed call for "not ready", as the code
does; a failed list of ReplicaSets or of events is `log.Fatal` (the step
"dead"), an empty one a panic ("panicked"); elsewhere `Fail` returns the error.

**BuildLifecycle.** `record` is the build row, `remote` the job at CodeBuild or
Cloud Build, `image` the registry: for each build, the build whose source the
image was made from. `input` is the archive a job is to take and `uploads` the
order in which archives arrived at the place they share, named after the app
on aws and local. `cli` is the state of each command line, with the
step of the `BuildGet` it makes (load, fetch and save are three steps; on aws
nobody looks whether the save failed).

**StackLifecycle.** `cloud` is the state of the CloudFormation stack or
deployment of each stack, `full` says whose settings bucket holds objects,
`owned` what a stack's server has created beside it, `keypairs` the EC2 key
pairs, `config` the file `~/.datacol/config.json` and `files` the directories
of credentials. Each terminal of `cli` runs one command, begun by `AwsInit`,
`GcpInit`, `LocalInit`, `Login` or `Destroy`; its remaining actions are its
calls. A wait polls what the cloud has made of the operation (`op`): on gcp an
operation keeps its outcome whatever happens to the deployment later. An
interrupt is a signal that the next poll sees (`Interrupt`), `Die` closes the
terminal, `Consent` is the user's browser. A configuration that cannot be read
when an auth is added is taken for an empty one (`LoadApprc`). `CreationEnds`, `DeletionEnds` and
`ServerWorks` are the cloud and the stack's server.

**Resources.** `formation` is what the cloud does with a resource; `secret`,
`pods`, `store` and `links` are the four places a link on gcp changes.
Commands are lists of calls, as in `AppRecord` (`DatabaseLinkCalls`,
`RestartCalls`, ...). The environment is read, edited and written whole by the
command line (`getEnv`, `putEnv`) and by linking (`readEnv`, `putDbEnv`). `got`
in a frame is a history variable: since the cloud accepted the request, the
resource has been made, or removed, as the command asked (`FormationEnds`).
`users`
is chosen in `Init`: the properties of a single user are checked in the states
where there is one.

**Credentials, Sessions.** `config` is the file on the server's machine: absent,
whole, or what a copy that broke off has left. Four that fetch it share
`Fetching`; `once` and `client` are the `sync.Once` and the client of the
process. A session is both ends of a websocket: `step` is the place of the
handler, `copies` its two goroutines, `near` and `far` the sides that the bytes
come from. The goroutines that open log streams are three steps (the request,
the read of the slice, its write), for they append without a lock. The server
dies of a goroutine's panic, of `log.Fatal` when no client can be made, or by
itself.

## 3. Runs

| Run | Asks | Instance |
|---|---|---|
| `app_record_overlap` | do build and release of a record stay together, was what runs saved as a release, does a late write revive an app | aws and the secret store; 1 app, 1 domain, 2 builds, 2 releases, 2 overlapping handlers, failures, crashes; on the secret store one of the builds at a time (`OneLocalBuild`) |
| `app_record_sequential` | does the API implement the table of apps; does a record keep its stack; is a deploy recorded; which versions can repeat | three providers, 1 app, 2 domains, 2 builds, 3 releases, 1 handler at a time, failures, crashes, counts that fail |
| `ingress_overlap` | one rule per host; no deploy takes other routes; its domains are routed | gcp, 2 apps, 2 domains, 1 certificate, 2 overlapping requests |
| `ingress_sequential` | TLS entries have secrets; deleting spares others; the controller comes first | aws and gcp, 2 apps, 3 domains, 2 ports, 1 request, any call of which fails |
| `ingress_stale_route` | (violated) a deploy leaves no stale rule | 1 app, 3 domains |
| `workloads` | do limits persist; is every write atomic; do deploy and delete reach everything | web, worker and one scheduled process, 2 builds, 3 requests, 2 of them at a time |
| `build_lifecycle` | do successes have images, of which source; do ends stay, does a release wait, does waiting end | three providers, 2 builds and 1 tagged image, 2 command lines with 2 commands |
| `build_deploy_check` | (violated) what is released was built | aws, 1 build, 1 tag, 2 command lines, 3 commands |
| `rollout_wait` | is "ready" said of this deploy; when does the failure check index an empty list; does the wait end | 2 pods, 1 replica, 2 deploys, 2 generations, loops of 2 polls, a delete of the app |
| `stack_lifecycle` | is the configuration consistent; is an interrupted creation recorded; does a teardown leave anything; do commands end | one stack of each provider, 1 key pair, 2 terminals, 3 commands |
| `resources` | did a wait that succeeds get what its command asked for; is the proxy lost; does a link take effect | aws and gcp, 1 database, 2 processes, 1 variable, 2 terminals |
| `sessions` | is the pod of a run removed; do sessions end; does the access to the cluster last | aws and gcp, 1 session of any kind, 2 pods of the app, 2 polls |

**Why the bounds are enough.** Interference between handlers is pairwise: a
handler keeps one copy of one record or object, so what a third handler does to
it a second one can do. Two apps are needed only where one app's request
touches what others own, the shared Ingress; elsewhere every table is keyed by
app, but for the scan of DynamoDB that numbers a release after those of all
apps, which is left to the theorem (`OnlyOneRepeats`). With the secret store the
run of overlapping handlers has one build at a time: its property is about which
records exist, and two would not finish in time. Two builds and two release ids let a
record pair an old build with a new release. Three domains and lists of two are the
least with which the loop of `mergeIngressRules` removes a rule beside others,
skips one and panics; `ingress_stale_route` lets an app have all three. In
`workloads` three requests allow one that creates the processes and two that
overlap. In `stack_lifecycle` two commands overlap and a third finds what they
left; in `build_lifecycle` two builds share the place of an archive. The loops
of `rollout_wait` and `sessions` have 2 rounds instead of 21, 30 or 120: every
round is like another, except that every tenth looks at the pods, which becomes
every one. One replica and two pods are the least for a rolling update with one
pod too many. Sessions share nothing but the server and its credentials, and
those are fetched by the start of the server and by `kubectl` too, so one
session sees all that a second could do to it. Failing calls are part of every
instance. `NothingLeftBehind` assumes that the listing of deployments fits in one
page, the only one that `cmd/provider/gcp/gcp.go:185` reads.

`workloads`, `build_lifecycle` and `stack_lifecycle` bound the number of
requests or commands, and nothing happens after a rollout wait: these stop in
the end and are run without the deadlock check. Everywhere else TLC checks for
deadlock.

**Fairness.** Weak, and of these only. `BuildLifecycle`: each command line goes
on with what it began (nothing blocks one), and a remote job ends, for CodeBuild
and Cloud Build stop a job at its time limit. `RolloutWait`: the goroutine of
the request runs (`Wait`); nothing is assumed of the controller or the pods.
`StackLifecycle`: a running command takes its steps and an operation of the
cloud ends, well or not. `Sessions`: the handler and its copies run, and a
client notices that its server is gone. No fairness is assumed of starting
requests, of failures, of users, or of pods.

### What the runs show

Holding: the record never tears build from release on aws, also when an AppGet
writes an old copy back or the server dies between two writes (the order save
release, write record, roll out is what makes it so; the other orders of those
calls fail); Ingress updates lose no route of another app because every write
is conditional, and rules are written only when every piece of the controller
exists; limits
persist across deploys and every write of a workload is one atomic change; a
release waits for the job of its build, and a recorded success has its
image; a wait for a rollout ends, and the replicas it finds ready are those of
the deploy because the generation is awaited first; the context of the client's
configuration is always a listed stack; a destroyed gcp stack leaves nothing its
server made, because the server is gone before its leftovers are listed; the
proxy of a database survives deploys and restarts; the pod of a run goes with
its session.

Not holding, against what the repository says:

- `ingress_stale_route`: `mergeIngressRules` removes from the slice it ranges
  over (`k8s/helper.go:77`), skipping the rule after a removed one; with three
  rules of which two go, the index is beyond the end and the server panics.
- `build_deploy_check`: "Check build status before deploying an app"
  (`CHANGELOG.md:44`): `cmd/deploy.go:104` refuses only the status FAILED, and
  the outcome of a streamed import never reaches the command line
  (`client/client.go:135`).

Several properties carry a limit that is itself a fact about the code, found
with TLC by stating them without it:

- `RecordNamesRelease` and `LiveWasReleased` are about aws: gcp never learns the
  id that Datastore gives a release, and the local provider allows a release to
  be deleted.
- `OnlyCreateRevives` is about the secret store: the other two put a record
  whether or not one is there, so a late write revives a deleted app.
- `OnlyFirstRepeats` leaves out version 1: a count that fails is taken for 0, so
  an app that has releases gets version 1 once more.
- `ControllerBeforeRoutes` asks that every piece of the controller exists, not
  that it has replicas: a cleanup scales a Deployment of the controller to 0 and
  only logs that its delete failed (`k8s/ingress.go:94-99`); the next deploy finds
  it there (508-512) and writes rules that no replica serves.
- `DeployedIsRecorded` is about gcp and local; on aws the write of the record may
  fail after the rollout, and `LiveWasReleased` is what holds.
- `DeleteLeavesNothing` is about a delete that was told what there is: if the list
  of Deployments fails, the delete ends without an error and leaves them all.
- `PanicsOnlyAlongDelete` leaves out a delete of the app, which removes the
  ReplicaSets of a Deployment before the Deployment itself; the wait of a deploy
  that overlaps it then ends the server.
- `DoneAsAsked` says nothing of a wait that gives up, which after five minutes
  prints what a success prints: on aws a creation that was rolled back ends so.
- `EndedStays` is about CodeBuild: a reader saves only what a job that has ended
  told it. With Cloud Build overlapping readers save any status they were told,
  at different moments, and an upload writes its row late.
- `WaitingEnds` leaves out a Cloud Build build whose row lost the id of its job:
  `BuildGet` saves a whole row, and one that overlaps the upload saves the row
  from before the id.
- `SuccessHasImage` leaves out archives without tags, which are imported without
  pushing anything. `NoOlderSource` allows a later source on aws and local,
  where two builds of an app share the place of the archive.
- `InterruptedIsNotRecorded` is about the first interrupt: a second one ends the
  wait for the teardown, and the stack is recorded while it is being deleted.
- `CommandsEnd` leaves out a bucket on aws that keeps being filled, which is
  emptied in a loop, and a browser nobody attends to.
- `TLSHasSecret` is checked for one request at a time: a certificate set between
  the two writes of a delete names a secret that is then deleted.
- `LinkTakesEffect` is about one user at a time: two that link at once each
  write the environment from what they have read.
- `SessionsEnd` asks for the end of both sides of a proxied connection: the
  handler does not pass the end of one on to the other.

## 4. Proofs

The theorems hold for any values of the constants that satisfy the named
assumptions of the modules, which TLC evaluates in the runs: the absent value
(`None`, `Nobody`, `Nothing`) is none of the others (not a record, not a status,
not an Ingress object), sets that are counted are finite, bounds are natural
numbers. Every safety invariant and every action property that a run checks
has a theorem; the table names them in the order of their modules. None of the
invariants is inductive by itself; every proof module strengthens it by what
requests in flight hold, because the code writes from local copies. The
strengthened invariants were model-checked on small instances first.

| Module | Theorem (property) | Strengthened by |
|---|---|---|
| `AppRecordProofs` | `TypeCorrect` | what the remaining calls of a handler need is there (`Prepared`) |
| | `AwsRecordNamesRelease` (`RecordNamesRelease`) | copies in flight name saved releases (`NamesInv`) |
| | `AwsLiveWasReleased` (`LiveWasReleased`) | what is live or about to be was saved with its version (`OrderInv`, `LiveInv`) |
| | `LocalOnlyCreateRevives` (`OnlyCreateRevives`) | nothing beyond `TypeInv` |
| | `RecordKeepsStack` (`RecordHasStack`) * | what is true of stack and record before each call of a create or a delete (`StackReady`) |
| | `DeployIsRecorded` (`DeployedIsRecorded`) * | what a handler that is alone holds is what is stored (`AloneInv`) |
| | `OnlyOneRepeats` (`OnlyFirstRepeats`) * | a release is numbered at most the count of its app (`VersionInv`) |
| | `RegistryImplemented` (`ImplementsRegistry`) * | `AloneInv` |
| `SharedIngressProofs` | `RequestsTypeCorrect`, `OneRuleForAHost` (`OneRulePerHost`), `OthersKeepTheirRoutes` (`DeployKeepsOthers`), `DomainsAreRouted` (`DeployRoutesDomains`) | fresh copies are the object, and rules made or read have one for each host (`OverlapInv`) |
| | `CertificatesAreThere` (`TLSHasSecret`), `OthersStayRouted` (`DeleteSparesRoutes`), `ControllerComesFirst` (`ControllerBeforeRoutes`), each * | what must be done before each call is done (`Backed`, `Cleared`, `Built`) |
| `WorkloadsProofs` | `TypeCorrect`, `LimitsAreKept` (`LimitsPersist`), `TableImplemented` (`ImplementsTable`) | fresh copies are the object, of processes still to write (`Copied`, `Listed`) |
| | `DeployReaches` (`DeployReachesAll`), `DeleteEmpties` (`DeleteLeavesNothing`) | what an undisturbed request has not done is in its queue (`AloneInv`) |
| `RolloutWaitProofs` | `TypeCorrect`, `ReadyMeansThisDeploy` (`ReadyIsOfThisDeploy`), `PanicNeedsDelete` (`PanicsOnlyAlongDelete`) | a status as new as the Deployment is of its template (`Current`); what the first loop saw stays true of its Deployment (`Seen`); what was reported had a ReplicaSet, which a delete alone removes (`Made`) |
| `BuildLifecycleProofs` | `TypeCorrect`, `SuccessBacked` (`SuccessHasImage`) | the rows that command lines hold claim no more than the record may (`Held`), jobs have sources (`InputOK`) |
| | `AwsEndedStays` (`EndedStays`) | copies about to be saved fit what is recorded (`Fits`, `AwsInv`) |
| | `ReleaseWaits` (`ReleasedAfterBuild`) | a command that makes a build has it to itself and knows its job (`MakeInv`) |
| | `SourcesInOrder` (`NoOlderSource`) | archives, jobs and images hold what was sent last or later (`OrderInv`) |
| `StackLifecycleProofs` | `TypeCorrect`, `ContextAlwaysListed` | configurations that commands have read are consistent too (`Fit`) |
| | `InterruptedNotRecorded`, `NothingIsLeft` | the course of a command, and what one that nobody crossed knows of the cloud (`AloneInv`) |
| `ResourcesProofs` | `TypeCorrect`, `ProxyIsKept` (`ProxyKept`) | Deployments a command has still to write were there when it listed them (`Listed`); calls belong to commands that have what they name (`Fitting`, `Named`) |
| | `DoneIsRight` (`DoneAsAsked`) | a wait that finds the resource as it was asked for has seen it become so (`AskInv`) |
| | `LinkIsComplete` (`LinkTakesEffect`) | the order of the calls of a link, and what has been done before each (`InOrder`, `Effect`) |
| `SessionsProofs` | `TypeCorrect`, `AccessIsKept`, `RunsAreReclaimed` | before its create a run has no pod (`NoPodYet`); a step of a session moves the credentials as `Credentials` says (`NextCreds`) |

A star marks a theorem with the hypothesis `OneAtATime` (there is one handler):
the property is not true of requests that overlap, and its run has one handler
too. The others hold of any number of handlers, terminals or command lines.

**The argument, by example.** `TypeOK` of `AppRecord` is not inductive, because
`MergeDomain` writes `frame[h].copy` with other domains, which is a record only
if the handler has loaded one. Whether it has is a fact about the calls it has
made, and `Prepared(s, f)` states it of the calls `s` still to make: each call
that uses a local variable is preceded in `s` by the call that sets it, or the
variable is set in `f`. The call lists satisfy this when a request arrives
(`CreatePrepared`, `ReleasePrepared`, ...) and making a call preserves it
(`TailPrepared`). `AwsRecordNamesRelease` adds that copies in flight are whole
too, for any of them may be written back; on aws nothing removes a release, so
what a copy names stays (`NamesStable`).

**The merge of the rules.** `mergeIngressRules` is a fold over two lists, and
what it computes is proved for lists of any length by an induction over its
rounds: the fold is taken apart into a recursive function of the round
(`FoldPutIs`, `RemoveStaleIs`), and the first round at which a claim about it
would fail is the least number of a set (`LeastNumber`), which has a predecessor
at which it holds. The lemmas say of the first loop that it keeps one rule for
each host and routes each host of the deploy to its port, and of the second that
what it removes goes to a port that is deployed, under another host: a rule of
the app itself. `OneRuleForAHost`,
`OthersKeepTheirRoutes` and `DomainsAreRouted` follow with `OverlapInv`: an
update is accepted only if the object is still the one the rules were merged
into.

**Refinement.** `TableImplemented` and `RegistryImplemented` show that `Init`
implies that of the abstract module under the mapping and that each step is a
step of it or leaves it alone. In `Workloads` the essential case is an update
from a copy: the write happens only if the copy is fresh, so it is a change of
the entry as it is. `AppRecord` has no such check; there the copy is current
because the request is alone, which is what `AloneInv` says of its local
variables and the tables before each of its calls.

**Builds.** `ReleasedAfterBuild` cannot be seen in the record, which may learn
of its job late and be overwritten by readers. `MakeInv` follows the command that
makes the build instead: no other command makes the same one (`Apart`), so the
job that exists is its own (`Mine`), and what a poll has answered it is true of
that job (`Told`). `OrderInv` orders the archives by their arrival: what a job
takes, and therefore what an image holds, is not older than what the command
sent.

**Stacks.** `InterruptedIsNotRecorded` and `NothingLeftBehind` are about what is
true of the cloud when a command acts, minutes after it looked. `Knows` states
what stays true: the deletion a command polls goes on until it is told (`EndIsTold`,
`EndIsNotTold`), and a deployment that is gone is brought back only by a command
that crosses this one (`PollingSound`), so the server that makes databases and
records cannot come back between the listing and the end. `Course` says which
steps an interrupt can have led to, so that one interrupt leads past the
teardown only over an absent deployment.

Only model-checked: the liveness properties `WaitingEnds`, `WaitEnds`,
`CommandsEnd` and `SessionsEnd`, whose proofs would reason about fairness and
ENABLED, which the installed provers do not support; and the three
disagreements of section 3, which are counterexamples.

## 5. Known behaviours without a property

These are in the code, some of them in the models, and no document of the
repository says otherwise:

- `k8s/ingress.go:87`: the config map and the service of the controller are
  deleted under another name and stay.
- `common/apps.go:54`: what is appended is every running process but web and
  cmd, the default one too if it is another; the comment says the non-default.
- `k8s/helper.go:89`: limits are filled into new maps, which replace those that
  were there instead of being merged with them.
- `k8s/pod.go:26`: scaling sends no port, so the new container has no readiness
  probe, and its pods receive traffic before they listen.
- `k8s/pod.go:237`: the pods that are checked for a crash are those of the
  process, whatever their deploy.
- `cloud/google/builder.go:35`: the status QUEUED, once saved, is never refreshed.
- `cloud/aws/builder.go:191`: the stream of build logs is polled without end for
  a job that was stopped before it had one.
- `cloud/google/cloudsql.go:23`: unlinking deletes the secret of the proxy first
  and stops without an error if it is gone; the proxies stay.
- `cloud/google/apps.go:89`: a linked database whose name does not begin with its
  kind is not recognised (`KindNamed` in `Resources`).
- `cmd/env.go:68`: two users who set variables at once, one of which is lost.
- `cmd/stdcli/apprc.go:61`: the auth that is deleted is that of the current
  context; `apprc.go:132`: a file found half written is taken for empty, and the
  auths of other stacks are lost with the next write.
- `api/process.go:44`: the remote connection of a proxy is never closed by the
  server; `Sessions` forgets it with the session.
- `cloud/google/builder.go:62`, `cloud/aws/builder.go:147`: a build of an image
  whose tag is already a build replaces its row.
- `cmd/provider/aws/amazon.go:237`: a creation that fails leaves the key pair it
  has made, and the next one with that name is refused; the branch that would
  delete it is switched off.
- `k8s/store/release.go` formats a version with `string(int)` and lists releases
  by the label of builds.

## 6. Not modelled

- The unary gRPC path of logs and the handler of `BuildLogsStream`: they read and
  write nothing that others share. `waitForDpOp` and `waitForSqlOp` of
  `cloud/google/deployments.go` are called by nobody.
- The file by which `datacol switch` binds a directory to a stack: written once,
  read by later commands, shared with nobody.
- Values: of variables, of resource parameters, of templates, regions and machine
  sizes; annotations, probes, commands and paths of manifests; the text of
  Procfiles and of messages; the order of log lines, which a library keeps.
- `api/controller` and `api/models` (generated), `cloud/aws/templates.go` and
  `cmd/provider/*/templates` (embedded assets), `vendor`, `hack`, `go/env`; the
  OAuth page of the gcp login, self-upgrade, the newsletter and the `kubectl`
  passthrough, each one external call without state of datacol.
- Listing commands (`apps`, `builds`, `releases`, `ps`, `infra`): they only read.

## 7. What is left

1. The namespace of an app and its Services in `Workloads`, so that a route of
   `SharedIngress` can be followed to a pod.
2. `AppRecord` and `Workloads` composed: `live` as the state of the processes, so
   that a rollout that fails half way is seen by the record.
3. Several sessions at once, for the goroutine panic that ends all of them.
4. Proofs: which of the invariants of one module a composition needs of another,
   once items 1 and 2 are there. Of the present modules only liveness is left
   to TLC.
