------------------------------ MODULE AppRecord ------------------------------
(***************************************************************************)
(* The app record and the API handlers that read, change and write it.     *)
(*                                                                         *)
(* The API server runs one goroutine per request and takes no lock.  Every *)
(* handler works on a private copy of the app record: it loads the record  *)
(* from the store of its provider (DynamoDB for aws, Datastore for gcp,    *)
(* Kubernetes Secrets for local), changes fields of the copy and writes    *)
(* the whole copy back.  Even AppGet writes: it stores the endpoint it     *)
(* found.  A handler is a list of store and cluster calls still to make;   *)
(* one step makes one call, and calls of different handlers interleave.    *)
(*                                                                         *)
(* Abstracted: the endpoint, status and repository fields (no decision of  *)
(* a handler reads them), the order of the domain list (the code keeps it  *)
(* free of duplicates), the environment, and the many Kubernetes calls of  *)
(* one rollout or one cluster cleanup, which are one step here.            *)
(***************************************************************************)
EXTENDS Integers, Sequences, FiniteSets

CONSTANTS
  Providers,    \* the cloud.Providers a server may be started with
  Apps,         \* names of apps
  Domains,      \* domain names a client may add or remove
  Builds,       \* build ids
  ReleaseIds,   \* ids of releases; a bound on how many can be saved
  Handlers,     \* requests in flight: a bound on the concurrency
  MaxDeploys,   \* bound on the rollouts one server process makes (local)
  NoDomain,     \* the empty string, as a domain
  Nobody        \* the value of "no record", "no build" and "no release"

ASSUME ProviderAssumption == Providers \subseteq {"aws", "gcp", "local"}

ASSUME NobodyAssumption ==
  /\ Nobody \notin Builds \cup ReleaseIds \cup Apps \cup Domains
  /\ NoDomain \notin Domains
  /\ Nobody \notin [domains : SUBSET (Domains \cup {NoDomain}),
                    build : Builds \cup {Nobody}, release : ReleaseIds \cup {Nobody}]
  /\ Nobody \notin [app : Apps, build : Builds, version : Nat]
  /\ Nobody \notin [build : Builds, version : Nat]
  /\ Nobody \notin [domains : SUBSET Domains, build : Builds \cup {Nobody}]

ASSUME FinitenessAssumption == IsFiniteSet(ReleaseIds) /\ MaxDeploys \in Nat

VARIABLES
  provider,   \* the provider this server was started with
  apps,       \* the app table of the store
  stacks,     \* apps that have a CloudFormation stack (aws only)
  builds,     \* the builds saved for each app
  releases,   \* the release table: id -> release, Nobody where unused
  deploys,    \* len(LocalCloud.Releases), in the memory of the server
  live,       \* what the cluster runs of each app
  todo,       \* per handler: the calls it has still to make
  frame       \* per handler: its arguments and local variables

vars == <<provider, apps, stacks, builds, releases, deploys, live, todo, frame>>

------------------------------------------------------------------------------
(* Records *)

Record == [domains : SUBSET (Domains \cup {NoDomain}),
           build : Builds \cup {Nobody}, release : ReleaseIds \cup {Nobody}]
Release == [app : Apps, build : Builds, version : Nat]
Rollout == [build : Builds, version : Nat]

Steps == {"probe", "load", "refresh", "createStack", "checkAbsent", "putNew", "insert",
          "mergeDomain", "fetchBuild", "count", "saveRelease", "record", "rollout",
          "uncluster", "dropRecord", "dropStack", "dropBuilds", "dropReleases", "listBuilds"}

\* The arguments and local variables of one handler: its app, the domain it
\* adds or removes, the copy of the record it loaded, the build it deploys,
\* the version it computed and the release it saved.
Frame == [app : Apps \cup {Nobody}, domain : Domains \cup {Nobody}, add : BOOLEAN,
          copy : Record \cup {Nobody}, build : Builds \cup {Nobody},
          version : Nat, release : ReleaseIds \cup {Nobody}]

Idle == [app |-> Nobody, domain |-> Nobody, add |-> FALSE, copy |-> Nobody,
         build |-> Nobody, version |-> 0, release |-> Nobody]

NewRecord == [domains |-> {}, build |-> Nobody, release |-> Nobody]

\* A secret holds the domains joined by commas: an empty list and a list of
\* one empty string are the same text, and are read back as the latter.
Persisted(r) ==
  IF provider = "local" /\ r.domains = {} THEN [r EXCEPT !.domains = {NoDomain}] ELSE r

\* "x" adds x once, ":x" removes it.
MergeAppDomains(ds, d, add) == IF add THEN ds \cup {d} ELSE ds \ {d}

------------------------------------------------------------------------------
(* The calls each request makes, in the order of the provider's code. *)

AppGetCalls == <<"load", "refresh">>

AwsCreateCalls   == <<"probe", "createStack", "checkAbsent", "putNew">>
GcpCreateCalls   == <<"putNew">>
LocalCreateCalls == <<"checkAbsent", "insert", "load", "refresh">>

DomainCalls == <<"load", "refresh", "mergeDomain", "load", "refresh", "fetchBuild">>

\* Two orders a careless edit of the aws provider could leave: the record
\* written before the release it names is saved, or the rollout before it.
RecordFirstCalls  == <<"load", "refresh", "count", "record", "saveRelease", "rollout">>
RollOutFirstCalls == <<"load", "refresh", "count", "rollout", "saveRelease", "record">>

AwsReleaseCalls   == <<"load", "refresh", "count", "saveRelease", "record", "rollout">>
GcpReleaseCalls   == <<"load", "refresh", "count", "saveRelease", "rollout", "record">>
LocalReleaseCalls == <<"load", "refresh", "count", "saveRelease", "rollout", "record">>

\* The mistake of a delete that takes the stack before the record.
StackFirstCalls  == <<"uncluster", "dropStack", "dropRecord">>

AwsDeleteCalls   == <<"uncluster", "dropRecord", "dropStack">>
GcpDeleteCalls   == <<"uncluster", "dropBuilds", "dropReleases", "dropRecord">>
LocalDeleteCalls == <<"uncluster", "dropRecord", "listBuilds">>

CallsOf(aws, gcp, local) ==
  CASE provider = "aws" -> aws [] provider = "gcp" -> gcp [] provider = "local" -> local

CreateCalls  == CallsOf(AwsCreateCalls, GcpCreateCalls, LocalCreateCalls)
ReleaseCalls == CallsOf(AwsReleaseCalls, GcpReleaseCalls, LocalReleaseCalls)
DeleteCalls  == CallsOf(AwsDeleteCalls, GcpDeleteCalls, LocalDeleteCalls)

At(h, step) == todo[h] # <<>> /\ Head(todo[h]) = step

\* Handler h goes on with the calls and the local variables f; a request that
\* has no call left has answered, and its local variables are gone.
Continue(h, calls, f) ==
  /\ todo' = [todo EXCEPT ![h] = calls]
  /\ frame' = [frame EXCEPT ![h] = IF calls = <<>> THEN Idle ELSE f]

Proceed(h) == Continue(h, Tail(todo[h]), frame[h])
Return(h)  == Continue(h, <<>>, Idle)

------------------------------------------------------------------------------
(* Requests arrive *)

Accept(h, f, calls) ==
  /\ todo[h] = <<>>
  /\ Continue(h, calls, f)
  /\ UNCHANGED <<provider, apps, stacks, builds, releases, deploys, live>>

AppCreate(h, a) == Accept(h, [Idle EXCEPT !.app = a], CreateCalls)
AppGet(h, a)    == Accept(h, [Idle EXCEPT !.app = a], AppGetCalls)
AppDelete(h, a) == Accept(h, [Idle EXCEPT !.app = a], DeleteCalls)

AppUpdateDomain(h, a, d, add) ==
  Accept(h, [Idle EXCEPT !.app = a, !.domain = d, !.add = add], DomainCalls)

BuildRelease(h, a, b) ==
  /\ b \in builds[a]       \* the client sends a build the server gave it
  /\ Accept(h, [Idle EXCEPT !.app = a, !.build = b], ReleaseCalls)

------------------------------------------------------------------------------
(* AppGet: load the record, then write it back with the endpoint.  An app  *)
(* without a stack or a record is an error; so is a build that is gone.    *)

Found(a) == apps[a] # Nobody /\ (provider = "aws" => a \in stacks)

Load(h) ==
  /\ At(h, "load")
  /\ IF Found(frame[h].app)
     THEN Continue(h, Tail(todo[h]), [frame[h] EXCEPT !.copy = apps[frame[h].app]])
     ELSE Return(h)
  /\ UNCHANGED <<provider, apps, stacks, builds, releases, deploys, live>>

\* A secret store that creates the secret it cannot find.
Upserted(a) == TRUE

\* AppUpdate of the store: DynamoDB and Datastore put the item whether or not
\* it exists, the secret store refuses an app that is gone.
Written(a) == provider = "local" => apps[a] # Nobody

AppUpdate(h, r) ==
  LET a == frame[h].app IN
  IF Written(a)
  THEN apps' = [apps EXCEPT ![a] = Persisted(r)] /\ Proceed(h)
  ELSE Return(h) /\ UNCHANGED apps

Refresh(h) ==
  LET r == frame[h].copy IN
  /\ At(h, "refresh")
  /\ \/ r.build = Nobody /\ Proceed(h) /\ UNCHANGED apps
     \/ r.build # Nobody /\ r.build \notin builds[frame[h].app] /\ Return(h) /\ UNCHANGED apps
     \/ r.build \in builds[frame[h].app] /\ AppUpdate(h, r)
     \/ \* no endpoint yet: only gcp goes on without writing
        r.build \in builds[frame[h].app] /\ provider = "gcp" /\ Proceed(h) /\ UNCHANGED apps
  /\ UNCHANGED <<provider, stacks, builds, releases, deploys, live>>

------------------------------------------------------------------------------
(* AppCreate.  aws: an app that AppGet finds is a duplicate (AppGet has     *)
(* written it back by then); on any error of AppGet the stack is created,   *)
(* which fails if there is one, then the store checks and puts.  gcp: a     *)
(* bare put.  local: check, then create, which fails if the secret exists.  *)

Probe(h) ==
  /\ At(h, "probe")
  /\ \/ /\ Found(frame[h].app)
        /\ Continue(h, <<"refresh">>, [frame[h] EXCEPT !.copy = apps[frame[h].app]])
     \/ Proceed(h)
  /\ UNCHANGED <<provider, apps, stacks, builds, releases, deploys, live>>

CreateStack(h) ==
  /\ At(h, "createStack")
  /\ IF frame[h].app \in stacks
     THEN Return(h) /\ UNCHANGED stacks
     ELSE Proceed(h) /\ stacks' = stacks \cup {frame[h].app}
  /\ UNCHANGED <<provider, apps, builds, releases, deploys, live>>

CheckAbsent(h) ==
  /\ At(h, "checkAbsent")
  /\ IF apps[frame[h].app] # Nobody THEN Return(h) ELSE Proceed(h)
  /\ UNCHANGED <<provider, apps, stacks, builds, releases, deploys, live>>

PutNew(h) ==
  /\ At(h, "putNew")
  /\ apps' = [apps EXCEPT ![frame[h].app] = NewRecord]
  /\ Proceed(h)
  /\ UNCHANGED <<provider, stacks, builds, releases, deploys, live>>

Insert(h) ==
  /\ At(h, "insert")
  /\ IF apps[frame[h].app] # Nobody
     THEN Return(h) /\ UNCHANGED apps
     ELSE Proceed(h) /\ apps' = [apps EXCEPT ![frame[h].app] = Persisted(NewRecord)]
  /\ UNCHANGED <<provider, stacks, builds, releases, deploys, live>>

------------------------------------------------------------------------------
(* AppUpdateDomain: merge the domain into the copy of the record, write the *)
(* copy, then read the app again and release the build it runs, if any.     *)

Merged(h) ==
  LET f == frame[h] IN
  [f.copy EXCEPT !.domains = MergeAppDomains(@, f.domain, f.add)]

MergeDomain(h) ==
  /\ At(h, "mergeDomain")
  /\ AppUpdate(h, Merged(h))
  /\ UNCHANGED <<provider, stacks, builds, releases, deploys, live>>

\* The release of an app that has not been deployed yet.
FetchAnyBuild(h) ==
  /\ At(h, "fetchBuild")
  /\ Continue(h, ReleaseCalls, [frame[h] EXCEPT !.build = frame[h].copy.build])
  /\ UNCHANGED <<provider, apps, stacks, builds, releases, deploys, live>>

FetchBuild(h) ==
  LET b == frame[h].copy.build IN
  /\ At(h, "fetchBuild")
  /\ IF b \in builds[frame[h].app]
     THEN Continue(h, ReleaseCalls, [frame[h] EXCEPT !.build = b, !.release = Nobody])
     ELSE Return(h)
  /\ UNCHANGED <<provider, apps, stacks, builds, releases, deploys, live>>

------------------------------------------------------------------------------
(* BuildRelease: number and save a release, point the record at it and roll *)
(* the build out; aws writes the record first, gcp and local last.          *)

SavedIds(S) == {id \in ReleaseIds : releases[id] # Nobody /\ releases[id].app \in S}

\* The mistake of counting what was released in place of the releases.
BuildCount(a) == {0, Cardinality({releases[id].build : id \in SavedIds({a})})}

\* The answers a count may give.  DynamoDB reports how many items it scanned,
\* those of every app; the local provider counts the releases this server process
\* has rolled out.  A count that fails is logged and taken for none.
ReleaseCount(a) ==
  CASE provider = "aws"   -> {0, Cardinality(SavedIds(Apps))}
    [] provider = "gcp"   -> {0, Cardinality(SavedIds({a}))}
    [] provider = "local" -> {deploys}

Count(h) ==
  /\ At(h, "count")
  /\ \E n \in ReleaseCount(frame[h].app) :
       Continue(h, Tail(todo[h]), [frame[h] EXCEPT !.version = n + 1])
  /\ UNCHANGED <<provider, apps, stacks, builds, releases, deploys, live>>

SaveRelease(h) ==
  LET f == frame[h] IN
  /\ At(h, "saveRelease")
  /\ \E id \in ReleaseIds :
       /\ releases[id] = Nobody
       /\ releases' = [releases EXCEPT ![id] =
                         [app |-> f.app, build |-> f.build, version |-> f.version]]
       /\ Continue(h, Tail(todo[h]), [f EXCEPT !.release = id])
  /\ UNCHANGED <<provider, apps, stacks, builds, deploys, live>>

\* A new record in place of the one loaded, and a copy left on the old build.
ReleasedAnew(h) == [NewRecord EXCEPT !.build = frame[h].build, !.release = frame[h].release]
ReleasedBefore(h) == [frame[h].copy EXCEPT !.release = frame[h].release]

\* Datastore completes the key of a release saved without an id, and the
\* handler never learns it: on gcp the record names no release.
Released(h) ==
  LET f == frame[h] IN
  [f.copy EXCEPT !.build = f.build, !.release = IF provider = "gcp" THEN Nobody ELSE f.release]

RecordRelease(h) ==
  /\ At(h, "record")
  /\ \/ AppUpdate(h, Released(h))
     \/ \* aws only logs a failed write and goes on
        provider = "aws" /\ Proceed(h) /\ UNCHANGED apps
  /\ UNCHANGED <<provider, stacks, builds, releases, deploys, live>>

RollOut(h) ==
  LET f == frame[h] IN
  /\ At(h, "rollout")
  /\ deploys < MaxDeploys
  /\ live' = [live EXCEPT ![f.app] = [build |-> f.build, version |-> f.version]]
  /\ deploys' = IF provider = "local" THEN deploys + 1 ELSE deploys
  /\ Proceed(h)
  /\ UNCHANGED <<provider, apps, stacks, builds, releases>>

------------------------------------------------------------------------------
(* AppDelete: remove what runs in the cluster (the error of that is        *)
(* ignored), then the record, then what the provider keeps beside it.      *)

Uncluster(h) ==
  /\ At(h, "uncluster")
  /\ \/ live' = [live EXCEPT ![frame[h].app] = Nobody]
     \/ UNCHANGED live
  /\ Proceed(h)
  /\ UNCHANGED <<provider, apps, stacks, builds, releases, deploys>>

DropRecord(h) ==
  LET a == frame[h].app IN
  /\ At(h, "dropRecord")
  /\ IF Written(a)
     THEN Proceed(h) /\ apps' = [apps EXCEPT ![a] = Nobody]
     ELSE Return(h) /\ UNCHANGED apps
  /\ UNCHANGED <<provider, stacks, builds, releases, deploys, live>>

DropStack(h) ==
  /\ At(h, "dropStack")
  /\ stacks' = stacks \ {frame[h].app}
  /\ Proceed(h)
  /\ UNCHANGED <<provider, apps, builds, releases, deploys, live>>

DropBuilds(h) ==
  /\ At(h, "dropBuilds")
  /\ builds' = [builds EXCEPT ![frame[h].app] = {}]
  /\ Proceed(h)
  /\ UNCHANGED <<provider, apps, stacks, releases, deploys, live>>

DropReleases(h) ==
  /\ At(h, "dropReleases")
  /\ releases' = [id \in ReleaseIds |->
                    IF id \in SavedIds({frame[h].app}) THEN Nobody ELSE releases[id]]
  /\ Proceed(h)
  /\ UNCHANGED <<provider, apps, stacks, builds, deploys, live>>

ListBuilds(h) ==
  /\ At(h, "listBuilds")
  /\ builds[frame[h].app] = {}
  /\ Proceed(h)
  /\ UNCHANGED <<provider, apps, stacks, builds, releases, deploys, live>>

------------------------------------------------------------------------------
(* Failures.  A call that fails ends its request with an error; what was    *)
(* written stays.  (A failed count does not: where a request ends at        *)
(* "count", it is the environment that could not be read.)  Nothing         *)
(* recovers a panic or a killed process: every request in flight dies and   *)
(* what the server keeps in memory is lost.                                 *)

Fail(h) ==
  /\ todo[h] # <<>>
  /\ ~ At(h, "uncluster") /\ ~ (provider = "aws" /\ At(h, "record"))
  /\ Return(h)
  /\ UNCHANGED <<provider, apps, stacks, builds, releases, deploys, live>>

Die ==
  /\ todo' = [h \in Handlers |-> <<>>]
  /\ frame' = [h \in Handlers |-> Idle]
  /\ deploys' = 0
  /\ UNCHANGED <<provider, apps, stacks, builds, releases, live>>

Crash == Die /\ (\E h \in Handlers : todo[h] # <<>>)

\* BuildList(name, -1) slices the builds it found up to -1.
ListBuildsPanics(h) ==
  /\ At(h, "listBuilds")
  /\ builds[frame[h].app] # {}
  /\ Die

------------------------------------------------------------------------------
(* The rest of the API that changes the same tables. *)

BuildCreate(a, b) ==
  /\ builds' = [builds EXCEPT ![a] = @ \cup {b}]
  /\ UNCHANGED <<provider, apps, stacks, releases, deploys, live, todo, frame>>

BuildDelete(a, b) ==
  /\ provider # "aws"
  /\ builds' = [builds EXCEPT ![a] = @ \ {b}]
  /\ UNCHANGED <<provider, apps, stacks, releases, deploys, live, todo, frame>>

ReleaseDelete(id) ==
  /\ provider = "local"
  /\ releases' = [releases EXCEPT ![id] = Nobody]
  /\ UNCHANGED <<provider, apps, stacks, builds, deploys, live, todo, frame>>

------------------------------------------------------------------------------
Init ==
  /\ provider \in Providers
  /\ apps = [a \in Apps |-> Nobody]
  /\ stacks = {}
  /\ builds = [a \in Apps |-> {}]
  /\ releases = [id \in ReleaseIds |-> Nobody]
  /\ deploys = 0
  /\ live = [a \in Apps |-> Nobody]
  /\ todo = [h \in Handlers |-> <<>>]
  /\ frame = [h \in Handlers |-> Idle]

Request(h) ==
  \E a \in Apps :
    \/ AppCreate(h, a) \/ AppGet(h, a) \/ AppDelete(h, a)
    \/ \E d \in Domains, add \in BOOLEAN : AppUpdateDomain(h, a, d, add)
    \/ \E b \in Builds : BuildRelease(h, a, b)

Step(h) ==
  \/ Load(h) \/ Refresh(h) \/ Probe(h) \/ CreateStack(h) \/ CheckAbsent(h) \/ PutNew(h)
  \/ Insert(h) \/ MergeDomain(h) \/ FetchBuild(h) \/ Count(h) \/ SaveRelease(h)
  \/ RecordRelease(h) \/ RollOut(h) \/ Uncluster(h) \/ DropRecord(h) \/ DropStack(h)
  \/ DropBuilds(h) \/ DropReleases(h) \/ ListBuilds(h) \/ ListBuildsPanics(h) \/ Fail(h)

Next ==
  \/ \E h \in Handlers : Request(h) \/ Step(h)
  \/ \E a \in Apps, b \in Builds : BuildCreate(a, b) \/ BuildDelete(a, b)
  \/ \E id \in ReleaseIds : ReleaseDelete(id)
  \/ Crash

Spec == Init /\ [][Next]_vars

------------------------------------------------------------------------------
(* Properties *)

\* The variables hold records, releases, builds and calls of the right kind.
TypeOK ==
  /\ provider \in {"aws", "gcp", "local"}
  /\ apps \in [Apps -> Record \cup {Nobody}]
  /\ stacks \subseteq Apps
  /\ builds \in [Apps -> SUBSET Builds]
  /\ releases \in [ReleaseIds -> Release \cup {Nobody}]
  /\ deploys \in Nat
  /\ live \in [Apps -> Rollout \cup {Nobody}]
  /\ todo \in [Handlers -> Seq(Steps)]
  /\ frame \in [Handlers -> Frame]

\* r names no build, or a release of app a in the table rel that deployed it.
Names(rel, a, r) ==
  r.build # Nobody =>
    /\ r.release # Nobody
    /\ rel[r.release] # Nobody
    /\ rel[r.release].app = a
    /\ rel[r.release].build = r.build

\* On aws, whatever handlers overlap, fail or die, the build an app record names was
\* saved as a release of that app, and it is the release the record names:
\* build_id and release_id are never torn apart by BuildRelease, by the write
\* back in AppGet or by a domain update that carries an old copy.
RecordNamesRelease ==
  provider = "aws" => \A a \in Apps : apps[a] # Nobody => Names(releases, a, apps[a])

\* On aws what the cluster runs of an app is a build and a version that were saved
\* together as one release of that app before the rollout.
LiveWasReleased ==
  provider = "aws" => \A a \in Apps : live[a] # Nobody =>
    \E id \in ReleaseIds :
      /\ releases[id] # Nobody
      /\ releases[id] = [app |-> a, build |-> live[a].build, version |-> live[a].version]

\* On the secret store an app that does not exist comes into being only by the create request
\* for it: no late write of another handler brings a deleted app back.
OnlyCreateRevives ==
  [][provider = "local" => \A a \in Apps :
       apps[a] = Nobody /\ apps'[a] # Nobody =>
         \E h \in Handlers : frame[h].app = a /\ (PutNew(h) \/ Insert(h))]_vars

\* On aws, one request at a time, an app record always has its stack, whichever
\* call of a create or a delete fails or dies: a record without one could be
\* neither read nor changed, and the next create would go as far as its last call.
RecordHasStack ==
  provider = "aws" => \A a \in Apps : apps[a] # Nobody => a \in stacks

\* One request at a time, two releases of an app carry the same version only if
\* it is 1, which a count that has failed gives: no delete, failure or crash makes
\* another number come back (the local provider counts the rollouts of the server
\* process, and starts again with it).
OnlyFirstRepeats ==
  provider # "local" => \A i, j \in ReleaseIds :
    releases[i] # Nobody /\ releases[j] # Nobody /\ i # j =>
      \/ releases[i].app # releases[j].app
      \/ releases[i].version # releases[j].version
      \/ releases[i].version = 1

\* On gcp and local, a request to deploy that ends well leaves the record
\* naming the build the cluster runs.
DeployedIsRecorded ==
  [][provider # "aws" => \A h \in Handlers :
       LET a == frame[h].app IN
       RecordRelease(h) /\ apps'[a] # Nobody => live[a].build = apps'[a].build]_vars

\* One handler at a time implements the table of apps.
Registry ==
  INSTANCE AppRegistry WITH
    replaces <- provider = "gcp",
    registry <- [a \in Apps |->
                   IF apps[a] = Nobody THEN Nobody
                   ELSE [domains |-> apps[a].domains \ {NoDomain}, build |-> apps[a].build]]

ImplementsRegistry == Registry!Spec
==============================================================================
