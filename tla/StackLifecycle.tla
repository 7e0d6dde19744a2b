---------------------------- MODULE StackLifecycle ----------------------------
(***************************************************************************)
(* Creating, joining and destroying stacks from the command line.          *)
(*                                                                         *)
(* `datacol init` saves the credentials of the cloud, asks the cloud for a *)
(* CloudFormation stack (aws) or a Deployment Manager deployment (gcp),    *)
(* polls it until it is up and records the stack in ~/.datacol/config.json *)
(* `datacol login` records a stack somebody else created.  `datacol        *)
(* destroy` deletes the stack, polls until it is gone and forgets it.      *)
(* Every command is a process of its own.  Several run at a time, in       *)
(* several terminals, and share the cloud and the configuration file, which *)
(* each reads whole, changes in memory and writes whole.                   *)
(*                                                                         *)
(* Abstracted: regions, machine sizes, templates, passwords, the file of   *)
(* the private key, and how the credentials were got (a file, or a browser *)
(* and a new service account).  A bucket holds "some" objects or "none";   *)
(* the labelled deployments of a gcp stack (one per database) are one, as  *)
(* are its Datastore records.                                              *)
(***************************************************************************)
EXTENDS Naturals, FiniteSets

CONSTANTS
  AwsStacks,    \* names of stacks created on aws
  GcpStacks,    \* names of stacks created on gcp
  LocalStacks,  \* names of stacks run on minikube: recorded, never created
  Keys,         \* names of EC2 key pairs a user may ask for
  Terminals,    \* a bound on the commands that run at a time
  MaxCommands,  \* a bound on the commands that are ever started
  None          \* no stack, no key, no auth

Stacks == AwsStacks \cup GcpStacks \cup LocalStacks

ASSUME StackAssumption ==
  /\ AwsStacks \cap GcpStacks = {} /\ (AwsStacks \cup GcpStacks) \cap LocalStacks = {}
  /\ None \notin Stacks \cup Keys /\ None \notin [bucket : BOOLEAN]
  /\ MaxCommands \in Nat

VARIABLES
  cloud,     \* state of the formation or deployment of each stack
  full,      \* stacks whose settings bucket holds objects
  owned,     \* gcp: what the stack's server has created beside the deployment
  keypairs,  \* key pairs that exist in EC2
  config,    \* ~/.datacol/config.json
  files,     \* stacks whose directory ~/.datacol/<stack> holds credentials
  cli,       \* the command each terminal runs
  started    \* number of commands started so far

vars == <<cloud, full, owned, keypairs, config, files, cli, started>>

------------------------------------------------------------------------------
(* The configuration file and the commands *)

Auth == [bucket : BOOLEAN]     \* whether the auth names the bucket of the stack
Apprc == [auths : [Stacks -> Auth \cup {None}], context : Stacks \cup {None}]

Statuses == {"absent", "creating", "up", "broken", "stuck", "deleting", "deleteFailed"}

AwsSteps == {"keypair", "create", "watch"}
GcpSteps == {"consent", "account", "insert", "waitCreate", "undo", "cancel", "waitUndo",
             "waitCancel", "getHost"}
RecordSteps == {"load", "save"}
DestroySteps == {"empty", "destroyRack", "deleteMain", "waitMain", "list", "deleteOwned",
                 "reset", "forget", "removeDir"}

\* A command: its next step, its stack and key pair, the configuration it has
\* read, whether its auth names a bucket, what the operation it waits for has
\* come to, the interrupts its waits have heeded, whether one waits to be
\* seen, and whether another command created or deleted the stack meanwhile.
Command == [at : AwsSteps \cup GcpSteps \cup RecordSteps \cup DestroySteps, stack : Stacks,
            key : Keys \cup {None}, rc : Apprc \cup {None}, bucket : BOOLEAN,
            op : {"running", "ok", "error", "rollbackFailed", "gone"},
            interrupts : 0..2, signal : BOOLEAN, crossed : BOOLEAN]

NoAuths == [auths |-> [s \in Stacks |-> None], context |-> None]

GetAuth(rc, s) == rc.auths[s]

SetAuth(rc, s, a) == [auths |-> [rc.auths EXCEPT ![s] = a], context |-> s]

\* A DeleteAuth that leaves the context behind.
DeleteAuthOnly(rc) ==
  IF rc.context = None THEN rc ELSE [rc EXCEPT !.auths[rc.context] = None]

\* The auth of the current context goes, whichever stack was destroyed.
DeleteAuth(rc) ==
  IF rc.context = None THEN rc
  ELSE [auths |-> [rc.auths EXCEPT ![rc.context] = None], context |-> None]

At(t, step) == cli[t] # None /\ cli[t].at = step
GoTo(t, step) == cli' = [cli EXCEPT ![t].at = step]
Exit(t) == cli' = [cli EXCEPT ![t] = None]

Aims(t, s, steps) == cli[t] # None /\ cli[t].stack = s /\ cli[t].at \in steps

\* The commands of c, when the operation that those in `who` poll has come to v.
Told(c, who, v) == [t \in Terminals |-> IF t \in who THEN [c[t] EXCEPT !.op = v] ELSE c[t]]

\* The commands that poll the creation of stack s, and its deletion.
Creators(s) == {t \in Terminals : Aims(t, s, {"watch", "waitCreate"}) /\ cli[t].op # "gone"}
Deleters(s) == {t \in Terminals : Aims(t, s, {"waitUndo", "waitCancel", "waitMain"})
                                     /\ cli[t].op = "running"}

\* Terminal t begins to poll the operation it has started on stack s; other
\* commands on that stack have been crossed.
Polling(t, s, step) ==
  [u \in Terminals |->
     IF u = t THEN [cli[t] EXCEPT !.at = step, !.op = "running", !.signal = FALSE]
     ELSE IF cli[u] # None /\ cli[u].stack = s THEN [cli[u] EXCEPT !.crossed = TRUE]
     ELSE cli[u]]

------------------------------------------------------------------------------
(* The files of a stack: credentials are written whole, read, and have to   *)
(* be there for a command that uses them.                                   *)

saveCredential(s) == files' = files \cup {s}

\* What makes destroy exit before it has begun: no auth, or no credentials.
loadAuthForStack(s) == GetAuth(config, s) # None
ReadCredentials(s)  == s \in files

------------------------------------------------------------------------------
(* Commands start.  init saves the credentials before anything else; a      *)
(* local stack is only recorded.  destroy reads the configuration first,    *)
(* keeps that copy to the end, and dies without auth or credentials.        *)

Start(t, s, step, key, rc, bucket) ==
  /\ cli[t] = None /\ started < MaxCommands
  /\ started' = started + 1
  /\ cli' = [cli EXCEPT ![t] =
               [at |-> step, stack |-> s, key |-> key, rc |-> rc, bucket |-> bucket,
                op |-> "running", interrupts |-> 0, signal |-> FALSE, crossed |-> FALSE]]

AwsInit(t, s, k) ==
  /\ Start(t, s, "keypair", k, None, TRUE)
  /\ saveCredential(s)
  /\ UNCHANGED <<cloud, full, owned, keypairs, config>>

\* With a key file of a service account, or by way of the browser.
GcpInit(t, s) ==
  /\ \/ Start(t, s, "insert", None, None, TRUE) /\ saveCredential(s)
     \/ Start(t, s, "consent", None, None, TRUE) /\ UNCHANGED files
  /\ UNCHANGED <<cloud, full, owned, keypairs, config>>

\* The browser calls back with a code (a call without one is answered and
\* the wait goes on); the code is exchanged for a token.
Consent(t) ==
  /\ At(t, "consent")
  /\ GoTo(t, "account")
  /\ UNCHANGED <<cloud, full, owned, keypairs, config, files, started>>

\* The token gets a service account, its role and a key, which is saved.
ServiceAccount(t) ==
  /\ At(t, "account")
  /\ GoTo(t, "insert")
  /\ saveCredential(cli[t].stack)
  /\ UNCHANGED <<cloud, full, owned, keypairs, config, started>>

\* A local stack is taken to be there.
LocalInit(t, s) ==
  /\ Start(t, s, "load", None, None, FALSE)
  /\ UNCHANGED <<cloud, full, owned, keypairs, config, files>>

\* The server of a stack lets a client with its password log in; it can do so
\* while it is there.
Authorizes(s) == cloud[s] = "up"

\* The auth that login records names no bucket.
Login(t, s) ==
  /\ Authorizes(s)
  /\ Start(t, s, "load", None, None, FALSE)
  /\ UNCHANGED <<cloud, full, owned, keypairs, config, files>>

Destroy(t, s) ==
  /\ loadAuthForStack(s) /\ ReadCredentials(s)
  /\ Start(t, s, "empty", None, config, GetAuth(config, s).bucket)
  /\ UNCHANGED <<cloud, full, owned, keypairs, config, files>>

------------------------------------------------------------------------------
(* Creation on aws: a new key pair, then the formation, then polling.       *)

CreateKeyPair(t) ==
  /\ At(t, "keypair")
  /\ IF cli[t].key \in keypairs
     THEN Exit(t) /\ UNCHANGED keypairs
     ELSE GoTo(t, "create") /\ keypairs' = keypairs \cup {cli[t].key}
  /\ UNCHANGED <<cloud, full, owned, config, files, started>>

CreateStack(t) ==
  LET s == cli[t].stack IN
  /\ At(t, "create")
  /\ IF cloud[s] # "absent"
     THEN Exit(t) /\ UNCHANGED cloud
     ELSE cli' = Polling(t, s, "watch") /\ cloud' = [cloud EXCEPT ![s] = "creating"]
  /\ UNCHANGED <<full, owned, keypairs, config, files, started>>

\* A display of progress that skips the statuses it does not know.
WatchedEndKnown == {"error"}

\* waitForCompletion: a stack that somebody deletes meanwhile is a success
\* without a host; ROLLBACK_FAILED is an error only because displayProgress
\* does not know that status among the events of the stack.
WatchedEnd == {"error", "rollbackFailed"}

WaitForCompletion(t) ==
  /\ At(t, "watch")
  /\ \/ cli[t].op \in {"ok", "gone"} /\ GoTo(t, "load")
     \/ cli[t].op \in WatchedEnd /\ Exit(t)
  /\ UNCHANGED <<cloud, full, owned, keypairs, config, files, started>>

------------------------------------------------------------------------------
(* Creation on gcp: insert the deployment and poll its operation.  The      *)
(* first wait installs a handler for interrupts that stays to the end; an   *)
(* interrupt it sees, or a failed operation, tears the deployment down.     *)

Insert(t) ==
  LET s == cli[t].stack IN
  /\ At(t, "insert")
  /\ IF cloud[s] # "absent"
     THEN Exit(t) /\ UNCHANGED cloud
     ELSE cli' = Polling(t, s, "waitCreate") /\ cloud' = [cloud EXCEPT ![s] = "creating"]
  /\ UNCHANGED <<full, owned, keypairs, config, files, started>>

Heed(t, step) == cli' = [cli EXCEPT ![t].at = step, ![t].interrupts = @ + 1]

\* An interrupt that ends the wait as if the deployment were up.
WaitCreateHeedless(t) ==
  /\ At(t, "waitCreate")
  /\ \/ cli[t].signal /\ Heed(t, "getHost")
     \/ cli[t].op = "error" /\ GoTo(t, "cancel")
     \/ cli[t].op = "ok" /\ GoTo(t, "getHost")
  /\ UNCHANGED <<cloud, full, owned, keypairs, config, files, started>>

WaitCreate(t) ==
  /\ At(t, "waitCreate")
  /\ \/ cli[t].signal /\ Heed(t, "undo")
     \/ cli[t].op = "error" /\ GoTo(t, "cancel")
     \/ cli[t].op = "ok" /\ GoTo(t, "getHost")
  /\ UNCHANGED <<cloud, full, owned, keypairs, config, files, started>>

\* Terminal t has a deployment deleted and polls the operation at `step`.
\* There may be none; one that is still being created may refuse, or be
\* cancelled, which its creators see as a failure.
DeleteDeployment(t, step) ==
  LET s == cli[t].stack
      cancelled == {u \in Creators(s) : cli[u].op = "running"} IN
  /\ \/ cloud[s] \in {"absent", "creating", "deleting"} /\ Exit(t) /\ UNCHANGED cloud
     \/ /\ cloud[s] \notin {"absent", "deleting"}
        /\ cloud' = [cloud EXCEPT ![s] = "deleting"]
        /\ cli' = Told(Polling(t, s, step), cancelled, "error")
  /\ UNCHANGED <<full, owned, keypairs, config, files, started>>

Undo(t)   == At(t, "undo") /\ DeleteDeployment(t, "waitUndo")
Cancel(t) == At(t, "cancel") /\ DeleteDeployment(t, "waitCancel")

\* The teardown of an interrupted creation returns nil, and the wait for the
\* creation does too: init goes on.  That of a failed one is only cleaning up.
WaitUndo(t) ==
  /\ At(t, "waitUndo")
  /\ \/ cli[t].signal /\ Heed(t, "getHost")
     \/ cli[t].op = "ok" /\ GoTo(t, "getHost")
     \/ cli[t].op = "error" /\ Exit(t)
  /\ UNCHANGED <<cloud, full, owned, keypairs, config, files, started>>

WaitCancel(t) ==
  /\ At(t, "waitCancel")
  /\ cli[t].op # "running"      \* an interrupt ends it too, as Die does
  /\ Exit(t)
  /\ UNCHANGED <<cloud, full, owned, keypairs, config, files, started>>

\* The address of the bastion, while the instance is there.
GetHost(t) ==
  /\ At(t, "getHost")
  /\ \/ cloud[cli[t].stack] # "absent" /\ GoTo(t, "load")
     \/ cloud[cli[t].stack] # "up" /\ Exit(t)
  /\ UNCHANGED <<cloud, full, owned, keypairs, config, files, started>>

------------------------------------------------------------------------------
(* Recording a stack: read the configuration, add the auth, write it.       *)

\* A file that cannot be read, or is only half written by another command, is
\* taken for an empty one.
LoadApprc(t) ==
  /\ At(t, "load")
  /\ \E rc \in {config, NoAuths} :
       cli' = [cli EXCEPT ![t].at = "save", ![t].rc = rc]
  /\ UNCHANGED <<cloud, full, owned, keypairs, config, files, started>>

Save(t) ==
  /\ At(t, "save")
  /\ config' = SetAuth(cli[t].rc, cli[t].stack, [bucket |-> cli[t].bucket])
  /\ Exit(t)
  /\ UNCHANGED <<cloud, full, owned, keypairs, files, started>>

------------------------------------------------------------------------------
(* Destruction.  The bucket is emptied as far as its name is known and one  *)
(* page of it reaches; what is left makes the deletion of the stack fail.   *)

EmptyBucket(t) ==
  LET s == cli[t].stack IN
  /\ At(t, "empty")
  /\ GoTo(t, IF s \in AwsStacks THEN "destroyRack" ELSE "deleteMain")
  /\ full' \in {full, IF cli[t].bucket THEN full \ {s} ELSE full}
  /\ UNCHANGED <<cloud, owned, keypairs, config, files, started>>

\* aws: look the stack up by its name, delete it in whatever state it rests,
\* again if a deletion has failed, until it is not found.
DestroyRack(t) ==
  LET s == cli[t].stack IN
  /\ At(t, "destroyRack")
  /\ \/ cloud[s] = "absent" /\ GoTo(t, "forget") /\ UNCHANGED cloud
     \/ /\ cloud[s] \in {"up", "broken", "stuck", "deleteFailed"}
        /\ cloud' = [cloud EXCEPT ![s] = "deleting"]
        /\ cli' = Told(Polling(t, s, "destroyRack"), Creators(s), "running")
  /\ UNCHANGED <<full, owned, keypairs, config, files, started>>

DeleteMain(t) == At(t, "deleteMain") /\ DeleteDeployment(t, "waitMain")

\* A wait that takes a running operation for a finished one.
WaitMainNot(t) ==
  /\ At(t, "waitMain")
  /\ \/ cli[t].signal /\ Heed(t, "list")
     \/ cli[t].op \in {"ok", "running"} /\ GoTo(t, "list")
     \/ cli[t].op = "error" /\ Exit(t)
  /\ UNCHANGED <<cloud, full, owned, keypairs, config, files, started>>

\* An interrupt ends the wait without an error.
WaitMain(t) ==
  /\ At(t, "waitMain")
  /\ \/ cli[t].signal /\ Heed(t, "list")
     \/ cli[t].op = "ok" /\ GoTo(t, "list")
     \/ cli[t].op = "error" /\ Exit(t)
  /\ UNCHANGED <<cloud, full, owned, keypairs, config, files, started>>

\* The deployments labelled with the stack are deleted one by one.  Only one page
\* of the listing is read: a project with more deployments than it holds is out of
\* the bounds.
ListOwned(t) ==
  /\ At(t, "list")
  /\ GoTo(t, IF "deployments" \in owned[cli[t].stack] THEN "deleteOwned" ELSE "reset")
  /\ UNCHANGED <<cloud, full, owned, keypairs, config, files, started>>

DeleteOwned(t) ==
  /\ At(t, "deleteOwned")
  /\ \/ owned' = [owned EXCEPT ![cli[t].stack] = @ \ {"deployments"}] /\ GoTo(t, "reset")
     \/ \* interrupted: the deletion may still fail
        cli[t].interrupts < 2 /\ Heed(t, "reset") /\ UNCHANGED owned
  /\ UNCHANGED <<cloud, full, keypairs, config, files, started>>

ResetDatabase(t) ==
  /\ At(t, "reset")
  /\ owned' = [owned EXCEPT ![cli[t].stack] = @ \ {"records"}]
  /\ GoTo(t, "forget")
  /\ UNCHANGED <<cloud, full, keypairs, config, files, started>>

Forget(t) ==
  /\ At(t, "forget")
  /\ config' = DeleteAuth(cli[t].rc)
  /\ GoTo(t, "removeDir")
  /\ UNCHANGED <<cloud, full, owned, keypairs, files, started>>

RemoveDir(t) ==
  /\ At(t, "removeDir")
  /\ files' = files \ {cli[t].stack}
  /\ Exit(t)
  /\ UNCHANGED <<cloud, full, owned, keypairs, config, started>>

------------------------------------------------------------------------------
(* Around the commands: an error of a call or a closed terminal ends one at *)
(* any step; an interrupt is left for the wait it reaches.                  *)

Die(t) ==
  /\ cli[t] # None
  /\ Exit(t)
  /\ UNCHANGED <<cloud, full, owned, keypairs, config, files, started>>

Interrupt(t) ==
  /\ cli[t] # None /\ cli[t].at \in {"waitCreate", "waitUndo", "waitMain"}
  /\ ~ cli[t].signal /\ cli[t].interrupts < 2
  /\ cli' = [cli EXCEPT ![t].signal = TRUE]
  /\ UNCHANGED <<cloud, full, owned, keypairs, config, files, started>>

\* The cloud ends a creation; only a formation can fail to roll back.
CreationEnds(s) ==
  /\ cloud[s] = "creating"
  /\ \E end \in {<<"up", "ok">>, <<"broken", "error">>} \cup
                  (IF s \in AwsStacks THEN {<<"stuck", "rollbackFailed">>} ELSE {}) :
       /\ cloud' = [cloud EXCEPT ![s] = end[1]]
       /\ cli' = Told(cli, Creators(s), end[2])
  /\ UNCHANGED <<full, owned, keypairs, config, files, started>>

\* The cloud ends a deletion; a bucket that holds objects is not deleted.  On
\* aws a command that watches the creation of the same stack sees it too.
DeletionEnds(s) ==
  LET watching == IF s \in AwsStacks THEN Creators(s) ELSE {} IN
  /\ cloud[s] = "deleting"
  /\ IF s \in full
     THEN /\ cloud' = [cloud EXCEPT ![s] = "deleteFailed"]
          /\ cli' = Told(cli, Deleters(s) \cup watching, "error")
     ELSE /\ cloud' = [cloud EXCEPT ![s] = "absent"]
          /\ cli' = Told(Told(cli, Deleters(s), "ok"), watching, "gone")
  /\ UNCHANGED <<full, owned, keypairs, config, files, started>>

\* The server of the stack stores code and, on gcp, records of apps and
\* deployments of databases, until its machine is gone.
ServerWorks(s) ==
  /\ cloud[s] \in {"up", "deleting"}
  /\ \/ full' = full \cup {s} /\ UNCHANGED owned
     \/ s \in GcpStacks /\ UNCHANGED full
          /\ \E x \in {"deployments", "records"} : owned' = [owned EXCEPT ![s] = @ \cup {x}]
  /\ UNCHANGED <<cloud, keypairs, config, files, cli, started>>

------------------------------------------------------------------------------
Init ==
  /\ cloud = [s \in Stacks |-> "absent"]
  /\ full = {}
  /\ owned = [s \in Stacks |-> {}]
  /\ keypairs = {}
  /\ config = NoAuths
  /\ files = {}
  /\ cli = [t \in Terminals |-> None]
  /\ started = 0

Begin(t) ==
  \/ \E s \in AwsStacks, k \in Keys : AwsInit(t, s, k)
  \/ \E s \in GcpStacks : GcpInit(t, s)
  \/ \E s \in LocalStacks : LocalInit(t, s)
  \/ \E s \in AwsStacks \cup GcpStacks : Login(t, s) \/ Destroy(t, s)

Step(t) ==
  \/ CreateKeyPair(t) \/ CreateStack(t) \/ WaitForCompletion(t)
  \/ ServiceAccount(t) \/ Insert(t) \/ WaitCreate(t) \/ Undo(t) \/ Cancel(t) \/ WaitUndo(t) \/ WaitCancel(t)
  \/ GetHost(t) \/ LoadApprc(t) \/ Save(t)
  \/ EmptyBucket(t) \/ DestroyRack(t) \/ DeleteMain(t) \/ WaitMain(t) \/ ListOwned(t)
  \/ DeleteOwned(t) \/ ResetDatabase(t) \/ Forget(t) \/ RemoveDir(t)

Next ==
  \/ \E t \in Terminals : Begin(t) \/ Consent(t) \/ Step(t) \/ Die(t) \/ Interrupt(t)
  \/ \E s \in Stacks : CreationEnds(s) \/ DeletionEnds(s) \/ ServerWorks(s)

\* The cloud ends what it has begun, and a command that can go on does.
Fairness ==
  /\ \A s \in AwsStacks \cup GcpStacks : WF_vars(CreationEnds(s)) /\ WF_vars(DeletionEnds(s))
  /\ \A t \in Terminals : WF_vars(Step(t))

Spec == Init /\ [][Next]_vars /\ Fairness

------------------------------------------------------------------------------
(* Properties *)

\* Statuses, files, auths and commands are of the right kind.
TypeOK ==
  /\ cloud \in [Stacks -> Statuses]
  /\ full \subseteq Stacks
  /\ owned \in [Stacks -> SUBSET {"deployments", "records"}]
  /\ keypairs \subseteq Keys
  /\ config \in Apprc
  /\ files \subseteq Stacks
  /\ cli \in [Terminals -> Command \cup {None}]
  /\ started \in 0..MaxCommands

\* The context of the configuration, if any, is a stack it lists, whichever
\* commands overlap and write the copies they have read.
ContextIsListed == config.context # None => config.auths[config.context] # None

\* A gcp creation that the user interrupts once is not recorded as a stack:
\* the deployment is gone before init asks for its address.
InterruptedIsNotRecorded ==
  [][\A t \in Terminals : Save(t) => cli[t].interrupts # 1 \/ cli[t].crossed]_vars

\* A gcp stack whose destruction nobody has interrupted or crossed leaves no
\* deployment of a database and no record behind when it is forgotten: the
\* server that creates them is gone before they are looked for.
NothingLeftBehind ==
  [][\A t \in Terminals :
       Forget(t) => cli[t].interrupts > 0 \/ cli[t].crossed \/ owned[cli[t].stack] = {}]_vars

\* Every command ends, unless it waits for its user's browser or the bucket of
\* its stack on aws keeps holding objects.
CommandsEnd ==
  \A t \in Terminals :
    (cli[t] # None) ~> (cli[t] = None \/ At(t, "consent") \/ cli[t].stack \in full \cap AwsStacks)
==============================================================================
