---------------------------- MODULE SharedIngress ----------------------------
(***************************************************************************)
(* The Ingress object that the apps of a stack share, and the requests     *)
(* that read and write it: the deploy of an app, setting and deleting a    *)
(* TLS certificate, and the cleanup of a deleted app.  On aws the nginx     *)
(* controller that serves the Ingress runs in the namespace of the stack:   *)
(* a deploy with domains sets it up before it writes the Ingress, and the   *)
(* cleanup of the last app removes it.                                      *)
(*                                                                         *)
(* Kubernetes rejects an update of an object that was written since the    *)
(* caller read it; a request remembers in "fresh" whether that is so.  A   *)
(* write that changes nothing does not count.  Requests overlap, any call  *)
(* may fail, and what a request wrote before stays.                        *)
(*                                                                         *)
(* Abstracted: the record of an app (a deploy carries whatever domains the *)
(* record held when it was loaded, and they are edited freely in between), *)
(* the pods and the process types of an app, the paths of the rules, the    *)
(* manifests of the controller; its five RBAC objects are one piece.        *)
(***************************************************************************)
EXTENDS IngressRules, FiniteSets

CONSTANTS
  Providers,    \* clouds the server may run on, of {"aws", "gcp"}
  Apps,
  Domains,
  Ports,        \* ports an app can be released on: the PORT of its environment
  Handlers,     \* requests in flight: a bound on the concurrency
  CertDomains,  \* domains that certificates are set for
  MaxDomains,   \* bound on the domains of one app
  None          \* no object

ASSUME NoneAssumption ==
  None \notin Apps \cup Domains /\ CertDomains \subseteq Domains /\ MaxDomains \in Nat

VARIABLES
  provider,     \* the cloud of this server
  controller,   \* pieces of the nginx controller that exist
  asleep,       \* those that are Deployments scaled down to no replicas
  services,     \* apps that have a service in the cluster
  ingress,      \* the shared object: rules and TLS entries
  secrets,      \* TLS secrets, named for an app and a domain
  pc,           \* per request: the next call
  job           \* per request: its arguments and what it has read

vars == <<provider, controller, asleep, services, ingress, secrets, pc, job>>

\* The namespace but for the Ingress and the requests, and all but the requests.
platform == <<provider, controller, asleep, services, secrets>>
cluster  == <<platform, ingress>>

Backend  == [app : Apps, port : Ports]
Rule     == [host : Domains, backend : Backend]
TLSEntry == [host : Domains, secret : Apps \X Domains]
Ingress  == [rules : Seq(Rule), tls : SUBSET TLSEntry]

ASSUME NoObjectAssumption == None \notin Ingress

\* The pieces of the controller, in the order they are set up.
RBACRoles         == <<"rbac">>
DefaultBackend    == <<"backendDeployment", "backendService">>
IngressController == <<"configMap", "controllerService", "controllerDeployment">>

Deployments == {"backendDeployment", "controllerDeployment"}

Pieces == ToSet(RBACRoles \o DefaultBackend \o IngressController)

Calls == {"idle", "service", "rbac", "backend", "controller", "get", "put", "getForCert", "putSecret", "putCert",
          "getForUncert", "dropCert", "dropSecret", "unserve", "lastService",
          "dropIngress", "removeController"}

\* The domains of one app, in the order they were added.
DomainLists ==
  {ds \in UNION {[1..n -> Domains] : n \in 0..MaxDomains} :
     \A i, j \in DOMAIN ds : i # j => ds[i] # ds[j]}

NoJob == [app |-> None, domain |-> None, source |-> <<>>, copy |-> None, fresh |-> FALSE]

Job == [app : Apps \cup {None}, domain : Domains \cup {None}, source : Seq(Rule),
        copy : Ingress \cup {None}, fresh : BOOLEAN]

At(h, call) == pc[h] = call

Goto(h, call, j) ==
  /\ pc' = [pc EXCEPT ![h] = call]
  /\ job' = [job EXCEPT ![h] = IF call = "idle" THEN NoJob ELSE j]

Return(h) == Goto(h, "idle", NoJob)

\* The request h replaces the shared object by new, and goes on with call.
Write(h, new, call) ==
  /\ ingress' = new
  /\ pc' = [pc EXCEPT ![h] = call]
  /\ job' = [k \in Handlers |->
               IF k = h THEN IF call = "idle" THEN NoJob ELSE [job[h] EXCEPT !.fresh = FALSE]
               ELSE IF new # ingress THEN [job[k] EXCEPT !.fresh = FALSE] ELSE job[k]]

\* Update is refused when the object was written or removed since it was read.
Update(h, new, call) ==
  IF ingress # None /\ job[h].fresh
  THEN Write(h, new, call)
  ELSE Return(h) /\ UNCHANGED ingress

------------------------------------------------------------------------------
(* Deploy: the service of the app first, then its rules, if it has domains. *)

Deploy(h, a, p, ds) ==
  /\ At(h, "idle")
  /\ Goto(h, "service",
          [NoJob EXCEPT !.app = a,
             !.source = ingressRulesManifest([app |-> a, port |-> p], ds)])
  /\ UNCHANGED cluster

CreateOrUpdateService(h) ==
  /\ At(h, "service")
  /\ services' = services \cup {job[h].app}
  /\ IF job[h].source = <<>>
     THEN Return(h)
     ELSE Goto(h, IF provider = "aws" THEN "rbac" ELSE "get", job[h])
  /\ UNCHANGED <<provider, controller, asleep, ingress, secrets>>

\* A set-up that takes the first piece for the whole.
SetupIfNew(h, pieces, next) ==
  /\ controller' = IF pieces[1] \in controller THEN controller
                   ELSE controller \cup ToSet(pieces)
  /\ Goto(h, next, job[h])
  /\ UNCHANGED <<provider, asleep, services, ingress, secrets>>

\* Each piece is created unless it exists, whatever its scale; a call that fails
\* ends the deploy, and what was created before stays.
Setup(h, pieces, next) ==
  \E n \in 0..Len(pieces) :
    /\ controller' = controller \cup ToSet(SubSeq(pieces, 1, n))
    /\ IF n = Len(pieces) THEN Goto(h, next, job[h]) ELSE Return(h)
    /\ UNCHANGED <<provider, asleep, services, ingress, secrets>>

setupRBACRoles(h)         == At(h, "rbac") /\ Setup(h, RBACRoles, "backend")
setupDefaultBackend(h)    == At(h, "backend") /\ Setup(h, DefaultBackend, "controller")
setupIngressController(h) == At(h, "controller") /\ Setup(h, IngressController, "get")

Read(h) == [job[h] EXCEPT !.copy = ingress, !.fresh = TRUE]

GetIngress(h) ==
  /\ At(h, "get")
  /\ Goto(h, "put", Read(h))
  /\ UNCHANGED cluster

\* The mistake of a deploy that keeps no rules but its own.
Overwrite(h) == [rules |-> job[h].source, panics |-> FALSE]

Merge(h) == MergeIngressRules(job[h].copy.rules, job[h].source)

CreateIngress(h) ==
  /\ At(h, "put") /\ job[h].copy = None
  /\ IF ingress = None
     THEN Write(h, [rules |-> job[h].source, tls |-> {}], "idle")
     ELSE Return(h) /\ UNCHANGED ingress       \* it exists by now
  /\ UNCHANGED platform

UpdateIngress(h) ==
  /\ At(h, "put") /\ job[h].copy # None
  /\ ~ Merge(h).panics
  /\ Update(h, [job[h].copy EXCEPT !.rules = Merge(h).rules], "idle")
  /\ UNCHANGED platform

\* The panic ends the server and every request in flight.
MergePanics(h) ==
  /\ At(h, "put") /\ job[h].copy # None
  /\ Merge(h).panics
  /\ pc' = [k \in Handlers |-> "idle"]
  /\ job' = [k \in Handlers |-> NoJob]
  /\ UNCHANGED cluster

------------------------------------------------------------------------------
(* Certificates: setting one writes the secret, then the TLS entry; deleting *)
(* one drops the entry, then the secret.  An entry that has the domain        *)
(* already stays as it is: the code assigns the secret to a loop variable.    *)

CertificateSet(h, a, d) ==
  /\ At(h, "idle")
  /\ Goto(h, "getForCert", [NoJob EXCEPT !.app = a, !.domain = d])
  /\ UNCHANGED cluster

GetForCert(h) ==
  /\ At(h, "getForCert")
  /\ IF ingress = None THEN Return(h) ELSE Goto(h, "putSecret", Read(h))
  /\ UNCHANGED cluster

SecretNameReversed(h) == <<job[h].domain, job[h].app>>
SecretName(h) == <<job[h].app, job[h].domain>>

PutSecret(h) ==
  /\ At(h, "putSecret")
  /\ secrets' = secrets \cup {SecretName(h)}
  /\ Goto(h, "putCert", job[h])
  /\ UNCHANGED <<provider, controller, asleep, services, ingress>>

\* The entry added whether or not the domain has one.
WithSecondCert(tls, secret, d) == tls \cup {[host |-> d, secret |-> secret]}

WithCert(tls, secret, d) ==
  IF \E t \in tls : t.host = d THEN tls ELSE tls \cup {[host |-> d, secret |-> secret]}

PutCert(h) ==
  /\ At(h, "putCert")
  /\ Update(h, [job[h].copy EXCEPT !.tls = WithCert(@, SecretName(h), job[h].domain)], "idle")
  /\ UNCHANGED platform

CertificateDelete(h, a, d) ==
  /\ At(h, "idle")
  /\ Goto(h, "getForUncert", [NoJob EXCEPT !.app = a, !.domain = d])
  /\ UNCHANGED cluster

GetForUncert(h) ==
  /\ At(h, "getForUncert")
  /\ IF ingress = None
     THEN Return(h)          \* the update of the empty object is refused
     ELSE Goto(h, "dropCert", Read(h))
  /\ UNCHANGED cluster

\* The shortened list of entries computed and not assigned.
KeepCert(h) ==
  /\ At(h, "dropCert")
  /\ Update(h, job[h].copy, "dropSecret")
  /\ UNCHANGED platform

DropCert(h) ==
  /\ At(h, "dropCert")
  /\ Update(h, [job[h].copy EXCEPT !.tls = {t \in @ : t.secret # SecretName(h)}], "dropSecret")
  /\ UNCHANGED platform

DropSecret(h) ==
  /\ At(h, "dropSecret")
  /\ secrets' = secrets \ {SecretName(h)}
  /\ Return(h)
  /\ UNCHANGED <<provider, controller, asleep, services, ingress>>

------------------------------------------------------------------------------
(* DeleteApp: the services of the app; if the stack has no service left, its *)
(* Ingress.  The rules of the app are not removed from it otherwise.          *)

DeleteApp(h, a) ==
  /\ At(h, "idle")
  /\ Goto(h, "unserve", [NoJob EXCEPT !.app = a])
  /\ UNCHANGED cluster

Unserve(h) ==
  /\ At(h, "unserve")
  /\ services' = services \ {job[h].app}
  /\ Goto(h, "lastService", job[h])
  /\ UNCHANGED <<provider, controller, asleep, ingress, secrets>>

\* The Ingress dropped without a look at the services of other apps.
AssumeLastService(h) ==
  /\ At(h, "lastService")
  /\ Goto(h, "dropIngress", job[h])
  /\ UNCHANGED cluster

LastService(h) ==
  /\ At(h, "lastService")
  /\ IF services = {} THEN Goto(h, "dropIngress", job[h]) ELSE Return(h)
  /\ UNCHANGED cluster

\* A delete that fails is only logged.
DropIngress(h) ==
  /\ At(h, "dropIngress")
  /\ \E new \in {None, ingress} :
       Write(h, new, IF provider = "aws" THEN "removeController" ELSE "idle")
  /\ UNCHANGED platform

\* A Deployment is scaled down before it is deleted.  Any of the calls may fail
\* and is only logged.  The config map and the service are deleted under the
\* name of the Deployment, so these two stay.
RemoveController(h) ==
  /\ At(h, "removeController")
  /\ \E gone \in SUBSET (Pieces \ {"configMap", "controllerService"}), scaled \in SUBSET Deployments :
       /\ controller' = controller \ gone
       /\ asleep' = (asleep \cup scaled) \cap controller'
  /\ Return(h)
  /\ UNCHANGED <<provider, services, ingress, secrets>>

------------------------------------------------------------------------------
Fail(h) ==
  /\ ~ At(h, "idle")
  /\ Return(h)
  /\ UNCHANGED cluster

Init ==
  /\ provider \in Providers
  /\ controller = {}
  /\ asleep = {}
  /\ services = {}
  /\ ingress = None
  /\ secrets = {}
  /\ pc = [h \in Handlers |-> "idle"]
  /\ job = [h \in Handlers |-> NoJob]

Request(h) ==
  \E a \in Apps :
    \/ \E p \in Ports, ds \in DomainLists : Deploy(h, a, p, ds)
    \/ \E d \in CertDomains : CertificateSet(h, a, d) \/ CertificateDelete(h, a, d)
    \/ DeleteApp(h, a)

Step(h) ==
  \/ CreateOrUpdateService(h)
  \/ setupRBACRoles(h) \/ setupDefaultBackend(h) \/ setupIngressController(h)
  \/ GetIngress(h) \/ CreateIngress(h) \/ UpdateIngress(h)
  \/ MergePanics(h) \/ GetForCert(h) \/ PutSecret(h) \/ PutCert(h) \/ GetForUncert(h)
  \/ DropCert(h) \/ DropSecret(h) \/ Unserve(h) \/ LastService(h)
  \/ DropIngress(h) \/ RemoveController(h) \/ Fail(h)

Next == \E h \in Handlers : Request(h) \/ Step(h)

Spec == Init /\ [][Next]_vars

------------------------------------------------------------------------------
(* Properties *)

Routes(ing) == IF ing = None THEN {} ELSE ToSet(ing.rules)

TypeOK ==
  /\ provider \in Providers
  /\ controller \subseteq Pieces
  /\ asleep \subseteq controller \cap Deployments
  /\ services \subseteq Apps
  /\ ingress \in Ingress \cup {None}
  /\ secrets \subseteq Apps \X Domains
  /\ pc \in [Handlers -> Calls]
  /\ job \in [Handlers -> Job]

\* However deploys overlap and merge their rules, a host has one rule and one
\* certificate: which backend answers for it does not depend on rule order.
OneRulePerHost ==
  ingress # None =>
    /\ \A i, j \in DOMAIN ingress.rules :
         i # j => ingress.rules[i].host # ingress.rules[j].host
    /\ \A s, t \in ingress.tls : s.host = t.host => s = t

\* A deploy never takes a route away from another app, nor one that another
\* request has added since the deploy read the object, except for the hosts
\* among its own domains.
DeployKeepsOthers ==
  [][\A h \in Handlers :
       CreateIngress(h) \/ UpdateIngress(h) =>
         \A r \in Routes(ingress) :
           r.backend.app = job[h].app \/ r.host \in Hosts(job[h].source) \/ r \in Routes(ingress')
     ]_vars

\* A deploy that changes the shared object leaves every domain of its app
\* routed to the port it deploys.
DeployRoutesDomains ==
  [][\A h \in Handlers :
       CreateIngress(h) \/ UpdateIngress(h) =>
         (ingress' # ingress => ToSet(job[h].source) \subseteq Routes(ingress'))]_vars

\* A deploy leaves no rule that routes a removed domain to the deployed port.
NoStaleRoutes ==
  [][\A h \in Handlers :
       UpdateIngress(h) /\ ingress' # ingress =>
         \A r \in Routes(ingress') : ~ Stale(r, job[h].source)]_vars

\* Every TLS entry of the shared object names a secret that exists, whichever
\* call of setting or deleting a certificate fails.
TLSHasSecret == ingress # None => \A t \in ingress.tls : t.secret \in secrets

\* Deleting an app leaves the shared object in place, and the controller that
\* serves it in place and running, while another app has a service.
DeleteSparesRoutes ==
  [][\/ services = {}
     \/ /\ ingress' = None => ingress = None
        /\ controller \subseteq controller' /\ asleep' \subseteq asleep]_vars

\* On aws the rules of an app are only written once every piece of the
\* controller exists, whatever an earlier deploy or cleanup left undone.  It does
\* not hold that asleep = {} then: a Deployment that a cleanup has scaled down and
\* failed to delete exists, and a deploy takes it as it is.
ControllerBeforeRoutes ==
  [][provider = "aws" /\ Routes(ingress') \ Routes(ingress) # {} => controller = Pieces]_vars
==============================================================================
