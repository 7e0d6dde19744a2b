----------------------------- MODULE AppRegistry -----------------------------
(***************************************************************************)
(* What the app API promises its callers: a table of apps in which every   *)
(* request takes effect at one instant.  An app is created once (Datastore *)
(* lets a second create erase it), a domain request adds or removes the    *)
(* one domain it names, a deploy points the app at the build it was given, *)
(* and a deleted app is gone until it is created again.  AppRecord is      *)
(* shown to implement this table.                                          *)
(***************************************************************************)
EXTENDS FiniteSets

CONSTANTS
  Apps,       \* names of apps
  Domains,    \* domain names a client may add or remove
  Builds,     \* build ids
  Nobody      \* the value of "no such app" and "no build"

VARIABLES
  registry,   \* [Apps -> entry], Nobody where the app does not exist
  replaces    \* the table lets a create replace an app that exists

Entry == [domains : SUBSET Domains, build : Builds \cup {Nobody}]

TypeOK == registry \in [Apps -> Entry \cup {Nobody}] /\ replaces \in BOOLEAN

Init == registry = [a \in Apps |-> Nobody] /\ replaces \in BOOLEAN

Exists(a) == registry[a] # Nobody

Create(a) ==
  /\ Exists(a) => replaces
  /\ registry' = [registry EXCEPT ![a] = [domains |-> {}, build |-> Nobody]]

Delete(a) ==
  /\ Exists(a)
  /\ registry' = [registry EXCEPT ![a] = Nobody]

AddDomain(a, d) ==
  /\ Exists(a)
  /\ registry' = [registry EXCEPT ![a].domains = @ \cup {d}]

RemoveDomain(a, d) ==
  /\ Exists(a)
  /\ registry' = [registry EXCEPT ![a].domains = @ \ {d}]

Deploy(a, b) ==
  /\ Exists(a)
  /\ registry' = [registry EXCEPT ![a].build = b]

Next ==
  /\ UNCHANGED replaces
  /\ \E a \in Apps :
       \/ Create(a)
       \/ Delete(a)
       \/ \E d \in Domains : AddDomain(a, d) \/ RemoveDomain(a, d)
       \/ \E b \in Builds : Deploy(a, b)

Spec == Init /\ [][Next]_<<registry, replaces>>
==============================================================================
