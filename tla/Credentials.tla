---------------------------- MODULE Credentials ----------------------------
(***************************************************************************)
(* How the API server comes by its access to the cluster.                  *)
(*                                                                         *)
(* A file of the server's machine, kubeconfig, outlives the process.  The  *)
(* server fetches it when it starts, before it listens for gRPC; its HTTP  *)
(* port, with the websockets, opens two seconds later whatever has become  *)
(* of that.  Requests of kubectl fetch it too, and so does, on aws, the    *)
(* first handler that needs the client of the cluster.  Whoever finds the  *)
(* file leaves it, and nobody looks whether it is complete.  The client is *)
(* made once in the life of the process; if that fails the process ends.   *)
(*                                                                         *)
(* Abstracted: the two seconds; ca.pem, which gcp writes just before.      *)
(***************************************************************************)
EXTENDS Naturals, FiniteSets

CONSTANTS
  Users,       \* handlers that use the client of the cluster
  Providers    \* the clouds a server may be started on

ASSUME CredentialsAssumption ==
  Providers \subseteq {"aws", "gcp", "local"} /\ Users \cap {"server", "kubectl"} = {}

VARIABLES
  provider,
  up,         \* the server runs
  config,     \* the file
  client,     \* the client of the process: a bad one was made from part of a file
  once,       \* a handler has asked for the file in this process (aws)
  fetch       \* where each fetch is

creds == <<provider, up, config, client, once, fetch>>

Fetchers == Users \cup {"server", "kubectl"}

NoFetch == [f \in Fetchers |-> "no"]
Fetch(f, state) == fetch' = [fetch EXCEPT ![f] = state]

\* An earlier server may have left the file, whole or not.
CredentialsInit ==
  /\ provider \in Providers
  /\ up = TRUE
  /\ config \in IF provider = "local" THEN {"whole"} ELSE {"none", "part", "whole"}
  /\ client = "none" /\ once = FALSE
  /\ fetch = [NoFetch EXCEPT !["server"] = "stat"]

\* A path that is fetched whether or not the file is there.
FetchAnyway(f) ==
  /\ fetch[f] = "stat"
  /\ Fetch(f, "asking")
  /\ UNCHANGED <<provider, up, config, client, once>>

K8sConfigPath(f) ==
  /\ fetch[f] = "stat"
  /\ Fetch(f, IF config = "none" THEN "asking" ELSE "no")
  /\ UNCHANGED <<provider, up, config, client, once>>

\* The address of the master, or the cluster; then the file is opened.
Ask(f) ==
  /\ fetch[f] = "asking"
  /\ \/ Fetch(f, "writing") /\ config' = "part"
     \/ Fetch(f, "no") /\ UNCHANGED config
  /\ UNCHANGED <<provider, up, client, once>>

\* A copy that breaks off leaves what it has written.
WriteConfig(f) ==
  /\ fetch[f] = "writing"
  /\ Fetch(f, "no")
  /\ config' \in {"whole", config}
  /\ UNCHANGED <<provider, up, client, once>>

Fetching(f) == K8sConfigPath(f) \/ Ask(f) \/ WriteConfig(f)

\* gRPC is served when the fetch of the start is over.
Kubectl ==
  /\ up /\ fetch["server"] = "no" /\ fetch["kubectl"] = "no"
  /\ Fetch("kubectl", "stat")
  /\ UNCHANGED <<provider, up, config, client, once>>

\* On aws the first handler that needs the client asks for the file.
NeedsConfig(f) ==
  /\ provider = "aws" /\ ~ once /\ client = "none"
  /\ once' = TRUE /\ Fetch(f, "stat")
  /\ UNCHANGED <<provider, up, config, client>>

\* Others wait for the first.
HasConfig == (provider = "aws" => once) /\ \A f \in Users : fetch[f] = "no"

\* Part of a file may be good for a client, though not for a request.
MakeClient ==
  /\ HasConfig /\ client = "none" /\ config # "none"
  /\ client' = IF config = "whole" THEN "good" ELSE "bad"
  /\ UNCHANGED <<provider, up, config, once, fetch>>

CannotMakeClient == HasConfig /\ client = "none" /\ config # "whole"

Down ==
  /\ up' = FALSE /\ client' = "none" /\ once' = FALSE /\ fetch' = NoFetch
  /\ UNCHANGED <<provider, config>>

Restart ==
  /\ ~ up
  /\ up' = TRUE /\ Fetch("server", "stat")
  /\ UNCHANGED <<provider, config, client, once>>

\* Once the file is complete, nobody writes it, and no client was made before
\* that, it stays so: no request, death or restart of the server spoils its
\* access to the cluster again.
InPeace ==
  /\ config = "whole" /\ client # "bad"
  /\ \A f \in Fetchers : fetch[f] \in {"no", "stat"}

AccessLasts == [][InPeace => InPeace']_creds
=============================================================================
