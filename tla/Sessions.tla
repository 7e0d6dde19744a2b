------------------------------ MODULE Sessions ------------------------------
(***************************************************************************)
(* Sessions over a websocket: `datacol run` executes a command in a pod of *)
(* its own, `datacol logs` reads the logs of an app's pods, and            *)
(* `datacol proxy` connects a local port with a host of the stack.         *)
(*                                                                         *)
(* A session has a client, which copies both ways between the near side    *)
(* (terminal or local connection) and the websocket, and a handler, which  *)
(* copies between the websocket and the far side (command, log streams or  *)
(* remote host).  Either side, the pods, the client and the server may go  *)
(* at any time.  A panic of a handler ends its session only, for net/http  *)
(* recovers it; a panic of a goroutine it started ends the server.         *)
(*                                                                         *)
(* The handlers of runs and logs need the cluster (Credentials).           *)
(*                                                                         *)
(* Abstracted: the bytes that are copied (a write matters when it fails),  *)
(* the arguments of a session, and a torn slice header in the race of the  *)
(* log streams, which loses an element here or nothing.                    *)
(***************************************************************************)
EXTENDS Credentials

CONSTANTS
  Sessions,   \* bound on the sessions; also names their run pods; the Users of Credentials
  AppPods,    \* pods of the app whose logs are read
  MaxPolls,   \* 21 in the code: polls for a run pod
  None

ASSUME SessionsAssumption ==
  /\ Users = Sessions /\ MaxPolls \in Nat \ {0}
  /\ Sessions \cap AppPods = {} /\ None \notin Sessions \cup AppPods

VARIABLES
  pods,      \* phase of each pod of the app and of each run pod
  session    \* both ends of each session

vars == <<pods, session, creds>>

\* "badImage" is a pending pod whose image cannot be pulled.
Phases == {"absent", "pending", "badImage", "running", "over"}

Steps == {"idle", "config", "client", "create", "wait", "exec", "list", "open", "dial", "copy", "delete"}

\* What the request for a log stream gave: nil if it failed.
Source == [pod : AppPods, reader : {"reader", "nil"}]

\* A goroutine that opens a stream and appends it to the sources of the session:
\* seen are the sources as append read them.
Opener == [state : {"none", "opening", "reader", "nil"}, seen : SUBSET Source]

NoOpener == [state |-> "none", seen |-> {}]

Session ==
  [kind : {"run", "logs", "proxy", None},
   step : Steps,                  \* the handler; the server's end is open unless it is idle
   client : BOOLEAN,              \* the client's end is open: its Stream has not returned
   config : BOOLEAN,              \* the handler of a run has read a configuration it can use
   near : BOOLEAN, far : BOOLEAN, \* these sides are open
   copies : SUBSET {"in", "out"}, \* goroutines of the handler that copy
   polls : 0..(MaxPolls - 1),
   openers : [AppPods -> Opener],
   sources : SUBSET Source]

NoSession ==
  [kind |-> None, step |-> "idle", client |-> FALSE, config |-> FALSE, near |-> FALSE, far |-> FALSE,
   copies |-> {}, polls |-> 0, openers |-> [p \in AppPods |-> NoOpener],
   sources |-> {}]

At(s, kind, step) == session[s].kind = kind /\ session[s].step = step
Becomes(s, rec) == session' = [session EXCEPT ![s] = rec]
Goto(s, step) == Becomes(s, [session[s] EXCEPT !.step = step])

\* The handler returns, and with it the server's end is closed.
Closed(ses) ==
  IF ses.client
  THEN [NoSession EXCEPT !.kind = ses.kind, !.client = TRUE, !.near = ses.near]
  ELSE NoSession

Return(s) == Becomes(s, Closed(session[s]))

------------------------------------------------------------------------------
(* The client                                                               *)

First == [run |-> "config", logs |-> "client", proxy |-> "dial"]
ThenCluster == [run |-> "create", logs |-> "list"]

\* The name of a run pod is new.
Stream(s, kind) ==
  /\ up /\ session[s] = NoSession
  /\ kind = "run" => pods[s] = "absent"
  /\ Becomes(s, [NoSession EXCEPT !.kind = kind, !.step = First[kind],
                                  !.client = TRUE, !.near = TRUE])
  /\ UNCHANGED <<pods, creds>>

\* Stream returns, or the command line is interrupted.  The local connection of
\* a proxy stays as it is.
Left(ses) == IF ses.step = "idle" THEN NoSession ELSE [ses EXCEPT !.client = FALSE]
Leave(s) == session[s].client /\ Becomes(s, Left(session[s])) /\ UNCHANGED <<pods, creds>>

\* What the client copies out ends with the server's end.
ServerIsGone(s) == session[s].step = "idle" /\ Leave(s)

\* The program at the near side closes; the copy into the websocket ends and
\* tells nobody.
NearCloses(s) ==
  /\ session[s].near
  /\ Becomes(s, [session[s] EXCEPT !.near = FALSE])
  /\ UNCHANGED <<pods, creds>>

------------------------------------------------------------------------------
(* Access to the cluster                                                    *)

\* A run reads the file for the executor; aws ignores the error.
ReadConfig(s) ==
  /\ At(s, "run", "config")
  /\ \/ /\ provider = "aws" \/ config # "none"
        /\ Becomes(s, [session[s] EXCEPT !.step = "client", !.config = config = "whole"])
     \/ provider # "aws" /\ config # "whole" /\ Return(s)
  /\ UNCHANGED <<pods, creds>>

\* Handlers that go on, because the client is there, and that make it.
kubeClient(s) ==
  /\ session[s].step = "client"
  /\ \/ NeedsConfig(s) /\ UNCHANGED session
     \/ MakeClient /\ UNCHANGED session
     \/ client # "none" /\ Goto(s, ThenCluster[session[s].kind]) /\ UNCHANGED creds
  /\ UNCHANGED pods

FetchConfig(f) == Fetching(f) /\ UNCHANGED <<pods, session>>

------------------------------------------------------------------------------
(* Running a command: the delete of the pod is deferred before the create.   *)

\* The delete deferred after a create that succeeded; the answer to the create
\* may be lost.
CreatePodThenDefer(s) ==
  /\ At(s, "run", "create")
  /\ \E created, answered \in BOOLEAN :
       /\ answered => created
       /\ created => client = "good"
       /\ pods' = [pods EXCEPT ![s] = IF created THEN "pending" ELSE @]
       /\ IF answered THEN Goto(s, "wait") ELSE Return(s)
  /\ UNCHANGED creds

CreatePod(s) ==
  /\ At(s, "run", "create")
  /\ \E created, answered \in BOOLEAN :
       /\ answered => created
       /\ created => client = "good"
       /\ pods' = [pods EXCEPT ![s] = IF created THEN "pending" ELSE @]
       /\ Goto(s, IF answered THEN "wait" ELSE "delete")
  /\ UNCHANGED creds

getPodPhase(s) ==
  CASE pods[s] = "running" -> "running"
    [] pods[s] = "pending" -> "not done"
    [] OTHER -> "error"

\* A wait that counts no poll.
PollForever(s) ==
  /\ At(s, "run", "wait")
  /\ Goto(s, CASE getPodPhase(s) = "running" -> "exec"
               [] getPodPhase(s) = "not done" -> "wait"
               [] OTHER -> "delete")
  /\ UNCHANGED <<pods, creds>>

\* A poll may also find the API server out of reach, which is an error.
waitUntilPodRunning(s) ==
  /\ At(s, "run", "wait")
  /\ \E phase \in {getPodPhase(s), "error"} :
       CASE phase = "running" -> Goto(s, "exec")
         [] phase = "not done" /\ session[s].polls + 1 < MaxPolls ->
              Becomes(s, [session[s] EXCEPT !.polls = @ + 1])
         [] OTHER -> Goto(s, "delete")
  /\ UNCHANGED <<pods, creds>>

\* ExecOptions.Run looks at the pod again, then starts the command.
Exec(s) ==
  /\ At(s, "run", "exec")
  /\ \/ /\ pods[s] = "running" /\ session[s].config
        /\ Becomes(s, [session[s] EXCEPT !.step = "copy", !.far = TRUE])
     \/ Goto(s, "delete")
  /\ UNCHANGED <<pods, creds>>

\* Stream of the executor returns with the end of the command, not before.
ExecEnds(s) ==
  /\ At(s, "run", "copy") /\ ~ session[s].far
  /\ Goto(s, "delete")
  /\ UNCHANGED <<pods, creds>>

deletePodByName(s) ==
  /\ At(s, "run", "delete")
  /\ client = "good"
  /\ pods' = [pods EXCEPT ![s] = "absent"]
  /\ Return(s) /\ UNCHANGED creds

\* The error of the delete is lost.
DeleteFails(s) == At(s, "run", "delete") /\ Return(s) /\ UNCHANGED <<pods, creds>>

------------------------------------------------------------------------------
(* Logs: one goroutine per pod opens a stream and appends it to a shared     *)
(* slice; the handler waits for all of them, then copies what the streams    *)
(* say.                                                                      *)

getPodStatus(p) ==
  CASE pods[p] = "running" -> "up"
    [] pods[p] = "pending" -> "initializing"
    [] pods[p] = "over" -> "down"
    [] OTHER -> "error"

\* Pods that are yet to run are among them.
GetAllRunningPods == {p \in AppPods : pods[p] # "absent" /\ getPodStatus(p) # "down"}

LogStreamReq(s) ==
  /\ At(s, "logs", "list")
  /\ \/ client = "good" /\ Becomes(s, [session[s] EXCEPT !.step = "open",
           !.openers = [p \in AppPods |->
             [NoOpener EXCEPT !.state = IF p \in GetAllRunningPods THEN "opening" ELSE "none"]]])
     \/ Return(s)
  /\ UNCHANGED <<pods, creds>>

\* A pod that does not run has no log to stream.
OpenStream(s, p) ==
  /\ At(s, "logs", "open") /\ session[s].openers[p].state = "opening"
  /\ \E reader \in {"nil"} \cup IF pods[p] = "running" THEN {"reader"} ELSE {} :
       Becomes(s, [session[s] EXCEPT
         !.openers[p] = [state |-> reader, seen |-> session[s].sources]])
  /\ UNCHANGED <<pods, creds>>

\* What another goroutine has appended in the meantime is lost.
AppendSource(s, p) ==
  LET opener == session[s].openers[p] IN
  /\ opener.state \in {"reader", "nil"}
  /\ Becomes(s, [session[s] EXCEPT
       !.sources = opener.seen \cup {[pod |-> p, reader |-> opener.state]},
       !.openers[p] = NoOpener])
  /\ UNCHANGED <<pods, creds>>

AllOpened(s) ==
  /\ At(s, "logs", "open")
  /\ \A p \in AppPods : session[s].openers[p] = NoOpener
  /\ Goto(s, "copy")
  /\ UNCHANGED <<pods, creds>>

SourceEnds(s) ==
  /\ At(s, "logs", "copy")
  /\ \E src \in session[s].sources :
       /\ src.reader = "reader"
       /\ Becomes(s, [session[s] EXCEPT !.sources = @ \ {src}])
  /\ UNCHANGED <<pods, creds>>

LogsEnd(s) == At(s, "logs", "copy") /\ session[s].sources = {} /\ Return(s) /\ UNCHANGED <<pods, creds>>

ServerDies ==
  /\ up /\ Down
  /\ session' = [s \in Sessions |-> Closed(session[s])]
  /\ UNCHANGED pods

\* The error of making the client is fatal.
kubeClientDies(s) == session[s].step = "client" /\ CannotMakeClient /\ ServerDies

\* The goroutine that scans a stream that could not be opened reads from nil.
NilReaderPanics(s) ==
  /\ At(s, "logs", "copy")
  /\ \E src \in session[s].sources : src.reader = "nil"
  /\ ServerDies

------------------------------------------------------------------------------
(* Proxy: the handler waits for both of its copies and closes neither end.  *)
(* A far connection that is still open when it returns stays open until the *)
(* far side closes it; with its session the model forgets it.               *)

ResourceProxy(s) ==
  /\ At(s, "proxy", "dial")
  /\ \/ Becomes(s, [session[s] EXCEPT !.step = "copy", !.far = TRUE, !.copies = {"in", "out"}])
     \/ Return(s)
  /\ UNCHANGED <<pods, creds>>

\* io.Copy returns at the end of its source; the error of a write that finds its
\* destination closed ends it too (NearSends, FarSends).
copyAsync(s) ==
  /\ At(s, "proxy", "copy")
  /\ \E way \in session[s].copies :
       /\ IF way = "in" THEN ~ session[s].client ELSE ~ session[s].far
       /\ Becomes(s, [session[s] EXCEPT !.copies = @ \ {way}])
  /\ UNCHANGED <<pods, creds>>

ProxyEnds(s) == At(s, "proxy", "copy") /\ session[s].copies = {} /\ Return(s) /\ UNCHANGED <<pods, creds>>

------------------------------------------------------------------------------
(* The two sides *)

FarCloses(s) ==
  /\ session[s].far
  /\ Becomes(s, [session[s] EXCEPT !.far = FALSE])
  /\ UNCHANGED <<pods, creds>>

\* Something is sent from the near side and finds the far side closed.
NearSends(s) ==
  /\ session[s].near /\ session[s].client
  /\ "in" \in session[s].copies /\ ~ session[s].far
  /\ Becomes(s, [session[s] EXCEPT !.copies = @ \ {"in"}])
  /\ UNCHANGED <<pods, creds>>

FarIsOpen(s) == IF session[s].kind = "logs" THEN session[s].sources # {} ELSE session[s].far

\* Something is sent from the far side: it finds the near side closed, and the
\* client leaves, or the client gone.  The executor of a run ignores that.
FarSends(s) ==
  /\ session[s].step = "copy" /\ FarIsOpen(s)
  /\ \/ ~ session[s].near /\ session[s].client /\ Becomes(s, Left(session[s]))
     \/ /\ ~ session[s].client
        /\ \/ session[s].kind = "logs" /\ Return(s)
           \/ /\ "out" \in session[s].copies
              /\ Becomes(s, [session[s] EXCEPT !.copies = @ \ {"out"}])
  /\ UNCHANGED <<pods, creds>>

\* Kubernetes, and deploys and scaling for the pods of the app.
PodTurns(p) ==
  /\ \E phase \in Phases :
       /\ \/ pods[p] \in {"pending", "badImage"} /\ phase \in {"pending", "badImage", "running", "over"}
          \/ pods[p] = "running" /\ phase = "over"
          \/ p \in AppPods /\ pods[p] = "absent" /\ phase = "pending"
          \/ p \in AppPods /\ pods[p] = "over" /\ phase = "absent"
       /\ pods' = [pods EXCEPT ![p] = phase]
  /\ UNCHANGED <<session, creds>>

------------------------------------------------------------------------------
Init ==
  /\ CredentialsInit
  /\ pods = [p \in AppPods \cup Sessions |-> "absent"]
  /\ session = [s \in Sessions |-> NoSession]

Handler(s) ==
  \/ ReadConfig(s) \/ kubeClient(s) \/ kubeClientDies(s) \/ FetchConfig(s)
  \/ CreatePod(s) \/ waitUntilPodRunning(s) \/ Exec(s) \/ ExecEnds(s)
  \/ deletePodByName(s) \/ DeleteFails(s)
  \/ LogStreamReq(s) \/ AllOpened(s) \/ LogsEnd(s)
  \/ ResourceProxy(s) \/ ProxyEnds(s)
  \/ \E p \in AppPods : OpenStream(s, p) \/ AppendSource(s, p)

Sides(s) == NearCloses(s) \/ NearSends(s) \/ FarCloses(s) \/ FarSends(s) \/ SourceEnds(s)

Next ==
  \/ ServerDies
  \/ (Kubectl \/ Restart) /\ UNCHANGED <<pods, session>>
  \/ \E f \in {"server", "kubectl"} : FetchConfig(f)
  \/ \E p \in AppPods \cup Sessions : PodTurns(p)
  \/ \E s \in Sessions :
       \/ \E kind \in DOMAIN First : Stream(s, kind)
       \/ Leave(s) \/ Handler(s) \/ copyAsync(s) \/ NilReaderPanics(s) \/ Sides(s)

\* The goroutines of the server and the client run, and their calls return.
Fairness ==
  \A s \in Sessions : WF_vars(Handler(s)) /\ WF_vars(copyAsync(s)) /\ WF_vars(ServerIsGone(s))

Spec == Init /\ [][Next]_vars /\ Fairness

------------------------------------------------------------------------------
(* Properties *)

TypeOK ==
  /\ pods \in [AppPods \cup Sessions -> Phases]
  /\ session \in [Sessions -> Session]

\* The pod of a run goes with its session, however the session ends: the answer
\* to its create lost, the image missing, the client gone.  Only a failed delete
\* and the death of the server leave it behind.
PodIsReclaimed ==
  [][\A s \in Sessions :
       session[s].kind = "run" /\ session[s].step # "idle" /\ session'[s].step = "idle" =>
         pods'[s] = "absent" \/ DeleteFails(s) \/ ServerDies]_vars

\* Nothing holds the handler any more: the far side has ended, and for a proxy
\* the client has left as well.
Free(s) ==
  session[s].step = "copy" => ~ FarIsOpen(s) /\ (session[s].kind = "proxy" => ~ session[s].client)

\* A session with nothing to hold it ends, and the command line that waits for it
\* returns; so does the preparation of every session, even if its pod never runs.
SessionsEnd ==
  \A s \in Sessions :
    /\ session[s].step # "idle" /\ Free(s) ~> session[s].step = "idle" \/ ~ Free(s)
    /\ session[s].client /\ session[s].step = "idle" ~> ~ session[s].client
==============================================================================
