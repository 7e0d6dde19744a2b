---------------------------- MODULE SessionsProofs ----------------------------
(***************************************************************************)
(* Proofs about Sessions and the Credentials below it, for any number of   *)
(* sessions, of pods and of polls.                                         *)
(*                                                                         *)
(* PodIsReclaimed needs to know what a run has done so far: NoPodYet says  *)
(* that the steps before the create leave no pod, so a run that ends there *)
(* has nothing to reclaim.  AccessLasts needs only the kinds of the values *)
(* and that a step of a session moves the credentials as Credentials says. *)
(***************************************************************************)
EXTENDS Sessions, TLAPS

------------------------------------------------------------------------------
(* The credentials *)

FetchStates == {"no", "stat", "asking", "writing"}

CredsOK == fetch \in [Fetchers -> FetchStates]

\* All that a step of Sessions does to the credentials.
CredsStep ==
  \/ \E f \in Fetchers : Fetching(f) \/ NeedsConfig(f)
  \/ Kubectl \/ MakeClient \/ Down \/ Restart

LEMMA UsersAreSessions == Users = Sessions /\ Sessions \subseteq Fetchers
  BY SessionsAssumption DEF Fetchers

LEMMA NextCreds == [Next]_vars => [CredsStep]_creds
<1> SUFFICES ASSUME [Next]_vars PROVE [CredsStep]_creds
  OBVIOUS
<1>1. CASE UNCHANGED vars
  BY <1>1 DEF vars
<1>2. CASE ServerDies
  BY <1>2 DEF ServerDies, CredsStep
<1>3. CASE (Kubectl \/ Restart) /\ UNCHANGED <<pods, session>>
  BY <1>3 DEF CredsStep
<1>4. ASSUME NEW f \in {"server", "kubectl"}, FetchConfig(f) PROVE CredsStep
  BY <1>4 DEF FetchConfig, CredsStep, Fetchers
<1>5. ASSUME NEW p \in AppPods \cup Sessions, PodTurns(p) PROVE UNCHANGED creds
  BY <1>5 DEF PodTurns
<1>6. ASSUME NEW s \in Sessions,
             \/ \E kind \in DOMAIN First : Stream(s, kind)
             \/ Leave(s) \/ Handler(s) \/ copyAsync(s) \/ NilReaderPanics(s) \/ Sides(s)
      PROVE  [CredsStep]_creds
  <2>1. CASE \E kind \in DOMAIN First : Stream(s, kind)
    BY <2>1 DEF Stream
  <2>2. CASE Leave(s) \/ copyAsync(s) \/ Sides(s)
    BY <2>2 DEF Leave, copyAsync, Sides, NearCloses, NearSends, FarCloses, FarSends, SourceEnds
  <2>3. CASE NilReaderPanics(s) \/ kubeClientDies(s)
    BY <2>3 DEF NilReaderPanics, kubeClientDies, ServerDies, CredsStep
  <2>4. CASE kubeClient(s)
    BY <2>4, UsersAreSessions DEF kubeClient, CredsStep
  <2>5. CASE FetchConfig(s)
    BY <2>5, UsersAreSessions DEF FetchConfig, CredsStep
  <2>6. CASE \/ ReadConfig(s) \/ CreatePod(s) \/ waitUntilPodRunning(s) \/ Exec(s) \/ ExecEnds(s)
             \/ deletePodByName(s) \/ DeleteFails(s)
    BY <2>6 DEF ReadConfig, CreatePod, waitUntilPodRunning, Exec, ExecEnds, deletePodByName, DeleteFails
  <2>7. CASE \/ LogStreamReq(s) \/ AllOpened(s) \/ LogsEnd(s) \/ ResourceProxy(s) \/ ProxyEnds(s)
             \/ \E p \in AppPods : OpenStream(s, p) \/ AppendSource(s, p)
    BY <2>7 DEF LogStreamReq, AllOpened, LogsEnd, ResourceProxy, ProxyEnds, OpenStream, AppendSource
  <2> QED BY <1>6, <2>1, <2>2, <2>3, <2>4, <2>5, <2>6, <2>7 DEF Handler
<1> QED BY <1>1, <1>2, <1>3, <1>4, <1>5, <1>6 DEF Next

LEMMA CredsInvariant == Spec => []CredsOK
<1>1. Init => CredsOK
  BY DEF Init, CredentialsInit, CredsOK, NoFetch, FetchStates, Fetchers
<1>2. CredsOK /\ [CredsStep]_creds => CredsOK'
  BY DEF CredsOK, CredsStep, creds, Fetching, K8sConfigPath, Ask, WriteConfig, NeedsConfig, Kubectl,
         MakeClient, Down, Restart, Fetch, NoFetch, FetchStates
<1>3. CredsOK /\ [Next]_vars => CredsOK'
  BY <1>2, NextCreds
<1> QED BY <1>1, <1>3, PTL DEF Spec

\* Whatever happens to sessions, pods and the server, once the file with the
\* access to the cluster is complete and nobody writes it, it stays complete and
\* the client made from it is good.
THEOREM AccessIsKept == Spec => AccessLasts
<1>1. ASSUME CredsOK, [CredsStep]_creds, InPeace PROVE InPeace'
  <2>1. CASE UNCHANGED creds
    BY <1>1, <2>1 DEF InPeace, creds
  <2>2. ASSUME NEW f \in Fetchers, Fetching(f) PROVE InPeace'
    BY <1>1, <2>2 DEF InPeace, CredsOK, Fetching, K8sConfigPath, Ask, WriteConfig, Fetch
  <2>3. ASSUME NEW f \in Fetchers, NeedsConfig(f) PROVE InPeace'
    BY <1>1, <2>3 DEF InPeace, CredsOK, NeedsConfig, Fetch
  <2>4. CASE Kubectl \/ MakeClient \/ Down \/ Restart
    BY <1>1, <2>4 DEF InPeace, CredsOK, Kubectl, MakeClient, Down, Restart, Fetch, NoFetch
  <2> QED BY <1>1, <2>1, <2>2, <2>3, <2>4 DEF CredsStep
<1>2. CredsOK /\ [Next]_vars => [InPeace => InPeace']_creds
  BY <1>1, NextCreds
<1> QED BY <1>2, CredsInvariant, PTL DEF Spec, AccessLasts

------------------------------------------------------------------------------
(* The pods of runs *)

Early == {"config", "client", "create"}

\* A handler that makes the client is of a run or of logs, and the pod of a run is
\* not there before the step that creates it.
Shaped(ses, pod) ==
  /\ ses.step = "client" => ses.kind \in {"run", "logs"}
  /\ ses.kind = "run" /\ ses.step \in Early => pod = "absent"

NoPodYet == \A s \in Sessions : Shaped(session[s], pods[s])

SessionInv == TypeOK /\ NoPodYet

LEMMA NoSessionOK == NoSession \in Session /\ \A pod : Shaped(NoSession, pod)
  BY SessionsAssumption DEF NoSession, Session, Steps, Opener, NoOpener, Source, Shaped, Early

\* The server's end of a session closes.
LEMMA ClosedOK ==
  ASSUME NEW ses \in Session
  PROVE  /\ Closed(ses) \in Session
         /\ Closed(ses).step = "idle"
         /\ \A pod : Shaped(Closed(ses), pod)
<1>1. CASE ses.client
  <2>1. Closed(ses) = [NoSession EXCEPT !.kind = ses.kind, !.client = TRUE, !.near = ses.near]
    BY <1>1 DEF Closed
  <2> QED BY <2>1, NoSessionOK DEF NoSession, Session, Shaped, Early
<1>2. CASE ~ ses.client
  BY <1>2, NoSessionOK DEF Closed, NoSession
<1> QED BY <1>1, <1>2

\* One session moves, and no pod but its own.
LEMMA BecomesOK ==
  ASSUME SessionInv, NEW s \in Sessions, NEW rec \in Session, Becomes(s, rec),
         pods' \in [AppPods \cup Sessions -> Phases],
         \A t \in Sessions \ {s} : pods'[t] = pods[t],
         Shaped(rec, pods'[s])
  PROVE  SessionInv'
<1>1. session' \in [Sessions -> Session]
  BY DEF SessionInv, TypeOK, Becomes
<1>2. ASSUME NEW t \in Sessions PROVE Shaped(session'[t], pods'[t])
  BY DEF SessionInv, TypeOK, NoPodYet, Becomes
<1> QED BY <1>1, <1>2 DEF SessionInv, TypeOK, NoPodYet, Shaped

LEMMA IsSession ==
  ASSUME SessionInv, NEW s \in Sessions
  PROVE  session[s] \in Session /\ Shaped(session[s], pods[s])
  BY DEF SessionInv, TypeOK, NoPodYet

\* A session one of whose ends is closed is a session.
LEMMA HalfClosedOK ==
  ASSUME NEW ses \in Session
  PROVE  /\ [ses EXCEPT !.client = FALSE] \in Session
         /\ [ses EXCEPT !.near = FALSE] \in Session
         /\ [ses EXCEPT !.far = FALSE] \in Session
<1>1. [ses EXCEPT !.client = FALSE] \in Session
  BY DEF Session
<1>2. [ses EXCEPT !.near = FALSE] \in Session
  BY DEF Session
<1>3. [ses EXCEPT !.far = FALSE] \in Session
  BY DEF Session
<1> QED BY <1>1, <1>2, <1>3

\* A session that changes its step, and a field with it, is a session.
LEMMA SteppedOK ==
  ASSUME NEW ses \in Session, NEW step \in Steps, NEW b \in BOOLEAN
  PROVE  /\ [ses EXCEPT !.step = step] \in Session
         /\ [ses EXCEPT !.step = step, !.far = b] \in Session
         /\ [ses EXCEPT !.step = step, !.config = b] \in Session
<1>1. [ses EXCEPT !.step = step] \in Session
  BY DEF Session
<1>2. [ses EXCEPT !.step = step, !.far = b] \in Session
  BY DEF Session
<1>3. [ses EXCEPT !.step = step, !.config = b] \in Session
  BY DEF Session
<1> QED BY <1>1, <1>2, <1>3

\* A session that keeps its kind goes to another step, its pod being left alone.
LEMMA GotoOK ==
  ASSUME SessionInv, NEW s \in Sessions, NEW step \in Steps, Goto(s, step), UNCHANGED pods,
         step = "client" => session[s].kind \in {"run", "logs"},
         step \in Early => (session[s].kind = "run" => session[s].step \in Early)
  PROVE  SessionInv'
<1> DEFINE rec == [session[s] EXCEPT !.step = step]
<1>1. rec \in Session /\ Shaped(rec, pods[s])
  BY IsSession DEF Shaped, Session
<1> QED BY <1>1, BecomesOK DEF Goto, SessionInv, TypeOK

LEMMA ReturnOK ==
  ASSUME SessionInv, NEW s \in Sessions, Return(s),
         pods' \in [AppPods \cup Sessions -> Phases],
         \A t \in Sessions \ {s} : pods'[t] = pods[t]
  PROVE  SessionInv'
  BY ClosedOK, BecomesOK DEF SessionInv, TypeOK, Return

\* A session stays at its step, or leaves it for good.
LEMMA StaysOK ==
  ASSUME SessionInv, NEW s \in Sessions, NEW rec \in Session, Becomes(s, rec), UNCHANGED pods,
         rec.kind = session[s].kind, rec.step = session[s].step
  PROVE  SessionInv'
<1>1. Shaped(rec, pods[s])
  BY DEF SessionInv, NoPodYet, Shaped
<1> QED BY <1>1, BecomesOK DEF SessionInv, TypeOK

LEMMA ClientKept ==
  ASSUME SessionInv, NEW s \in Sessions,
         \/ \E kind \in DOMAIN First : Stream(s, kind)
         \/ Leave(s) \/ NearCloses(s)
  PROVE  SessionInv'
<1>1. ASSUME NEW kind \in DOMAIN First, Stream(s, kind) PROVE SessionInv'
  <2> DEFINE rec == [NoSession EXCEPT !.kind = kind, !.step = First[kind], !.client = TRUE, !.near = TRUE]
  <2>1. kind \in {"run", "logs", "proxy"} /\ First[kind] \in Steps
    BY DEF First, Steps
  <2>2. rec \in Session
    BY <2>1, NoSessionOK DEF Session
  <2>3. Shaped(rec, pods[s])
    <3>1. rec.kind = kind /\ rec.step = First[kind]
      BY NoSessionOK DEF Session
    <3>2. First[kind] = "client" => kind = "logs"
      BY <2>1 DEF First
    <3>3. kind = "run" => pods[s] = "absent"
      BY <1>1 DEF Stream
    <3> QED BY <3>1, <3>2, <3>3 DEF Shaped
  <2> QED BY <1>1, <2>2, <2>3, BecomesOK DEF Stream, SessionInv, TypeOK
<1>2. CASE Leave(s)
  <2>1. CASE session[s].step = "idle"
    BY <1>2, <2>1, NoSessionOK, BecomesOK DEF Leave, Left, SessionInv, TypeOK
  <2>2. CASE session[s].step # "idle"
    <3>1. Becomes(s, [session[s] EXCEPT !.client = FALSE])
      BY <1>2, <2>2 DEF Leave, Left
    <3>2. [session[s] EXCEPT !.client = FALSE] \in Session
      BY IsSession, HalfClosedOK
    <3> QED BY <1>2, <3>1, <3>2, StaysOK, IsSession DEF Leave, Session
  <2> QED BY <2>1, <2>2
<1>3. CASE NearCloses(s)
  <2>1. [session[s] EXCEPT !.near = FALSE] \in Session
    BY IsSession, HalfClosedOK
  <2> QED BY <1>3, <2>1, StaysOK, IsSession DEF NearCloses, Session
<1> QED BY <1>1, <1>2, <1>3

LEMMA RunKept ==
  ASSUME SessionInv, NEW s \in Sessions,
         \/ CreatePod(s) \/ waitUntilPodRunning(s) \/ Exec(s) \/ ExecEnds(s)
         \/ deletePodByName(s) \/ DeleteFails(s)
  PROVE  SessionInv'
<1> USE SessionsAssumption DEF Steps
<1>1. CASE CreatePod(s)
  <2>1. PICK step \in {"wait", "delete"} : Goto(s, step)
    BY <1>1 DEF CreatePod
  <2>2. [session[s] EXCEPT !.step = step] \in Session
    BY <2>1, IsSession DEF Session
  <2>3. pods' \in [AppPods \cup Sessions -> Phases] /\ \A t \in Sessions \ {s} : pods'[t] = pods[t]
    BY <1>1 DEF CreatePod, SessionInv, TypeOK, Phases
  <2>4. Shaped([session[s] EXCEPT !.step = step], pods'[s])
    BY <2>1, IsSession DEF Shaped, Early, Session
  <2> QED BY <2>1, <2>2, <2>3, <2>4, BecomesOK DEF Goto
<1>2. CASE waitUntilPodRunning(s)
  <2>1. CASE \E step \in {"exec", "delete"} : Goto(s, step)
    BY <1>2, <2>1, GotoOK DEF waitUntilPodRunning, Early
  <2>2. CASE /\ session[s].polls + 1 < MaxPolls
             /\ Becomes(s, [session[s] EXCEPT !.polls = @ + 1])
    <3>1. [session[s] EXCEPT !.polls = @ + 1] \in Session
      BY <2>2, IsSession DEF Session
    <3> QED BY <1>2, <2>2, <3>1, StaysOK, IsSession DEF waitUntilPodRunning, Session
  <2> QED BY <1>2, <2>1, <2>2 DEF waitUntilPodRunning
<1>3. CASE Exec(s)
  <2>1. CASE Becomes(s, [session[s] EXCEPT !.step = "copy", !.far = TRUE])
    <3>1. [session[s] EXCEPT !.step = "copy", !.far = TRUE] \in Session
      BY IsSession, SteppedOK
    <3>2. Shaped([session[s] EXCEPT !.step = "copy", !.far = TRUE], pods[s])
      BY IsSession DEF Shaped, Early, Session
    <3> QED BY <1>3, <2>1, <3>1, <3>2, BecomesOK DEF Exec, SessionInv, TypeOK
  <2> QED BY <1>3, <2>1, GotoOK DEF Exec, Early
<1>4. CASE ExecEnds(s)
  BY <1>4, GotoOK DEF ExecEnds, Early
<1>5. CASE deletePodByName(s)
  <2>1. pods' \in [AppPods \cup Sessions -> Phases] /\ \A t \in Sessions \ {s} : pods'[t] = pods[t]
    BY <1>5 DEF deletePodByName, SessionInv, TypeOK, Phases
  <2> QED BY <1>5, <2>1, ReturnOK DEF deletePodByName
<1>6. CASE DeleteFails(s)
  BY <1>6, ReturnOK DEF DeleteFails, SessionInv, TypeOK
<1> QED BY <1>1, <1>2, <1>3, <1>4, <1>5, <1>6

LEMMA AccessKept ==
  ASSUME SessionInv, NEW s \in Sessions,
         ReadConfig(s) \/ kubeClient(s) \/ FetchConfig(s)
  PROVE  SessionInv'
<1>1. CASE ReadConfig(s)
  <2>1. CASE Return(s)
    BY <1>1, <2>1, ReturnOK DEF ReadConfig, SessionInv, TypeOK
  <2>2. CASE Becomes(s, [session[s] EXCEPT !.step = "client", !.config = config = "whole"])
    <3>1. [session[s] EXCEPT !.step = "client", !.config = config = "whole"] \in Session
      BY IsSession, SteppedOK DEF Steps
    <3>2. Shaped([session[s] EXCEPT !.step = "client", !.config = config = "whole"], pods[s])
      BY <1>1 DEF ReadConfig, At, Shaped, Early, SessionInv, TypeOK, NoPodYet, Session
    <3> QED BY <1>1, <2>2, <3>1, <3>2, BecomesOK DEF ReadConfig, SessionInv, TypeOK
  <2> QED BY <1>1, <2>1, <2>2 DEF ReadConfig
<1>2. CASE kubeClient(s)
  <2>1. CASE UNCHANGED session
    BY <1>2, <2>1 DEF kubeClient, SessionInv, TypeOK, NoPodYet, Shaped
  <2>2. CASE Goto(s, ThenCluster[session[s].kind])
    <3>1. session[s].kind \in {"run", "logs"} /\ session[s].step = "client"
      BY <1>2 DEF kubeClient, SessionInv, NoPodYet, Shaped
    <3>2. ThenCluster[session[s].kind] \in {"create", "list"}
      BY <3>1 DEF ThenCluster
    <3> QED BY <1>2, <2>2, <3>1, <3>2, GotoOK DEF kubeClient, Steps, Early
  <2> QED BY <1>2, <2>1, <2>2 DEF kubeClient
<1>3. CASE FetchConfig(s)
  BY <1>3 DEF FetchConfig, SessionInv, TypeOK, NoPodYet, Shaped
<1> QED BY <1>1, <1>2, <1>3

\* A session one of whose openers changes is a session, at the same step.
LEMMA OpenerOK ==
  ASSUME SessionInv, NEW s \in Sessions, NEW p \in AppPods, NEW o \in Opener
  PROVE  LET rec == [session[s] EXCEPT !.openers[p] = o]
         IN  rec \in Session /\ rec.kind = session[s].kind /\ rec.step = session[s].step
<1> DEFINE ops == [session[s].openers EXCEPT ![p] = o]
<1>1. ops \in [AppPods -> Opener]
  BY IsSession DEF Session
<1>2. [session[s] EXCEPT !.openers[p] = o] = [session[s] EXCEPT !.openers = ops]
  BY IsSession DEF Session
<1>3. [session[s] EXCEPT !.openers = ops] \in Session
  <2> HIDE DEF ops
  <2> QED BY <1>1, IsSession DEF Session
<1>4. [session[s] EXCEPT !.openers = ops].kind = session[s].kind
      /\ [session[s] EXCEPT !.openers = ops].step = session[s].step
  BY IsSession DEF Session
<1> HIDE DEF ops
<1> QED BY <1>2, <1>3, <1>4

LEMMA LogsKept ==
  ASSUME SessionInv, NEW s \in Sessions,
         \/ LogStreamReq(s) \/ AllOpened(s) \/ LogsEnd(s) \/ SourceEnds(s)
         \/ \E p \in AppPods : OpenStream(s, p) \/ AppendSource(s, p)
  PROVE  SessionInv'
<1> USE DEF Steps
<1>1. CASE LogStreamReq(s)
  <2> DEFINE state(p) == [NoOpener EXCEPT !.state = IF p \in GetAllRunningPods THEN "opening" ELSE "none"]
             rec == [session[s] EXCEPT !.step = "open", !.openers = [p \in AppPods |-> state(p)]]
  <2>1. CASE Return(s)
    BY <1>1, <2>1, ReturnOK DEF LogStreamReq, SessionInv, TypeOK
  <2>2. CASE Becomes(s, rec)
    <3>1. \A p \in AppPods : state(p) \in Opener
      BY DEF NoOpener, Opener
    <3>2. [p \in AppPods |-> state(p)] \in [AppPods -> Opener]
      BY <3>1
    <3>3. rec \in Session /\ rec.step = "open"
      <4> HIDE DEF state
      <4> QED BY <3>2, IsSession DEF Session
    <3>4. Shaped(rec, pods[s])
      BY <3>3 DEF Shaped, Early
    <3> QED BY <1>1, <2>2, <3>3, <3>4, BecomesOK DEF LogStreamReq, SessionInv, TypeOK
  <2> QED BY <1>1, <2>1, <2>2 DEF LogStreamReq
<1>2. ASSUME NEW p \in AppPods, OpenStream(s, p) PROVE SessionInv'
  <2>1. PICK reader \in {"nil", "reader"} :
          Becomes(s, [session[s] EXCEPT !.openers[p] = [state |-> reader, seen |-> session[s].sources]])
    BY <1>2 DEF OpenStream
  <2>2. [state |-> reader, seen |-> session[s].sources] \in Opener
    BY IsSession DEF Opener, Session
  <2> DEFINE rec == [session[s] EXCEPT !.openers[p] = [state |-> reader, seen |-> session[s].sources]]
  <2>3. rec \in Session /\ rec.kind = session[s].kind /\ rec.step = session[s].step
    BY <2>2, OpenerOK
  <2> QED BY <1>2, <2>1, <2>3, StaysOK DEF OpenStream
<1>3. ASSUME NEW p \in AppPods, AppendSource(s, p) PROVE SessionInv'
  <2> DEFINE opener == session[s].openers[p]
             all == opener.seen \cup {[pod |-> p, reader |-> opener.state]}
             rec == [session[s] EXCEPT !.sources = all, !.openers[p] = NoOpener]
  <2>1. Becomes(s, rec) /\ opener.state \in {"reader", "nil"}
    BY <1>3 DEF AppendSource
  <2>2. all \in SUBSET Source /\ NoOpener \in Opener
    BY <2>1, IsSession DEF NoOpener, Opener, Source, Session
  <2> DEFINE opened == [session[s] EXCEPT !.openers[p] = NoOpener]
  <2>3. opened \in Session /\ opened.kind = session[s].kind /\ opened.step = session[s].step
    BY <2>2, OpenerOK
  <2>4. rec = [opened EXCEPT !.sources = all]
    BY IsSession DEF Session
  <2>5. rec \in Session /\ rec.kind = session[s].kind /\ rec.step = session[s].step
    <3> HIDE DEF all, rec, opened
    <3> QED BY <2>2, <2>3, <2>4 DEF Session
  <2> QED BY <1>3, <2>1, <2>5, StaysOK DEF AppendSource
<1>4. CASE AllOpened(s)
  BY <1>4, GotoOK DEF AllOpened, Early
<1>5. CASE SourceEnds(s)
  <2>1. PICK src \in session[s].sources : Becomes(s, [session[s] EXCEPT !.sources = @ \ {src}])
    BY <1>5 DEF SourceEnds
  <2>2. [session[s] EXCEPT !.sources = @ \ {src}] \in Session
    BY IsSession DEF Session
  <2> QED BY <1>5, <2>1, <2>2, StaysOK, IsSession DEF SourceEnds, Session
<1>6. CASE LogsEnd(s)
  BY <1>6, ReturnOK DEF LogsEnd, SessionInv, TypeOK
<1> QED BY <1>1, <1>2, <1>3, <1>4, <1>5, <1>6

LEMMA ProxyKept ==
  ASSUME SessionInv, NEW s \in Sessions,
         ResourceProxy(s) \/ copyAsync(s) \/ ProxyEnds(s) \/ FarCloses(s) \/ NearSends(s) \/ FarSends(s)
  PROVE  SessionInv'
<1> USE DEF Steps
<1> DEFINE Drops(way) == [session[s] EXCEPT !.copies = @ \ {way}]
<1>1. ASSUME NEW way, Becomes(s, Drops(way)), UNCHANGED pods PROVE SessionInv'
  <2>1. Drops(way) \in Session
    BY IsSession DEF Session
  <2> QED BY <1>1, <2>1, StaysOK, IsSession DEF Session
<1>2. CASE ResourceProxy(s)
  <2> DEFINE rec == [session[s] EXCEPT !.step = "copy", !.far = TRUE, !.copies = {"in", "out"}]
  <2>1. CASE Becomes(s, rec)
    <3>1. rec \in Session /\ rec.step = "copy"
      BY IsSession DEF Session
    <3>2. Shaped(rec, pods[s])
      BY <3>1 DEF Shaped, Early
    <3> QED BY <1>2, <2>1, <3>1, <3>2, BecomesOK DEF ResourceProxy, SessionInv, TypeOK
  <2> QED BY <1>2, <2>1, ReturnOK DEF ResourceProxy, SessionInv, TypeOK
<1>3. CASE copyAsync(s)
  BY <1>1, <1>3 DEF copyAsync
<1>4. CASE ProxyEnds(s)
  BY <1>4, ReturnOK DEF ProxyEnds, SessionInv, TypeOK
<1>5. CASE FarCloses(s)
  <2>1. [session[s] EXCEPT !.far = FALSE] \in Session
    BY IsSession, HalfClosedOK
  <2> QED BY <1>5, <2>1, StaysOK, IsSession DEF FarCloses, Session
<1>6. CASE NearSends(s)
  BY <1>1, <1>6 DEF NearSends
<1>7. CASE FarSends(s)
  <2>1. CASE Becomes(s, Left(session[s]))
    <3>1. Left(session[s]) = [session[s] EXCEPT !.client = FALSE]
      BY <1>7 DEF FarSends, Left
    <3>2. [session[s] EXCEPT !.client = FALSE] \in Session
      BY IsSession, HalfClosedOK
    <3> QED BY <1>7, <2>1, <3>1, <3>2, StaysOK, IsSession DEF FarSends, Session
  <2> QED BY <1>1, <1>7, <2>1, ReturnOK DEF FarSends, SessionInv, TypeOK
<1> QED BY <1>2, <1>3, <1>4, <1>5, <1>6, <1>7

LEMMA ServerDiesKept == SessionInv /\ ServerDies => SessionInv'
<1> SUFFICES ASSUME SessionInv, ServerDies PROVE SessionInv'
  OBVIOUS
<1>1. ASSUME NEW t \in Sessions PROVE session'[t] \in Session /\ Shaped(session'[t], pods'[t])
  BY ClosedOK DEF ServerDies, SessionInv, TypeOK
<1>2. session' \in [Sessions -> Session]
  BY <1>1 DEF ServerDies
<1> QED BY <1>1, <1>2 DEF ServerDies, SessionInv, TypeOK, NoPodYet, Shaped

LEMMA PodTurnsKept ==
  ASSUME SessionInv, NEW p \in AppPods \cup Sessions, PodTurns(p)
  PROVE  SessionInv'
<1>1. PICK phase \in Phases :
        /\ p \in Sessions => pods[p] # "absent"
        /\ pods' = [pods EXCEPT ![p] = phase]
        /\ UNCHANGED session
  BY SessionsAssumption DEF PodTurns
<1>2. pods' \in [AppPods \cup Sessions -> Phases]
  BY <1>1 DEF SessionInv, TypeOK
<1>3. ASSUME NEW t \in Sessions PROVE Shaped(session'[t], pods'[t])
  BY <1>1 DEF SessionInv, TypeOK, NoPodYet, Shaped
<1> QED BY <1>1, <1>2, <1>3 DEF SessionInv, TypeOK, NoPodYet, Shaped

LEMMA NextKept == SessionInv /\ [Next]_vars => SessionInv'
<1> SUFFICES ASSUME SessionInv, [Next]_vars PROVE SessionInv'
  OBVIOUS
<1>1. CASE UNCHANGED <<pods, session>>
  BY <1>1 DEF SessionInv, TypeOK, NoPodYet, Shaped
<1>2. ASSUME NEW s \in Sessions, Handler(s) PROVE SessionInv'
  <2>1. CASE kubeClientDies(s)
    BY <2>1, ServerDiesKept DEF kubeClientDies
  <2>2. CASE ReadConfig(s) \/ kubeClient(s) \/ FetchConfig(s)
    BY <2>2, AccessKept
  <2>3. CASE \/ CreatePod(s) \/ waitUntilPodRunning(s) \/ Exec(s) \/ ExecEnds(s)
             \/ deletePodByName(s) \/ DeleteFails(s)
    BY <2>3, RunKept
  <2>4. CASE \/ LogStreamReq(s) \/ AllOpened(s) \/ LogsEnd(s)
             \/ \E p \in AppPods : OpenStream(s, p) \/ AppendSource(s, p)
    BY <2>4, LogsKept
  <2>5. CASE ResourceProxy(s) \/ ProxyEnds(s)
    BY <2>5, ProxyKept
  <2> QED BY <1>2, <2>1, <2>2, <2>3, <2>4, <2>5 DEF Handler
<1>3. ASSUME NEW s \in Sessions, Sides(s) PROVE SessionInv'
  BY <1>3, ClientKept, LogsKept, ProxyKept DEF Sides
<1>4. ASSUME NEW s \in Sessions,
             \/ \E kind \in DOMAIN First : Stream(s, kind)
             \/ Leave(s) \/ copyAsync(s) \/ NilReaderPanics(s)
      PROVE  SessionInv'
  BY <1>4, ClientKept, ProxyKept, ServerDiesKept DEF NilReaderPanics
<1>5. ASSUME NEW f \in {"server", "kubectl"}, FetchConfig(f) PROVE SessionInv'
  BY <1>1, <1>5 DEF FetchConfig
<1> QED BY <1>1, <1>2, <1>3, <1>4, <1>5, ServerDiesKept, PodTurnsKept DEF Next, vars

LEMMA SessionInvariant == Spec => []SessionInv
<1>1. Init => SessionInv
  BY NoSessionOK DEF Init, SessionInv, TypeOK, NoPodYet, Phases
<1> QED BY <1>1, NextKept, PTL DEF Spec

\* Pods and sessions are always of the right kind, and a wait counts no more
\* polls than it may.
THEOREM TypeCorrect == Spec => []TypeOK
  BY SessionInvariant, PTL DEF SessionInv

------------------------------------------------------------------------------
(* How a run ends *)

Ends(s) == session[s].kind = "run" /\ session[s].step # "idle" /\ session'[s].step = "idle"

\* A run ends only where its own session goes to idle.
LEMMA OwnEnd ==
  ASSUME SessionInv, NEW s \in Sessions, NEW t \in Sessions, NEW rec, Becomes(t, rec), Ends(s)
  PROVE  t = s /\ rec.step = "idle"
  BY DEF SessionInv, TypeOK, Becomes, Ends

LEMMA GotoNeverEnds ==
  ASSUME SessionInv, NEW s \in Sessions, NEW t \in Sessions, NEW step, step # "idle", Goto(t, step)
  PROVE  ~ Ends(s)
<1>1. [session[t] EXCEPT !.step = step].step = step
  BY IsSession DEF Session
<1> QED BY <1>1, OwnEnd DEF Goto

\* Fields other than the step change nothing of this.
LEMMA StaysNeverEnds ==
  ASSUME SessionInv, NEW s \in Sessions, NEW t \in Sessions, NEW rec, Becomes(t, rec),
         rec.step = session[t].step
  PROVE  ~ Ends(s)
  BY OwnEnd DEF Ends

LEMMA HandlerEnds ==
  ASSUME SessionInv, NEW s \in Sessions, NEW t \in Sessions, Handler(t), Ends(s)
  PROVE  pods'[s] = "absent" \/ DeleteFails(s) \/ ServerDies
<1>1. CASE kubeClientDies(t)
  BY <1>1 DEF kubeClientDies
<1>2. CASE ReadConfig(t)
  <2>1. CASE Return(t)
    <3>1. t = s /\ session[s].step = "config"
      BY <1>2, <2>1, OwnEnd DEF Return, ReadConfig, At
    <3>2. pods[s] = "absent"
      BY <3>1 DEF Ends, SessionInv, NoPodYet, Shaped, Early
    <3> QED BY <1>2, <3>2 DEF ReadConfig
  <2>2. CASE Becomes(t, [session[t] EXCEPT !.step = "client", !.config = config = "whole"])
    <3>1. [session[t] EXCEPT !.step = "client", !.config = config = "whole"].step = "client"
      BY IsSession DEF Session
    <3> QED BY <2>2, <3>1, OwnEnd
  <2> QED BY <1>2, <2>1, <2>2 DEF ReadConfig
<1>3. CASE kubeClient(t)
  <2>1. CASE UNCHANGED session
    BY <2>1 DEF Ends
  <2>2. CASE Goto(t, ThenCluster[session[t].kind])
    <3>1. session[t].kind \in {"run", "logs"}
      BY <1>3 DEF kubeClient, SessionInv, NoPodYet, Shaped
    <3>2. ThenCluster[session[t].kind] # "idle"
      BY <3>1 DEF ThenCluster
    <3> QED BY <2>2, <3>2, GotoNeverEnds
  <2> QED BY <1>3, <2>1, <2>2 DEF kubeClient
<1>4. CASE FetchConfig(t)
  BY <1>4 DEF FetchConfig, Ends
<1>5. CASE CreatePod(t)
  BY <1>5, GotoNeverEnds DEF CreatePod
<1>6. CASE waitUntilPodRunning(t)
  <2>1. CASE \E step \in {"exec", "delete"} : Goto(t, step)
    BY <2>1, GotoNeverEnds
  <2>2. CASE Becomes(t, [session[t] EXCEPT !.polls = @ + 1])
    <3>1. [session[t] EXCEPT !.polls = @ + 1].step = session[t].step
      BY IsSession DEF Session
    <3> QED BY <2>2, <3>1, StaysNeverEnds
  <2> QED BY <1>6, <2>1, <2>2 DEF waitUntilPodRunning
<1>7. CASE Exec(t)
  <2>1. [session[t] EXCEPT !.step = "copy", !.far = TRUE].step = "copy"
    BY IsSession DEF Session
  <2> QED BY <1>7, <2>1, OwnEnd, GotoNeverEnds DEF Exec
<1>8. CASE ExecEnds(t)
  BY <1>8, GotoNeverEnds DEF ExecEnds
<1>9. CASE deletePodByName(t)
  BY <1>9, OwnEnd DEF deletePodByName, Return, SessionInv, TypeOK
<1>10. CASE DeleteFails(t)
  BY <1>10, OwnEnd DEF DeleteFails, Return
<1>11. CASE LogStreamReq(t) \/ AllOpened(t) \/ LogsEnd(t)
  <2>1. t # s
    BY <1>11 DEF LogStreamReq, AllOpened, LogsEnd, At, Ends
  <2> QED BY <1>11, <2>1, OwnEnd DEF LogStreamReq, AllOpened, LogsEnd, Goto, Return
<1>12. ASSUME NEW p \in AppPods, OpenStream(t, p) \/ AppendSource(t, p) PROVE FALSE
  <2>1. \A o, q : /\ [session[t] EXCEPT !.openers[p] = o].step = session[t].step
                  /\ [session[t] EXCEPT !.sources = q, !.openers[p] = o].step = session[t].step
    BY IsSession DEF Session
  <2> QED BY <1>12, <2>1, StaysNeverEnds DEF OpenStream, AppendSource
<1>13. CASE ResourceProxy(t) \/ ProxyEnds(t)
  <2>1. t # s
    BY <1>13 DEF ResourceProxy, ProxyEnds, At, Ends
  <2> QED BY <1>13, <2>1, OwnEnd DEF ResourceProxy, ProxyEnds, Return
<1> QED BY <1>1, <1>2, <1>3, <1>4, <1>5, <1>6, <1>7, <1>8, <1>9, <1>10, <1>11, <1>12, <1>13 DEF Handler

LEMMA SidesNeverEnd ==
  ASSUME SessionInv, NEW s \in Sessions, NEW t \in Sessions,
         \/ \E kind \in DOMAIN First : Stream(t, kind)
         \/ Leave(t) \/ copyAsync(t) \/ Sides(t)
  PROVE  ~ Ends(s)
<1>1. \A x : /\ [session[t] EXCEPT !.client = x].step = session[t].step
             /\ [session[t] EXCEPT !.near = x].step = session[t].step
             /\ [session[t] EXCEPT !.far = x].step = session[t].step
             /\ [session[t] EXCEPT !.copies = x].step = session[t].step
             /\ [session[t] EXCEPT !.sources = x].step = session[t].step
  BY IsSession DEF Session
<1>2. ASSUME NEW kind \in DOMAIN First, Stream(t, kind) PROVE ~ Ends(s)
  <2>1. session[t].step = "idle"
    <3>1. NoSession.step = "idle"
      BY DEF NoSession
    <3> QED BY <1>2, <3>1 DEF Stream
  <2> QED BY <1>2, <2>1, OwnEnd DEF Stream, Ends
<1>3. CASE Becomes(t, Left(session[t]))
  <2>1. Left(session[t]).step = session[t].step
    BY <1>1 DEF Left, NoSession
  <2> QED BY <1>3, <2>1, StaysNeverEnds
<1>4. CASE copyAsync(t) \/ NearCloses(t) \/ NearSends(t) \/ FarCloses(t) \/ SourceEnds(t)
  BY <1>1, <1>4, StaysNeverEnds DEF copyAsync, NearCloses, NearSends, FarCloses, SourceEnds
<1>5. CASE FarSends(t)
  <2>1. CASE session[t].kind = "logs" /\ Return(t)
    BY <2>1, OwnEnd DEF Return, Ends
  <2> QED BY <1>1, <1>3, <1>5, <2>1, StaysNeverEnds DEF FarSends
<1> QED BY <1>2, <1>3, <1>4, <1>5 DEF Leave, Sides

\* However a run ends (its create unanswered, its pod never running, its client
\* gone), its pod goes with it, unless the delete fails or the server dies.
THEOREM RunsAreReclaimed == Spec => PodIsReclaimed
<1> DEFINE Reclaimed == \A s \in Sessions :
             session[s].kind = "run" /\ session[s].step # "idle" /\ session'[s].step = "idle" =>
               pods'[s] = "absent" \/ DeleteFails(s) \/ ServerDies
<1>1. ASSUME SessionInv, [Next]_vars, NEW s \in Sessions, Ends(s)
      PROVE  pods'[s] = "absent" \/ DeleteFails(s) \/ ServerDies
  <2>1. ~ UNCHANGED session
    BY <1>1 DEF Ends
  <2> QED BY <1>1, <2>1, HandlerEnds, SidesNeverEnd
          DEF Next, vars, FetchConfig, PodTurns, NilReaderPanics
<1>2. SessionInv /\ [Next]_vars => [Reclaimed]_vars
  BY <1>1 DEF Ends
<1> QED BY <1>2, SessionInvariant, PTL DEF Spec, PodIsReclaimed
==============================================================================
