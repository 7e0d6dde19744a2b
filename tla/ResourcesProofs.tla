--------------------------- MODULE ResourcesProofs ---------------------------
(***************************************************************************)
(* Proofs about Resources, for any databases, processes, variables and     *)
(* terminals.                                                              *)
(*                                                                         *)
(* That nobody loses the proxy of a Deployment rests on what each command  *)
(* holds: the Deployments it has still to write were there when it listed  *)
(* them (Listed), and the calls that name a database or a process are made *)
(* by commands that have one (Named).                                      *)
(*                                                                         *)
(* That the link of a user who is alone takes effect rests on the order of *)
(* its calls (InOrder) and on what has been done before each of them       *)
(* (Effect); AloneInv says so of every step of the link.                   *)
(***************************************************************************)
EXTENDS Resources, Integers, TLAPS

Commands == {"none", "CREATE", "DELETE", "link", "unlink", "restart", "set", "unset", "deploy"}

Frame == [command : Commands, got : BOOLEAN, db : Databases \cup {Nothing}, variable : Variables \cup {Nothing},
          process : Processes \cup {Nothing}, seen : [Processes -> Deployment \cup {Nothing}],
          left : SUBSET Processes, env : Env, copy : SUBSET Databases]

------------------------------------------------------------------------------
(* The invariant                                                            *)

\* Commands about a database name one, and so does the deploy of a process.
Named(f) ==
  /\ f.command \in {"CREATE", "DELETE", "link", "unlink"} => f.db \in Databases
  /\ f.command \in {"set", "unset"} => f.variable \in Variables
  /\ f.command = "deploy" => f.process \in Processes

\* The command that makes a call is one that the call is for.
Fits(call, command) ==
  /\ call \in {"createStack", "insert", "deleteStack", "delete", "await"} => command \in {"CREATE", "DELETE"}
  /\ call \in {"merge", "putDbEnv", "saveLink"} => command = "link"
  /\ call = "putEnv" => command \in {"set", "unset"}
  /\ call = "deploy" => command = "deploy"

Calls == {"createStack", "insert", "deleteStack", "delete", "await", "loadApp", "describe", "refuse",
          "putSecret", "dropSecret", "list", "merge", "prune", "readEnv", "putDbEnv", "restartList",
          "applyEnv", "saveLink", "saveUnlink", "deploy", "getEnv", "putEnv"}

Fitting(calls, command) == calls \in Seq(Calls) /\ \A i \in 1..Len(calls) : Fits(calls[i], command)

\* What is left to write was there when it was listed.
Listed(f) == \A p \in f.left : f.seen[p] # Nothing

Sound(calls, f) == f \in Frame /\ Named(f) /\ Listed(f) /\ Fitting(calls, f.command)

StateInv ==
  /\ provider \in Providers /\ users \subseteq Terminals
  /\ formation \in [Databases -> Formation \cup {Nothing}]
  /\ secret \in BOOLEAN /\ store \in Env /\ links \subseteq Databases
  /\ pods \in [Processes -> Deployment \cup {Nothing}]

CommandInv ==
  /\ DOMAIN todo = Terminals /\ DOMAIN frame = Terminals
  /\ \A t \in Terminals : Sound(todo[t], frame[t])

Inv == StateInv /\ CommandInv

------------------------------------------------------------------------------
(* Commands begin and go on                                                 *)

LEMMA IdleIs == Idle \in Frame /\ Named(Idle) /\ Listed(Idle) /\ Idle.command = "none"
  BY DEF Idle, Frame, Commands, NoPods, EmptyEnv, Env, Named, Listed

LEMMA IdleSound == Sound(<<>>, Idle)
  BY IdleIs DEF Sound, Fitting

LEMMA ContinueSound ==
  ASSUME Inv, NEW t \in Terminals, NEW calls, NEW f, Continue(t, calls, f),
         calls = <<>> \/ Sound(calls, f), StateInv'
  PROVE  Inv'
<1>1. /\ DOMAIN todo' = Terminals /\ DOMAIN frame' = Terminals
      /\ todo'[t] = calls /\ frame'[t] = (IF calls = <<>> THEN Idle ELSE f)
      /\ \A u \in Terminals \ {t} : todo'[u] = todo[u] /\ frame'[u] = frame[u]
  BY DEF Inv, CommandInv, Continue
<1>2. Sound(todo'[t], frame'[t])
  BY <1>1, IdleSound
<1>3. \A u \in Terminals : Sound(todo'[u], frame'[u])
  BY <1>1, <1>2 DEF Inv, CommandInv
<1> QED BY <1>1, <1>3 DEF Inv, CommandInv, Sound, Named, Listed

LEMMA EndSound == ASSUME Inv, NEW t \in Terminals, End(t), StateInv' PROVE Inv'
  BY ContinueSound DEF End

\* What is left of the calls of a command still fits it.
LEMMA TailFits ==
  ASSUME NEW calls, NEW command, Fitting(calls, command), calls # <<>>
  PROVE  Fitting(Tail(calls), command) /\ Fits(Head(calls), command)
<1>1. /\ Tail(calls) \in Seq(Calls) /\ 1 \in 1..Len(calls) /\ Head(calls) = calls[1]
      /\ \A i \in 1..Len(Tail(calls)) : i + 1 \in 1..Len(calls) /\ Tail(calls)[i] = calls[i + 1]
  BY DEF Fitting
<1> QED BY <1>1 DEF Fitting

LEMMA ProceedSound ==
  ASSUME Inv, NEW t \in Terminals, todo[t] # <<>>, NEW f \in Frame, Proceed(t, f),
         f.command = frame[t].command, Named(f), Listed(f), StateInv'
  PROVE  Inv'
<1>1. Sound(Tail(todo[t]), f)
  BY TailFits DEF Inv, CommandInv, Sound
<1> QED BY <1>1, ContinueSound DEF Proceed

LEMMA BeginSound ==
  ASSUME Inv, NEW t \in Terminals, NEW calls, NEW f, Begin(t, f, calls), Sound(calls, f)
  PROVE  Inv'
<1>1. /\ DOMAIN todo' = Terminals /\ DOMAIN frame' = Terminals
      /\ \A u \in Terminals : Sound(todo'[u], frame'[u])
  BY DEF Inv, CommandInv, Begin
<1>2. StateInv'
  BY DEF Inv, StateInv, Begin, state
<1> QED BY <1>1, <1>2 DEF Inv, CommandInv, Sound, Named, Listed

LEMMA CallsFit ==
  /\ Fitting(CreateCalls, "CREATE") /\ Fitting(DeleteCalls, "DELETE")
  /\ Fitting(On(StackLinkCalls, DatabaseLinkCalls), "link")
  /\ Fitting(On(StackUnlinkCalls, DatabaseUnlinkCalls), "unlink")
  /\ Fitting(RestartCalls, "restart") /\ Fitting(EnvCalls, "set") /\ Fitting(EnvCalls, "unset")
  /\ Fitting(DeployCalls, "deploy")
<1>1. Fitting(CreateCalls, "CREATE") /\ Fitting(DeleteCalls, "DELETE")
  <2>1. /\ Fitting(<<"createStack", "await">>, "CREATE") /\ Fitting(<<"insert", "await">>, "CREATE")
        /\ Fitting(<<"deleteStack", "await">>, "DELETE") /\ Fitting(<<"delete", "await">>, "DELETE")
    BY DEF Fitting, Fits, Calls
  <2> QED BY <2>1 DEF CreateCalls, DeleteCalls, On
<1>2. Fitting(RestartCalls, "restart") /\ Fitting(EnvCalls, "set") /\ Fitting(EnvCalls, "unset")
  BY DEF RestartCalls, EnvCalls, Fitting, Fits, Calls
<1>3. Fitting(DeployCalls, "deploy")
  BY DEF DeployCalls, Fitting, Fits, Calls
<1>4. Fitting(StackLinkCalls, "link") /\ Fitting(StackUnlinkCalls, "unlink")
  BY DEF StackLinkCalls, StackUnlinkCalls, Fitting, Fits, Calls
<1>5. Fitting(DatabaseUnlinkCalls, "unlink")
  BY DEF DatabaseUnlinkCalls, Fitting, Fits, Calls
<1>6. Fitting(DatabaseLinkCalls, "link")
  BY DEF DatabaseLinkCalls, RestartCalls, Fitting, Fits, Calls
<1> QED BY <1>1, <1>2, <1>3, <1>4, <1>5, <1>6 DEF On

LEMMA CommandSound ==
  ASSUME Inv, NEW t \in Terminals, Command(t)
  PROVE  Inv'
<1>1. ASSUME NEW r \in Databases, NEW c \in {"CREATE", "DELETE", "link", "unlink"}, NEW calls,
             Begin(t, [Idle EXCEPT !.command = c, !.db = r], calls), Fitting(calls, c)
      PROVE  Inv'
  <2> DEFINE f == [Idle EXCEPT !.command = c, !.db = r]
  <2>1. f \in Frame /\ f.command = c /\ f.db = r /\ Listed(f)
    BY DEF Idle, Frame, Commands, NoPods, EmptyEnv, Env, Listed
  <2> HIDE DEF f
  <2>2. Sound(calls, f)
    BY <1>1, <2>1 DEF Sound, Named
  <2> QED BY <1>1, <2>2, BeginSound DEF f
<1>2. ASSUME NEW v \in Variables, NEW c \in {"set", "unset"},
             Begin(t, [Idle EXCEPT !.command = c, !.variable = v], EnvCalls)
      PROVE  Inv'
  <2> DEFINE f == [Idle EXCEPT !.command = c, !.variable = v]
  <2>1. f \in Frame /\ f.command = c /\ f.variable = v /\ Listed(f)
    BY DEF Idle, Frame, Commands, NoPods, EmptyEnv, Env, Listed
  <2> HIDE DEF f
  <2>2. Sound(EnvCalls, f)
    BY <2>1, CallsFit DEF Sound, Named
  <2> QED BY <1>2, <2>2, BeginSound DEF f
<1>3. ASSUME NEW p \in Processes, Deploy(t, p) PROVE Inv'
  <2> DEFINE f == [Idle EXCEPT !.command = "deploy", !.process = p]
  <2>1. f \in Frame /\ f.command = "deploy" /\ f.process = p /\ Listed(f)
    BY DEF Idle, Frame, Commands, NoPods, EmptyEnv, Env, Listed
  <2> HIDE DEF f
  <2>2. Sound(DeployCalls, f)
    BY <2>1, CallsFit DEF Sound, Named
  <2> QED BY <1>3, <2>2, BeginSound DEF f, Deploy
<1>4. ASSUME AppRestart(t) PROVE Inv'
  <2> DEFINE f == [Idle EXCEPT !.command = "restart"]
  <2>1. f \in Frame /\ f.command = "restart" /\ Listed(f)
    BY DEF Idle, Frame, Commands, NoPods, EmptyEnv, Env, Listed
  <2> HIDE DEF f
  <2>2. Sound(RestartCalls, f)
    BY <2>1, CallsFit DEF Sound, Named
  <2> QED BY <1>4, <2>2, BeginSound DEF f, AppRestart
<1> QED BY <1>1, <1>2, <1>3, <1>4, CallsFit
       DEF Command, ResourceCreate, ResourceDelete, ResourceLink, ResourceUnlink, EnvSet, EnvUnset

------------------------------------------------------------------------------
(* Steps                                                                    *)

\* A command that goes on with the frame it has, or has ended.
LEMMA SameFrame ==
  ASSUME Inv, NEW t \in Terminals, NEW call, At(t, call), Proceed(t, frame[t]) \/ End(t), StateInv'
  PROVE  Inv'
<1>1. frame[t] \in Frame /\ Named(frame[t]) /\ Listed(frame[t])
  BY DEF Inv, CommandInv, Sound
<1> QED BY <1>1, ProceedSound, EndSound DEF At

\* What a command that makes a call is about.
LEMMA CallerIs ==
  ASSUME Inv, NEW t \in Terminals, NEW call, At(t, call)
  PROVE  /\ frame[t] \in Frame /\ Named(frame[t]) /\ Listed(frame[t]) /\ Fits(call, frame[t].command)
         /\ Fitting(Tail(todo[t]), frame[t].command) /\ Fitting(todo[t], frame[t].command)
  BY TailFits DEF Inv, CommandInv, Sound, At

LEMMA FormationSound ==
  ASSUME Inv, NEW t \in Terminals,
         CreateStack(t) \/ InsertDeployment(t) \/ DeleteStack(t) \/ DeleteDeployment(t)
  PROVE  Inv'
<1>1. ASSUME NEW call \in {"createStack", "insert", "deleteStack", "delete"}, At(t, call),
             NEW e \in {"CREATE", "DELETE"}, NEW a \in BOOLEAN, Ask(t, frame[t].db, e, a)
      PROVE  Inv'
  <2>1. frame[t].db \in Databases
    BY <1>1, CallerIs DEF Named, Fits
  <2>2. UNCHANGED <<provider, users, secret, store, links, pods>>
    BY <1>1 DEF Ask, Proceed, End, Continue
  <2>3. [event |-> e, done |-> FALSE, error |-> FALSE] \in Formation
    BY DEF Formation
  <2>4. formation' \in [Databases -> Formation \cup {Nothing}]
    BY <1>1, <2>1, <2>3 DEF Ask, Inv, StateInv
  <2>5. StateInv'
    BY <2>2, <2>4 DEF Inv, StateInv
  <2> QED BY <1>1, <2>5, SameFrame DEF Ask
<1> DEFINE f == formation[frame[t].db]
<1>2. CASE CreateStack(t)
  <2>1. (f = Nothing) \in BOOLEAN
    OBVIOUS
  <2> QED BY <1>1, <1>2, <2>1 DEF CreateStack
<1>3. CASE InsertDeployment(t)
  <2>1. (f = Nothing) \in BOOLEAN
    OBVIOUS
  <2> QED BY <1>1, <1>3, <2>1 DEF InsertDeployment
<1>4. CASE DeleteStack(t)
  <2>1. (f # Nothing) \in BOOLEAN
    OBVIOUS
  <2> QED BY <1>1, <1>4, <2>1 DEF DeleteStack
<1>5. CASE DeleteDeployment(t)
  <2>1. (f # Nothing /\ f.done) \in BOOLEAN
    OBVIOUS
  <2> QED BY <1>1, <1>5, <2>1 DEF DeleteDeployment
<1> QED BY <1>2, <1>3, <1>4, <1>5

LEMMA AwaitSound ==
  ASSUME Inv, NEW t \in Terminals,
         \/ AwaitDone(t) \/ AwaitFailed(t) \/ AwaitGivesUp(t)
         \/ Describe(t) \/ Refuse(t)
  PROVE  Inv'
<1>1. StateInv'
  BY DEF AwaitDone, AwaitFailed, AwaitGivesUp, Describe, Refuse, End, Proceed, Continue, state, Inv, StateInv
<1> QED BY <1>1, SameFrame DEF AwaitDone, AwaitFailed, AwaitGivesUp, Describe, Refuse

LEMMA SecretSound ==
  ASSUME Inv, NEW t \in Terminals, PutSecret(t) \/ DropSecret(t)
  PROVE  Inv'
<1>1. StateInv'
  BY DEF PutSecret, DropSecret, Proceed, Continue, Inv, StateInv
<1>2. ASSUME At(t, "dropSecret"), Continue(t, <<"loadApp", "saveUnlink">>, frame[t]) PROVE Inv'
  <2>1. Fitting(<<"loadApp", "saveUnlink">>, frame[t].command)
    BY DEF Fitting, Fits, Calls
  <2>2. Sound(<<"loadApp", "saveUnlink">>, frame[t])
    BY <1>2, <2>1, CallerIs DEF Sound
  <2> QED BY <1>1, <1>2, <2>2, ContinueSound
<1> QED BY <1>1, <1>2, SameFrame DEF PutSecret, DropSecret

LEMMA ListSound ==
  ASSUME Inv, NEW t \in Terminals, List(t)
  PROVE  Inv'
<1> DEFINE left == {p \in Processes : pods[p] # Nothing}
           f == [frame[t] EXCEPT !.seen = pods, !.left = left]
<1>1. frame[t] \in Frame /\ Named(frame[t]) /\ todo[t] # <<>>
  BY CallerIs DEF List, At
<1>2. /\ f \in Frame /\ f.command = frame[t].command /\ f.db = frame[t].db
      /\ f.variable = frame[t].variable /\ f.process = frame[t].process /\ f.seen = pods /\ f.left = left
  BY <1>1 DEF Inv, StateInv, Frame
<1>3. Proceed(t, f) /\ StateInv'
  BY DEF List, Proceed, Continue, state, Inv, StateInv
<1> HIDE DEF f
<1>4. Named(f) /\ Listed(f)
  BY <1>1, <1>2 DEF Named, Listed
<1> QED BY <1>1, <1>2, <1>3, <1>4, ProceedSound

\* A restart that fails within a link is left behind, any other failure ends.
LEMMA GiveUpSound ==
  ASSUME Inv, NEW t \in Terminals, NEW call, At(t, call), GiveUp(t), StateInv'
  PROVE  Inv'
<1>1. CASE End(t)
  BY <1>1, EndSound
<1>2. ASSUME frame[t].command = "link",
             Continue(t, <<"loadApp", "saveLink">>, [Idle EXCEPT !.command = "link", !.db = frame[t].db])
      PROVE  Inv'
  <2> DEFINE f == [Idle EXCEPT !.command = "link", !.db = frame[t].db]
  <2>1. frame[t].db \in Databases
    BY <1>2, CallerIs DEF Named
  <2>2. f \in Frame /\ f.command = "link" /\ f.db = frame[t].db /\ Listed(f)
    BY <2>1 DEF Idle, Frame, Commands, NoPods, EmptyEnv, Env, Listed
  <2>3. Fitting(<<"loadApp", "saveLink">>, "link")
    BY DEF Fitting, Fits, Calls
  <2> HIDE DEF f
  <2>4. Sound(<<"loadApp", "saveLink">>, f)
    BY <2>1, <2>2, <2>3 DEF Sound, Named
  <2> QED BY <1>2, <2>4, ContinueSound DEF f
<1> QED BY <1>1, <1>2 DEF GiveUp

\* What the loop over the listed Deployments does.
LEMMA UpdateEachSound ==
  ASSUME Inv, NEW t \in Terminals, NEW call, At(t, call), NEW updated,
         \A p \in frame[t].left : updated[p] \in Deployment,
         UpdateEach(t, updated), UNCHANGED <<formation, secret, store, links>>
  PROVE  /\ Inv'
         /\ \/ UNCHANGED pods
            \/ \E p \in frame[t].left : Fresh(t, p) /\ pods' = [pods EXCEPT ![p] = updated[p]]
<1>1. /\ frame[t] \in Frame /\ Named(frame[t]) /\ Listed(frame[t]) /\ todo[t] # <<>>
      /\ Fitting(todo[t], frame[t].command)
  BY CallerIs DEF At
<1>2. UNCHANGED <<provider, users>>
  BY DEF UpdateEach, Proceed, GiveUp, End, Continue
<1>3. \/ UNCHANGED pods
      \/ \E p \in frame[t].left : Fresh(t, p) /\ pods' = [pods EXCEPT ![p] = updated[p]]
  BY DEF UpdateEach
<1>4. StateInv'
  BY <1>1, <1>2, <1>3 DEF Inv, StateInv, Frame
<1>5. CASE frame[t].left = {} /\ Proceed(t, [frame[t] EXCEPT !.seen = NoPods])
  <2> DEFINE f == [frame[t] EXCEPT !.seen = NoPods]
  <2>1. /\ f \in Frame /\ f.command = frame[t].command /\ f.db = frame[t].db
        /\ f.variable = frame[t].variable /\ f.process = frame[t].process /\ f.left = frame[t].left
    BY <1>1 DEF NoPods, Frame
  <2> HIDE DEF f
  <2>2. Named(f) /\ Listed(f)
    BY <1>1, <1>5, <2>1 DEF Named, Listed
  <2>3. Proceed(t, f)
    BY <1>5 DEF f
  <2> QED BY <1>1, <1>3, <1>4, <2>1, <2>2, <2>3, ProceedSound
<1>6. ASSUME NEW p \in frame[t].left, Continue(t, todo[t], [frame[t] EXCEPT !.left = @ \ {p}])
      PROVE  Inv'
  <2> DEFINE f == [frame[t] EXCEPT !.left = @ \ {p}]
  <2>1. /\ f \in Frame /\ f.command = frame[t].command /\ f.db = frame[t].db /\ f.seen = frame[t].seen
        /\ f.variable = frame[t].variable /\ f.process = frame[t].process /\ f.left \subseteq frame[t].left
    BY <1>1 DEF Frame
  <2>2. Continue(t, todo[t], f)
    BY <1>6
  <2> HIDE DEF f
  <2>3. Sound(todo[t], f)
    BY <1>1, <2>1 DEF Sound, Named, Listed
  <2> QED BY <1>4, <2>2, <2>3, ContinueSound
<1>7. CASE GiveUp(t)
  BY <1>3, <1>4, <1>7, GiveUpSound
<1> QED BY <1>3, <1>5, <1>6, <1>7 DEF UpdateEach

\* The proxy that a loop writes beside what it has read.
LEMMA WithProxyIs ==
  ASSUME Inv, NEW t \in Terminals, NEW p \in frame[t].left, NEW r \in Databases \cup {Nothing}
  PROVE  /\ frame[t].seen[p] \in Deployment
         /\ WithProxy(frame[t].seen[p], r) \in Deployment /\ WithProxy(frame[t].seen[p], r).proxy = r
<1>1. frame[t] \in Frame /\ Listed(frame[t])
  BY DEF Inv, CommandInv, Sound
<1>2. frame[t].seen[p] \in Deployment
  BY <1>1 DEF Frame, Listed
<1> QED BY <1>2 DEF WithProxy, Deployment

\* What a step does to the proxy of a Deployment.
Keeps == \A p \in Processes : pods[p] # Nothing /\ pods[p].proxy # Nothing => pods'[p].proxy # Nothing

LEMMA MergeSound ==
  ASSUME Inv, NEW t \in Terminals, Merge(t)
  PROVE  Inv' /\ Keeps
<1> DEFINE updated == [p \in frame[t].left |-> WithProxy(frame[t].seen[p], frame[t].db)]
<1>1. frame[t].db \in Databases
  BY CallerIs DEF Merge, Named, Fits
<1>2. \A p \in frame[t].left : updated[p] \in Deployment /\ updated[p].proxy # Nothing
  BY <1>1, WithProxyIs, ResourceAssumption
<1> HIDE DEF updated
<1>3. /\ Inv'
      /\ \/ UNCHANGED pods
         \/ \E p \in frame[t].left : Fresh(t, p) /\ pods' = [pods EXCEPT ![p] = updated[p]]
  BY <1>2, UpdateEachSound DEF Merge, updated
<1>4. Keeps
  BY <1>2, <1>3 DEF Keeps, Inv, StateInv
<1> QED BY <1>3, <1>4

LEMMA PruneSound ==
  ASSUME Inv, NEW t \in Terminals, Prune(t)
  PROVE  Inv'
<1> DEFINE updated == [p \in frame[t].left |-> WithProxy(frame[t].seen[p], Nothing)]
<1>1. \A p \in frame[t].left : updated[p] \in Deployment
  BY WithProxyIs
<1> HIDE DEF updated
<1> QED BY <1>1, UpdateEachSound DEF Prune, updated

LEMMA ApplyEnvSound ==
  ASSUME Inv, NEW t \in Terminals, ApplyEnv(t)
  PROVE  Inv' /\ Keeps
<1>1. \A p \in frame[t].left : frame[t].seen[p] \in Deployment
  BY WithProxyIs
<1>2. /\ Inv'
      /\ \/ UNCHANGED pods
         \/ \E p \in frame[t].left : Fresh(t, p) /\ pods' = [pods EXCEPT ![p] = frame[t].seen[p]]
  BY <1>1, UpdateEachSound DEF ApplyEnv
<1>3. Keeps
  BY <1>2 DEF Keeps, Fresh, Inv, StateInv
<1> QED BY <1>2, <1>3

LEMMA LinksSound ==
  ASSUME Inv, NEW t \in Terminals, LoadApp(t) \/ SaveLink(t) \/ SaveUnlink(t)
  PROVE  Inv'
<1>1. frame[t] \in Frame /\ Named(frame[t]) /\ Listed(frame[t]) /\ todo[t] # <<>>
  BY CallerIs DEF LoadApp, SaveLink, SaveUnlink, At
<1>2. CASE LoadApp(t)
  <2> DEFINE f == [frame[t] EXCEPT !.copy = links]
  <2>1. /\ f \in Frame /\ f.command = frame[t].command /\ f.db = frame[t].db /\ f.seen = frame[t].seen
        /\ f.variable = frame[t].variable /\ f.process = frame[t].process /\ f.left = frame[t].left
    BY <1>1 DEF Inv, StateInv, Frame
  <2>2. Proceed(t, f) /\ StateInv'
    BY <1>2 DEF LoadApp, Proceed, Continue, state, Inv, StateInv
  <2> HIDE DEF f
  <2>3. Named(f) /\ Listed(f)
    BY <1>1, <2>1 DEF Named, Listed
  <2> QED BY <1>1, <2>1, <2>2, <2>3, ProceedSound
<1>3. CASE SaveLink(t)
  <2>1. frame[t].db \in Databases
    BY <1>1, <1>3, CallerIs DEF SaveLink, Named, Fits
  <2>2. StateInv'
    BY <1>1, <1>3, <2>1 DEF SaveLink, Proceed, Continue, Inv, StateInv, Frame
  <2> QED BY <1>3, <2>2, SameFrame DEF SaveLink
<1>4. CASE SaveUnlink(t)
  <2>1. StateInv'
    BY <1>1, <1>4 DEF SaveUnlink, Proceed, Continue, Inv, StateInv, Frame
  <2> QED BY <1>4, <2>1, SameFrame DEF SaveUnlink
<1> QED BY <1>2, <1>3, <1>4

LEMMA EnvSound ==
  ASSUME Inv, NEW t \in Terminals, ReadEnv(t) \/ ReadFails(t) \/ PutDbEnv(t) \/ PutEnv(t)
  PROVE  Inv'
<1>1. frame[t] \in Frame /\ Named(frame[t]) /\ Listed(frame[t]) /\ todo[t] # <<>>
  BY CallerIs DEF ReadEnv, ReadFails, PutDbEnv, PutEnv, At
<1>2. ASSUME NEW e \in Env, Proceed(t, [frame[t] EXCEPT !.env = e]), StateInv' PROVE Inv'
  <2> DEFINE f == [frame[t] EXCEPT !.env = e]
  <2>1. /\ f \in Frame /\ f.command = frame[t].command /\ f.db = frame[t].db /\ f.seen = frame[t].seen
        /\ f.variable = frame[t].variable /\ f.process = frame[t].process /\ f.left = frame[t].left
    BY <1>1 DEF Frame
  <2> HIDE DEF f
  <2>2. Named(f) /\ Listed(f)
    BY <1>1, <2>1 DEF Named, Listed
  <2> QED BY <1>1, <1>2, <2>1, <2>2, ProceedSound DEF f
<1>3. EmptyEnv \in Env
  BY DEF EmptyEnv, Env
<1>4. CASE ReadEnv(t) \/ ReadFails(t)
  <2>1. StateInv'
    BY <1>4 DEF ReadEnv, ReadFails, Proceed, Continue, state, Inv, StateInv
  <2> QED BY <1>2, <1>3, <1>4, <2>1 DEF ReadEnv, ReadFails, Inv, StateInv
<1>5. CASE PutDbEnv(t)
  <2>1. frame[t].db \in Databases
    BY <1>1, <1>5, CallerIs DEF PutDbEnv, Named, Fits
  <2>2. DbEnv(t) \in Env
    BY <1>1, <2>1 DEF DbEnv, Frame, Env
  <2>3. StateInv'
    BY <1>5, <2>2 DEF PutDbEnv, Proceed, Continue, Inv, StateInv
  <2> QED BY <1>2, <1>3, <1>5, <2>3 DEF PutDbEnv
<1>6. CASE PutEnv(t)
  <2>1. frame[t].variable \in Variables
    BY <1>1, <1>6, CallerIs DEF PutEnv, Named, Fits
  <2>2. Edited(frame[t]) \in Env
    BY <1>1, <2>1 DEF Edited, Frame, Env
  <2>3. StateInv'
    BY <1>6, <2>2 DEF PutEnv, Proceed, Continue, Inv, StateInv
  <2> QED BY <1>6, <2>3, SameFrame DEF PutEnv
<1> QED BY <1>4, <1>5, <1>6

LEMMA DeploySound ==
  ASSUME Inv, NEW t \in Terminals, CreateOrUpdateDeployment(t)
  PROVE  Inv' /\ Keeps
<1> DEFINE f == frame[t]
           p == f.process
<1>1. f \in Frame /\ p \in Processes
  BY CallerIs DEF CreateOrUpdateDeployment, Named, Fits
<1>2. Created(f) \in Deployment
  BY <1>1 DEF Created, Frame, Env, Deployment
<1>3. \/ UNCHANGED pods
      \/ pods' = [pods EXCEPT ![p] = IF @ = Nothing THEN Created(f) ELSE f.seen[p]] /\ pods[p] = f.seen[p]
  BY DEF CreateOrUpdateDeployment, Fresh
<1>4. pods' \in [Processes -> Deployment \cup {Nothing}] /\ Keeps
  BY <1>1, <1>2, <1>3 DEF Keeps, Inv, StateInv
<1>5. StateInv'
  BY <1>4 DEF CreateOrUpdateDeployment, Proceed, End, Continue, Inv, StateInv
<1> QED BY <1>4, <1>5, SameFrame DEF CreateOrUpdateDeployment

LEMMA FailSound ==
  ASSUME Inv, NEW t \in Terminals, Fail(t)
  PROVE  Inv'
<1>1. StateInv'
  BY DEF Fail, GiveUp, End, Continue, state, Inv, StateInv
<1> QED BY <1>1, GiveUpSound DEF Fail, At

LEMMA EndsSound ==
  ASSUME Inv, NEW r \in Databases, FormationEnds(r)
  PROVE  Inv'
<1>1. formation[r] \in Formation
  BY DEF FormationEnds, Inv, StateInv
<1>2. \A t \in Terminals :
        frame'[t] = frame[t] \/ frame'[t] = [frame[t] EXCEPT !.got = TRUE]
  BY DEF FormationEnds
<1>3. [formation[r] EXCEPT !.done = TRUE, !.error = TRUE] \in Formation
      /\ [formation[r] EXCEPT !.done = TRUE] \in Formation
  BY <1>1 DEF Formation
<1>4. formation' \in [Databases -> Formation \cup {Nothing}]
  <2>1. CASE formation' = [formation EXCEPT ![r].done = TRUE, ![r].error = TRUE]
    <3>1. formation' = [formation EXCEPT ![r] = [formation[r] EXCEPT !.done = TRUE, !.error = TRUE]]
      BY <1>1, <2>1 DEF Inv, StateInv, Formation
    <3> QED BY <1>3, <3>1 DEF Inv, StateInv
  <2>2. CASE formation' = [formation EXCEPT ![r] = IF formation[r].event = "DELETE" THEN Nothing
                                                  ELSE [formation[r] EXCEPT !.done = TRUE]]
    BY <1>3, <2>2 DEF Inv, StateInv
  <2> QED BY <2>1, <2>2 DEF FormationEnds
<1>5. StateInv'
  BY <1>4 DEF FormationEnds, Inv, StateInv
<1>6. ASSUME NEW t \in Terminals PROVE Sound(todo'[t], frame'[t])
  <2>1. Sound(todo[t], frame[t]) /\ todo' = todo
    BY DEF Inv, CommandInv, FormationEnds
  <2> DEFINE f == [frame[t] EXCEPT !.got = TRUE]
  <2>2. /\ f \in Frame /\ f.command = frame[t].command /\ f.db = frame[t].db /\ f.seen = frame[t].seen
        /\ f.variable = frame[t].variable /\ f.process = frame[t].process /\ f.left = frame[t].left
    BY <2>1 DEF Sound, Frame
  <2>3. frame'[t] = frame[t] \/ frame'[t] = f
    BY <1>2
  <2> HIDE DEF f
  <2> QED BY <2>1, <2>2, <2>3 DEF Sound, Named, Listed
<1>7. DOMAIN todo' = Terminals /\ DOMAIN frame' = Terminals
  BY DEF FormationEnds, Inv, CommandInv
<1> QED BY <1>5, <1>6, <1>7 DEF Inv, CommandInv, Sound, Named, Listed

------------------------------------------------------------------------------
(* Theorems                                                                 *)

LEMMA InitSound == Init => Inv
<1> SUFFICES ASSUME Init PROVE Inv
  OBVIOUS
<1>1. StateInv
  BY DEF Init, StateInv, EmptyEnv, Env, NoPods
<1>2. CommandInv
  BY IdleSound DEF Init, CommandInv
<1> QED BY <1>1, <1>2 DEF Inv

LEMMA NextSound ==
  ASSUME Inv, [Next]_vars
  PROVE  /\ Inv'
         /\ (\E t \in Terminals : Prune(t)) \/ Keeps
<1>1. ASSUME NEW t \in Terminals, Step(t)
      PROVE  Inv' /\ (Prune(t) \/ Keeps)
  <2>1. CASE Merge(t) \/ Prune(t) \/ ApplyEnv(t) \/ CreateOrUpdateDeployment(t)
    BY <2>1, MergeSound, PruneSound, ApplyEnvSound, DeploySound
  <2>2. ASSUME UNCHANGED pods PROVE Keeps
    BY <2>2 DEF Keeps
  <2>3. CASE ~ (Merge(t) \/ Prune(t) \/ ApplyEnv(t) \/ CreateOrUpdateDeployment(t))
    <3>1. Inv'
      BY <1>1, <2>3, FormationSound, AwaitSound, SecretSound, ListSound, LinksSound, EnvSound, FailSound DEF Step
    <3>2. UNCHANGED pods
      BY <1>1, <2>3
         DEF Step, CreateStack, InsertDeployment, DeleteStack, DeleteDeployment, Ask, AwaitDone, AwaitFailed,
             AwaitGivesUp, Describe, PutSecret, DropSecret, List, LoadApp, SaveLink, SaveUnlink, Refuse,
             ReadEnv, ReadFails, PutDbEnv, PutEnv, Fail, state
    <3> QED BY <2>2, <3>1, <3>2
  <2> QED BY <2>1, <2>3
<1>2. ASSUME NEW t \in Terminals, Command(t) PROVE Inv' /\ Keeps
  <2>1. UNCHANGED pods
    BY <1>2 DEF Command, ResourceCreate, ResourceDelete, ResourceLink, ResourceUnlink, AppRestart, EnvSet,
                EnvUnset, Deploy, Begin, state
  <2> QED BY <1>2, <2>1, CommandSound DEF Keeps
<1>3. ASSUME NEW r \in Databases, FormationEnds(r) PROVE Inv' /\ Keeps
  <2>1. UNCHANGED pods
    BY <1>3 DEF FormationEnds
  <2> QED BY <1>3, <2>1, EndsSound DEF Keeps
<1>4. CASE UNCHANGED vars
  BY <1>4 DEF vars, state, Inv, StateInv, CommandInv, Sound, Named, Listed, Keeps
<1> QED BY <1>1, <1>2, <1>3, <1>4 DEF Next

LEMMA Invariant == Spec => []Inv
<1>1. Inv /\ [Next]_vars => Inv'
  BY NextSound
<1> QED BY <1>1, InitSound, PTL DEF Spec

\* Formations, environments, links and Deployments have their types.
THEOREM TypeCorrect == Spec => []TypeOK
<1>1. Inv => TypeOK
  BY DEF Inv, StateInv, TypeOK
<1> QED BY <1>1, Invariant, PTL

\* Deploys, restarts and links that overlap never lose the proxy container of a
\* Deployment: only unlinking takes it away.
THEOREM ProxyIsKept == Spec => ProxyKept
<1>1. ASSUME Inv, [Next]_vars, NEW p \in Processes,
             pods[p] # Nothing, pods[p].proxy # Nothing, pods'[p].proxy = Nothing
      PROVE  \E t \in Terminals : Prune(t)
  BY <1>1, NextSound DEF Keeps
<1>2. Inv /\ [Next]_vars =>
        [\A p \in Processes :
           pods[p] # Nothing /\ pods[p].proxy # Nothing /\ pods'[p].proxy = Nothing =>
             \E t \in Terminals : Prune(t)]_vars
  BY <1>1
<1> QED BY <1>2, Invariant, PTL DEF Spec, ProxyKept

------------------------------------------------------------------------------
(* The link of a user who is alone                                          *)

\* The call that follows each call of a link.
After == [describe |-> "putSecret", putSecret |-> "list", list |-> "merge", merge |-> "readEnv",
          readEnv |-> "putDbEnv", putDbEnv |-> "restartList", restartList |-> "applyEnv",
          applyEnv |-> "loadApp", loadApp |-> "saveLink", saveLink |-> "nothing"]

InOrder(calls) ==
  /\ calls \in Seq(Calls)
  /\ \A i \in 1..Len(calls) :
       calls[i] \in DOMAIN After /\ (i + 1 \in 1..Len(calls) => calls[i + 1] = After[calls[i]])

\* The calls that a link makes when its proxy is everywhere, and when the
\* environment names its database.
Stored == {"restartList", "applyEnv", "loadApp", "saveLink"}
Merged == {"readEnv", "putDbEnv"} \cup Stored

\* What a link with the frame f has done before the call it makes next.
Effect(call, f, st, ps) ==
  /\ call = "merge" => \A p \in Processes : ps[p] # Nothing => p \in f.left \/ ps[p].proxy = f.db
  /\ call \in Merged => \A p \in Processes : ps[p] # Nothing => ps[p].proxy = f.db
  /\ call \in Stored => st.db = f.db

Linking(calls, f, st, ps) ==
  f.command = "link" => InOrder(calls) /\ (calls # <<>> => Effect(Head(calls), f, st, ps))

\* Only users run commands, and a user who is alone links in order.
AloneInv ==
  /\ \A t \in Terminals \ users : todo[t] = <<>>
  /\ AloneOnGcp => \A t \in users : Linking(todo[t], frame[t], store, pods)

\* What is left of the calls of a link is in order too.
LEMMA InOrderTail ==
  ASSUME NEW calls, InOrder(calls), calls # <<>>
  PROVE  /\ InOrder(Tail(calls)) /\ Head(calls) \in DOMAIN After
         /\ Tail(calls) # <<>> => Head(Tail(calls)) = After[Head(calls)]
<1>1. /\ Tail(calls) \in Seq(Calls) /\ 1 \in 1..Len(calls) /\ Head(calls) = calls[1]
      /\ Len(Tail(calls)) = Len(calls) - 1 /\ Len(calls) \in Nat
      /\ \A i \in 1..Len(Tail(calls)) : i + 1 \in 1..Len(calls) /\ Tail(calls)[i] = calls[i + 1]
  BY DEF InOrder
<1> DEFINE rest == Tail(calls)
<1>2. rest # <<>> => 1 \in 1..Len(rest) /\ Head(rest) = rest[1]
  BY <1>1
<1> HIDE DEF rest
<1>3. /\ rest \in Seq(Calls) /\ 1 \in 1..Len(calls) /\ Head(calls) = calls[1]
      /\ Len(rest) = Len(calls) - 1 /\ Len(calls) \in Nat
      /\ \A i \in 1..Len(rest) : i + 1 \in 1..Len(calls) /\ rest[i] = calls[i + 1]
  BY <1>1 DEF rest
<1>4. InOrder(rest)
  BY <1>3 DEF InOrder
<1>5. Head(calls) \in DOMAIN After /\ (rest # <<>> => Head(rest) = After[Head(calls)])
  BY <1>2, <1>3 DEF InOrder
<1> QED BY <1>4, <1>5 DEF rest

LEMMA LinksInOrder ==
  /\ InOrder(DatabaseLinkCalls) /\ Head(DatabaseLinkCalls) = "describe"
  /\ InOrder(<<"loadApp", "saveLink">>) /\ Head(<<"loadApp", "saveLink">>) = "loadApp"
  /\ <<"loadApp", "saveLink">> # <<>>
<1>1. /\ DatabaseLinkCalls \in Seq(Calls) /\ Len(DatabaseLinkCalls) = 10
      /\ DatabaseLinkCalls[1] = "describe" /\ DatabaseLinkCalls[2] = "putSecret" /\ DatabaseLinkCalls[3] = "list"
      /\ DatabaseLinkCalls[4] = "merge" /\ DatabaseLinkCalls[5] = "readEnv" /\ DatabaseLinkCalls[6] = "putDbEnv"
      /\ DatabaseLinkCalls[7] = "restartList" /\ DatabaseLinkCalls[8] = "applyEnv"
      /\ DatabaseLinkCalls[9] = "loadApp" /\ DatabaseLinkCalls[10] = "saveLink"
  BY DEF DatabaseLinkCalls, RestartCalls, Calls
<1>2. InOrder(DatabaseLinkCalls)
  BY <1>1 DEF InOrder, After
<1>4. Head(DatabaseLinkCalls) = "describe"
  BY <1>1
<1>3. InOrder(<<"loadApp", "saveLink">>)
  BY DEF InOrder, After, Calls
<1> QED BY <1>2, <1>3, <1>4

\* A command goes on with the calls and the frame f.
LEMMA AloneBecomes ==
  ASSUME Inv, AloneInv, NEW t \in users, NEW calls, NEW f, UNCHANGED <<provider, users>>,
         todo' = [todo EXCEPT ![t] = calls], frame' = [frame EXCEPT ![t] = f],
         AloneOnGcp => Linking(calls, f, store', pods')
  PROVE  AloneInv'
<1>1. t \in Terminals /\ DOMAIN todo = Terminals /\ DOMAIN frame = Terminals
  BY DEF Inv, StateInv, CommandInv
<1>2. \A u \in Terminals \ users : todo'[u] = <<>>
  BY <1>1 DEF AloneInv
<1>3. AloneOnGcp => \A u \in users : u = t
  BY DEF AloneOnGcp
<1>4. AloneOnGcp' => AloneOnGcp
  BY DEF AloneOnGcp
<1>5. AloneOnGcp => \A u \in users : Linking(todo'[u], frame'[u], store', pods')
  BY <1>1, <1>3
<1> QED BY <1>2, <1>4, <1>5 DEF AloneInv

LEMMA AloneContinues ==
  ASSUME Inv, AloneInv, NEW t \in Terminals, todo[t] # <<>>, NEW calls, NEW f, Continue(t, calls, f),
         calls # <<>> /\ f.command = "link" => frame[t].command = "link",
         calls # <<>> /\ f.command = "link" /\ AloneOnGcp /\ InOrder(todo[t])
           /\ Effect(Head(todo[t]), frame[t], store, pods)
           => InOrder(calls) /\ Effect(Head(calls), f, store', pods')
  PROVE  AloneInv'
<1>1. t \in users
  BY DEF AloneInv
<1>2. CASE calls = <<>>
  <2>1. Linking(calls, Idle, store', pods')
    BY IdleIs DEF Linking
  <2> QED BY <1>1, <1>2, <2>1, AloneBecomes DEF Continue
<1>3. CASE calls # <<>>
  <2>1. AloneOnGcp => Linking(calls, f, store', pods')
    BY <1>1, <1>3 DEF AloneInv, Linking
  <2> QED BY <1>1, <1>3, <2>1, AloneBecomes DEF Continue
<1> QED BY <1>2, <1>3

LEMMA AloneEnds == ASSUME Inv, AloneInv, NEW t \in Terminals, todo[t] # <<>>, End(t) PROVE AloneInv'
<1>1. t \in users /\ Continue(t, <<>>, Idle)
  BY DEF AloneInv, End
<1>2. Linking(<<>>, Idle, store', pods')
  BY IdleIs DEF Linking
<1> QED BY <1>1, <1>2, AloneBecomes DEF Continue

LEMMA AloneProceeds ==
  ASSUME Inv, AloneInv, NEW t \in Terminals, NEW call, At(t, call), NEW f, Proceed(t, f),
         f.command = frame[t].command,
         f.command = "link" /\ AloneOnGcp /\ call \in DOMAIN After /\ Effect(call, frame[t], store, pods)
           => Effect(After[call], f, store', pods')
  PROVE  AloneInv'
<1> DEFINE rest == Tail(todo[t])
<1>1. todo[t] # <<>> /\ Head(todo[t]) = call /\ Continue(t, rest, f)
  BY DEF At, Proceed
<1>2. InOrder(todo[t]) => InOrder(rest) /\ call \in DOMAIN After /\ (rest # <<>> => Head(rest) = After[call])
  BY <1>1, InOrderTail
<1> HIDE DEF rest
<1>3. ASSUME rest # <<>>, f.command = "link", AloneOnGcp, InOrder(todo[t]),
             Effect(Head(todo[t]), frame[t], store, pods)
      PROVE  InOrder(rest) /\ Effect(Head(rest), f, store', pods')
  <2>1. InOrder(rest) /\ call \in DOMAIN After /\ Head(rest) = After[call]
    BY <1>2, <1>3
  <2>2. Effect(call, frame[t], store, pods)
    BY <1>1, <1>3
  <2>3. Effect(After[call], f, store', pods')
    BY <1>3, <2>1, <2>2
  <2> QED BY <2>1, <2>3
<1> QED BY <1>1, <1>3, AloneContinues

------------------------------------------------------------------------------
LEMMA AloneBegins ==
  ASSUME Inv, AloneInv, NEW t \in Terminals, Command(t)
  PROVE  AloneInv'
<1>1. ASSUME NEW calls, NEW f, Begin(t, f, calls), AloneOnGcp => Linking(calls, f, store', pods')
      PROVE  AloneInv'
  BY <1>1, AloneBecomes DEF Begin
<1>2. ASSUME NEW r \in Databases, ResourceLink(t, r) PROVE AloneInv'
  <2> DEFINE f == [Idle EXCEPT !.command = "link", !.db = r]
             calls == On(StackLinkCalls, DatabaseLinkCalls)
  <2>1. AloneOnGcp => calls = DatabaseLinkCalls
    BY DEF AloneOnGcp, On
  <2>2. Effect("describe", f, store', pods')
    BY DEF Effect, Merged, Stored
  <2> HIDE DEF f, calls
  <2>3. AloneOnGcp => Linking(calls, f, store', pods')
    BY <2>1, <2>2, LinksInOrder DEF Linking
  <2> QED BY <1>1, <1>2, <2>3 DEF ResourceLink, f, calls
<1>3. ASSUME NEW r \in Databases \cup {Nothing}, NEW v \in Variables \cup {Nothing},
             NEW p \in Processes \cup {Nothing}, NEW c \in Commands \ {"link"}, NEW calls,
             Begin(t, [Idle EXCEPT !.command = c, !.db = r], calls)
               \/ Begin(t, [Idle EXCEPT !.command = c, !.variable = v], calls)
               \/ Begin(t, [Idle EXCEPT !.command = c, !.process = p], calls)
               \/ Begin(t, [Idle EXCEPT !.command = c], calls)
      PROVE  AloneInv'
  <2>1. /\ [Idle EXCEPT !.command = c, !.db = r].command = c
        /\ [Idle EXCEPT !.command = c, !.variable = v].command = c
        /\ [Idle EXCEPT !.command = c, !.process = p].command = c
        /\ [Idle EXCEPT !.command = c].command = c
    BY DEF Idle
  <2>2. PICK f : Begin(t, f, calls) /\ f.command = c
    BY <1>3, <2>1
  <2>3. Linking(calls, f, store', pods')
    BY <2>2 DEF Linking
  <2> QED BY <1>1, <2>2, <2>3
<1>4. CASE ~ \E r \in Databases : ResourceLink(t, r)
  BY <1>3, <1>4 DEF Command, Commands, ResourceCreate, ResourceDelete, ResourceUnlink, AppRestart, EnvSet, EnvUnset,
                    Deploy
<1> QED BY <1>2, <1>4

\* A step that leaves the command what it was, at a call that no link makes or
\* before one that a link needs nothing for.
LEMMA AlonePasses ==
  ASSUME Inv, AloneInv, NEW t \in Terminals, NEW call, At(t, call), NEW f, Proceed(t, f),
         f.command = frame[t].command,
         call \notin DOMAIN After \/ After[call] \notin {"merge"} \cup Merged
  PROVE  AloneInv'
<1>1. call \in DOMAIN After => Effect(After[call], f, store', pods')
  BY DEF Effect, Merged
<1> QED BY <1>1, AloneProceeds

LEMMA AloneAsks ==
  ASSUME Inv, AloneInv, NEW t \in Terminals,
         \/ CreateStack(t) \/ InsertDeployment(t) \/ DeleteStack(t) \/ DeleteDeployment(t)
         \/ AwaitDone(t) \/ AwaitFailed(t) \/ AwaitGivesUp(t) \/ Refuse(t)
         \/ Describe(t) \/ PutSecret(t) \/ PutEnv(t) \/ SaveUnlink(t) \/ SaveLink(t)
  PROVE  AloneInv'
<1>1. PICK call \in {"createStack", "insert", "deleteStack", "delete", "await", "refuse", "describe", "putSecret",
                     "putEnv", "saveUnlink", "saveLink"} :
        At(t, call) /\ (Proceed(t, frame[t]) \/ End(t))
  BY DEF CreateStack, InsertDeployment, DeleteStack, DeleteDeployment, Ask, AwaitDone, AwaitFailed, AwaitGivesUp,
         Refuse, Describe, PutSecret, PutEnv, SaveUnlink, SaveLink
<1>2. call \notin DOMAIN After \/ After[call] \notin {"merge"} \cup Merged
  BY DEF After, Merged, Stored
<1> QED BY <1>1, <1>2, AlonePasses, AloneEnds DEF At

\* A restart that fails in a link leaves what the link has done so far.
LEMMA AloneGivesUp ==
  ASSUME Inv, AloneInv, NEW t \in Terminals, todo[t] # <<>>, GiveUp(t), UNCHANGED <<store, pods>>
  PROVE  AloneInv'
<1>1. CASE End(t)
  BY <1>1, AloneEnds
<1>2. CASE frame[t].command = "link" /\ Head(todo[t]) \in {"restartList", "applyEnv"} /\ ~ End(t)
  <2> DEFINE f == [Idle EXCEPT !.command = "link", !.db = frame[t].db]
             calls == <<"loadApp", "saveLink">>
  <2>1. Continue(t, calls, f) /\ f.db = frame[t].db
    BY <1>2 DEF GiveUp, Idle
  <2>2. InOrder(calls) /\ Head(calls) = "loadApp"
    BY LinksInOrder
  <2> HIDE DEF f, calls
  <2>3. Effect(Head(todo[t]), frame[t], store, pods) => Effect(Head(calls), f, store', pods')
    BY <1>2, <2>1, <2>2 DEF Effect, Merged, Stored
  <2> QED BY <1>2, <2>1, <2>2, <2>3, AloneContinues
<1> QED BY <1>1, <1>2 DEF GiveUp

LEMMA AloneFails == ASSUME Inv, AloneInv, NEW t \in Terminals, Fail(t) PROVE AloneInv'
  BY AloneGivesUp DEF Fail, state

LEMMA AloneDrops == ASSUME Inv, AloneInv, NEW t \in Terminals, DropSecret(t) PROVE AloneInv'
<1>1. At(t, "dropSecret") /\ todo[t] # <<>> /\ Head(todo[t]) = "dropSecret" /\ "dropSecret" \notin DOMAIN After
  BY DEF DropSecret, At, After
<1>2. CASE Proceed(t, frame[t])
  BY <1>1, <1>2, AlonePasses
<1>3. CASE Continue(t, <<"loadApp", "saveUnlink">>, frame[t])
  <2> DEFINE calls == <<"loadApp", "saveUnlink">>
  <2>1. InOrder(todo[t]) => FALSE
    BY <1>1, InOrderTail
  <2>2. Continue(t, calls, frame[t])
    BY <1>3
  <2> HIDE DEF calls
  <2> QED BY <1>1, <2>1, <2>2, AloneContinues
<1> QED BY <1>2, <1>3 DEF DropSecret

LEMMA AloneReads ==
  ASSUME Inv, AloneInv, NEW t \in Terminals,
         List(t) \/ LoadApp(t) \/ ReadEnv(t) \/ ReadFails(t) \/ PutDbEnv(t)
  PROVE  AloneInv'
<1>1. frame[t] \in Frame
  BY CallerIs DEF List, LoadApp, ReadEnv, ReadFails, PutDbEnv
<1>2. CASE List(t)
  <2> DEFINE left == {p \in Processes : pods[p] # Nothing}
             f == [frame[t] EXCEPT !.seen = pods, !.left = left]
  <2>1. f.command = frame[t].command /\ f.db = frame[t].db /\ f.left = left
    BY <1>1 DEF Frame
  <2>2. Proceed(t, f) /\ UNCHANGED <<store, pods>>
    BY <1>2 DEF List, state
  <2> HIDE DEF f
  <2>3. CASE At(t, "list")
    <3>1. Effect("merge", f, store', pods')
      BY <2>1, <2>2 DEF Effect, Merged, Stored
    <3>2. After["list"] = "merge"
      BY DEF After
    <3> QED BY <2>1, <2>2, <2>3, <3>1, <3>2, AloneProceeds
  <2>4. CASE At(t, "restartList")
    <3>1. Effect("restartList", frame[t], store, pods) => Effect("applyEnv", f, store', pods')
      BY <2>1, <2>2 DEF Effect, Merged, Stored
    <3>2. After["restartList"] = "applyEnv"
      BY DEF After
    <3> QED BY <2>1, <2>2, <2>4, <3>1, <3>2, AloneProceeds
  <2> QED BY <1>2, <2>3, <2>4 DEF List
<1>3. CASE LoadApp(t)
  <2> DEFINE f == [frame[t] EXCEPT !.copy = links]
  <2>1. f.command = frame[t].command /\ f.db = frame[t].db
    BY <1>1 DEF Frame
  <2>2. Proceed(t, f) /\ UNCHANGED <<store, pods>> /\ At(t, "loadApp")
    BY <1>3 DEF LoadApp, state
  <2> HIDE DEF f
  <2>3. Effect("loadApp", frame[t], store, pods) => Effect("saveLink", f, store', pods')
    BY <2>1, <2>2 DEF Effect, Merged, Stored
  <2>4. After["loadApp"] = "saveLink"
    BY DEF After
  <2> QED BY <2>1, <2>2, <2>3, <2>4, AloneProceeds
<1>4. CASE ReadEnv(t) \/ ReadFails(t)
  <2>1. PICK e : Proceed(t, [frame[t] EXCEPT !.env = e])
    BY <1>4 DEF ReadEnv, ReadFails
  <2> DEFINE f == [frame[t] EXCEPT !.env = e]
  <2>2. f.command = frame[t].command /\ f.db = frame[t].db
    BY <1>1 DEF Frame
  <2>3. Proceed(t, f) /\ UNCHANGED <<store, pods>>
    BY <1>4, <2>1 DEF ReadEnv, ReadFails, state
  <2> HIDE DEF f
  <2>4. CASE At(t, "readEnv")
    <3>1. Effect("readEnv", frame[t], store, pods) => Effect("putDbEnv", f, store', pods')
      BY <2>2, <2>3 DEF Effect, Merged, Stored
    <3>2. After["readEnv"] = "putDbEnv"
      BY DEF After
    <3> QED BY <2>2, <2>3, <2>4, <3>1, <3>2, AloneProceeds
  <2>5. CASE At(t, "getEnv")
    <3>1. "getEnv" \notin DOMAIN After
      BY DEF After
    <3> QED BY <2>2, <2>3, <2>5, <3>1, AlonePasses
  <2> QED BY <1>4, <2>4, <2>5 DEF ReadEnv, ReadFails
<1>5. CASE PutDbEnv(t)
  <2> DEFINE f == [frame[t] EXCEPT !.env = EmptyEnv]
  <2>1. f.command = frame[t].command /\ f.db = frame[t].db
    BY <1>1 DEF Frame
  <2>2. store'.db = frame[t].db
    BY <1>1, <1>5 DEF PutDbEnv, DbEnv, Frame, Env
  <2>3. Proceed(t, f) /\ UNCHANGED pods /\ At(t, "putDbEnv")
    BY <1>5 DEF PutDbEnv
  <2> HIDE DEF f
  <2>4. Effect("putDbEnv", frame[t], store, pods) => Effect("restartList", f, store', pods')
    BY <2>1, <2>2, <2>3 DEF Effect, Merged, Stored
  <2>5. After["putDbEnv"] = "restartList"
    BY DEF After
  <2> QED BY <2>1, <2>3, <2>4, <2>5, AloneProceeds
<1> QED BY <1>2, <1>3, <1>4, <1>5

\* The loops: a Deployment that a link has not written yet is in its list.
LEMMA AloneMerges == ASSUME Inv, AloneInv, NEW t \in Terminals, Merge(t) PROVE AloneInv'
<1> DEFINE updated == [p \in frame[t].left |-> WithProxy(frame[t].seen[p], frame[t].db)]
<1>1. /\ frame[t] \in Frame /\ frame[t].db \in Databases /\ UNCHANGED store
      /\ todo[t] # <<>> /\ Head(todo[t]) = "merge" /\ At(t, "merge") /\ UpdateEach(t, updated)
      /\ pods \in [Processes -> Deployment \cup {Nothing}]
  BY CallerIs DEF Merge, Named, Fits, At, Inv, StateInv
<1>2. \A p \in frame[t].left : updated[p].proxy = frame[t].db
  BY <1>1, WithProxyIs
<1> HIDE DEF updated
<1>3. CASE frame[t].left = {} /\ Proceed(t, [frame[t] EXCEPT !.seen = NoPods]) /\ UNCHANGED pods
  <2> DEFINE f == [frame[t] EXCEPT !.seen = NoPods]
  <2>1. f.command = frame[t].command /\ f.db = frame[t].db
    BY <1>1 DEF Frame
  <2>2. Proceed(t, f)
    BY <1>3
  <2> HIDE DEF f
  <2>3. Effect("merge", frame[t], store, pods) => Effect("readEnv", f, store', pods')
    BY <1>1, <1>3, <2>1 DEF Effect, Merged, Stored
  <2>4. After["merge"] = "readEnv"
    BY DEF After
  <2> QED BY <1>1, <2>1, <2>2, <2>3, <2>4, AloneProceeds
<1>4. ASSUME NEW p \in frame[t].left, pods' = [pods EXCEPT ![p] = updated[p]],
             Continue(t, todo[t], [frame[t] EXCEPT !.left = @ \ {p}])
      PROVE  AloneInv'
  <2> DEFINE f == [frame[t] EXCEPT !.left = frame[t].left \ {p}]
             calls == todo[t]
  <2>1. f.command = frame[t].command /\ f.db = frame[t].db /\ f.left = frame[t].left \ {p}
    BY <1>1 DEF Frame
  <2>2. Continue(t, calls, f)
    BY <1>1, <1>4 DEF Frame
  <2>3. \A q \in Processes : pods'[q] = IF q = p THEN updated[p] ELSE pods[q]
    BY <1>1, <1>4
  <2>4. Head(calls) = "merge" /\ calls # <<>>
    BY <1>1
  <2> HIDE DEF f, calls
  <2>5. Effect("merge", frame[t], store, pods) => Effect("merge", f, store', pods')
    BY <1>2, <2>1, <2>3 DEF Effect, Merged, Stored
  <2> QED BY <1>1, <2>1, <2>2, <2>4, <2>5, AloneContinues DEF calls
<1>5. CASE GiveUp(t) /\ UNCHANGED pods
  BY <1>1, <1>5, AloneGivesUp
<1> QED BY <1>1, <1>3, <1>4, <1>5 DEF UpdateEach

LEMMA AlonePrunes == ASSUME Inv, AloneInv, NEW t \in Terminals, Prune(t) PROVE AloneInv'
<1> DEFINE updated == [p \in frame[t].left |-> WithProxy(frame[t].seen[p], Nothing)]
<1>1. /\ frame[t] \in Frame /\ todo[t] # <<>> /\ Head(todo[t]) = "prune" /\ At(t, "prune") /\ UpdateEach(t, updated)
      /\ "prune" \notin DOMAIN After
  BY CallerIs DEF Prune, At, After
<1>2. InOrder(todo[t]) => FALSE
  BY <1>1, InOrderTail
<1> HIDE DEF updated
<1>3. CASE Proceed(t, [frame[t] EXCEPT !.seen = NoPods])
  <2>1. [frame[t] EXCEPT !.seen = NoPods].command = frame[t].command
    BY <1>1 DEF Frame
  <2> QED BY <1>1, <1>3, <2>1, AlonePasses
<1>4. ASSUME NEW p \in frame[t].left, Continue(t, todo[t], [frame[t] EXCEPT !.left = @ \ {p}])
      PROVE  AloneInv'
  <2> DEFINE f == [frame[t] EXCEPT !.left = @ \ {p}]
             calls == todo[t]
  <2>1. f.command = frame[t].command
    BY <1>1 DEF Frame
  <2>2. Continue(t, calls, f)
    BY <1>4
  <2> HIDE DEF f, calls
  <2> QED BY <1>1, <1>2, <2>1, <2>2, AloneContinues
<1>5. CASE GiveUp(t)
  <2>1. End(t)
    BY <1>1, <1>5 DEF GiveUp
  <2> QED BY <1>1, <2>1, AloneEnds
<1> QED BY <1>1, <1>3, <1>4, <1>5 DEF UpdateEach

\* A restart writes a Deployment only as it is.
LEMMA AloneApplies == ASSUME Inv, AloneInv, NEW t \in Terminals, ApplyEnv(t) PROVE AloneInv'
<1>1. /\ frame[t] \in Frame /\ UNCHANGED store
      /\ todo[t] # <<>> /\ Head(todo[t]) = "applyEnv" /\ At(t, "applyEnv") /\ UpdateEach(t, frame[t].seen)
      /\ pods \in [Processes -> Deployment \cup {Nothing}]
  BY CallerIs DEF ApplyEnv, At, Inv, StateInv
<1>2. UNCHANGED pods
  BY <1>1 DEF UpdateEach, Fresh
<1>3. CASE Proceed(t, [frame[t] EXCEPT !.seen = NoPods])
  <2> DEFINE f == [frame[t] EXCEPT !.seen = NoPods]
  <2>1. f.command = frame[t].command /\ f.db = frame[t].db
    BY <1>1 DEF Frame
  <2>2. Proceed(t, f)
    BY <1>3
  <2> HIDE DEF f
  <2>3. Effect("applyEnv", frame[t], store, pods) => Effect("loadApp", f, store', pods')
    BY <1>1, <1>2, <2>1 DEF Effect, Merged, Stored
  <2>4. After["applyEnv"] = "loadApp"
    BY DEF After
  <2> QED BY <1>1, <2>1, <2>2, <2>3, <2>4, AloneProceeds
<1>4. ASSUME NEW p \in frame[t].left, Continue(t, todo[t], [frame[t] EXCEPT !.left = @ \ {p}])
      PROVE  AloneInv'
  <2> DEFINE f == [frame[t] EXCEPT !.left = @ \ {p}]
             calls == todo[t]
  <2>1. f.command = frame[t].command /\ f.db = frame[t].db
    BY <1>1 DEF Frame
  <2>2. Continue(t, calls, f)
    BY <1>4
  <2>3. Head(calls) = "applyEnv" /\ calls # <<>>
    BY <1>1
  <2> HIDE DEF f, calls
  <2>4. Effect("applyEnv", frame[t], store, pods) => Effect("applyEnv", f, store', pods')
    BY <1>1, <1>2, <2>1 DEF Effect, Merged, Stored
  <2> QED BY <1>1, <2>1, <2>2, <2>3, <2>4, AloneContinues DEF calls
<1>5. CASE GiveUp(t)
  BY <1>1, <1>2, <1>5, AloneGivesUp
<1> QED BY <1>1, <1>3, <1>4, <1>5 DEF UpdateEach

LEMMA AloneDeploys == ASSUME Inv, AloneInv, NEW t \in Terminals, CreateOrUpdateDeployment(t) PROVE AloneInv'
<1>1. At(t, "deploy") /\ (Proceed(t, frame[t]) \/ End(t)) /\ "deploy" \notin DOMAIN After
  BY DEF CreateOrUpdateDeployment, After
<1> QED BY <1>1, AlonePasses, AloneEnds DEF At

LEMMA AloneNext == Inv /\ AloneInv /\ [Next]_vars => AloneInv'
<1> SUFFICES ASSUME Inv, AloneInv, [Next]_vars PROVE AloneInv'
  OBVIOUS
<1>1. ASSUME NEW t \in Terminals, Step(t) PROVE AloneInv'
  BY <1>1, AloneAsks, AloneFails, AloneDrops, AloneReads, AloneMerges, AlonePrunes, AloneApplies, AloneDeploys
     DEF Step
<1>2. ASSUME UNCHANGED <<provider, users, store, pods, todo, frame>> PROVE AloneInv'
  BY <1>2 DEF AloneInv, AloneOnGcp
<1>3. ASSUME NEW r \in Databases, FormationEnds(r) PROVE AloneInv'
  <2>1. UNCHANGED <<provider, users, store, pods, todo>>
    BY <1>3 DEF FormationEnds
  <2>2. ASSUME NEW t \in Terminals
        PROVE  /\ frame'[t].command = frame[t].command /\ frame'[t].db = frame[t].db
               /\ frame'[t].left = frame[t].left
    <3>1. frame'[t] = frame[t] \/ frame'[t] = [frame[t] EXCEPT !.got = TRUE]
      BY <1>3 DEF FormationEnds
    <3>2. frame[t] \in Frame
      BY DEF Inv, CommandInv, Sound
    <3> QED BY <3>1, <3>2 DEF Frame
  <2>3. users \subseteq Terminals
    BY DEF Inv, StateInv
  <2> QED BY <2>1, <2>2, <2>3 DEF AloneInv, AloneOnGcp, Linking, Effect
<1>4. CASE UNCHANGED vars
  BY <1>2, <1>4 DEF vars, state
<1> QED BY <1>1, <1>3, <1>4, AloneBegins DEF Next

LEMMA AloneInvariant == Spec => [](Inv /\ AloneInv)
<1>1. Init => AloneInv
  <2> SUFFICES ASSUME Init PROVE AloneInv
    OBVIOUS
  <2>1. \A t \in Terminals : todo[t] = <<>> /\ frame[t] = Idle
    BY DEF Init
  <2>2. users \subseteq Terminals
    BY DEF Init
  <2> QED BY <2>1, <2>2, IdleIs DEF AloneInv, Linking
<1> QED BY <1>1, AloneNext, Invariant, PTL DEF Spec

------------------------------------------------------------------------------
(* Waiting for a resource                                                   *)

\* A command that makes or removes a resource asks for it and then waits.
Asked(calls, command) ==
  /\ command = "CREATE" => calls \in {<<"createStack", "await">>, <<"insert", "await">>, <<"await">>}
  /\ command = "DELETE" => calls \in {<<"deleteStack", "await">>, <<"delete", "await">>, <<"await">>}

\* A deletion that has ended and is still there has failed.
Removed == \A r \in Databases :
  formation[r] # Nothing /\ formation[r].event = "DELETE" /\ formation[r].done => formation[r].error

\* What a terminal that waits has seen: the resource made, if it is there
\* complete, or removed, if it is not there or was made again.
Met(g, f) ==
  /\ f.command = "CREATE" /\ g # Nothing /\ g.event = "CREATE" /\ g.done /\ ~ g.error => f.got
  /\ f.command = "DELETE" /\ (g = Nothing \/ g.event = "CREATE") => f.got

AskInv ==
  /\ Removed
  /\ \A t \in Terminals :
       /\ Asked(todo[t], frame[t].command)
       /\ At(t, "await") => Met(formation[frame[t].db], frame[t])

Asking == {"CREATE", "DELETE"}

\* Steps of commands that ask for no resource, and the end of any.
LEMMA AskKept ==
  ASSUME Inv, Inv', AskInv, NEW t \in Terminals, NEW calls, NEW f, Continue(t, calls, f), UNCHANGED formation,
         calls = <<>> \/ f.command \notin Asking
  PROVE  AskInv'
<1>1. /\ todo'[t] = calls /\ frame'[t] = (IF calls = <<>> THEN Idle ELSE f)
      /\ \A u \in Terminals \ {t} : todo'[u] = todo[u] /\ frame'[u] = frame[u]
  BY DEF Continue, Inv, CommandInv
<1>2. frame'[t].command \notin Asking
  BY <1>1 DEF Idle, Asking
<1>3. Asked(todo'[t], frame'[t].command) /\ Met(formation'[frame'[t].db], frame'[t])
  BY <1>2 DEF Asked, Met, Asking
<1>4. Removed'
  BY DEF AskInv, Removed
<1>5. ASSUME NEW u \in Terminals
      PROVE  /\ Asked(todo'[u], frame'[u].command)
             /\ At(u, "await")' => Met(formation'[frame'[u].db], frame'[u])
  BY <1>1, <1>3 DEF AskInv, At
<1> QED BY <1>4, <1>5 DEF AskInv

\* A command that makes a call of another kind asks for none.
LEMMA AsksNothing ==
  ASSUME Inv, AskInv, NEW t \in Terminals, NEW call, At(t, call),
         call \notin {"createStack", "insert", "deleteStack", "delete", "await"}
  PROVE  frame[t].command \notin Asking
<1>1. Head(todo[t]) = call /\ Asked(todo[t], frame[t].command)
  BY DEF At, AskInv
<1>2. \A c \in {"createStack", "insert", "deleteStack", "delete"} :
        Head(<<c, "await">>) = c /\ Head(<<"await">>) = "await"
  OBVIOUS
<1> QED BY <1>1, <1>2 DEF Asked, Asking

LEMMA UpdateAsks ==
  ASSUME Inv, Inv', AskInv, NEW t \in Terminals, NEW updated, UpdateEach(t, updated), todo[t] # <<>>,
         frame[t].command \notin Asking, UNCHANGED formation
  PROVE  AskInv'
<1>1. frame[t] \in Frame
  BY DEF Inv, CommandInv, Sound
<1>2. /\ [frame[t] EXCEPT !.seen = NoPods].command = frame[t].command
      /\ \A p \in frame[t].left : [frame[t] EXCEPT !.left = @ \ {p}].command = frame[t].command
      /\ [Idle EXCEPT !.command = "link", !.db = frame[t].db].command = "link"
  BY <1>1 DEF Frame, Idle
<1>3. PICK calls, f : Continue(t, calls, f) /\ (calls = <<>> \/ f.command \in {"link", frame[t].command})
  BY <1>2 DEF UpdateEach, Proceed, GiveUp, End
<1> QED BY <1>3, AskKept DEF Asking

LEMMA StepAsks ==
  ASSUME Inv, Inv', AskInv, NEW t \in Terminals, Step(t),
         ~ (CreateStack(t) \/ InsertDeployment(t) \/ DeleteStack(t) \/ DeleteDeployment(t))
  PROVE  AskInv'
<1>1. frame[t] \in Frame
  BY DEF Inv, CommandInv, Sound
<1>2. CASE AwaitDone(t) \/ AwaitFailed(t) \/ AwaitGivesUp(t) \/ Refuse(t)
  BY <1>2, AskKept DEF AwaitDone, AwaitFailed, AwaitGivesUp, Refuse, End, state
<1>3. CASE Merge(t) \/ Prune(t) \/ ApplyEnv(t)
  <2>1. frame[t].command \notin Asking /\ todo[t] # <<>>
    BY <1>3, AsksNothing DEF Merge, Prune, ApplyEnv, At
  <2> QED BY <1>3, <2>1, UpdateAsks DEF Merge, Prune, ApplyEnv
<1>4. CASE Describe(t) \/ PutSecret(t) \/ SaveLink(t) \/ SaveUnlink(t) \/ PutEnv(t)
            \/ CreateOrUpdateDeployment(t) \/ DropSecret(t)
  <2>1. frame[t].command \notin Asking /\ UNCHANGED formation
    BY <1>4, AsksNothing
       DEF Describe, PutSecret, SaveLink, SaveUnlink, PutEnv, CreateOrUpdateDeployment, DropSecret, state
  <2>2. PICK calls : Continue(t, calls, frame[t]) \/ Continue(t, <<>>, Idle)
    BY <1>4 DEF Describe, PutSecret, SaveLink, SaveUnlink, PutEnv, CreateOrUpdateDeployment, DropSecret,
                Proceed, End
  <2> QED BY <2>1, <2>2, AskKept
<1>5. CASE List(t) \/ LoadApp(t) \/ ReadEnv(t) \/ ReadFails(t) \/ PutDbEnv(t)
  <2>1. frame[t].command \notin Asking /\ UNCHANGED formation
    BY <1>5, AsksNothing DEF List, LoadApp, ReadEnv, ReadFails, PutDbEnv, state
  <2>2. /\ \A l \in SUBSET Processes : [frame[t] EXCEPT !.seen = pods, !.left = l].command = frame[t].command
        /\ [frame[t] EXCEPT !.copy = links].command = frame[t].command
        /\ [frame[t] EXCEPT !.env = store].command = frame[t].command
        /\ [frame[t] EXCEPT !.env = EmptyEnv].command = frame[t].command
    BY <1>1 DEF Frame
  <2>3. PICK calls, f : Continue(t, calls, f) /\ f.command = frame[t].command
    BY <1>5, <2>2 DEF List, LoadApp, ReadEnv, ReadFails, PutDbEnv, Proceed
  <2> QED BY <2>1, <2>3, AskKept
<1>6. CASE Fail(t)
  <2>1. UNCHANGED formation
    BY <1>6 DEF Fail, state
  <2>2. [Idle EXCEPT !.command = "link", !.db = frame[t].db].command = "link"
    BY DEF Idle
  <2>3. PICK calls, f : Continue(t, calls, f) /\ (calls = <<>> \/ f.command = "link")
    BY <1>6, <2>2 DEF Fail, GiveUp, End
  <2> QED BY <2>1, <2>3, AskKept DEF Asking
<1> QED BY <1>2, <1>3, <1>4, <1>5, <1>6 DEF Step

\* A request that is accepted begins a creation where there is no resource, or a
\* deletion where there is one.
LEMMA AcceptedAsks ==
  ASSUME Inv, Inv', AskInv, NEW t \in Terminals, NEW c \in Asking, frame[t].command = c,
         Tail(todo[t]) = <<"await">>, Ask(t, frame[t].db, c, TRUE),
         c = "CREATE" => formation[frame[t].db] = Nothing
  PROVE  AskInv'
<1> DEFINE r == frame[t].db
           g == [event |-> c, done |-> FALSE, error |-> FALSE]
<1>1. /\ formation' = [formation EXCEPT ![r] = g] /\ r \in Databases
      /\ formation \in [Databases -> Formation \cup {Nothing}]
      /\ todo'[t] = <<"await">> /\ frame'[t] = frame[t]
      /\ \A u \in Terminals \ {t} : todo'[u] = todo[u] /\ frame'[u] = frame[u]
  <2>1. r \in Databases /\ formation \in [Databases -> Formation \cup {Nothing}]
    BY DEF Inv, CommandInv, StateInv, Sound, Named, Asking
  <2>2. formation' = [formation EXCEPT ![r] = g] /\ Proceed(t, frame[t])
    BY DEF Ask
  <2>3. Continue(t, <<"await">>, frame[t]) /\ <<"await">> # <<>>
    BY <2>2 DEF Proceed
  <2> HIDE DEF g, r
  <2>4. /\ todo'[t] = <<"await">> /\ frame'[t] = frame[t]
        /\ \A u \in Terminals \ {t} : todo'[u] = todo[u] /\ frame'[u] = frame[u]
    BY <2>3 DEF Continue, Inv, CommandInv
  <2> QED BY <2>1, <2>2, <2>4
<1>2. g \in Formation /\ g # Nothing /\ g.event = c /\ g.done = FALSE
  <2>1. g \in Formation /\ g.event = c /\ g.done = FALSE
    BY DEF Formation, Asking
  <2> QED BY <2>1, FormationAssumption
<1>3. \A s \in Databases : formation'[s] = IF s = r THEN g ELSE formation[s]
  BY <1>1
<1> HIDE DEF g
<1>4. Removed'
  BY <1>2, <1>3 DEF AskInv, Removed
<1>5. Asked(todo'[t], frame'[t].command)
  BY <1>1 DEF Asked, Asking
<1>6. Met(formation'[r], frame'[t])
  BY <1>1, <1>2, <1>3 DEF Met, Asking
<1>7. ASSUME NEW u \in Terminals \ {t}, At(u, "await")
      PROVE  Met(formation'[frame[u].db], frame[u])
  <2>1. frame[u].command \in Asking /\ frame[u].db \in Databases /\ Met(formation[frame[u].db], frame[u])
    BY <1>7, CallerIs DEF Fits, Named, AskInv, Asking
  <2>2. CASE frame[u].db # r
    BY <1>3, <2>1, <2>2
  <2>3. CASE frame[u].db = r
    BY <1>2, <1>3, <2>1, <2>3 DEF Met, Asking
  <2> QED BY <2>2, <2>3
<1>8. ASSUME NEW u \in Terminals
      PROVE  /\ Asked(todo'[u], frame'[u].command)
             /\ At(u, "await")' => Met(formation'[frame'[u].db], frame'[u])
  BY <1>1, <1>5, <1>6, <1>7 DEF AskInv, At
<1> QED BY <1>4, <1>8 DEF AskInv

LEMMA FormationAsks ==
  ASSUME Inv, Inv', AskInv, NEW t \in Terminals,
         CreateStack(t) \/ InsertDeployment(t) \/ DeleteStack(t) \/ DeleteDeployment(t)
  PROVE  AskInv'
<1> DEFINE f == formation[frame[t].db]
<1>1. ASSUME NEW call \in {"createStack", "insert", "deleteStack", "delete"}, At(t, call),
             NEW c \in Asking, c = IF call \in {"createStack", "insert"} THEN "CREATE" ELSE "DELETE",
             NEW a \in BOOLEAN, Ask(t, frame[t].db, c, a), a /\ c = "CREATE" => f = Nothing
      PROVE  AskInv'
  <2>1. frame[t].command \in Asking /\ Head(todo[t]) = call /\ Asked(todo[t], frame[t].command)
    BY <1>1, CallerIs DEF Fits, At, AskInv, Asking
  <2>2. \A k \in {"createStack", "insert", "deleteStack", "delete"} :
          Head(<<k, "await">>) = k /\ Tail(<<k, "await">>) = <<"await">> /\ Head(<<"await">>) = "await"
    OBVIOUS
  <2>3. frame[t].command = c /\ Tail(todo[t]) = <<"await">>
    BY <1>1, <2>1, <2>2 DEF Asked, Asking
  <2>4. CASE a = TRUE
    BY <1>1, <2>3, <2>4, AcceptedAsks
  <2>5. CASE a = FALSE
    <3>1. Continue(t, <<>>, Idle) /\ UNCHANGED formation
      BY <1>1, <2>5 DEF Ask, End
    <3> QED BY <3>1, AskKept
  <2> QED BY <2>4, <2>5
<1>2. CASE CreateStack(t)
  <2>1. (f = Nothing) \in BOOLEAN
    OBVIOUS
  <2> QED BY <1>1, <1>2, <2>1 DEF CreateStack, Asking
<1>3. CASE InsertDeployment(t)
  <2>1. (f = Nothing) \in BOOLEAN
    OBVIOUS
  <2> QED BY <1>1, <1>3, <2>1 DEF InsertDeployment, Asking
<1>4. CASE DeleteStack(t)
  <2>1. (f # Nothing) \in BOOLEAN
    OBVIOUS
  <2> QED BY <1>1, <1>4, <2>1 DEF DeleteStack, Asking
<1>5. CASE DeleteDeployment(t)
  <2>1. (f # Nothing /\ f.done) \in BOOLEAN
    OBVIOUS
  <2> QED BY <1>1, <1>5, <2>1 DEF DeleteDeployment, Asking
<1> QED BY <1>2, <1>3, <1>4, <1>5

LEMMA BeginAsks ==
  ASSUME Inv, Inv', AskInv, NEW t \in Terminals, Command(t)
  PROVE  AskInv'
<1>1. ASSUME NEW calls, NEW f, Begin(t, f, calls), Asked(calls, f.command),
             calls = <<>> \/ Head(calls) # "await"
      PROVE  AskInv'
  <2>1. /\ todo'[t] = calls /\ frame'[t] = f /\ UNCHANGED formation
        /\ \A u \in Terminals \ {t} : todo'[u] = todo[u] /\ frame'[u] = frame[u]
    BY <1>1 DEF Begin, Inv, CommandInv, state
  <2>2. Removed'
    BY <2>1 DEF AskInv, Removed
  <2>3. ASSUME NEW u \in Terminals
        PROVE  /\ Asked(todo'[u], frame'[u].command)
               /\ At(u, "await")' => Met(formation'[frame'[u].db], frame'[u])
    BY <1>1, <2>1 DEF AskInv, At
  <2> QED BY <2>2, <2>3 DEF AskInv
<1>2. /\ Asked(CreateCalls, "CREATE") /\ Head(CreateCalls) # "await"
      /\ Asked(DeleteCalls, "DELETE") /\ Head(DeleteCalls) # "await"
  BY DEF Asked, CreateCalls, DeleteCalls, On
<1>3. ASSUME NEW r \in Databases, ResourceCreate(t, r) \/ ResourceDelete(t, r) PROVE AskInv'
  <2>1. [Idle EXCEPT !.command = "CREATE", !.db = r].command = "CREATE"
        /\ [Idle EXCEPT !.command = "DELETE", !.db = r].command = "DELETE"
    BY DEF Idle
  <2> QED BY <1>1, <1>2, <1>3, <2>1 DEF ResourceCreate, ResourceDelete
<1>4. ASSUME NEW calls, NEW f, Begin(t, f, calls), f.command \notin Asking,
             calls = <<>> \/ Head(calls) # "await"
      PROVE  AskInv'
  BY <1>1, <1>4 DEF Asked, Asking
<1>5. /\ Head(On(StackLinkCalls, DatabaseLinkCalls)) # "await"
      /\ Head(On(StackUnlinkCalls, DatabaseUnlinkCalls)) # "await"
      /\ Head(RestartCalls) # "await" /\ Head(EnvCalls) # "await" /\ Head(DeployCalls) # "await"
  <2>1. Head(StackLinkCalls) = "loadApp" /\ Head(StackUnlinkCalls) = "loadApp"
        /\ Head(DatabaseUnlinkCalls) = "describe"
    BY DEF StackLinkCalls, StackUnlinkCalls, DatabaseUnlinkCalls
  <2>2. Head(RestartCalls) = "restartList" /\ Head(EnvCalls) = "getEnv" /\ Head(DeployCalls) = "readEnv"
    BY DEF RestartCalls, EnvCalls, DeployCalls
  <2> QED BY <2>1, <2>2, LinksInOrder DEF On
<1>6. ASSUME NEW r \in Databases, ResourceLink(t, r) \/ ResourceUnlink(t, r) PROVE AskInv'
  <2>1. /\ [Idle EXCEPT !.command = "link", !.db = r].command \notin Asking
        /\ [Idle EXCEPT !.command = "unlink", !.db = r].command \notin Asking
    BY DEF Idle, Asking
  <2> QED BY <1>4, <1>5, <1>6, <2>1 DEF ResourceLink, ResourceUnlink
<1>7. CASE AppRestart(t)
  <2>1. [Idle EXCEPT !.command = "restart"].command \notin Asking
    BY DEF Idle, Asking
  <2> QED BY <1>4, <1>5, <1>7, <2>1 DEF AppRestart
<1>8. ASSUME NEW v \in Variables, EnvSet(t, v) \/ EnvUnset(t, v) PROVE AskInv'
  <2>1. /\ [Idle EXCEPT !.command = "set", !.variable = v].command \notin Asking
        /\ [Idle EXCEPT !.command = "unset", !.variable = v].command \notin Asking
    BY DEF Idle, Asking
  <2> QED BY <1>4, <1>5, <1>8, <2>1 DEF EnvSet, EnvUnset
<1>9. ASSUME NEW p \in Processes, Deploy(t, p) PROVE AskInv'
  <2>1. [Idle EXCEPT !.command = "deploy", !.process = p].command \notin Asking
    BY DEF Idle, Asking
  <2> QED BY <1>4, <1>5, <1>9, <2>1 DEF Deploy
<1> QED BY <1>3, <1>6, <1>7, <1>8, <1>9 DEF Command

LEMMA EndsAsks ==
  ASSUME Inv, Inv', AskInv, NEW r \in Databases, FormationEnds(r)
  PROVE  AskInv'
<1> DEFINE g == formation[r]
<1>1. g \in Formation /\ g # Nothing /\ g.done = FALSE /\ todo' = todo
      /\ \A s \in Databases \ {r} : formation'[s] = formation[s]
  <2>1. g \in Formation /\ g # Nothing /\ g.done = FALSE /\ todo' = todo
    BY DEF FormationEnds, Inv, StateInv, Formation
  <2> QED BY <2>1 DEF FormationEnds, Inv, StateInv
<1>2. ASSUME NEW t \in Terminals
      PROVE  /\ frame[t] \in Frame /\ frame'[t].command = frame[t].command /\ frame'[t].db = frame[t].db
             /\ frame[t].got => frame'[t].got
  <2>1. frame'[t] = frame[t] \/ frame'[t] = [frame[t] EXCEPT !.got = TRUE]
    BY DEF FormationEnds
  <2>2. frame[t] \in Frame
    BY DEF Inv, CommandInv, Sound
  <2> QED BY <2>1, <2>2 DEF Frame
<1>3. CASE formation'[r] = [g EXCEPT !.done = TRUE, !.error = TRUE]
  <2>1. formation'[r].event = g.event /\ formation'[r].error = TRUE /\ formation'[r] # Nothing
    <3>1. [g EXCEPT !.done = TRUE, !.error = TRUE] \in Formation
      BY <1>1 DEF Formation
    <3> QED BY <1>1, <1>3, <3>1, FormationAssumption DEF Formation
  <2>2. Removed'
    BY <1>1, <2>1 DEF AskInv, Removed
  <2>3. ASSUME NEW t \in Terminals, At(t, "await") PROVE Met(formation'[frame[t].db], frame'[t])
    <3>1. frame[t].db \in Databases /\ Met(formation[frame[t].db], frame[t])
      BY <2>3, CallerIs DEF Fits, Named, AskInv
    <3>2. CASE frame[t].db # r
      BY <1>1, <1>2, <3>1, <3>2 DEF Met
    <3>3. CASE frame[t].db = r
      BY <1>1, <1>2, <2>1, <3>1, <3>3 DEF Met
    <3> QED BY <3>2, <3>3
  <2> QED BY <1>1, <1>2, <2>2, <2>3 DEF AskInv, At
<1>4. CASE /\ formation'[r] = IF g.event = "DELETE" THEN Nothing ELSE [g EXCEPT !.done = TRUE]
           /\ \A t \in WaitFor(r, g.event) : frame'[t] = [frame[t] EXCEPT !.got = TRUE]
  <2>1. CASE g.event = "DELETE"
    <3>1. formation'[r] = Nothing
      BY <1>4, <2>1
    <3>2. Removed'
      BY <1>1, <3>1 DEF AskInv, Removed
    <3>3. ASSUME NEW t \in Terminals, At(t, "await") PROVE Met(formation'[frame[t].db], frame'[t])
      <4>1. frame[t].db \in Databases /\ Met(formation[frame[t].db], frame[t])
        BY <3>3, CallerIs DEF Fits, Named, AskInv
      <4>2. CASE frame[t].db # r
        BY <1>1, <1>2, <4>1, <4>2 DEF Met
      <4>3. CASE frame[t].db = r
        <5>1. frame[t].command = "DELETE" => frame'[t] = [frame[t] EXCEPT !.got = TRUE]
          BY <1>4, <2>1, <3>3, <4>3 DEF WaitFor
        <5>2. frame[t].command = "DELETE" => frame'[t].got
          BY <1>2, <5>1 DEF Frame
        <5> QED BY <1>2, <3>1, <4>3, <5>2 DEF Met
      <4> QED BY <4>2, <4>3
    <3> QED BY <1>1, <1>2, <3>2, <3>3 DEF AskInv, At
  <2>2. CASE g.event # "DELETE"
    <3>1. formation'[r].event = "CREATE" /\ formation'[r] # Nothing
      <4>1. [g EXCEPT !.done = TRUE] \in Formation
        BY <1>1 DEF Formation
      <4> QED BY <1>1, <1>4, <2>2, <4>1, FormationAssumption DEF Formation
    <3>2. Removed'
      BY <1>1, <3>1 DEF AskInv, Removed
    <3>3. ASSUME NEW t \in Terminals, At(t, "await") PROVE Met(formation'[frame[t].db], frame'[t])
      <4>1. frame[t].db \in Databases /\ Met(formation[frame[t].db], frame[t]) /\ g.event = "CREATE"
        BY <1>1, <2>2, <3>3, CallerIs DEF Fits, Named, AskInv, Formation
      <4>2. CASE frame[t].db # r
        BY <1>1, <1>2, <4>1, <4>2 DEF Met
      <4>3. CASE frame[t].db = r
        <5>1. frame[t].command = "CREATE" => frame'[t] = [frame[t] EXCEPT !.got = TRUE]
          BY <1>4, <3>3, <4>1, <4>3 DEF WaitFor
        <5>2. frame[t].command = "CREATE" => frame'[t].got
          BY <1>2, <5>1 DEF Frame
        <5>3. frame[t].command = "DELETE" => frame'[t].got
          BY <1>2, <4>1, <4>3 DEF Met
        <5> QED BY <1>2, <3>1, <4>3, <5>2, <5>3 DEF Met
      <4> QED BY <4>2, <4>3
    <3> QED BY <1>1, <1>2, <3>2, <3>3 DEF AskInv, At
  <2> QED BY <2>1, <2>2
<1>5. \/ formation'[r] = [g EXCEPT !.done = TRUE, !.error = TRUE]
      \/ /\ formation'[r] = IF g.event = "DELETE" THEN Nothing ELSE [g EXCEPT !.done = TRUE]
         /\ \A t \in WaitFor(r, g.event) : frame'[t] = [frame[t] EXCEPT !.got = TRUE]
  BY <1>1 DEF FormationEnds, Inv, StateInv, Formation, WaitFor
<1> QED BY <1>3, <1>4, <1>5

LEMMA AskInvariant == Spec => [](Inv /\ AskInv)
<1>1. Init => AskInv
  BY DEF Init, AskInv, Removed, Asked, Idle, At
<1>2. Inv /\ Inv' /\ AskInv /\ [Next]_vars => AskInv'
  <2> SUFFICES ASSUME Inv, Inv', AskInv, [Next]_vars PROVE AskInv'
    OBVIOUS
  <2>1. CASE UNCHANGED vars
    BY <2>1 DEF vars, state, AskInv, Removed, At
  <2> QED BY <2>1, StepAsks, FormationAsks, BeginAsks, EndsAsks DEF Next
<1> QED BY <1>1, <1>2, Invariant, PTL DEF Spec

------------------------------------------------------------------------------
(* What follows                                                             *)

\* A wait that ends with a status of success is right: the resource has been
\* made, or removed, as the command asked, since its request was accepted, even
\* if the status is that of what another terminal has had done with it.
THEOREM DoneIsRight == Spec => DoneAsAsked
<1>1. ASSUME Inv, AskInv, NEW t \in Terminals, AwaitDone(t)
      PROVE  frame[t].got
  <2> DEFINE f == formation[frame[t].db]
  <2>1. /\ f # Nothing /\ Status(frame[t].db) = Awaits(t).done /\ Met(f, frame[t])
        /\ frame[t].command \in Asking /\ frame[t].db \in Databases
    BY <1>1, CallerIs DEF AwaitDone, AskInv, Fits, Named, Asking
  <2>2. f.event \in {"CREATE", "DELETE"} /\ f.done \in BOOLEAN /\ f.error \in BOOLEAN
    BY <1>1, <2>1 DEF Inv, StateInv, Formation
  <2>3. f.event = "DELETE" /\ f.done => f.error
    BY <1>1, <2>1 DEF AskInv, Removed
  <2>4. CASE provider = "gcp"
    <3>1. DeploymentStatus(f) = "DONE"
      BY <2>1, <2>4 DEF Status, Awaits, On, DeploymentEnds
    <3>2. f.done /\ ~ f.error
      BY <2>2, <3>1 DEF DeploymentStatus, OperationStatus
    <3> QED BY <2>1, <2>2, <2>3, <3>2 DEF Met, Asking
  <2>5. CASE provider # "gcp"
    <3>1. StackStatus(f) = <<frame[t].command, "COMPLETE">>
      BY <2>1, <2>5 DEF Status, Awaits, On, StackEnds
    <3>2. f.done /\ ~ f.error /\ f.event = frame[t].command
      BY <2>1, <2>2, <3>1 DEF StackStatus, Asking
    <3> QED BY <2>1, <2>3, <3>2 DEF Met, Asking
  <2> QED BY <2>4, <2>5
<1>2. Inv /\ AskInv => [\A t \in Terminals : AwaitDone(t) => frame[t].got]_vars
  BY <1>1
<1> QED BY <1>2, AskInvariant, PTL DEF DoneAsAsked

\* The link of a user who is alone on gcp comes to be recorded only when the
\* stored environment names its database and every Deployment there is has the
\* proxy of it, whatever earlier links, unlinks and deploys have left half done.
THEOREM LinkIsComplete == Spec => LinkTakesEffect
<1>1. ASSUME Inv, AloneInv, NEW t \in Terminals, AloneOnGcp, SaveLink(t)
      PROVE  /\ store.db = frame[t].db
             /\ \A p \in Processes : pods[p] # Nothing => pods[p].proxy = frame[t].db
  <2>1. /\ todo[t] # <<>> /\ Head(todo[t]) = "saveLink" /\ t \in users
        /\ frame[t].command = "link"
    BY <1>1, CallerIs DEF SaveLink, At, AloneInv, Fits
  <2>2. Effect("saveLink", frame[t], store, pods)
    BY <1>1, <2>1 DEF AloneInv, Linking
  <2> QED BY <2>2 DEF Effect, Merged, Stored
<1>2. Inv /\ AloneInv /\ [Next]_vars =>
        [\A t \in Terminals :
           AloneOnGcp /\ SaveLink(t) =>
             /\ store.db = frame[t].db
             /\ \A p \in Processes : pods[p] # Nothing => pods[p].proxy = frame[t].db]_vars
  BY <1>1
<1> QED BY <1>2, AloneInvariant, PTL DEF Spec, LinkTakesEffect
==============================================================================
