------------------------- MODULE StackLifecycleProofs -------------------------
(***************************************************************************)
(* Proofs about StackLifecycle, for any number of stacks, terminals and    *)
(* commands.                                                               *)
(*                                                                         *)
(* ContextIsListed is not inductive: Save and Forget write a copy that the *)
(* command has read earlier, so the copies have to be consistent too.  Fit *)
(* says so of every command from the step at which it has read one.  For   *)
(* the kinds of the values it also says that a command that creates a key  *)
(* pair has a name for it, and that an interrupt that waits to be seen is  *)
(* not the third.                                                          *)
(*                                                                         *)
(* What a command does to its stack rests on what it knows of the cloud:   *)
(* that the deletion it polls goes on, that the deployment it has seen     *)
(* gone stays so.  AloneInv says so of every command no other one has      *)
(* crossed, and which steps an interrupt can have led to.                  *)
(***************************************************************************)
EXTENDS StackLifecycle, TLAPS

Listed(rc) == rc.context # None => rc.auths[rc.context] # None

Waits == {"waitCreate", "waitUndo", "waitMain"}

Fit(c) ==
  /\ c.at = "keypair" => c.key \in Keys
  /\ c.signal /\ c.at \in Waits => c.interrupts < 2
  /\ c.at \in {"save"} \cup DestroySteps => c.rc \in Apprc /\ Listed(c.rc)

Commands == {c \in Command : Fit(c)}

CliOK == cli \in [Terminals -> Commands \cup {None}]

\* Every variable but the commands.
Typed ==
  /\ cloud \in [Stacks -> Statuses]
  /\ full \subseteq Stacks
  /\ owned \in [Stacks -> SUBSET {"deployments", "records"}]
  /\ keypairs \subseteq Keys
  /\ config \in Apprc
  /\ files \subseteq Stacks
  /\ started \in 0..MaxCommands
  /\ ContextIsListed

StackInv == CliOK /\ Typed

AllSteps == AwsSteps \cup GcpSteps \cup RecordSteps \cup DestroySteps

------------------------------------------------------------------------------
(* The configuration *)

LEMMA SetAuthListed ==
  ASSUME NEW rc \in Apprc, NEW s \in Stacks, NEW b \in BOOLEAN
  PROVE  SetAuth(rc, s, [bucket |-> b]) \in Apprc /\ Listed(SetAuth(rc, s, [bucket |-> b]))
  BY StackAssumption DEF SetAuth, Apprc, Auth, Listed

LEMMA DeleteAuthListed ==
  ASSUME NEW rc \in Apprc, Listed(rc)
  PROVE  DeleteAuth(rc) \in Apprc /\ Listed(DeleteAuth(rc))
  BY DEF DeleteAuth, Apprc, Auth, Listed

LEMMA NoAuthsListed == NoAuths \in Apprc /\ Listed(NoAuths)
  BY DEF NoAuths, Apprc, Listed

------------------------------------------------------------------------------
(* The commands *)

\* A command goes on at another step with what it knows.
LEMMA GoToOK ==
  ASSUME CliOK, NEW t \in Terminals, cli[t] # None, NEW step \in AllSteps, GoTo(t, step),
         step \notin Waits \cup {"keypair"},
         step \in {"save"} \cup DestroySteps => cli[t].at \in {"save"} \cup DestroySteps
  PROVE  CliOK'
<1> DEFINE c == [cli[t] EXCEPT !.at = step]
<1>1. cli[t] \in Command /\ Fit(cli[t])
  BY DEF CliOK, Commands
<1>2. c \in Command /\ c.at = step /\ c.rc = cli[t].rc
  BY <1>1 DEF Command, AllSteps
<1>3. Fit(c)
  BY <1>1, <1>2 DEF Fit
<1> QED BY <1>2, <1>3 DEF CliOK, Commands, GoTo

LEMMA ExitOK ==
  ASSUME CliOK, NEW t \in Terminals, Exit(t)
  PROVE  CliOK'
  BY DEF CliOK, Exit

\* An interrupt is seen: it was one of the first two.
LEMMA HeedOK ==
  ASSUME CliOK, NEW t \in Terminals, cli[t] # None, NEW step \in AllSteps, Heed(t, step),
         cli[t].interrupts < 2 \/ (cli[t].signal /\ cli[t].at \in Waits),
         step \notin Waits \cup {"keypair"},
         step \in {"save"} \cup DestroySteps => cli[t].at \in {"save"} \cup DestroySteps
  PROVE  CliOK'
<1> DEFINE c == [cli[t] EXCEPT !.at = step, !.interrupts = @ + 1]
<1>1. cli[t] \in Command /\ Fit(cli[t])
  BY DEF CliOK, Commands
<1>2. cli[t].interrupts \in 0..1
  BY <1>1 DEF Command, Fit
<1>3. c = [[cli[t] EXCEPT !.at = step] EXCEPT !.interrupts = cli[t].interrupts + 1]
  BY <1>1 DEF Command
<1>4. cli[t].interrupts + 1 \in 0..2
  BY <1>2
<1>5. c \in Command /\ c.at = step /\ c.rc = cli[t].rc
  BY <1>1, <1>3, <1>4 DEF Command, AllSteps
<1>6. Fit(c)
  BY <1>1, <1>5 DEF Fit
<1> QED BY <1>5, <1>6 DEF CliOK, Commands, Heed

\* What an operation has come to is no matter of Fit.
LEMMA ToldFits ==
  ASSUME NEW c \in [Terminals -> Commands \cup {None}], NEW who, \A t \in who : c[t] \in Commands,
         NEW v \in {"running", "ok", "error", "rollbackFailed", "gone"}
  PROVE  Told(c, who, v) \in [Terminals -> Commands \cup {None}]
<1>1. ASSUME NEW d \in Commands PROVE [d EXCEPT !.op = v] \in Commands
  <2>1. [d EXCEPT !.op = v] \in Command
    BY DEF Commands, Command
  <2>2. Fit([d EXCEPT !.op = v])
    BY DEF Commands, Command, Fit
  <2> QED BY <2>1, <2>2 DEF Commands
<1> QED BY <1>1 DEF Told

LEMMA PollingFits ==
  ASSUME CliOK, NEW t \in Terminals, cli[t] # None, NEW s, NEW step \in AllSteps, step # "keypair",
         step \in {"save"} \cup DestroySteps => cli[t].at \in {"save"} \cup DestroySteps
  PROVE  /\ Polling(t, s, step) \in [Terminals -> Commands \cup {None}]
         /\ \A u \in Terminals : cli[u] # None => Polling(t, s, step)[u] \in Commands
<1>1. ASSUME NEW u \in Terminals, cli[u] # None
      PROVE  [cli[u] EXCEPT !.crossed = TRUE] \in Commands
  <2>1. cli[u] \in Command /\ Fit(cli[u])
    BY <1>1 DEF CliOK, Commands
  <2>2. [cli[u] EXCEPT !.crossed = TRUE] \in Command /\ Fit([cli[u] EXCEPT !.crossed = TRUE])
    BY <2>1 DEF Command, Fit
  <2> QED BY <2>2 DEF Commands
<1>2. [cli[t] EXCEPT !.at = step, !.op = "running", !.signal = FALSE] \in Commands
  <2>1. cli[t] \in Command /\ Fit(cli[t])
    BY DEF CliOK, Commands
  <2> DEFINE c == [cli[t] EXCEPT !.at = step, !.op = "running", !.signal = FALSE]
  <2>2. c \in Command /\ c.at = step /\ ~ c.signal /\ c.rc = cli[t].rc
    BY <2>1 DEF Command, AllSteps
  <2>3. Fit(c)
    BY <2>1, <2>2 DEF Fit
  <2> QED BY <2>2, <2>3 DEF Commands
<1> QED BY <1>1, <1>2 DEF Polling, CliOK

LEMMA StartOK ==
  ASSUME StackInv, NEW t \in Terminals, NEW s \in Stacks, NEW step \in AllSteps \ {"save"},
         NEW key \in Keys \cup {None}, NEW rc \in Apprc \cup {None}, NEW bucket \in BOOLEAN,
         step \in DestroySteps => rc \in Apprc /\ Listed(rc), step = "keypair" => key \in Keys,
         Start(t, s, step, key, rc, bucket)
  PROVE  CliOK' /\ started' \in 0..MaxCommands
<1> DEFINE c == [at |-> step, stack |-> s, key |-> key, rc |-> rc, bucket |-> bucket,
                 op |-> "running", interrupts |-> 0, signal |-> FALSE, crossed |-> FALSE]
<1>1. c \in Command
  BY DEF Command, AllSteps
<1>2. Fit(c)
  BY DEF Fit
<1>3. c \in Commands
  BY <1>1, <1>2 DEF Commands
<1>4. cli' = [cli EXCEPT ![t] = c]
  BY DEF Start
<1>5. CliOK'
  <2> HIDE DEF c
  <2> QED BY <1>3, <1>4 DEF StackInv, CliOK
<1>6. started' \in 0..MaxCommands
  BY StackAssumption DEF Start, StackInv, Typed
<1> QED BY <1>5, <1>6

LEMMA CommandStack ==
  ASSUME CliOK, NEW t \in Terminals, cli[t] # None
  PROVE  /\ cli[t].stack \in Stacks /\ (cli[t].at = "keypair" => cli[t].key \in Keys)
         /\ cli[t].bucket \in BOOLEAN /\ cli[t].interrupts \in 0..2
         /\ cli[t].at \in {"save"} \cup DestroySteps => cli[t].rc \in Apprc /\ Listed(cli[t].rc)
  BY DEF CliOK, Commands, Command, Fit

------------------------------------------------------------------------------
(* The steps *)

LEMMA BeginOK == ASSUME StackInv, NEW t \in Terminals, Begin(t) PROVE StackInv'
<1>0. config \in Apprc /\ Listed(config) /\ None \in Keys \cup {None} /\ None \in Apprc \cup {None}
  BY DEF StackInv, Typed, ContextIsListed, Listed
<1>1. ASSUME NEW s \in AwsStacks, NEW k \in Keys, AwsInit(t, s, k) PROVE StackInv'
  <2>1. "keypair" \in AllSteps \ {"save"} /\ "keypair" \notin DestroySteps /\ s \in Stacks
    BY DEF AllSteps, AwsSteps, DestroySteps, Stacks
  <2>2. CliOK' /\ started' \in 0..MaxCommands
    BY <1>0, <1>1, <2>1, StartOK DEF AwsInit
  <2> QED BY <1>1, <2>1, <2>2 DEF AwsInit, saveCredential, StackInv, Typed, ContextIsListed
<1>2. ASSUME NEW s \in GcpStacks, GcpInit(t, s) PROVE StackInv'
  <2>1. /\ {"insert", "consent"} \subseteq AllSteps \ {"save"}
        /\ {"insert", "consent"} \cap DestroySteps = {} /\ s \in Stacks
    BY DEF AllSteps, GcpSteps, DestroySteps, Stacks
  <2>2. CliOK' /\ started' \in 0..MaxCommands
    BY <1>0, <1>2, <2>1, StartOK DEF GcpInit
  <2> QED BY <1>2, <2>1, <2>2 DEF GcpInit, saveCredential, StackInv, Typed, ContextIsListed
<1>3. ASSUME NEW s \in Stacks, LocalInit(t, s) \/ Login(t, s) PROVE StackInv'
  <2>1. "load" \in AllSteps \ {"save"} /\ "load" \notin DestroySteps
    BY DEF AllSteps, RecordSteps, DestroySteps
  <2>2. CliOK' /\ started' \in 0..MaxCommands
    BY <1>0, <1>3, <2>1, StartOK DEF LocalInit, Login
  <2> QED BY <1>3, <2>2 DEF LocalInit, Login, StackInv, Typed, ContextIsListed
<1>4. ASSUME NEW s \in Stacks, Destroy(t, s) PROVE StackInv'
  <2>1. "empty" \in AllSteps \ {"save"}
    BY DEF AllSteps, DestroySteps
  <2>2. GetAuth(config, s).bucket \in BOOLEAN
    BY <1>0, <1>4 DEF Destroy, loadAuthForStack, GetAuth, Apprc, Auth
  <2>3. CliOK' /\ started' \in 0..MaxCommands
    BY <1>0, <1>4, <2>1, <2>2, StartOK DEF Destroy
  <2> QED BY <1>4, <2>3 DEF Destroy, StackInv, Typed, ContextIsListed
<1> QED BY <1>1, <1>2, <1>3, <1>4 DEF Begin, Stacks

LEMMA CreationOK ==
  ASSUME StackInv, NEW t \in Terminals,
         \/ CreateKeyPair(t) \/ CreateStack(t) \/ WaitForCompletion(t) \/ Consent(t)
         \/ ServiceAccount(t) \/ Insert(t) \/ WaitCreate(t) \/ WaitUndo(t) \/ WaitCancel(t) \/ GetHost(t)
  PROVE  StackInv'
<1> USE DEF AllSteps, AwsSteps, GcpSteps, RecordSteps, DestroySteps, Waits
<1>1. CliOK /\ Typed
  BY DEF StackInv
<1>2. CASE CreateKeyPair(t)
  <2>1. CliOK'
    BY <1>1, <1>2, GoToOK, ExitOK DEF CreateKeyPair, At
  <2>2. cli[t].at = "keypair" /\ cli[t] # None
    BY <1>2 DEF CreateKeyPair, At
  <2> QED BY <1>1, <1>2, <2>1, <2>2, CommandStack DEF CreateKeyPair, StackInv, Typed, ContextIsListed
<1>3. CASE CreateStack(t) \/ Insert(t)
  <2>1. CASE Exit(t)
    BY <1>1, <1>3, <2>1, ExitOK DEF CreateStack, Insert, StackInv, Typed, ContextIsListed, Statuses
  <2>2. ASSUME NEW step \in {"watch", "waitCreate"}, cli' = Polling(t, cli[t].stack, step) PROVE StackInv'
    <3>1. CliOK'
      BY <1>1, <1>3, <2>2, PollingFits DEF CliOK, CreateStack, Insert, At
    <3> QED BY <1>1, <1>3, <3>1 DEF CreateStack, Insert, StackInv, Typed, ContextIsListed, Statuses
  <2> QED BY <1>3, <2>1, <2>2 DEF CreateStack, Insert
<1>4. CASE WaitForCompletion(t) \/ Consent(t) \/ WaitCancel(t) \/ GetHost(t)
  <2>1. CliOK'
    BY <1>1, <1>4, GoToOK, ExitOK DEF WaitForCompletion, Consent, WaitCancel, GetHost, At
  <2> QED BY <1>1, <1>4, <2>1
          DEF WaitForCompletion, Consent, WaitCancel, GetHost, StackInv, Typed, ContextIsListed
<1>5. CASE ServiceAccount(t)
  <2>1. CliOK'
    BY <1>1, <1>5, GoToOK DEF ServiceAccount, At
  <2>2. cli[t].stack \in Stacks
    BY <1>1, <1>5, CommandStack DEF ServiceAccount, At
  <2> QED BY <1>1, <1>5, <2>1, <2>2 DEF ServiceAccount, saveCredential, StackInv, Typed, ContextIsListed
<1>6. CASE WaitCreate(t)
  <2>1. CliOK'
    BY <1>1, <1>6, GoToOK, HeedOK DEF WaitCreate, At
  <2> QED BY <1>1, <1>6, <2>1 DEF WaitCreate, StackInv, Typed, ContextIsListed
<1>7. CASE WaitUndo(t)
  <2>1. CliOK'
    BY <1>1, <1>7, GoToOK, HeedOK, ExitOK DEF WaitUndo, At
  <2> QED BY <1>1, <1>7, <2>1 DEF WaitUndo, StackInv, Typed, ContextIsListed
<1> QED BY <1>2, <1>3, <1>4, <1>5, <1>6, <1>7

LEMMA DeletionOK ==
  ASSUME StackInv, NEW t \in Terminals,
         \E step \in {"waitUndo", "waitCancel", "waitMain"} :
           /\ cli[t] # None /\ DeleteDeployment(t, step)
           /\ step \in DestroySteps => cli[t].at \in {"save"} \cup DestroySteps
  PROVE  StackInv'
<1> USE DEF AllSteps, AwsSteps, GcpSteps, DestroySteps
<1>1. CliOK /\ Typed
  BY DEF StackInv
<1>2. PICK step \in {"waitUndo", "waitCancel", "waitMain"} :
           /\ cli[t] # None /\ DeleteDeployment(t, step)
           /\ step \in DestroySteps => cli[t].at \in {"save"} \cup DestroySteps
  OBVIOUS
<1>3. CASE Exit(t) /\ UNCHANGED cloud
  BY <1>1, <1>2, <1>3, ExitOK DEF DeleteDeployment, StackInv, Typed, ContextIsListed
<1> DEFINE s == cli[t].stack
           cancelled == {u \in Creators(s) : cli[u].op = "running"}
<1>4. CASE /\ cloud' = [cloud EXCEPT ![s] = "deleting"]
           /\ cli' = Told(Polling(t, s, step), cancelled, "error")
  <2>1. Polling(t, s, step) \in [Terminals -> Commands \cup {None}]
    BY <1>1, <1>2, PollingFits
  <2>2. \A u \in cancelled : Polling(t, s, step)[u] \in Commands
    BY <1>1, <1>2, PollingFits DEF Creators, Aims
  <2>3. CliOK'
    BY <1>4, <2>1, <2>2, ToldFits DEF CliOK
  <2> QED BY <1>1, <1>2, <1>4, <2>3 DEF DeleteDeployment, StackInv, Typed, ContextIsListed, Statuses
<1> QED BY <1>2, <1>3, <1>4 DEF DeleteDeployment

LEMMA DestructionOK ==
  ASSUME StackInv, NEW t \in Terminals,
         \/ EmptyBucket(t) \/ DestroyRack(t) \/ WaitMain(t) \/ ListOwned(t) \/ DeleteOwned(t)
         \/ ResetDatabase(t) \/ RemoveDir(t)
  PROVE  StackInv'
<1> USE DEF AllSteps, DestroySteps, Waits
<1>1. CliOK /\ Typed
  BY DEF StackInv
<1>2. CASE EmptyBucket(t)
  <2>1. CliOK'
    BY <1>1, <1>2, GoToOK DEF EmptyBucket, At
  <2> QED BY <1>1, <1>2, <2>1 DEF EmptyBucket, StackInv, Typed, ContextIsListed
<1>3. CASE DestroyRack(t)
  <2> DEFINE s == cli[t].stack
  <2>1. CASE GoTo(t, "forget") /\ UNCHANGED cloud
    <3>1. CliOK'
      BY <1>1, <1>3, <2>1, GoToOK DEF DestroyRack, At
    <3> QED BY <1>1, <1>3, <2>1, <3>1 DEF DestroyRack, StackInv, Typed, ContextIsListed
  <2>2. CASE /\ cloud' = [cloud EXCEPT ![s] = "deleting"]
             /\ cli' = Told(Polling(t, s, "destroyRack"), Creators(s), "running")
    <3>1. /\ Polling(t, s, "destroyRack") \in [Terminals -> Commands \cup {None}]
          /\ \A u \in Creators(s) : Polling(t, s, "destroyRack")[u] \in Commands
      BY <1>1, <1>3, PollingFits DEF Creators, Aims, DestroyRack, At
    <3>2. CliOK'
      BY <2>2, <3>1, ToldFits DEF CliOK
    <3> QED BY <1>1, <1>3, <2>2, <3>2 DEF DestroyRack, StackInv, Typed, ContextIsListed, Statuses
  <2> QED BY <1>3, <2>1, <2>2 DEF DestroyRack
<1>4. CASE WaitMain(t)
  <2>1. CliOK'
    BY <1>1, <1>4, GoToOK, HeedOK, ExitOK DEF WaitMain, At
  <2> QED BY <1>1, <1>4, <2>1 DEF WaitMain, StackInv, Typed, ContextIsListed
<1>5. CASE ListOwned(t)
  <2>1. CliOK'
    BY <1>1, <1>5, GoToOK DEF ListOwned, At
  <2> QED BY <1>1, <1>5, <2>1 DEF ListOwned, StackInv, Typed, ContextIsListed
<1>6. CASE DeleteOwned(t)
  <2>1. CliOK'
    BY <1>1, <1>6, GoToOK, HeedOK DEF DeleteOwned, At
  <2> QED BY <1>1, <1>6, <2>1 DEF DeleteOwned, StackInv, Typed, ContextIsListed
<1>7. CASE ResetDatabase(t)
  <2>1. CliOK'
    BY <1>1, <1>7, GoToOK DEF ResetDatabase, At
  <2> QED BY <1>1, <1>7, <2>1 DEF ResetDatabase, StackInv, Typed, ContextIsListed
<1>8. CASE RemoveDir(t)
  <2>1. CliOK'
    BY <1>1, <1>8, ExitOK DEF RemoveDir
  <2> QED BY <1>1, <1>8, <2>1 DEF RemoveDir, StackInv, Typed, ContextIsListed
<1> QED BY <1>2, <1>3, <1>4, <1>5, <1>6, <1>7, <1>8

\* The three steps that read or write the configuration.
LEMMA RecordOK ==
  ASSUME StackInv, NEW t \in Terminals, LoadApprc(t) \/ Save(t) \/ Forget(t)
  PROVE  StackInv'
<1>1. CliOK /\ Typed
  BY DEF StackInv
<1>2. CASE LoadApprc(t)
  <2>1. PICK rc \in {config, NoAuths} : cli' = [cli EXCEPT ![t].at = "save", ![t].rc = rc]
    BY <1>2 DEF LoadApprc
  <2>2. cli[t] \in Command /\ rc \in Apprc /\ Listed(rc)
    BY <1>1, <1>2, <2>1, NoAuthsListed
       DEF LoadApprc, At, CliOK, Commands, StackInv, Typed, ContextIsListed, Listed
  <2> DEFINE c == [cli[t] EXCEPT !.at = "save", !.rc = rc]
  <2>3. c \in Command /\ c.at = "save" /\ c.rc = rc
    BY <2>2 DEF Command, RecordSteps
  <2>4. c \in Commands
    BY <2>2, <2>3 DEF Commands, Fit, Waits
  <2>5. cli' = [cli EXCEPT ![t] = c]
    BY <2>1
  <2> HIDE DEF c
  <2>6. CliOK'
    BY <1>1, <2>4, <2>5 DEF CliOK
  <2> QED BY <1>1, <1>2, <2>6 DEF LoadApprc, StackInv, Typed, ContextIsListed
<1>3. CASE Save(t)
  <2>1. /\ cli[t].rc \in Apprc /\ cli[t].stack \in Stacks /\ cli[t].bucket \in BOOLEAN
    BY <1>1, <1>3, CommandStack DEF Save, At
  <2>2. config' \in Apprc /\ Listed(config')
    BY <1>3, <2>1, SetAuthListed DEF Save
  <2>3. CliOK'
    BY <1>1, <1>3, ExitOK DEF Save
  <2> QED BY <1>1, <1>3, <2>2, <2>3 DEF Save, StackInv, Typed, ContextIsListed, Listed
<1>4. CASE Forget(t)
  <2>1. cli[t].rc \in Apprc /\ Listed(cli[t].rc)
    BY <1>1, <1>4, CommandStack DEF Forget, At, DestroySteps
  <2>2. config' \in Apprc /\ Listed(config')
    BY <1>4, <2>1, DeleteAuthListed DEF Forget
  <2>3. CliOK'
    BY <1>1, <1>4, GoToOK DEF Forget, At, AllSteps, DestroySteps, Waits
  <2> QED BY <1>1, <1>4, <2>2, <2>3 DEF Forget, StackInv, Typed, ContextIsListed, Listed
<1> QED BY <1>2, <1>3, <1>4

LEMMA AroundOK ==
  ASSUME StackInv, NEW t \in Terminals, Die(t) \/ Interrupt(t)
  PROVE  StackInv'
<1>1. CliOK /\ Typed
  BY DEF StackInv
<1>2. CASE Die(t)
  <2>1. CliOK'
    BY <1>1, <1>2, ExitOK DEF Die
  <2> QED BY <1>1, <1>2, <2>1 DEF Die, StackInv, Typed, ContextIsListed
<1>3. CASE Interrupt(t)
  <2> DEFINE c == [cli[t] EXCEPT !.signal = TRUE]
  <2>1. cli[t] \in Command /\ Fit(cli[t]) /\ cli[t].interrupts < 2
    BY <1>1, <1>3 DEF Interrupt, CliOK, Commands
  <2>2. c \in Command /\ Fit(c)
    BY <2>1 DEF Command, Fit
  <2>3. CliOK'
    BY <1>1, <1>3, <2>2 DEF Interrupt, CliOK, Commands
  <2> QED BY <1>1, <1>3, <2>3 DEF Interrupt, StackInv, Typed, ContextIsListed
<1> QED BY <1>2, <1>3

LEMMA CloudOK ==
  ASSUME StackInv, NEW s \in Stacks, CreationEnds(s) \/ DeletionEnds(s) \/ ServerWorks(s)
  PROVE  StackInv'
<1>1. CliOK /\ Typed
  BY DEF StackInv
<1>2. /\ cli \in [Terminals -> Commands \cup {None}]
      /\ \A u \in Creators(s) \cup Deleters(s) : cli[u] \in Commands
  BY <1>1 DEF CliOK, Creators, Deleters, Aims
<1>3. CASE CreationEnds(s)
  <2>1. PICK v \in {"ok", "error", "rollbackFailed"} : cli' = Told(cli, Creators(s), v)
    BY <1>3 DEF CreationEnds
  <2>2. CliOK'
    BY <1>2, <2>1, ToldFits DEF CliOK
  <2> QED BY <1>1, <1>3, <2>2 DEF CreationEnds, StackInv, Typed, ContextIsListed, Statuses
<1>4. CASE DeletionEnds(s)
  <2> DEFINE watching == IF s \in AwsStacks THEN Creators(s) ELSE {}
  <2>1. CASE s \in full
    <3>1. cli' = Told(cli, Deleters(s) \cup watching, "error")
      BY <1>4, <2>1 DEF DeletionEnds
    <3>2. CliOK'
      BY <1>2, <3>1, ToldFits DEF CliOK
    <3> QED BY <1>1, <1>4, <2>1, <3>2 DEF DeletionEnds, StackInv, Typed, ContextIsListed, Statuses
  <2>2. CASE s \notin full
    <3> DEFINE told == Told(cli, Deleters(s), "ok")
    <3>1. cli' = Told(told, watching, "gone")
      BY <1>4, <2>2 DEF DeletionEnds
    <3>2. told \in [Terminals -> Commands \cup {None}]
      BY <1>2, ToldFits
    <3>3. \A u \in watching : told[u] \in Commands
      <4>1. \A u \in watching : u \notin Deleters(s) /\ cli[u] \in Commands /\ u \in Terminals
        BY <1>2 DEF Creators, Deleters, Aims
      <4> QED BY <4>1 DEF Told
    <3>4. CliOK'
      <4> HIDE DEF told
      <4> QED BY <3>1, <3>2, <3>3, ToldFits DEF CliOK
    <3> QED BY <1>1, <1>4, <2>2, <3>4 DEF DeletionEnds, StackInv, Typed, ContextIsListed, Statuses
  <2> QED BY <2>1, <2>2
<1>5. CASE ServerWorks(s)
  <2>1. CliOK'
    BY <1>1, <1>5 DEF ServerWorks, CliOK
  <2> QED BY <1>1, <1>5, <2>1 DEF ServerWorks, StackInv, Typed, ContextIsListed
<1> QED BY <1>3, <1>4, <1>5

------------------------------------------------------------------------------
LEMMA NextOK == StackInv /\ [Next]_vars => StackInv'
<1> SUFFICES ASSUME StackInv, [Next]_vars PROVE StackInv'
  OBVIOUS
<1>1. CASE UNCHANGED vars
  BY <1>1 DEF vars, StackInv, Typed, CliOK, ContextIsListed
<1>2. ASSUME NEW t \in Terminals, Undo(t) \/ Cancel(t) \/ DeleteMain(t) PROVE StackInv'
  BY <1>2, DeletionOK DEF Undo, Cancel, DeleteMain, At, DestroySteps
<1>3. ASSUME NEW t \in Terminals, Step(t) PROVE StackInv'
  BY <1>2, <1>3, CreationOK, DestructionOK, RecordOK DEF Step
<1> QED BY <1>1, <1>3, BeginOK, CreationOK, AroundOK, CloudOK DEF Next

LEMMA StackInvariant == Spec => []StackInv
<1>1. Init => StackInv
  BY NoAuthsListed, StackAssumption DEF Init, StackInv, Typed, CliOK, ContextIsListed, NoAuths, Statuses
<1> QED BY <1>1, NextOK, PTL DEF Spec

\* Stacks, files and commands are always of the right kind: no interrupt is
\* counted beyond the second, and every configuration read or written is one.
THEOREM TypeCorrect == Spec => []TypeOK
<1>1. StackInv => TypeOK
  BY DEF StackInv, CliOK, Typed, TypeOK, Commands
<1> QED BY <1>1, StackInvariant, PTL

\* Whichever commands overlap, die or are interrupted, and whatever old copies of
\* the configuration they write, its context is a stack it lists.
THEOREM ContextAlwaysListed == Spec => []ContextIsListed
<1>1. StackInv => ContextIsListed
  BY DEF StackInv, Typed
<1> QED BY <1>1, StackInvariant, PTL

------------------------------------------------------------------------------
(* What a command that is alone with its stack knows of it                  *)

\* The steps of init that no interrupt has reached.
Uninterrupted == AwsSteps \cup {"consent", "account", "insert", "waitCreate", "cancel", "waitCancel"}

Leaving == {"list", "deleteOwned", "reset", "forget"}

\* Of init: an interrupt leads to the teardown, and past it only with a second.
Course(c) ==
  /\ c.at \in Uninterrupted => c.interrupts = 0
  /\ c.at \in {"undo", "waitUndo"} => c.interrupts # 0
  /\ c.at \in RecordSteps => c.interrupts # 1 \/ c.crossed
  /\ c.at = "destroyRack" => c.stack \in AwsStacks

\* A deletion it polls goes on, or is done; a stack it has seen gone stays so,
\* and nobody works for it.
Knows(cl, own, c) ==
  LET s == c.stack IN
  ~ c.crossed =>
    /\ c.at \in {"waitUndo", "waitMain"} =>
         (c.op = "running" => cl[s] = "deleting") /\ (c.op = "ok" => cl[s] = "absent")
    /\ c.at = "getHost" /\ c.interrupts = 1 => cl[s] = "absent"
    /\ c.at \in Leaving /\ c.interrupts = 0 /\ s \in GcpStacks =>
         /\ cl[s] = "absent"
         /\ c.at \in {"reset", "forget"} => "deployments" \notin own[s]
         /\ c.at = "forget" => "records" \notin own[s]

AloneInv ==
  /\ \A t \in Terminals : cli[t] # None => Course(cli[t]) /\ Knows(cloud, owned, cli[t])
  /\ \A s \in Stacks \ GcpStacks : owned[s] = {}

\* What c knows it knows, for the cloud leaves alone what it rests on.
LEMMA KnowsKept ==
  ASSUME NEW cl, NEW own, NEW cl2, NEW own2, NEW c, Knows(cl, own, c),
         cl[c.stack] \in {"deleting", "absent"} => cl2[c.stack] = cl[c.stack],
         cl[c.stack] = "absent" => own2[c.stack] \subseteq own[c.stack]
  PROVE  Knows(cl2, own2, c)
  BY DEF Knows

\* Terminal t comes to run c, or nothing.
LEMMA AloneBecomes ==
  ASSUME StackInv, AloneInv, NEW t \in Terminals, NEW c, cli' = [cli EXCEPT ![t] = c],
         c # None => Course(c) /\ Knows(cloud', owned', c), UNCHANGED cloud,
         \A s \in Stacks : owned'[s] \subseteq owned[s]
  PROVE  AloneInv'
<1>1. ASSUME NEW u \in Terminals, cli'[u] # None PROVE Course(cli'[u]) /\ Knows(cloud', owned', cli'[u])
  <2>1. CASE u = t
    BY <1>1, <2>1 DEF StackInv, CliOK
  <2>2. CASE u # t
    <3>1. cli'[u] = cli[u] /\ Course(cli[u]) /\ Knows(cloud, owned, cli[u]) /\ cli[u].stack \in Stacks
      BY <1>1, <2>2, CommandStack DEF StackInv, CliOK, AloneInv
    <3> QED BY <3>1, KnowsKept
  <2> QED BY <2>1, <2>2
<1>2. \A s \in Stacks \ GcpStacks : owned'[s] = {}
  BY DEF AloneInv
<1> QED BY <1>1, <1>2 DEF AloneInv, Course, Knows

LEMMA Running ==
  ASSUME StackInv, AloneInv, NEW t \in Terminals, cli[t] # None
  PROVE  cli[t] \in Command /\ Course(cli[t]) /\ Knows(cloud, owned, cli[t]) /\ Fit(cli[t])
  BY DEF StackInv, CliOK, Commands, AloneInv

LEMMA AloneExit ==
  ASSUME StackInv, AloneInv, NEW t \in Terminals, Exit(t), UNCHANGED <<cloud, owned>>
  PROVE  AloneInv'
  BY AloneBecomes DEF Exit

\* A command goes on with what it knows, at a step that asks no more of it.
LEMMA AloneGoTo ==
  ASSUME StackInv, AloneInv, NEW t \in Terminals, cli[t] # None, NEW step \in AllSteps, GoTo(t, step),
         UNCHANGED cloud, \A s \in Stacks : owned'[s] \subseteq owned[s],
         step \in Uninterrupted => cli[t].interrupts = 0,
         step \in {"undo", "waitUndo"} => cli[t].interrupts # 0,
         step \in RecordSteps => cli[t].interrupts # 1 \/ cli[t].crossed,
         step = "destroyRack" => cli[t].stack \in AwsStacks,
         step \notin {"waitUndo", "waitMain"},
         step = "getHost" /\ cli[t].interrupts = 1 /\ ~ cli[t].crossed => cloud[cli[t].stack] = "absent",
         step \in Leaving /\ cli[t].interrupts = 0 /\ ~ cli[t].crossed /\ cli[t].stack \in GcpStacks =>
           /\ cloud[cli[t].stack] = "absent"
           /\ step \in {"reset", "forget"} => "deployments" \notin owned'[cli[t].stack]
           /\ step = "forget" => "records" \notin owned'[cli[t].stack]
  PROVE  AloneInv'
<1> DEFINE c == [cli[t] EXCEPT !.at = step]
<1>1. cli' = [cli EXCEPT ![t] = c] /\ cli[t] \in Command
  BY Running DEF GoTo
<1>2. /\ c.at = step /\ c.stack = cli[t].stack /\ c.interrupts = cli[t].interrupts
      /\ c.crossed = cli[t].crossed
  BY <1>1 DEF Command
<1> HIDE DEF c
<1>3. Course(c)
  BY <1>2 DEF Course
<1>4. Knows(cloud', owned', c)
  BY <1>2 DEF Knows
<1> QED BY <1>1, <1>3, <1>4, AloneBecomes

\* It heeds an interrupt.
LEMMA AloneHeed ==
  ASSUME StackInv, AloneInv, NEW t \in Terminals, cli[t] # None, NEW step \in {"undo", "getHost", "list", "reset"},
         Heed(t, step), UNCHANGED <<cloud, owned>>,
         step = "getHost" => cli[t].interrupts # 0
  PROVE  AloneInv'
<1> DEFINE c == [cli[t] EXCEPT !.at = step, !.interrupts = @ + 1]
<1>1. cli' = [cli EXCEPT ![t] = c] /\ cli[t] \in Command
  BY Running DEF Heed, StackInv, CliOK
<1>2. cli[t].interrupts \in 0..2
  BY <1>1 DEF Command
<1>3. c = [[cli[t] EXCEPT !.at = step] EXCEPT !.interrupts = cli[t].interrupts + 1]
  BY <1>1 DEF Command
<1>4. c.at = step /\ c.stack = cli[t].stack /\ c.interrupts = cli[t].interrupts + 1 /\ c.interrupts # 0
  BY <1>1, <1>2, <1>3 DEF Command
<1> HIDE DEF c
<1>5. Course(c)
  BY <1>2, <1>4 DEF Course, Uninterrupted, AwsSteps, RecordSteps
<1>6. Knows(cloud', owned', c)
  BY <1>2, <1>4 DEF Knows
<1> QED BY <1>1, <1>5, <1>6, AloneBecomes

LEMMA AloneBegin == ASSUME StackInv, AloneInv, NEW t \in Terminals, Begin(t) PROVE AloneInv'
<1>1. ASSUME NEW s, NEW key, NEW rc, NEW bucket, NEW step \in {"keypair", "insert", "consent", "load", "empty"},
             Start(t, s, step, key, rc, bucket), UNCHANGED <<cloud, owned>>
      PROVE  AloneInv'
  <2> DEFINE c == [at |-> step, stack |-> s, key |-> key, rc |-> rc, bucket |-> bucket,
                   op |-> "running", interrupts |-> 0, signal |-> FALSE, crossed |-> FALSE]
  <2>1. cli' = [cli EXCEPT ![t] = c]
    BY <1>1 DEF Start
  <2>2. Course(c) /\ Knows(cloud', owned', c)
    BY DEF Course, Knows, Leaving
  <2> HIDE DEF c
  <2> QED BY <1>1, <2>1, <2>2, AloneBecomes
<1>2. ASSUME NEW s, NEW k, AwsInit(t, s, k) PROVE AloneInv'
  BY <1>1, <1>2 DEF AwsInit
<1>3. ASSUME NEW s, GcpInit(t, s) PROVE AloneInv'
  BY <1>1, <1>3 DEF GcpInit
<1>4. ASSUME NEW s, LocalInit(t, s) \/ Login(t, s) \/ Destroy(t, s) PROVE AloneInv'
  BY <1>1, <1>4 DEF LocalInit, Login, Destroy
<1> QED BY <1>2, <1>3, <1>4 DEF Begin

LEMMA AloneCreation ==
  ASSUME StackInv, AloneInv, NEW t \in Terminals,
         \/ CreateKeyPair(t) \/ WaitForCompletion(t) \/ Consent(t) \/ ServiceAccount(t) \/ WaitCreate(t)
         \/ WaitUndo(t) \/ WaitCancel(t) \/ GetHost(t)
  PROVE  AloneInv'
<1> USE DEF AllSteps, AwsSteps, GcpSteps, RecordSteps, Uninterrupted, Leaving
<1>1. /\ cli[t] # None /\ UNCHANGED <<cloud, owned>> /\ \A s \in Stacks : owned'[s] \subseteq owned[s]
      /\ Course(cli[t]) /\ Knows(cloud, owned, cli[t])
  BY Running DEF CreateKeyPair, WaitForCompletion, Consent, ServiceAccount, WaitCreate, WaitUndo, WaitCancel,
                 GetHost, At
<1>2. CASE Exit(t)
  BY <1>1, <1>2, AloneExit
<1>3. CASE (CreateKeyPair(t) \/ WaitForCompletion(t) \/ Consent(t) \/ ServiceAccount(t)) /\ ~ Exit(t)
  <2>1. PICK step \in {"create", "load", "account", "insert"} : GoTo(t, step) /\ cli[t].interrupts = 0
    BY <1>1, <1>3 DEF CreateKeyPair, WaitForCompletion, Consent, ServiceAccount, At, Course
  <2> QED BY <1>1, <2>1, AloneGoTo
<1>4. CASE WaitCreate(t)
  <2>1. cli[t].interrupts = 0
    BY <1>1, <1>4 DEF WaitCreate, At, Course
  <2>2. CASE Heed(t, "undo")
    BY <1>1, <2>2, AloneHeed
  <2>3. CASE GoTo(t, "cancel") \/ GoTo(t, "getHost")
    BY <1>1, <2>1, <2>3, AloneGoTo
  <2> QED BY <1>4, <2>2, <2>3 DEF WaitCreate
<1>5. CASE WaitUndo(t) /\ ~ Exit(t)
  <2>1. cli[t].interrupts # 0 /\ cli[t].at = "waitUndo"
    BY <1>1, <1>5 DEF WaitUndo, At, Course
  <2>2. CASE Heed(t, "getHost")
    BY <1>1, <2>1, <2>2, AloneHeed
  <2>3. CASE cli[t].op = "ok" /\ GoTo(t, "getHost")
    <3>1. ~ cli[t].crossed => cloud[cli[t].stack] = "absent"
      BY <1>1, <2>1, <2>3 DEF Knows
    <3> QED BY <1>1, <2>3, <3>1, AloneGoTo
  <2> QED BY <1>5, <2>2, <2>3 DEF WaitUndo
<1>6. CASE GetHost(t) /\ ~ Exit(t)
  <2>1. GoTo(t, "load") /\ (cli[t].interrupts # 1 \/ cli[t].crossed)
    BY <1>1, <1>6 DEF GetHost, At, Knows
  <2> QED BY <1>1, <2>1, AloneGoTo
<1> QED BY <1>2, <1>3, <1>4, <1>5, <1>6 DEF WaitCancel

LEMMA AloneRecord ==
  ASSUME StackInv, AloneInv, NEW t \in Terminals, LoadApprc(t) \/ Save(t) \/ RemoveDir(t) \/ Die(t)
  PROVE  AloneInv'
<1>1. cli[t] # None /\ UNCHANGED <<cloud, owned>> /\ cli[t] \in Command /\ Course(cli[t])
  BY Running DEF LoadApprc, Save, RemoveDir, Die, At
<1>2. CASE Exit(t)
  BY <1>1, <1>2, AloneExit
<1>3. CASE LoadApprc(t)
  <2>0. PICK rc \in {config, NoAuths} : cli' = [cli EXCEPT ![t].at = "save", ![t].rc = rc]
    BY <1>3 DEF LoadApprc
  <2> DEFINE c == [cli[t] EXCEPT !.at = "save", !.rc = rc]
  <2>1. cli' = [cli EXCEPT ![t] = c] /\ cli[t].at = "load"
    BY <1>1, <1>3, <2>0 DEF LoadApprc, At, StackInv, CliOK
  <2>2. c.at = "save" /\ c.interrupts = cli[t].interrupts /\ c.crossed = cli[t].crossed
    BY <1>1 DEF Command
  <2> HIDE DEF c
  <2>3. Course(c) /\ Knows(cloud', owned', c)
    BY <1>1, <2>1, <2>2 DEF Course, Knows, Leaving, RecordSteps, Uninterrupted, AwsSteps
  <2> QED BY <1>1, <2>1, <2>3, AloneBecomes
<1> QED BY <1>2, <1>3 DEF Save, RemoveDir, Die

LEMMA AloneDestruction ==
  ASSUME StackInv, AloneInv, NEW t \in Terminals,
         \/ EmptyBucket(t) \/ WaitMain(t) \/ ListOwned(t) \/ DeleteOwned(t) \/ ResetDatabase(t) \/ Forget(t)
         \/ DestroyRack(t) /\ GoTo(t, "forget") /\ UNCHANGED cloud
  PROVE  AloneInv'
<1> USE DEF AllSteps, DestroySteps, AwsSteps, RecordSteps, Uninterrupted, Leaving
<1>1. /\ cli[t] # None /\ UNCHANGED cloud /\ Course(cli[t]) /\ Knows(cloud, owned, cli[t])
      /\ owned \in [Stacks -> SUBSET {"deployments", "records"}]
      /\ cli[t].stack \in Stacks
  BY Running, CommandStack DEF StackInv, Typed, EmptyBucket, WaitMain, ListOwned, DeleteOwned, ResetDatabase, Forget,
     DestroyRack, At
<1>2. UNCHANGED owned => \A s \in Stacks : owned'[s] \subseteq owned[s]
  OBVIOUS
<1>3. CASE EmptyBucket(t)
  <2>1. CASE cli[t].stack \in AwsStacks
    BY <1>1, <1>2, <1>3, <2>1, AloneGoTo DEF EmptyBucket
  <2>2. CASE cli[t].stack \notin AwsStacks
    BY <1>1, <1>2, <1>3, <2>2, AloneGoTo DEF EmptyBucket
  <2> QED BY <2>1, <2>2
<1>4. CASE WaitMain(t)
  <2>1. UNCHANGED owned /\ cli[t].at = "waitMain"
    BY <1>4 DEF WaitMain, At
  <2>2. CASE Heed(t, "list")
    BY <1>1, <2>1, <2>2, AloneHeed
  <2>3. CASE cli[t].op = "ok" /\ GoTo(t, "list")
    <3>1. ~ cli[t].crossed => cloud[cli[t].stack] = "absent"
      BY <1>1, <2>1, <2>3 DEF Knows
    <3> QED BY <1>1, <1>2, <2>1, <2>3, <3>1, AloneGoTo
  <2>4. CASE Exit(t)
    BY <1>1, <2>1, <2>4, AloneExit
  <2> QED BY <1>4, <2>2, <2>3, <2>4 DEF WaitMain
<1>5. CASE ListOwned(t)
  <2> DEFINE s == cli[t].stack
  <2>1. UNCHANGED owned /\ cli[t].at = "list"
    BY <1>5 DEF ListOwned, At
  <2>2. cli[t].interrupts = 0 /\ ~ cli[t].crossed /\ s \in GcpStacks => cloud[s] = "absent"
    BY <1>1, <2>1 DEF Knows
  <2>3. CASE "deployments" \in owned[s] /\ GoTo(t, "deleteOwned")
    BY <1>1, <1>2, <2>1, <2>2, <2>3, AloneGoTo
  <2>4. CASE "deployments" \notin owned[s] /\ GoTo(t, "reset")
    BY <1>1, <1>2, <2>1, <2>2, <2>4, AloneGoTo
  <2> QED BY <1>5, <2>3, <2>4 DEF ListOwned
<1>6. CASE DeleteOwned(t)
  <2> DEFINE s == cli[t].stack
  <2>1. cli[t].at = "deleteOwned"
    BY <1>6 DEF DeleteOwned, At
  <2>2. CASE Heed(t, "reset") /\ UNCHANGED owned
    BY <1>1, <2>2, AloneHeed
  <2>3. CASE owned' = [owned EXCEPT ![s] = @ \ {"deployments"}] /\ GoTo(t, "reset")
    <3>1. "deployments" \notin owned'[s] /\ \A d \in Stacks : owned'[d] \subseteq owned[d]
      BY <1>1, <2>3
    <3>2. cli[t].interrupts = 0 /\ ~ cli[t].crossed /\ s \in GcpStacks => cloud[s] = "absent"
      BY <1>1, <2>1 DEF Knows
    <3> QED BY <1>1, <2>3, <3>1, <3>2, AloneGoTo
  <2> QED BY <1>6, <2>2, <2>3 DEF DeleteOwned
<1>7. CASE ResetDatabase(t)
  <2> DEFINE s == cli[t].stack
  <2>1. /\ cli[t].at = "reset" /\ owned' = [owned EXCEPT ![s] = @ \ {"records"}] /\ GoTo(t, "forget")
    BY <1>7 DEF ResetDatabase, At
  <2>2. /\ "records" \notin owned'[s] /\ owned'[s] \subseteq owned[s]
        /\ \A d \in Stacks : owned'[d] \subseteq owned[d]
    BY <1>1, <2>1
  <2>3. cli[t].interrupts = 0 /\ ~ cli[t].crossed /\ s \in GcpStacks =>
          cloud[s] = "absent" /\ "deployments" \notin owned[s]
    BY <1>1, <2>1 DEF Knows
  <2> QED BY <1>1, <2>1, <2>2, <2>3, AloneGoTo
<1>8. CASE Forget(t)
  <2>1. GoTo(t, "removeDir") /\ UNCHANGED owned
    BY <1>8 DEF Forget
  <2> QED BY <1>1, <1>2, <2>1, AloneGoTo
\* Only a stack on aws is destroyed as one formation.
<1>9. CASE DestroyRack(t) /\ GoTo(t, "forget") /\ UNCHANGED cloud
  <2>1. cli[t].stack \in AwsStacks /\ UNCHANGED owned
    BY <1>1, <1>9 DEF DestroyRack, At, Course
  <2>2. cli[t].stack \notin GcpStacks
    BY <2>1, StackAssumption
  <2> QED BY <1>1, <1>2, <1>9, <2>1, <2>2, AloneGoTo
<1> QED BY <1>3, <1>4, <1>5, <1>6, <1>7, <1>8, <1>9

\* A command that keeps its course and knows what it should.
Sound(cl, own, c) == c \in Command /\ Course(c) /\ Knows(cl, own, c)

AllKnow(cl, own, c) == \A u \in Terminals : c[u] # None => Sound(cl, own, c[u])

LEMMA AloneAll ==
  /\ StackInv /\ AloneInv => AllKnow(cloud, owned, cli)
  /\ AllKnow(cloud', owned', cli') /\ (\A s \in Stacks \ GcpStacks : owned'[s] = {}) => AloneInv'
<1>1. StackInv /\ AloneInv => AllKnow(cloud, owned, cli)
  BY DEF StackInv, CliOK, Commands, AloneInv, AllKnow, Sound
<1>2. AllKnow(cloud', owned', cli') /\ (\A s \in Stacks \ GcpStacks : owned'[s] = {}) => AloneInv'
  BY DEF AloneInv, AllKnow, Sound, Course, Knows
<1> QED BY <1>1, <1>2

\* Terminal t polls an operation on its stack: whoever else is at work on the
\* stack is not alone with it any more.
LEMMA PollingSound ==
  ASSUME StackInv, AloneInv, NEW t \in Terminals, cli[t] # None,
         NEW step \in {"watch", "waitCreate", "waitUndo", "waitCancel", "waitMain", "destroyRack"},
         NEW cl, \A s \in Stacks \ {cli[t].stack} : cl[s] = cloud[s],
         step \in {"waitUndo", "waitMain"} => cl[cli[t].stack] = "deleting",
         step \in {"watch", "waitCreate", "waitCancel"} => cli[t].interrupts = 0,
         step = "waitUndo" => cli[t].interrupts # 0,
         step = "destroyRack" => cli[t].stack \in AwsStacks,
         NEW u \in Terminals, cli[u] # None
  PROVE  LET c == Polling(t, cli[t].stack, step)[u] IN
         Sound(cl, owned, c) /\ (u # t /\ cli[u].stack = cli[t].stack => c.crossed)
<1> DEFINE s == cli[t].stack
           c == Polling(t, s, step)[u]
<1>1. CASE u = t
  <2>1. c = [[[cli[t] EXCEPT !.at = step] EXCEPT !.op = "running"] EXCEPT !.signal = FALSE] /\ cli[t] \in Command
    BY <1>1, Running DEF Polling
  <2>2. step \in AllSteps
    BY DEF AllSteps, AwsSteps, GcpSteps, DestroySteps
  <2>3. /\ c \in Command /\ c.at = step /\ c.op = "running" /\ c.stack = s
        /\ c.interrupts = cli[t].interrupts
    BY <2>1, <2>2 DEF Command, AllSteps
  <2> HIDE DEF c
  <2>4. Course(c)
    BY <2>3 DEF Course, Uninterrupted, AwsSteps, RecordSteps
  <2>5. Knows(cl, owned, c)
    BY <2>3 DEF Knows, Leaving
  <2> QED BY <1>1, <2>3, <2>4, <2>5 DEF Sound, c
<1>2. CASE u # t /\ cli[u].stack = s
  <2>1. c = [cli[u] EXCEPT !.crossed = TRUE] /\ cli[u] \in Command /\ Course(cli[u])
    BY <1>2, Running DEF Polling
  <2>2. /\ c \in Command /\ c.at = cli[u].at /\ c.interrupts = cli[u].interrupts
        /\ c.stack = cli[u].stack /\ c.crossed
    BY <2>1 DEF Command
  <2> HIDE DEF c
  <2>3. Course(c) /\ Knows(cl, owned, c)
    BY <2>1, <2>2 DEF Course, Knows
  <2> QED BY <2>2, <2>3 DEF Sound, c
<1>3. CASE u # t /\ cli[u].stack # s
  <2>1. c = cli[u]
    BY <1>3 DEF Polling
  <2> HIDE DEF c
  <2>2. cli[u] \in Command /\ Course(cli[u]) /\ Knows(cloud, owned, cli[u]) /\ cli[u].stack \in Stacks
    BY Running, CommandStack DEF StackInv
  <2>3. Knows(cl, owned, cli[u])
    BY <1>3, <2>2, KnowsKept
  <2> QED BY <1>3, <2>1, <2>2, <2>3 DEF Sound, c
<1> QED BY <1>1, <1>2, <1>3

LEMMA PollingKnows ==
  ASSUME StackInv, AloneInv, NEW t \in Terminals, cli[t] # None,
         NEW step \in {"watch", "waitCreate", "waitUndo", "waitCancel", "waitMain", "destroyRack"},
         NEW cl, \A s \in Stacks \ {cli[t].stack} : cl[s] = cloud[s],
         step \in {"waitUndo", "waitMain"} => cl[cli[t].stack] = "deleting",
         step \in {"watch", "waitCreate", "waitCancel"} => cli[t].interrupts = 0,
         step = "waitUndo" => cli[t].interrupts # 0,
         step = "destroyRack" => cli[t].stack \in AwsStacks
  PROVE  AllKnow(cl, owned, Polling(t, cli[t].stack, step))
<1> DEFINE c == Polling(t, cli[t].stack, step)
<1>1. ASSUME NEW u \in Terminals, c[u] # None PROVE Sound(cl, owned, c[u])
  <2>1. cli[u] = None => u # t /\ c[u] = cli[u]
    BY DEF Polling
  <2>2. cli[u] # None
    BY <1>1, <2>1
  <2> HIDE DEF c
  <2> QED BY <2>2, PollingSound DEF c
<1> HIDE DEF c
<1>2. AllKnow(cl, owned, c)
  BY <1>1 DEF AllKnow
<1> QED BY <1>2 DEF c

\* A command that polls learns what has come of the operation.
LEMMA ToldSound ==
  ASSUME NEW cl, NEW own, NEW c \in Command, Course(c),
         NEW v \in {"running", "ok", "error", "rollbackFailed", "gone"},
         \/ c.crossed
         \/ /\ c.at \in {"watch", "waitCreate", "waitUndo", "waitCancel", "waitMain"}
            /\ c.at \in {"waitUndo", "waitMain"} => v # "running" /\ (v = "ok" => cl[c.stack] = "absent")
  PROVE  Sound(cl, own, [c EXCEPT !.op = v])
<1> DEFINE d == [c EXCEPT !.op = v]
<1>1. /\ d \in Command /\ d.at = c.at /\ d.op = v /\ d.stack = c.stack
      /\ d.interrupts = c.interrupts /\ d.crossed = c.crossed
  BY DEF Command
<1> HIDE DEF d
<1>2. Course(d) /\ Knows(cl, own, d)
  BY <1>1 DEF Course, Knows, Leaving
<1>3. Sound(cl, own, d)
  BY <1>1, <1>2 DEF Sound
<1> QED BY <1>3 DEF d

LEMMA AlonePolls ==
  ASSUME StackInv, AloneInv, NEW t \in Terminals,
         CreateStack(t) \/ Insert(t) \/ Undo(t) \/ Cancel(t) \/ DeleteMain(t) \/ DestroyRack(t)
  PROVE  AloneInv'
<1> DEFINE s == cli[t].stack
<1> USE DEF Uninterrupted, AwsSteps
<1>1. /\ cli[t] # None /\ UNCHANGED owned /\ Course(cli[t]) /\ s \in Stacks
      /\ cloud \in [Stacks -> Statuses] /\ \A d \in Stacks \ GcpStacks : owned'[d] = {}
  BY Running, CommandStack DEF CreateStack, Insert, Undo, Cancel, DeleteMain, DeleteDeployment, DestroyRack, At,
                               StackInv, Typed, AloneInv
<1>2. CASE Exit(t) /\ UNCHANGED cloud
  BY <1>1, <1>2, AloneExit
<1>3. ASSUME NEW step \in {"watch", "waitCreate"}, cli' = Polling(t, s, step), cli[t].interrupts = 0,
             cloud' = [cloud EXCEPT ![s] = "creating"]
      PROVE  AloneInv'
  <2>1. \A d \in Stacks \ {s} : cloud'[d] = cloud[d]
    BY <1>1, <1>3
  <2>2. AllKnow(cloud', owned, Polling(t, s, step))
    BY <1>1, <1>3, <2>1, PollingKnows
  <2> QED BY <1>1, <1>3, <2>2, AloneAll
<1>4. ASSUME NEW step \in {"waitUndo", "waitCancel", "waitMain", "destroyRack"}, NEW who,
             NEW v \in {"running", "error"}, \A u \in who : u # t /\ cli[u] # None /\ cli[u].stack = s,
             cli' = Told(Polling(t, s, step), who, v), cloud' = [cloud EXCEPT ![s] = "deleting"],
             step = "waitCancel" => cli[t].interrupts = 0, step = "waitUndo" => cli[t].interrupts # 0,
             step = "destroyRack" => s \in AwsStacks
      PROVE  AloneInv'
  <2> DEFINE c == Polling(t, s, step)
  <2>1. cloud'[s] = "deleting" /\ \A d \in Stacks \ {s} : cloud'[d] = cloud[d]
    BY <1>1, <1>4
  <2>2. AllKnow(cloud', owned, c)
    BY <1>1, <1>4, <2>1, PollingKnows
  <2>3. ASSUME NEW u \in who \cap Terminals PROVE Sound(cloud', owned, c[u]) /\ c[u].crossed
    <3>1. u \in Terminals /\ u # t /\ cli[u] # None /\ cli[u].stack = s
      BY <1>4
    <3>2. /\ step \in {"waitUndo", "waitMain"} => cloud'[s] = "deleting"
          /\ step \in {"watch", "waitCreate", "waitCancel"} => cli[t].interrupts = 0
          /\ step = "waitUndo" => cli[t].interrupts # 0
          /\ step = "destroyRack" => s \in AwsStacks
      BY <1>4, <2>1
    <3> QED BY <1>1, <2>1, <3>1, <3>2, PollingSound
  <2> HIDE DEF c
  <2>4. \A u \in who \cap Terminals : Sound(cloud', owned, [c[u] EXCEPT !.op = v])
    BY <2>3, ToldSound DEF Sound
  <2>5. AllKnow(cloud', owned, Told(c, who, v))
    BY <2>2, <2>4 DEF AllKnow, Told
  <2> QED BY <1>1, <1>4, <2>5, AloneAll DEF c
<1>5. CASE (CreateStack(t) \/ Insert(t)) /\ cloud[s] = "absent"
  <2>1. cli[t].interrupts = 0
    BY <1>1, <1>5 DEF CreateStack, Insert, At, Course
  <2> QED BY <1>3, <1>5, <2>1 DEF CreateStack, Insert
<1>6. \A u \in Creators(s) : u # t \/ cli[t].at \in {"watch", "waitCreate"}
  BY DEF Creators, Aims
<1>7. \A u \in Creators(s) : cli[u] # None /\ cli[u].stack = s
  BY DEF Creators, Aims
<1>8. CASE (Undo(t) \/ Cancel(t) \/ DeleteMain(t)) /\ ~ (Exit(t) /\ UNCHANGED cloud)
  <2> DEFINE who == {u \in Creators(s) : cli[u].op = "running"}
  <2>1. PICK step \in {"waitUndo", "waitCancel", "waitMain"} :
           /\ cli' = Told(Polling(t, s, step), who, "error")
           /\ cloud' = [cloud EXCEPT ![s] = "deleting"]
           /\ step = "waitCancel" => cli[t].at = "cancel"
           /\ step = "waitUndo" => cli[t].at = "undo"
           /\ cli[t].at \notin {"watch", "waitCreate"}
    BY <1>1, <1>8 DEF Undo, Cancel, DeleteMain, DeleteDeployment, At
  <2>2. \A u \in who : u # t /\ cli[u] # None /\ cli[u].stack = s
    BY <1>6, <1>7, <2>1
  <2>3. /\ step = "waitCancel" => cli[t].interrupts = 0
        /\ step = "waitUndo" => cli[t].interrupts # 0
    BY <1>1, <2>1 DEF Course
  <2> HIDE DEF who
  <2> QED BY <1>4, <2>1, <2>2, <2>3
<1>9. CASE DestroyRack(t) /\ cloud' = [cloud EXCEPT ![s] = "deleting"] /\ cloud[s] # "absent"
  <2>1. cli' = Told(Polling(t, s, "destroyRack"), Creators(s), "running") /\ cli[t].at = "destroyRack"
    BY <1>9 DEF DestroyRack, At
  <2>2. \A u \in Creators(s) : u # t
    BY <1>6, <2>1
  <2>3. s \in AwsStacks
    BY <1>1, <2>1 DEF Course
  <2> QED BY <1>4, <1>7, <1>9, <2>1, <2>2, <2>3
<1>10. CASE DestroyRack(t) /\ GoTo(t, "forget") /\ UNCHANGED cloud
  BY <1>10, AloneDestruction
<1>11. CASE CreateStack(t) \/ Insert(t)
  BY <1>2, <1>5, <1>11 DEF CreateStack, Insert
<1>12. CASE Undo(t) \/ Cancel(t) \/ DeleteMain(t)
  BY <1>2, <1>8, <1>12
<1>13. CASE DestroyRack(t)
  BY <1>9, <1>10, <1>13 DEF DestroyRack
<1> QED BY <1>11, <1>12, <1>13

LEMMA AloneInterrupt == ASSUME StackInv, AloneInv, NEW t \in Terminals, Interrupt(t) PROVE AloneInv'
<1> DEFINE c == [cli[t] EXCEPT !.signal = TRUE]
<1>1. /\ cli[t] # None /\ cli[t] \in Command /\ Course(cli[t]) /\ Knows(cloud, owned, cli[t])
      /\ cli' = [cli EXCEPT ![t] = c] /\ UNCHANGED <<cloud, owned>>
  BY Running DEF Interrupt
<1>2. /\ c.at = cli[t].at /\ c.op = cli[t].op /\ c.stack = cli[t].stack /\ c.interrupts = cli[t].interrupts
      /\ c.crossed = cli[t].crossed
  BY <1>1 DEF Command
<1> HIDE DEF c
<1>3. Course(c) /\ Knows(cloud', owned', c)
  BY <1>1, <1>2 DEF Course, Knows
<1> QED BY <1>1, <1>3, AloneBecomes

\* When the cloud ends a creation or a deletion of stack s, cl being its state
\* then, who polls learns it.
LEMMA EndIsTold ==
  ASSUME StackInv, AloneInv, NEW s \in Stacks, NEW cl, NEW u \in Creators(s) \cup Deleters(s),
         NEW v \in {"ok", "error", "rollbackFailed", "gone"},
         v = "ok" => u \in Creators(s) \/ cl[s] = "absent"
  PROVE  cli[u] # None /\ Sound(cl, owned, [cli[u] EXCEPT !.op = v])
<1>1. /\ u \in Terminals /\ cli[u] # None /\ cli[u].stack = s
      /\ cli[u].at \in {"watch", "waitCreate", "waitUndo", "waitCancel", "waitMain"}
      /\ v = "ok" => cli[u].at \in {"watch", "waitCreate"} \/ cl[s] = "absent"
  BY DEF Creators, Deleters, Aims
<1>2. cli[u] \in Command /\ Course(cli[u])
  BY <1>1, Running
<1> QED BY <1>1, <1>2, ToldSound

\* Who does not poll goes on with what it knows.
LEMMA EndIsNotTold ==
  ASSUME StackInv, AloneInv, NEW s \in Stacks, NEW cl, \A d \in Stacks \ {s} : cl[d] = cloud[d],
         NEW u \in Terminals, cli[u] # None,
         \/ cloud[s] = "creating"
         \/ cloud[s] = "deleting" /\ u \notin Deleters(s)
  PROVE  Sound(cl, owned, cli[u])
<1>1. cli[u] \in Command /\ Course(cli[u]) /\ Knows(cloud, owned, cli[u]) /\ cli[u].stack \in Stacks
  BY Running, CommandStack DEF StackInv
<1>2. CASE cloud[s] = "creating" \/ cli[u].stack # s
  <2>1. Knows(cl, owned, cli[u])
    BY <1>1, <1>2, KnowsKept
  <2> QED BY <1>1, <2>1 DEF Sound
<1>3. CASE cloud[s] = "deleting" /\ u \notin Deleters(s) /\ cli[u].stack = s
  <2>1. cli[u].at \in {"waitUndo", "waitMain"} => cli[u].op # "running"
    BY <1>3 DEF Deleters, Aims
  <2>2. Knows(cl, owned, cli[u])
    BY <1>1, <1>3, <2>1 DEF Knows
  <2> QED BY <1>1, <2>2 DEF Sound
<1> QED BY <1>2, <1>3

LEMMA AloneCloud ==
  ASSUME StackInv, AloneInv, NEW s \in Stacks, CreationEnds(s) \/ DeletionEnds(s) \/ ServerWorks(s)
  PROVE  AloneInv'
<1>1. cloud \in [Stacks -> Statuses] /\ owned \in [Stacks -> SUBSET {"deployments", "records"}]
  BY DEF StackInv, Typed
<1>2. CASE CreationEnds(s)
  <2>1. PICK v \in {"ok", "error", "rollbackFailed"} : cli' = Told(cli, Creators(s), v)
    BY <1>2 DEF CreationEnds
  <2>2. cloud[s] = "creating" /\ (\A d \in Stacks \ {s} : cloud'[d] = cloud[d]) /\ UNCHANGED owned
    BY <1>1, <1>2 DEF CreationEnds
  <2>3. \A u \in Creators(s) : Sound(cloud', owned, [cli[u] EXCEPT !.op = v])
    BY EndIsTold
  <2>4. \A u \in Terminals : cli[u] # None => Sound(cloud', owned, cli[u])
    BY <2>2, EndIsNotTold
  <2>5. AllKnow(cloud', owned, Told(cli, Creators(s), v))
    BY <2>3, <2>4 DEF AllKnow, Told
  <2> QED BY <2>1, <2>2, <2>5, AloneAll DEF AloneInv
<1>3. CASE DeletionEnds(s)
  <2> DEFINE watching == IF s \in AwsStacks THEN Creators(s) ELSE {}
  <2>1. cloud[s] = "deleting" /\ (\A d \in Stacks \ {s} : cloud'[d] = cloud[d]) /\ UNCHANGED owned
    BY <1>1, <1>3 DEF DeletionEnds
  <2>2. \A u \in Terminals \ Deleters(s) : cli[u] # None => Sound(cloud', owned, cli[u])
    BY <2>1, EndIsNotTold
  <2>3. watching \subseteq Creators(s) /\ watching \cap Deleters(s) = {}
    BY DEF Creators, Deleters, Aims
  <2> HIDE DEF watching
  <2>4. \A u \in watching \cup Deleters(s) : Sound(cloud', owned, [cli[u] EXCEPT !.op = "error"])
    BY <2>3, EndIsTold
  <2>5. \A u \in watching : Sound(cloud', owned, [cli[u] EXCEPT !.op = "gone"])
    BY <2>3, EndIsTold
  <2>6. CASE s \in full
    <3>1. cli' = Told(cli, Deleters(s) \cup watching, "error")
      BY <1>3, <2>6 DEF DeletionEnds, watching
    <3>2. AllKnow(cloud', owned, Told(cli, Deleters(s) \cup watching, "error"))
      BY <2>2, <2>4 DEF AllKnow, Told
    <3> QED BY <2>1, <3>1, <3>2, AloneAll DEF AloneInv
  <2>7. CASE s \notin full
    <3> DEFINE c == Told(cli, Deleters(s), "ok")
    <3>1. cli' = Told(c, watching, "gone") /\ cloud'[s] = "absent"
      BY <1>1, <1>3, <2>7 DEF DeletionEnds, watching
    <3>2. \A u \in Deleters(s) : Sound(cloud', owned, [cli[u] EXCEPT !.op = "ok"])
      BY <3>1, EndIsTold
    <3>3. \A u \in Terminals : c[u] = IF u \in Deleters(s) THEN [cli[u] EXCEPT !.op = "ok"] ELSE cli[u]
      BY DEF Told
    <3> HIDE DEF c
    <3>4. \A u \in Terminals \cap watching : c[u] = cli[u]
      BY <2>3, <3>3
    <3>5. AllKnow(cloud', owned, c)
      BY <2>2, <3>2, <3>3 DEF AllKnow
    <3>6. AllKnow(cloud', owned, Told(c, watching, "gone"))
      BY <2>5, <3>4, <3>5 DEF AllKnow, Told
    <3> QED BY <2>1, <3>1, <3>6, AloneAll DEF AloneInv
  <2> QED BY <2>6, <2>7
\* Nobody works on a stack that is absent.
<1>4. CASE ServerWorks(s)
  <2>1. UNCHANGED <<cloud, cli>> /\ cloud[s] # "absent" /\ \A d \in Stacks \ {s} : owned'[d] = owned[d]
    BY <1>1, <1>4 DEF ServerWorks
  <2>2. \A d \in Stacks \ GcpStacks : owned'[d] = owned[d]
    BY <1>1, <1>4 DEF ServerWorks
  <2>3. ASSUME NEW u \in Terminals, cli[u] # None PROVE Sound(cloud, owned', cli[u])
    <3>1. cli[u] \in Command /\ Course(cli[u]) /\ Knows(cloud, owned, cli[u]) /\ cli[u].stack \in Stacks
      BY <2>3, Running, CommandStack DEF StackInv
    <3>2. Knows(cloud, owned', cli[u])
      BY <2>1, <3>1, KnowsKept
    <3> QED BY <3>1, <3>2 DEF Sound
  <2>4. AllKnow(cloud, owned', cli)
    BY <2>3 DEF AllKnow
  <2> QED BY <2>1, <2>2, <2>4, AloneAll DEF AloneInv
<1> QED BY <1>2, <1>3, <1>4

LEMMA AloneNext == StackInv /\ AloneInv /\ [Next]_vars => AloneInv'
<1> SUFFICES ASSUME StackInv, AloneInv, [Next]_vars PROVE AloneInv'
  OBVIOUS
<1>1. CASE UNCHANGED vars
  BY <1>1, AloneAll DEF vars, AloneInv
<1>2. ASSUME NEW t \in Terminals, Step(t) PROVE AloneInv'
  BY <1>2, AloneCreation, AloneRecord, AloneDestruction, AlonePolls DEF Step
<1>3. ASSUME NEW t \in Terminals, Begin(t) \/ Consent(t) \/ Die(t) \/ Interrupt(t) PROVE AloneInv'
  BY <1>3, AloneBegin, AloneCreation, AloneRecord, AloneInterrupt
<1> QED BY <1>1, <1>2, <1>3, AloneCloud DEF Next

LEMMA AloneInvariant == Spec => [](StackInv /\ AloneInv)
<1>1. Init => AloneInv
  BY DEF Init, AloneInv
<1> QED BY <1>1, AloneNext, StackInvariant, PTL DEF Spec

------------------------------------------------------------------------------
(* What follows                                                             *)

\* An interrupted creation of a gcp stack is not recorded: init saves an auth
\* after its first interrupt only when another command has created or deleted
\* the stack meanwhile, for it comes to ask for the address only when the
\* deployment is gone.
THEOREM InterruptedNotRecorded == Spec => InterruptedIsNotRecorded
<1>1. StackInv /\ AloneInv /\ [Next]_vars =>
        [\A t \in Terminals : Save(t) => cli[t].interrupts # 1 \/ cli[t].crossed]_vars
  <2> SUFFICES ASSUME StackInv, AloneInv, NEW t \in Terminals, Save(t)
               PROVE  cli[t].interrupts # 1 \/ cli[t].crossed
    OBVIOUS
  <2> QED BY Running DEF Save, At, Course, RecordSteps
<1> QED BY <1>1, AloneInvariant, PTL DEF Spec, InterruptedIsNotRecorded

\* A destroy that nobody interrupts and no other command crosses forgets its
\* stack only when neither a deployment of a database nor a record is left:
\* the deployment is gone before they are looked for, so nobody adds to them.
THEOREM NothingIsLeft == Spec => NothingLeftBehind
<1>1. StackInv /\ AloneInv /\ [Next]_vars =>
        [\A t \in Terminals :
           Forget(t) => cli[t].interrupts > 0 \/ cli[t].crossed \/ owned[cli[t].stack] = {}]_vars
  <2> SUFFICES ASSUME StackInv, AloneInv, NEW t \in Terminals, Forget(t), ~ (cli[t].interrupts > 0), ~ cli[t].crossed
               PROVE  owned[cli[t].stack] = {}
    OBVIOUS
  <2>1. /\ cli[t].at = "forget" /\ cli[t].interrupts \in 0..2 /\ Knows(cloud, owned, cli[t])
        /\ cli[t].stack \in Stacks /\ owned[cli[t].stack] \subseteq {"deployments", "records"}
    BY Running, CommandStack DEF Forget, At, Command, StackInv, Typed
  <2>2. cli[t].interrupts = 0
    BY <2>1
  <2>3. CASE cli[t].stack \in GcpStacks
    BY <2>1, <2>2, <2>3 DEF Knows, Leaving
  <2>4. CASE cli[t].stack \notin GcpStacks
    BY <2>1, <2>4 DEF AloneInv
  <2> QED BY <2>3, <2>4
<1> QED BY <1>1, AloneInvariant, PTL DEF Spec, NothingLeftBehind
==============================================================================
