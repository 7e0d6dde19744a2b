--------------------------- MODULE AppRecordProofs ---------------------------
(***************************************************************************)
(* Proofs about AppRecord, for every provider, every number of apps,       *)
(* domains, builds and releases, and any number of overlapping handlers.   *)
(*                                                                         *)
(* TypeOK is not inductive: that MergeDomain writes a record needs that    *)
(* the handler has loaded one, which is a fact about the calls it has made *)
(* so far.  Prepared states it as a fact about the calls still to make: a  *)
(* call that uses a local variable is preceded by the call that sets it,   *)
(* or the variable is set already.                                         *)
(*                                                                         *)
(* The last three sections are about requests that come one at a time:     *)
(* the builds that records name, the versions of releases, and that such   *)
(* requests implement AppRegistry.  (Overlapping requests do not: two      *)
(* updates of one record lose one of them.)                                *)
(***************************************************************************)
EXTENDS AppRecord, FiniteSetTheorems, TLAPS

\* The calls s can be made by a handler whose local variables are f.
Prepared(s, f) ==
  /\ s # <<>> => f.app \in Apps
  /\ \A i \in 1..Len(s) :
       /\ s[i] \in {"refresh", "mergeDomain", "fetchBuild", "record"} =>
            f.copy # Nobody \/ \E j \in 1..(i-1) : s[j] = "load"
       /\ s[i] = "mergeDomain" => f.domain # Nobody
       /\ s[i] \in {"saveRelease", "record", "rollout"} => f.build # Nobody
       /\ s[i] = "record" =>
            f.release # Nobody \/ \E j \in 1..(i-1) : s[j] = "saveRelease"
       /\ s[i] = "dropReleases" => provider = "gcp"
       /\ s[i] = "putNew" => provider # "local"

AllPrepared == \A h \in Handlers : Prepared(todo[h], frame[h])

TypeInv == TypeOK /\ AllPrepared

------------------------------------------------------------------------------
(* Calls and local variables *)

\* A record is not Nobody, and an idle handler is prepared for nothing.
LEMMA IdleFrame == Idle \in Frame /\ <<>> \in Seq(Steps) /\ Prepared(<<>>, Idle)
  BY DEF Idle, Frame, Prepared

\* After its next call, a handler is prepared for the others, when a load has
\* left a copy of the record and a save has left the id of the release.
LEMMA TailPrepared ==
  ASSUME NEW s \in Seq(Steps), s # <<>>, NEW f \in Frame, NEW g \in Frame,
         Prepared(s, f),
         g.app = f.app, g.domain = f.domain, g.build = f.build,
         f.copy # Nobody \/ Head(s) = "load" => g.copy # Nobody,
         f.release # Nobody \/ Head(s) = "saveRelease" => g.release # Nobody
  PROVE  Tail(s) \in Seq(Steps) /\ Prepared(Tail(s), g)
<1> DEFINE t == Tail(s)
<1>1. /\ t \in Seq(Steps) /\ Len(t) = Len(s) - 1 /\ Len(s) \in Nat
      /\ \A i \in 1..Len(t) : t[i] = s[i+1] /\ i + 1 \in 1..Len(s)
      /\ Head(s) = s[1]
  OBVIOUS
<1>2. ASSUME NEW i \in 1..Len(t), NEW c, c \in {"load", "saveRelease"},
             NEW j \in 1..i, s[j] = c
      PROVE  Head(s) = c \/ \E k \in 1..(i-1) : t[k] = c
  <2>1. CASE j = 1
    BY <1>1, <1>2, <2>1
  <2>2. CASE j # 1
    <3>1. j - 1 \in 1..(i-1) /\ j - 1 \in 1..Len(t) /\ t[j-1] = s[j]
      BY <1>1, <2>2
    <3> QED BY <1>2, <3>1
  <2> QED BY <2>1, <2>2
<1>3. ASSUME NEW i \in 1..Len(t)
      PROVE  /\ t[i] \in {"refresh", "mergeDomain", "fetchBuild", "record"} =>
                  g.copy # Nobody \/ \E j \in 1..(i-1) : t[j] = "load"
             /\ t[i] = "mergeDomain" => g.domain # Nobody
             /\ t[i] \in {"saveRelease", "record", "rollout"} => g.build # Nobody
             /\ t[i] = "record" =>
                  g.release # Nobody \/ \E j \in 1..(i-1) : t[j] = "saveRelease"
             /\ t[i] = "dropReleases" => provider = "gcp"
             /\ t[i] = "putNew" => provider # "local"
  <2>1. t[i] = s[i+1] /\ i + 1 \in 1..Len(s) /\ (i + 1) - 1 = i
    BY <1>1
  <2>2. /\ s[i+1] \in {"refresh", "mergeDomain", "fetchBuild", "record"} =>
             f.copy # Nobody \/ \E j \in 1..i : s[j] = "load"
        /\ s[i+1] = "mergeDomain" => f.domain # Nobody
        /\ s[i+1] \in {"saveRelease", "record", "rollout"} => f.build # Nobody
        /\ s[i+1] = "record" =>
             f.release # Nobody \/ \E j \in 1..i : s[j] = "saveRelease"
        /\ s[i+1] = "dropReleases" => provider = "gcp"
        /\ s[i+1] = "putNew" => provider # "local"
    BY <2>1 DEF Prepared
  <2> QED BY <1>2, <2>1, <2>2
<1>4. t # <<>> => g.app \in Apps
  BY DEF Prepared
<1> QED BY <1>1, <1>3, <1>4 DEF Prepared

\* A handler that goes on with calls it is prepared for, or answers.
LEMMA ContinueTyped ==
  ASSUME TypeInv, NEW h \in Handlers, NEW s \in Seq(Steps), NEW f \in Frame,
         Prepared(s, f), Continue(h, s, f), UNCHANGED provider
  PROVE  /\ todo' \in [Handlers -> Seq(Steps)]
         /\ frame' \in [Handlers -> Frame]
         /\ AllPrepared'
<1>1. PICK g \in Frame : /\ Prepared(s, g)
                         /\ frame' = [frame EXCEPT ![h] = g]
  BY IdleFrame DEF Continue
<1>2. todo' = [todo EXCEPT ![h] = s]
  BY DEF Continue
<1>3. todo' \in [Handlers -> Seq(Steps)] /\ frame' \in [Handlers -> Frame]
  BY <1>1, <1>2 DEF TypeInv, TypeOK
<1>4. ASSUME NEW k \in Handlers PROVE Prepared(todo'[k], frame'[k])
  BY <1>1, <1>2 DEF TypeInv, TypeOK, AllPrepared
<1>5. AllPrepared'
  BY <1>4 DEF AllPrepared, Prepared
<1> QED BY <1>3, <1>5

LEMMA ReturnTyped ==
  ASSUME TypeInv, NEW h \in Handlers, Return(h), UNCHANGED provider
  PROVE  /\ todo' \in [Handlers -> Seq(Steps)]
         /\ frame' \in [Handlers -> Frame]
         /\ AllPrepared'
  BY ContinueTyped, IdleFrame DEF Return

LEMMA ProceedTyped ==
  ASSUME TypeInv, NEW h \in Handlers, NEW c, At(h, c), c \notin {"load", "saveRelease"},
         Proceed(h), UNCHANGED provider
  PROVE  /\ todo' \in [Handlers -> Seq(Steps)]
         /\ frame' \in [Handlers -> Frame]
         /\ AllPrepared'
<1>1. /\ todo[h] \in Seq(Steps) /\ todo[h] # <<>> /\ frame[h] \in Frame
      /\ Prepared(todo[h], frame[h]) /\ Head(todo[h]) \notin {"load", "saveRelease"}
  BY DEF TypeInv, TypeOK, AllPrepared, At
<1>2. Tail(todo[h]) \in Seq(Steps) /\ Prepared(Tail(todo[h]), frame[h])
  BY <1>1, TailPrepared
<1> QED BY <1>1, <1>2, ContinueTyped DEF Proceed

------------------------------------------------------------------------------
(* Every request starts with calls it is prepared for. *)

LEMMA CreatePrepared ==
  ASSUME TypeOK, NEW f \in Frame, f.app \in Apps
  PROVE  CreateCalls \in Seq(Steps) /\ Prepared(CreateCalls, f)
<1>1. provider = "aws" => AwsCreateCalls \in Seq(Steps) /\ Prepared(AwsCreateCalls, f)
  BY DEF AwsCreateCalls, Steps, Prepared
<1>2. provider = "gcp" => GcpCreateCalls \in Seq(Steps) /\ Prepared(GcpCreateCalls, f)
  BY DEF GcpCreateCalls, Steps, Prepared
<1>3. LocalCreateCalls \in Seq(Steps) /\ Prepared(LocalCreateCalls, f)
  BY DEF LocalCreateCalls, Steps, Prepared
<1> QED BY <1>1, <1>2, <1>3 DEF TypeOK, CreateCalls, CallsOf

LEMMA DeletePrepared ==
  ASSUME TypeOK, NEW f \in Frame, f.app \in Apps
  PROVE  DeleteCalls \in Seq(Steps) /\ Prepared(DeleteCalls, f)
<1>1. AwsDeleteCalls \in Seq(Steps) /\ Prepared(AwsDeleteCalls, f)
  BY DEF AwsDeleteCalls, Steps, Prepared
<1>2. provider = "gcp" => GcpDeleteCalls \in Seq(Steps) /\ Prepared(GcpDeleteCalls, f)
  BY DEF GcpDeleteCalls, Steps, Prepared
<1>3. LocalDeleteCalls \in Seq(Steps) /\ Prepared(LocalDeleteCalls, f)
  BY DEF LocalDeleteCalls, Steps, Prepared
<1> QED BY <1>1, <1>2, <1>3 DEF TypeOK, DeleteCalls, CallsOf

LEMMA ReleasePrepared ==
  ASSUME TypeOK, NEW f \in Frame, f.app \in Apps, f.build # Nobody
  PROVE  ReleaseCalls \in Seq(Steps) /\ Prepared(ReleaseCalls, f)
<1>1. AwsReleaseCalls \in Seq(Steps) /\ Prepared(AwsReleaseCalls, f)
  BY DEF AwsReleaseCalls, Steps, Prepared
<1>2. GcpReleaseCalls \in Seq(Steps) /\ Prepared(GcpReleaseCalls, f)
  BY DEF GcpReleaseCalls, Steps, Prepared
<1>3. LocalReleaseCalls \in Seq(Steps) /\ Prepared(LocalReleaseCalls, f)
  BY DEF LocalReleaseCalls, Steps, Prepared
<1> QED BY <1>1, <1>2, <1>3 DEF TypeOK, ReleaseCalls, CallsOf

LEMMA DomainPrepared ==
  ASSUME NEW f \in Frame, f.app \in Apps, f.domain # Nobody
  PROVE  DomainCalls \in Seq(Steps) /\ Prepared(DomainCalls, f)
  BY DEF DomainCalls, Steps, Prepared

LEMMA GetPrepared ==
  ASSUME NEW f \in Frame, f.app \in Apps
  PROVE  AppGetCalls \in Seq(Steps) /\ Prepared(AppGetCalls, f)
  BY DEF AppGetCalls, Steps, Prepared

------------------------------------------------------------------------------
(* Type correctness, one step per action *)

LEMMA CountTyped == TypeOK => \A a \in Apps : ReleaseCount(a) \subseteq Nat
<1>1. ASSUME NEW S PROVE Cardinality(SavedIds(S)) \in Nat
  BY FinitenessAssumption, FS_Subset, FS_CardinalityType DEF SavedIds
<1> QED BY <1>1 DEF ReleaseCount, TypeOK

LEMMA WriteTyped ==
  ASSUME TypeInv, NEW h \in Handlers, NEW c, At(h, c), c \notin {"load", "saveRelease"},
         NEW r \in Record, AppUpdate(h, r), UNCHANGED provider
  PROVE  /\ apps' \in [Apps -> Record \cup {Nobody}]
         /\ todo' \in [Handlers -> Seq(Steps)]
         /\ frame' \in [Handlers -> Frame]
         /\ AllPrepared'
<1>1. Persisted(r) \in Record
  BY DEF Persisted, Record
<1>2. apps' \in [Apps -> Record \cup {Nobody}]
  BY <1>1 DEF AppUpdate, TypeInv, TypeOK
<1> QED BY <1>2, ProceedTyped, ReturnTyped DEF AppUpdate

\* What the next call of a handler may use.
LEMMA NextCall ==
  ASSUME TypeInv, NEW h \in Handlers, NEW c, At(h, c)
  PROVE  /\ todo[h] \in Seq(Steps) /\ todo[h] # <<>>
         /\ frame[h] \in Frame /\ frame[h].app \in Apps
         /\ c \in {"refresh", "mergeDomain", "fetchBuild", "record"} =>
              frame[h].copy \in Record
         /\ c = "mergeDomain" => frame[h].domain \in Domains
         /\ c \in {"saveRelease", "record", "rollout"} => frame[h].build \in Builds
         /\ c = "record" => frame[h].release \in ReleaseIds
         /\ c = "dropReleases" => provider = "gcp"
         /\ c = "putNew" => provider # "local"
<1>1. /\ todo[h] \in Seq(Steps) /\ todo[h] # <<>> /\ frame[h] \in Frame
      /\ Prepared(todo[h], frame[h])
  BY DEF TypeInv, TypeOK, AllPrepared, At
<1>2. 1 \in 1..Len(todo[h]) /\ todo[h][1] = c /\ ~ \E j \in 1..(1-1) : TRUE
  BY <1>1 DEF At
<1>3. /\ c \in {"refresh", "mergeDomain", "fetchBuild", "record"} => frame[h].copy # Nobody
      /\ c = "mergeDomain" => frame[h].domain # Nobody
      /\ c \in {"saveRelease", "record", "rollout"} => frame[h].build # Nobody
      /\ c = "record" => frame[h].release # Nobody
      /\ c = "dropReleases" => provider = "gcp"
      /\ c = "putNew" => provider # "local"
  BY <1>1, <1>2 DEF Prepared
<1> QED BY <1>1, <1>3 DEF Prepared, Frame

LEMMA RequestTyped ==
  ASSUME TypeInv, NEW h \in Handlers, Request(h)
  PROVE  TypeInv'
<1>1. ASSUME NEW f \in Frame, NEW s \in Seq(Steps), Prepared(s, f), Accept(h, f, s)
      PROVE  TypeInv'
  BY <1>1, ContinueTyped DEF Accept, TypeInv, TypeOK
<1>2. PICK a \in Apps :
        \/ AppCreate(h, a) \/ AppGet(h, a) \/ AppDelete(h, a)
        \/ \E d \in Domains, add \in BOOLEAN : AppUpdateDomain(h, a, d, add)
        \/ \E b \in Builds : BuildRelease(h, a, b)
  BY DEF Request
<1>3. [Idle EXCEPT !.app = a] \in Frame /\ [Idle EXCEPT !.app = a].app \in Apps
  BY DEF Idle, Frame
<1>4. CASE AppCreate(h, a)
  BY <1>1, <1>3, <1>4, CreatePrepared DEF AppCreate, TypeInv
<1>5. CASE AppGet(h, a)
  BY <1>1, <1>3, <1>5, GetPrepared DEF AppGet
<1>6. CASE AppDelete(h, a)
  BY <1>1, <1>3, <1>6, DeletePrepared DEF AppDelete, TypeInv
<1>7. CASE \E d \in Domains, add \in BOOLEAN : AppUpdateDomain(h, a, d, add)
  <2>1. PICK d \in Domains, add \in BOOLEAN : AppUpdateDomain(h, a, d, add)
    BY <1>7
  <2> DEFINE f == [Idle EXCEPT !.app = a, !.domain = d, !.add = add]
  <2>2. f \in Frame /\ f.app \in Apps /\ f.domain # Nobody
    BY NobodyAssumption DEF Idle, Frame
  <2> QED BY <1>1, <2>1, <2>2, DomainPrepared DEF AppUpdateDomain
<1>8. CASE \E b \in Builds : BuildRelease(h, a, b)
  <2>1. PICK b \in Builds : BuildRelease(h, a, b)
    BY <1>8
  <2> DEFINE f == [Idle EXCEPT !.app = a, !.build = b]
  <2>2. f \in Frame /\ f.app \in Apps /\ f.build # Nobody
    BY NobodyAssumption DEF Idle, Frame
  <2> QED BY <1>1, <2>1, <2>2, ReleasePrepared DEF BuildRelease, TypeInv
<1> QED BY <1>2, <1>4, <1>5, <1>6, <1>7, <1>8

LEMMA StepTyped ==
  ASSUME TypeInv, NEW h \in Handlers, Step(h)
  PROVE  TypeInv'
<1> DEFINE CallTyped == /\ todo' \in [Handlers -> Seq(Steps)]
                        /\ frame' \in [Handlers -> Frame]
                        /\ AllPrepared'
<1>1. CASE Load(h)
  <2> DEFINE g == [frame[h] EXCEPT !.copy = apps[frame[h].app]]
  <2>1. At(h, "load")
    BY <1>1 DEF Load
  <2>2. CASE Found(frame[h].app)
    <3>1. /\ g \in Frame /\ g.copy # Nobody
          /\ g.app = frame[h].app /\ g.domain = frame[h].domain
          /\ g.build = frame[h].build /\ g.release = frame[h].release
      BY <2>1, <2>2, NextCall DEF Frame, Found, TypeInv, TypeOK
    <3>2. Tail(todo[h]) \in Seq(Steps) /\ Prepared(Tail(todo[h]), g)
      BY <2>1, <3>1, NextCall, TailPrepared DEF TypeInv, AllPrepared, At
    <3> QED BY <1>1, <2>2, <3>1, <3>2, ContinueTyped DEF Load, TypeInv, TypeOK
  <2>3. CASE ~ Found(frame[h].app)
    BY <1>1, <2>3, ReturnTyped DEF Load, TypeInv, TypeOK
  <2> QED BY <2>2, <2>3
<1>2. CASE Refresh(h)
  <2>1. At(h, "refresh") /\ frame[h].copy \in Record
    BY <1>2, NextCall DEF Refresh
  <2>2. apps' \in [Apps -> Record \cup {Nobody}] /\ CallTyped
    BY <1>2, <2>1, WriteTyped, ProceedTyped, ReturnTyped DEF Refresh, TypeInv, TypeOK
  <2> QED BY <1>2, <2>2 DEF Refresh, TypeInv, TypeOK
<1>3. CASE Probe(h)
  <2> DEFINE g == [frame[h] EXCEPT !.copy = apps[frame[h].app]]
  <2>1. CASE Found(frame[h].app) /\ Continue(h, <<"refresh">>, g)
    <3>1. g \in Frame /\ g.copy # Nobody /\ g.app \in Apps
      BY <1>3, <2>1, NextCall DEF Probe, Frame, Found, TypeInv, TypeOK
    <3>2. <<"refresh">> \in Seq(Steps) /\ Prepared(<<"refresh">>, g)
      BY <3>1 DEF Steps, Prepared
    <3> QED BY <1>3, <2>1, <3>1, <3>2, ContinueTyped DEF Probe, TypeInv, TypeOK
  <2>2. CASE Proceed(h)
    BY <1>3, <2>2, ProceedTyped DEF Probe, TypeInv, TypeOK
  <2> QED BY <1>3, <2>1, <2>2 DEF Probe
<1>4. CASE CreateStack(h)
  <2>1. CallTyped
    BY <1>4, ProceedTyped, ReturnTyped DEF CreateStack
  <2> QED BY <1>4, <2>1, NextCall DEF CreateStack, TypeInv, TypeOK
<1>5. CASE CheckAbsent(h)
  BY <1>5, ProceedTyped, ReturnTyped DEF CheckAbsent, TypeInv, TypeOK
<1>6. CASE PutNew(h)
  <2>1. CallTyped
    BY <1>6, ProceedTyped DEF PutNew
  <2> QED BY <1>6, <2>1 DEF PutNew, TypeInv, TypeOK, NewRecord, Record
<1>7. CASE Insert(h)
  <2>1. CallTyped
    BY <1>7, ProceedTyped, ReturnTyped DEF Insert
  <2>2. Persisted(NewRecord) \in Record
    BY DEF Persisted, NewRecord, Record
  <2> QED BY <1>7, <2>1, <2>2 DEF Insert, TypeInv, TypeOK
<1>8. CASE MergeDomain(h)
  <2>1. Merged(h) \in Record
    BY <1>8, NextCall DEF MergeDomain, Merged, MergeAppDomains, Record
  <2>2. apps' \in [Apps -> Record \cup {Nobody}] /\ CallTyped
    BY <1>8, <2>1, WriteTyped DEF MergeDomain
  <2> QED BY <1>8, <2>2 DEF MergeDomain, TypeInv, TypeOK
<1>9. CASE FetchBuild(h)
  <2> DEFINE b == frame[h].copy.build
             g == [frame[h] EXCEPT !.build = b, !.release = Nobody]
  <2>1. CASE b \in builds[frame[h].app]
    <3>1. frame[h] \in Frame /\ frame[h].app \in Apps
      BY <1>9, NextCall DEF FetchBuild
    <3>2. b \in Builds
      BY <2>1, <3>1 DEF TypeInv, TypeOK
    <3>3. g \in Frame /\ g.app \in Apps /\ g.build # Nobody
      BY <3>1, <3>2, NobodyAssumption DEF Frame
    <3> QED BY <1>9, <2>1, <3>3, ReleasePrepared, ContinueTyped DEF FetchBuild, TypeInv, TypeOK
  <2>2. CASE b \notin builds[frame[h].app]
    BY <1>9, <2>2, ReturnTyped DEF FetchBuild, TypeInv, TypeOK
  <2> QED BY <2>1, <2>2
<1>10. CASE Count(h)
  <2>0. PICK n \in ReleaseCount(frame[h].app) :
          Continue(h, Tail(todo[h]), [frame[h] EXCEPT !.version = n + 1])
    BY <1>10 DEF Count
  <2> DEFINE g == [frame[h] EXCEPT !.version = n + 1]
  <2>1. At(h, "count") /\ frame[h] \in Frame /\ n \in Nat
    BY <1>10, NextCall, CountTyped DEF Count, TypeInv
  <2>2. /\ g \in Frame
        /\ g.app = frame[h].app /\ g.domain = frame[h].domain /\ g.copy = frame[h].copy
        /\ g.build = frame[h].build /\ g.release = frame[h].release
    BY <2>1 DEF Frame
  <2>3. Tail(todo[h]) \in Seq(Steps) /\ Prepared(Tail(todo[h]), g)
    BY <2>1, <2>2, NextCall, TailPrepared DEF TypeInv, AllPrepared, At
  <2> QED BY <1>10, <2>0, <2>2, <2>3, ContinueTyped DEF Count, TypeInv, TypeOK
<1>11. CASE SaveRelease(h)
  <2>1. PICK id \in ReleaseIds :
          /\ releases' = [releases EXCEPT ![id] =
                 [app |-> frame[h].app, build |-> frame[h].build, version |-> frame[h].version]]
          /\ Continue(h, Tail(todo[h]), [frame[h] EXCEPT !.release = id])
    BY <1>11 DEF SaveRelease
  <2> DEFINE g == [frame[h] EXCEPT !.release = id]
  <2>2. /\ At(h, "saveRelease") /\ frame[h] \in Frame /\ frame[h].app \in Apps
        /\ frame[h].build \in Builds
    BY <1>11, NextCall DEF SaveRelease
  <2>3. /\ g \in Frame /\ g.release # Nobody
        /\ g.app = frame[h].app /\ g.domain = frame[h].domain
        /\ g.copy = frame[h].copy /\ g.build = frame[h].build
    BY <2>2, NobodyAssumption DEF Frame
  <2>4. Tail(todo[h]) \in Seq(Steps) /\ Prepared(Tail(todo[h]), g)
    BY <2>2, <2>3, NextCall, TailPrepared DEF TypeInv, AllPrepared, At
  <2>5. CallTyped
    BY <1>11, <2>1, <2>3, <2>4, ContinueTyped DEF SaveRelease
  <2>6. releases' \in [ReleaseIds -> Release \cup {Nobody}]
    BY <2>1, <2>2 DEF TypeInv, TypeOK, Release, Frame
  <2> QED BY <1>11, <2>5, <2>6 DEF SaveRelease, TypeInv, TypeOK
<1>12. CASE RecordRelease(h)
  <2>1. At(h, "record") /\ Released(h) \in Record
    BY <1>12, NextCall DEF RecordRelease, Released, Record
  <2>2. apps' \in [Apps -> Record \cup {Nobody}] /\ CallTyped
    BY <1>12, <2>1, WriteTyped, ProceedTyped DEF RecordRelease, TypeInv, TypeOK
  <2> QED BY <1>12, <2>2 DEF RecordRelease, TypeInv, TypeOK
<1>13. CASE RollOut(h)
  <2>1. CallTyped
    BY <1>13, ProceedTyped DEF RollOut
  <2>2. [build |-> frame[h].build, version |-> frame[h].version] \in Rollout
    BY <1>13, NextCall DEF RollOut, Rollout, Frame
  <2>3. deploys' \in Nat
    BY <1>13 DEF RollOut, TypeInv, TypeOK
  <2>4. live' \in [Apps -> Rollout \cup {Nobody}]
    BY <1>13, <2>2 DEF RollOut, TypeInv, TypeOK
  <2> QED BY <1>13, <2>1, <2>3, <2>4 DEF RollOut, TypeInv, TypeOK
<1>14. CASE Uncluster(h)
  <2>1. CallTyped
    BY <1>14, ProceedTyped DEF Uncluster
  <2> QED BY <1>14, <2>1 DEF Uncluster, TypeInv, TypeOK
<1>15. CASE DropRecord(h)
  <2>1. CallTyped
    BY <1>15, ProceedTyped, ReturnTyped DEF DropRecord
  <2> QED BY <1>15, <2>1 DEF DropRecord, TypeInv, TypeOK
<1>16. CASE DropStack(h)
  <2>1. CallTyped
    BY <1>16, ProceedTyped DEF DropStack
  <2> QED BY <1>16, <2>1 DEF DropStack, TypeInv, TypeOK
<1>17. CASE DropBuilds(h)
  <2>1. CallTyped
    BY <1>17, ProceedTyped DEF DropBuilds
  <2> QED BY <1>17, <2>1 DEF DropBuilds, TypeInv, TypeOK
<1>18. CASE DropReleases(h)
  <2>1. CallTyped
    BY <1>18, ProceedTyped DEF DropReleases
  <2> QED BY <1>18, <2>1 DEF DropReleases, TypeInv, TypeOK
<1>19. CASE ListBuilds(h)
  BY <1>19, ProceedTyped DEF ListBuilds, TypeInv, TypeOK
<1>20. CASE Die /\ UNCHANGED <<provider, apps, stacks, builds, releases, live>>
  BY <1>20, IdleFrame DEF Die, TypeInv, TypeOK, AllPrepared, Prepared
<1>21. CASE ListBuildsPanics(h)
  BY <1>20, <1>21 DEF ListBuildsPanics, Die
<1>22. CASE Fail(h)
  BY <1>22, ReturnTyped DEF Fail, TypeInv, TypeOK
<1> QED
  BY <1>1, <1>2, <1>3, <1>4, <1>5, <1>6, <1>7, <1>8, <1>9, <1>10, <1>11, <1>12, <1>13, <1>14,
     <1>15, <1>16, <1>17, <1>18, <1>19, <1>21, <1>22 DEF Step

LEMMA NextTyped == TypeInv /\ [Next]_vars => TypeInv'
<1> SUFFICES ASSUME TypeInv, [Next]_vars PROVE TypeInv'
  OBVIOUS
<1>1. ASSUME NEW h \in Handlers, Request(h) \/ Step(h) PROVE TypeInv'
  BY <1>1, RequestTyped, StepTyped
<1>2. ASSUME NEW a \in Apps, NEW b \in Builds, BuildCreate(a, b) \/ BuildDelete(a, b)
      PROVE  TypeInv'
  <2>1. AllPrepared'
    BY <1>2 DEF BuildCreate, BuildDelete, TypeInv, AllPrepared, Prepared
  <2> QED BY <1>2, <2>1 DEF BuildCreate, BuildDelete, TypeInv, TypeOK
<1>3. ASSUME NEW id \in ReleaseIds, ReleaseDelete(id) PROVE TypeInv'
  BY <1>3 DEF ReleaseDelete, TypeInv, TypeOK, AllPrepared, Prepared
<1>4. CASE Crash
  BY <1>4, IdleFrame DEF Crash, Die, TypeInv, TypeOK, AllPrepared, Prepared
<1>5. CASE UNCHANGED vars
  BY <1>5 DEF vars, TypeInv, TypeOK, AllPrepared, Prepared
<1> QED BY <1>1, <1>2, <1>3, <1>4, <1>5 DEF Next

LEMMA TypeInvariant == Spec => []TypeInv
<1>1. Init => TypeInv
  BY IdleFrame, ProviderAssumption DEF Init, TypeInv, TypeOK, AllPrepared
<1> QED BY <1>1, NextTyped, PTL DEF Spec

\* The variables hold values of the right kind in every reachable state: no
\* handler, whatever the others do, writes a record it has not loaded, merges
\* a domain it was not given or saves a release of no build.
THEOREM TypeCorrect == Spec => []TypeOK
<1>1. TypeInv => TypeOK
  BY DEF TypeInv
<1> QED BY <1>1, TypeInvariant, PTL

------------------------------------------------------------------------------
(* aws: the record names a release of the build it names.  What a handler   *)
(* may write is in its copy of the record and in the release it saved, so   *)
(* the invariant says of those what RecordNamesRelease says of the table.   *)
(* On aws no release is ever deleted.                                       *)

Kept(rel) ==     \* every release saved so far is there in rel, unchanged
  \A id \in ReleaseIds : releases[id] # Nobody => rel[id] = releases[id]

FrameNames(rel, f) ==
  /\ f.copy # Nobody => Names(rel, f.app, f.copy)
  /\ f.release # Nobody =>
       /\ rel[f.release] # Nobody
       /\ rel[f.release].app = f.app
       /\ rel[f.release].build = f.build

NamesInv ==
  /\ \A a \in Apps : apps[a] # Nobody => Names(releases, a, apps[a])
  /\ \A h \in Handlers : FrameNames(releases, frame[h])

\* A record that names its release goes on doing so while releases only grow.
LEMMA NamesStable ==
  ASSUME NEW rel, Kept(rel)
  PROVE  /\ \A a, r : r \in Record /\ Names(releases, a, r) => Names(rel, a, r)
         /\ \A f \in Frame : FrameNames(releases, f) => FrameNames(rel, f)
<1>1. ASSUME NEW a, NEW r, r \in Record, Names(releases, a, r) PROVE Names(rel, a, r)
  BY <1>1 DEF Names, Kept, Record
<1>2. ASSUME NEW f \in Frame, FrameNames(releases, f) PROVE FrameNames(rel, f)
  BY <1>1, <1>2 DEF FrameNames, Kept, Frame
<1> QED BY <1>1, <1>2

\* A handler goes on with local variables that name a release, or answers.
LEMMA ContinueNames ==
  ASSUME TypeInv, NamesInv, Kept(releases'), NEW h \in Handlers, NEW s, NEW f,
         FrameNames(releases', f), Continue(h, s, f)
  PROVE  \A k \in Handlers : FrameNames(releases', frame'[k])
<1> SUFFICES ASSUME NEW k \in Handlers PROVE FrameNames(releases', frame'[k])
  OBVIOUS
<1>1. FrameNames(releases', Idle)
  BY DEF FrameNames, Idle
<1>2. CASE k = h
  <2>1. frame'[h] \in {f, Idle}
    BY DEF Continue, TypeInv, TypeOK
  <2> QED BY <1>1, <1>2, <2>1
<1>3. CASE k # h
  <2>1. frame'[k] = frame[k] /\ frame[k] \in Frame
    BY <1>3 DEF Continue, TypeInv, TypeOK
  <2> QED BY <2>1, NamesStable DEF NamesInv
<1> QED BY <1>2, <1>3

\* A handler moves on with the local variables it has, or answers.
LEMMA MoveNames ==
  ASSUME TypeInv, NamesInv, Kept(releases'), NEW h \in Handlers, Proceed(h) \/ Return(h)
  PROVE  \A k \in Handlers : FrameNames(releases', frame'[k])
<1>1. FrameNames(releases', Idle)
  BY DEF FrameNames, Idle
<1>2. FrameNames(releases', frame[h])
  BY NamesStable DEF NamesInv, TypeInv, TypeOK
<1> QED BY <1>1, <1>2, ContinueNames DEF Proceed, Return

\* Records in the table that do not change, or are dropped, name a release still.
LEMMA TableNames ==
  ASSUME TypeInv, NamesInv, Kept(releases'),
         \A a \in Apps : apps'[a] \in {apps[a], Nobody}
  PROVE  \A a \in Apps : apps'[a] # Nobody => Names(releases', a, apps'[a])
<1> SUFFICES ASSUME NEW a \in Apps, apps'[a] # Nobody PROVE Names(releases', a, apps'[a])
  OBVIOUS
<1>1. apps'[a] = apps[a] /\ apps[a] \in Record /\ Names(releases, a, apps[a])
  BY DEF NamesInv, TypeInv, TypeOK
<1> QED BY <1>1, NamesStable

LEMMA NamesNext ==
  ASSUME \A a \in Apps : apps'[a] # Nobody => Names(releases', a, apps'[a]),
         \A k \in Handlers : FrameNames(releases', frame'[k])
  PROVE  NamesInv'
  BY DEF NamesInv

LEMMA WriteNames ==
  ASSUME TypeInv, NamesInv, UNCHANGED releases, provider = "aws",
         NEW h \in Handlers, frame[h].app \in Apps,
         NEW r \in Record, Names(releases, frame[h].app, r), AppUpdate(h, r)
  PROVE  NamesInv'
<1>1. Kept(releases')
  BY DEF Kept
<1>2. \A k \in Handlers : FrameNames(releases', frame'[k])
  BY <1>1, MoveNames DEF AppUpdate
<1>3. apps' \in {apps, [apps EXCEPT ![frame[h].app] = r]}
  BY DEF AppUpdate, Persisted
<1>4. \A a \in Apps : apps'[a] # Nobody => Names(releases', a, apps'[a])
  BY <1>3 DEF NamesInv, TypeInv, TypeOK
<1> QED BY <1>2, <1>4, NamesNext

LEMMA StepNames ==
  ASSUME TypeInv, NamesInv, provider = "aws", NEW h \in Handlers, Step(h)
  PROVE  NamesInv'
<1>1. CASE Load(h) \/ Probe(h)
  <2> DEFINE g == [frame[h] EXCEPT !.copy = apps[frame[h].app]]
  <2>1. UNCHANGED <<apps, releases>> /\ frame[h] \in Frame /\ frame[h].app \in Apps
    BY <1>1, NextCall DEF Load, Probe
  <2>2. Kept(releases')
    BY <2>1 DEF Kept
  <2>3. ASSUME NEW s, Found(frame[h].app), Continue(h, s, g) PROVE NamesInv'
    <3>1. /\ g.app = frame[h].app /\ g.release = frame[h].release
          /\ g.build = frame[h].build /\ g.copy = apps[frame[h].app]
      BY <2>1 DEF Frame
    <3>2. FrameNames(releases', g)
      BY <2>1, <2>3, <3>1 DEF Found, FrameNames, NamesInv
    <3> QED BY <2>1, <2>2, <2>3, <3>2, ContinueNames, TableNames, NamesNext
  <2>4. CASE Proceed(h) \/ Return(h)
    BY <2>1, <2>2, <2>4, MoveNames, TableNames, NamesNext
  <2> QED BY <1>1, <2>3, <2>4 DEF Load, Probe
<1>2. CASE Refresh(h) \/ MergeDomain(h)
  <2>1. /\ UNCHANGED releases /\ frame[h].copy \in Record
        /\ frame[h] \in Frame /\ frame[h].app \in Apps
    BY <1>2, NextCall DEF Refresh, MergeDomain
  <2>2. Names(releases, frame[h].app, frame[h].copy)
    BY <2>1, NobodyAssumption DEF NamesInv, FrameNames, Record
  <2>3. CASE AppUpdate(h, frame[h].copy)
    BY <2>1, <2>2, <2>3, WriteNames
  <2>4. CASE UNCHANGED apps /\ (Proceed(h) \/ Return(h))
    BY <2>1, <2>4, MoveNames, TableNames, NamesNext DEF Kept
  <2>5. CASE MergeDomain(h)
    <3>1. Merged(h) \in Record
      BY <2>1, <2>5, NextCall DEF MergeDomain, Merged, MergeAppDomains, Record
    <3>2. Names(releases, frame[h].app, Merged(h))
      BY <2>1, <2>2 DEF Merged, Names, Record
    <3> QED BY <2>1, <2>5, <3>1, <3>2, WriteNames DEF MergeDomain
  <2> QED BY <1>2, <2>3, <2>4, <2>5 DEF Refresh
<1>3. CASE RecordRelease(h)
  <2>1. /\ UNCHANGED releases /\ frame[h] \in Frame /\ frame[h].copy \in Record
        /\ frame[h].app \in Apps
        /\ frame[h].build \in Builds /\ frame[h].release \in ReleaseIds
    BY <1>3, NextCall DEF RecordRelease
  <2>2. FrameNames(releases, frame[h]) /\ frame[h].release # Nobody
    BY <2>1, NobodyAssumption DEF NamesInv
  <2>3. Released(h) \in Record /\ Names(releases, frame[h].app, Released(h))
    BY <2>1, <2>2 DEF Released, Record, Names, FrameNames
  <2>4. CASE AppUpdate(h, Released(h))
    BY <2>1, <2>3, <2>4, WriteNames
  <2>5. CASE Proceed(h) /\ UNCHANGED apps
    BY <2>1, <2>5, MoveNames, TableNames, NamesNext DEF Kept
  <2> QED BY <1>3, <2>4, <2>5 DEF RecordRelease
<1>4. CASE SaveRelease(h)
  <2>1. PICK id \in ReleaseIds :
          /\ releases[id] = Nobody
          /\ releases' = [releases EXCEPT ![id] =
                 [app |-> frame[h].app, build |-> frame[h].build, version |-> frame[h].version]]
          /\ Continue(h, Tail(todo[h]), [frame[h] EXCEPT !.release = id])
    BY <1>4 DEF SaveRelease
  <2> DEFINE g == [frame[h] EXCEPT !.release = id]
  <2>2. /\ UNCHANGED apps /\ frame[h] \in Frame /\ frame[h].app \in Apps
        /\ frame[h].build \in Builds
    BY <1>4, NextCall DEF SaveRelease
  <2>3. Kept(releases')
    BY <2>1 DEF Kept, TypeInv, TypeOK
  <2>4. /\ releases'[id] = [app |-> frame[h].app, build |-> frame[h].build,
                            version |-> frame[h].version]
        /\ releases'[id] # Nobody
    BY <2>1, <2>2, NobodyAssumption DEF TypeInv, TypeOK, Frame
  <2>5. /\ g.release = id /\ g.app = frame[h].app /\ g.build = frame[h].build
        /\ g.copy = frame[h].copy
    BY <2>2 DEF Frame
  <2>6. FrameNames(releases', frame[h])
    BY <2>2, <2>3, NamesStable DEF NamesInv
  <2>7. FrameNames(releases', g)
    BY <2>4, <2>5, <2>6 DEF FrameNames
  <2>8. \A k \in Handlers : FrameNames(releases', frame'[k])
    <3>1. Continue(h, Tail(todo[h]), g)
      BY <2>1
    <3> HIDE DEF g
    <3> QED BY <2>3, <2>7, <3>1, ContinueNames
  <2> QED BY <2>2, <2>3, <2>8, TableNames, NamesNext
<1>5. CASE FetchBuild(h)
  <2> DEFINE b == frame[h].copy.build
             g == [frame[h] EXCEPT !.build = b, !.release = Nobody]
  <2>1. /\ UNCHANGED <<apps, releases>> /\ frame[h] \in Frame
        /\ FrameNames(releases', frame[h])
    BY <1>5, NextCall DEF FetchBuild, NamesInv
  <2>2. CASE Continue(h, ReleaseCalls, g)
    <3>1. g.app = frame[h].app /\ g.copy = frame[h].copy /\ g.release = Nobody
      BY <2>1 DEF Frame
    <3>2. FrameNames(releases', g)
      BY <2>1, <3>1 DEF FrameNames
    <3> HIDE DEF g
    <3>3. \A k \in Handlers : FrameNames(releases', frame'[k])
      BY <2>1, <2>2, <3>2, ContinueNames DEF Kept
    <3> QED BY <2>1, <3>3, TableNames, NamesNext DEF Kept
  <2>3. CASE Return(h)
    BY <2>1, <2>3, MoveNames, TableNames, NamesNext DEF Kept
  <2> QED BY <1>5, <2>2, <2>3 DEF FetchBuild
<1>6. CASE Count(h)
  <2>0. PICK n \in ReleaseCount(frame[h].app) :
          Continue(h, Tail(todo[h]), [frame[h] EXCEPT !.version = n + 1])
    BY <1>6 DEF Count
  <2> DEFINE g == [frame[h] EXCEPT !.version = n + 1]
  <2>1. /\ UNCHANGED <<apps, releases>> /\ frame[h] \in Frame
        /\ FrameNames(releases', frame[h]) /\ Continue(h, Tail(todo[h]), g)
    BY <1>6, <2>0, NextCall DEF Count, NamesInv
  <2>2. /\ g.app = frame[h].app /\ g.copy = frame[h].copy
        /\ g.build = frame[h].build /\ g.release = frame[h].release
    BY <2>1 DEF Frame
  <2>3. FrameNames(releases', g)
    BY <2>1, <2>2 DEF FrameNames
  <2> HIDE DEF g
  <2>4. \A k \in Handlers : FrameNames(releases', frame'[k])
    BY <2>1, <2>3, ContinueNames DEF Kept
  <2> QED BY <2>1, <2>4, TableNames, NamesNext DEF Kept
<1>7. CASE PutNew(h) \/ Insert(h)
  <2>1. /\ UNCHANGED releases /\ (Proceed(h) \/ Return(h)) /\ frame[h].app \in Apps
        /\ apps' \in {apps, [apps EXCEPT ![frame[h].app] = NewRecord]}
    BY <1>7, NextCall DEF PutNew, Insert, Persisted
  <2>2. \A a \in Apps : apps'[a] # Nobody => Names(releases', a, apps'[a])
    BY <2>1 DEF NewRecord, Names, NamesInv, TypeInv, TypeOK
  <2> QED BY <2>1, <2>2, MoveNames, NamesNext DEF Kept
<1>8. CASE \/ CreateStack(h) \/ CheckAbsent(h) \/ RollOut(h) \/ Uncluster(h) \/ DropStack(h)
           \/ DropBuilds(h) \/ ListBuilds(h) \/ Fail(h)
  <2>1. UNCHANGED <<apps, releases>> /\ (Proceed(h) \/ Return(h))
    BY <1>8 DEF CreateStack, CheckAbsent, RollOut, Uncluster, DropStack, DropBuilds,
                ListBuilds, Fail
  <2> QED BY <2>1, MoveNames, TableNames, NamesNext DEF Kept
<1>9. CASE DropRecord(h)
  <2>1. /\ UNCHANGED releases /\ (Proceed(h) \/ Return(h))
        /\ \A a \in Apps : apps'[a] \in {apps[a], Nobody}
    BY <1>9 DEF DropRecord, TypeInv, TypeOK
  <2> QED BY <2>1, MoveNames, TableNames, NamesNext DEF Kept
<1>10. CASE ListBuildsPanics(h)
  BY <1>10 DEF ListBuildsPanics, Die, Idle, NamesInv, FrameNames
<1>11. ~ DropReleases(h)
  BY NextCall DEF DropReleases
<1> QED
  BY <1>1, <1>2, <1>3, <1>4, <1>5, <1>6, <1>7, <1>8, <1>9, <1>10, <1>11 DEF Step

LEMMA RequestNames ==
  ASSUME TypeInv, NamesInv, NEW h \in Handlers, Request(h)
  PROVE  NamesInv'
<1>1. ASSUME NEW f, NEW s, f.copy = Nobody, f.release = Nobody, Accept(h, f, s)
      PROVE  NamesInv'
  <2>1. UNCHANGED <<apps, releases>> /\ Continue(h, s, f) /\ FrameNames(releases', f)
    BY <1>1 DEF Accept, FrameNames
  <2> QED BY <2>1, ContinueNames, TableNames, NamesNext DEF Kept
<1>2. PICK a \in Apps :
        \/ AppCreate(h, a) \/ AppGet(h, a) \/ AppDelete(h, a)
        \/ \E d \in Domains, add \in BOOLEAN : AppUpdateDomain(h, a, d, add)
        \/ \E b \in Builds : BuildRelease(h, a, b)
  BY DEF Request
<1>3. CASE AppCreate(h, a) \/ AppGet(h, a) \/ AppDelete(h, a)
  BY <1>1, <1>3 DEF AppCreate, AppGet, AppDelete, Idle
<1>4. CASE \E d \in Domains, add \in BOOLEAN : AppUpdateDomain(h, a, d, add)
  BY <1>1, <1>4 DEF AppUpdateDomain, Idle
<1>5. CASE \E b \in Builds : BuildRelease(h, a, b)
  BY <1>1, <1>5 DEF BuildRelease, Idle
<1> QED BY <1>2, <1>3, <1>4, <1>5

\* A server never changes its provider.
LEMMA ProviderFixed == [Next]_vars => UNCHANGED provider
<1>1. ASSUME NEW h \in Handlers, Request(h) PROVE UNCHANGED provider
  BY <1>1 DEF Request, AppCreate, AppGet, AppDelete, AppUpdateDomain, BuildRelease, Accept
<1>2. ASSUME NEW h \in Handlers, Step(h) PROVE UNCHANGED provider
  BY <1>2 DEF Step, Load, Refresh, Probe, CreateStack, CheckAbsent, PutNew, Insert,
              MergeDomain, FetchBuild, Count, SaveRelease, RecordRelease, RollOut, Uncluster,
              DropRecord, DropStack, DropBuilds, DropReleases, ListBuilds, ListBuildsPanics,
              Fail, Die
<1> QED BY <1>1, <1>2 DEF Next, vars, BuildCreate, BuildDelete, ReleaseDelete, Crash, Die

LEMMA AwsNames == Spec => [](provider = "aws" => NamesInv)
<1> DEFINE Inv == provider = "aws" => NamesInv
<1>1. Init => Inv
  BY DEF Init, Idle, NamesInv, FrameNames
<1>2. TypeInv /\ Inv /\ [Next]_vars => Inv'
  <2> SUFFICES ASSUME TypeInv, NamesInv, [Next]_vars, provider = "aws" PROVE NamesInv'
    BY ProviderFixed
  <2>1. ASSUME NEW h \in Handlers, Request(h) \/ Step(h) PROVE NamesInv'
    BY <2>1, RequestNames, StepNames
  <2>2. ASSUME NEW a \in Apps, NEW b \in Builds, BuildCreate(a, b) \/ BuildDelete(a, b)
        PROVE  NamesInv'
    BY <2>2 DEF BuildCreate, BuildDelete, NamesInv
  <2>3. ~ \E id \in ReleaseIds : ReleaseDelete(id)
    BY DEF ReleaseDelete
  <2>4. CASE Crash
    BY <2>4 DEF Crash, Die, Idle, NamesInv, FrameNames
  <2>5. CASE UNCHANGED vars
    BY <2>5 DEF vars, NamesInv
  <2> QED BY <2>1, <2>2, <2>3, <2>4, <2>5 DEF Next
<1> QED BY <1>1, <1>2, TypeInvariant, PTL DEF Spec

\* On aws the build an app record names is always a saved release of that
\* app, the one the record names: BuildRelease saves the release before it
\* writes the record, and no copy another handler holds mixes the two fields.
THEOREM AwsRecordNamesRelease == Spec => []RecordNamesRelease
<1>1. (provider = "aws" => NamesInv) => RecordNamesRelease
  BY DEF NamesInv, RecordNamesRelease
<1> QED BY <1>1, AwsNames, PTL

------------------------------------------------------------------------------
(* aws: what the cluster runs was saved as one release.  A rollout takes    *)
(* the build and the version from the local variables of its handler, so    *)
(* these have to be those of the release it saved: the version is counted   *)
(* before the save, never after it, and the save precedes the rollout.      *)

\* The calls s keep that order for a handler whose local variables are f.
Ordered(s, f) ==
  \A i \in 1..Len(s) :
    /\ s[i] = "rollout" => f.release # Nobody \/ \E j \in 1..(i-1) : s[j] = "saveRelease"
    /\ s[i] = "count" => f.release = Nobody /\ \A j \in 1..(i-1) : s[j] # "saveRelease"

VersionNamed(rel, f) ==
  f.release # Nobody => rel[f.release] # Nobody /\ rel[f.release].version = f.version

OrderInv == \A h \in Handlers : Ordered(todo[h], frame[h]) /\ VersionNamed(releases, frame[h])

ReleasedAs(rel, a, r) ==
  \E id \in ReleaseIds :
    rel[id] # Nobody /\ rel[id] = [app |-> a, build |-> r.build, version |-> r.version]

LiveInv == \A a \in Apps : live[a] # Nobody => ReleasedAs(releases, a, live[a])

LEMMA IdleOrdered == Ordered(<<>>, Idle) /\ \A rel : VersionNamed(rel, Idle)
  BY DEF Ordered, VersionNamed, Idle

\* The next call done, the others are still in order.
LEMMA TailOrdered ==
  ASSUME NEW s \in Seq(Steps), s # <<>>, NEW f, NEW g, Ordered(s, f),
         g.release = f.release \/ Head(s) = "saveRelease",
         Head(s) = "saveRelease" => g.release # Nobody
  PROVE  Ordered(Tail(s), g)
<1> DEFINE t == Tail(s)
<1>1. /\ t \in Seq(Steps) /\ Len(t) = Len(s) - 1 /\ Len(s) \in Nat
      /\ \A i \in 1..Len(t) : t[i] = s[i+1] /\ i + 1 \in 1..Len(s)
      /\ Head(s) = s[1]
  OBVIOUS
<1>2. ASSUME NEW i \in 1..Len(t), t[i] = "rollout"
      PROVE  g.release # Nobody \/ \E j \in 1..(i-1) : t[j] = "saveRelease"
  <2>1. f.release # Nobody \/ \E j \in 1..i : s[j] = "saveRelease"
    BY <1>1, <1>2 DEF Ordered
  <2>2. ASSUME NEW j \in 1..i, s[j] = "saveRelease", j # 1
        PROVE  \E k \in 1..(i-1) : t[k] = "saveRelease"
    <3>1. j - 1 \in 1..(i-1) /\ j - 1 \in 1..Len(t) /\ t[j-1] = s[j]
      BY <1>1, <2>2
    <3> QED BY <2>2, <3>1
  <2> QED BY <1>1, <2>1, <2>2
<1>3. ASSUME NEW i \in 1..Len(t), t[i] = "count"
      PROVE  g.release = Nobody /\ \A j \in 1..(i-1) : t[j] # "saveRelease"
  <2>1. f.release = Nobody /\ \A j \in 1..i : s[j] # "saveRelease"
    BY <1>1, <1>3 DEF Ordered
  <2>2. 1 \in 1..i /\ \A j \in 1..(i-1) : j + 1 \in 1..i /\ j \in 1..Len(t)
    BY <1>1
  <2> QED BY <1>1, <2>1, <2>2
<1> QED BY <1>2, <1>3 DEF Ordered

\* A handler goes on with calls in order and a version that is its release's.
LEMMA ContinueOrder ==
  ASSUME TypeInv, OrderInv, Kept(releases'), NEW h \in Handlers, NEW s, NEW f,
         Ordered(s, f), VersionNamed(releases', f), Continue(h, s, f)
  PROVE  OrderInv'
<1> SUFFICES ASSUME NEW k \in Handlers
             PROVE  Ordered(todo'[k], frame'[k]) /\ VersionNamed(releases', frame'[k])
  BY DEF OrderInv, Ordered, VersionNamed
<1>1. CASE k = h
  <2>1. todo'[h] = s /\ frame'[h] = IF s = <<>> THEN Idle ELSE f
    BY DEF Continue, TypeInv, TypeOK
  <2> QED BY <1>1, <2>1, IdleOrdered
<1>2. CASE k # h
  <2>1. todo'[k] = todo[k] /\ frame'[k] = frame[k] /\ frame[k] \in Frame
    BY <1>2 DEF Continue, TypeInv, TypeOK
  <2>2. Ordered(todo[k], frame[k]) /\ VersionNamed(releases, frame[k])
    BY DEF OrderInv
  <2>3. VersionNamed(releases', frame[k])
    BY <2>1, <2>2 DEF VersionNamed, Kept, Frame
  <2> QED BY <2>1, <2>2, <2>3
<1> QED BY <1>1, <1>2

\* A handler moves on with the local variables it has, or answers.
LEMMA MoveOrder ==
  ASSUME TypeInv, OrderInv, Kept(releases'), NEW h \in Handlers, NEW c, At(h, c),
         c # "saveRelease", Proceed(h) \/ Return(h)
  PROVE  OrderInv'
<1>1. /\ todo[h] \in Seq(Steps) /\ todo[h] # <<>> /\ frame[h] \in Frame
      /\ Ordered(todo[h], frame[h]) /\ VersionNamed(releases, frame[h]) /\ Head(todo[h]) # "saveRelease"
  BY DEF TypeInv, TypeOK, OrderInv, At
<1>2. Ordered(Tail(todo[h]), frame[h])
  BY <1>1, TailOrdered
<1>3. VersionNamed(releases', frame[h])
  BY <1>1 DEF VersionNamed, Kept, Frame
<1> QED BY <1>2, <1>3, IdleOrdered, ContinueOrder DEF Proceed, Return

\* A handler goes on with a new copy of the record, on the way it is or another
\* that deploys nothing.
LEMMA CopyOrder ==
  ASSUME TypeInv, OrderInv, UNCHANGED releases, NEW h \in Handlers, NEW c, At(h, c),
         c # "saveRelease", NEW r, NEW s, s \in {Tail(todo[h]), <<"refresh">>},
         Continue(h, s, [frame[h] EXCEPT !.copy = r])
  PROVE  OrderInv'
<1> DEFINE g == [frame[h] EXCEPT !.copy = r]
<1>1. /\ todo[h] \in Seq(Steps) /\ todo[h] # <<>> /\ frame[h] \in Frame
      /\ Ordered(todo[h], frame[h]) /\ VersionNamed(releases, frame[h]) /\ Head(todo[h]) # "saveRelease"
  BY DEF TypeInv, TypeOK, OrderInv, At
<1>2. g.release = frame[h].release /\ g.version = frame[h].version
  BY <1>1 DEF Frame
<1> HIDE DEF g
<1>3. Ordered(Tail(todo[h]), g)
  BY <1>1, <1>2, TailOrdered
<1>4. Ordered(<<"refresh">>, g)
  BY DEF Ordered
<1>5. VersionNamed(releases', g)
  BY <1>1, <1>2 DEF VersionNamed
<1>6. Continue(h, s, g) /\ Kept(releases')
  BY DEF g, Kept
<1> QED BY <1>3, <1>4, <1>5, <1>6, ContinueOrder

LEMMA SaveOrder ==
  ASSUME TypeInv, OrderInv, NEW h \in Handlers, SaveRelease(h)
  PROVE  OrderInv' /\ Kept(releases')
<1>1. PICK id \in ReleaseIds :
        /\ releases[id] = Nobody
        /\ releases' = [releases EXCEPT ![id] =
               [app |-> frame[h].app, build |-> frame[h].build, version |-> frame[h].version]]
        /\ Continue(h, Tail(todo[h]), [frame[h] EXCEPT !.release = id])
  BY DEF SaveRelease
<1> DEFINE g == [frame[h] EXCEPT !.release = id]
<1>2. /\ frame[h] \in Frame /\ frame[h].app \in Apps /\ frame[h].build \in Builds
      /\ todo[h] \in Seq(Steps) /\ todo[h] # <<>> /\ Head(todo[h]) = "saveRelease"
      /\ Ordered(todo[h], frame[h])
  BY NextCall DEF SaveRelease, OrderInv, At
<1>3. Kept(releases')
  BY <1>1 DEF Kept, TypeInv, TypeOK
<1>4. /\ releases'[id] = [app |-> frame[h].app, build |-> frame[h].build,
                          version |-> frame[h].version]
      /\ releases'[id] # Nobody
  BY <1>1, <1>2, NobodyAssumption DEF TypeInv, TypeOK, Frame
<1>5. g.release = id /\ g.version = frame[h].version /\ g.release # Nobody
  BY <1>2, NobodyAssumption DEF Frame
<1>6. Continue(h, Tail(todo[h]), g)
  BY <1>1
<1> HIDE DEF g
<1>7. Ordered(Tail(todo[h]), g) /\ VersionNamed(releases', g)
  BY <1>2, <1>4, <1>5, TailOrdered DEF VersionNamed
<1> QED BY <1>3, <1>6, <1>7, ContinueOrder

\* Only a handler that has saved no release counts.
LEMMA CountOrder ==
  ASSUME TypeInv, OrderInv, NEW h \in Handlers, Count(h)
  PROVE  OrderInv'
<1>0. PICK n \in ReleaseCount(frame[h].app) :
        Continue(h, Tail(todo[h]), [frame[h] EXCEPT !.version = n + 1])
  BY DEF Count
<1> DEFINE g == [frame[h] EXCEPT !.version = n + 1]
<1>1. /\ frame[h] \in Frame /\ todo[h] \in Seq(Steps) /\ todo[h] # <<>> /\ Head(todo[h]) = "count"
      /\ Ordered(todo[h], frame[h]) /\ UNCHANGED releases
      /\ Continue(h, Tail(todo[h]), g)
  BY <1>0, NextCall DEF Count, OrderInv, At
<1>2. 1 \in 1..Len(todo[h]) /\ todo[h][1] = "count"
  BY <1>1
<1>3. frame[h].release = Nobody /\ g.release = Nobody
  BY <1>1, <1>2 DEF Ordered, Frame
<1> HIDE DEF g
<1>4. Ordered(Tail(todo[h]), g) /\ VersionNamed(releases', g)
  BY <1>1, <1>3, TailOrdered DEF VersionNamed
<1> QED BY <1>1, <1>4, ContinueOrder DEF Kept

LEMMA ReleaseOrdered ==
  ASSUME provider = "aws", NEW f, f.release = Nobody
  PROVE  Ordered(ReleaseCalls, f) /\ \A rel : VersionNamed(rel, f)
  BY DEF ReleaseCalls, CallsOf, AwsReleaseCalls, Ordered, VersionNamed

LEMMA FetchOrder ==
  ASSUME TypeInv, OrderInv, provider = "aws", NEW h \in Handlers, FetchBuild(h)
  PROVE  OrderInv'
<1> DEFINE g == [frame[h] EXCEPT !.build = frame[h].copy.build, !.release = Nobody]
<1>1. /\ At(h, "fetchBuild") /\ UNCHANGED releases /\ frame[h] \in Frame
      /\ Return(h) \/ Continue(h, ReleaseCalls, g)
  BY NextCall DEF FetchBuild
<1>2. g.release = Nobody
  BY <1>1 DEF Frame
<1> HIDE DEF g
<1> QED BY <1>1, <1>2, ReleaseOrdered, ContinueOrder, MoveOrder DEF Kept

LEMMA StepOrder ==
  ASSUME TypeInv, OrderInv, provider = "aws", NEW h \in Handlers, Step(h)
  PROVE  OrderInv' /\ Kept(releases')
<1>1. CASE Load(h) \/ Probe(h)
  BY <1>1, CopyOrder, MoveOrder DEF Load, Probe, Kept
<1>2. CASE Refresh(h) \/ MergeDomain(h) \/ RecordRelease(h)
  BY <1>2, MoveOrder DEF Refresh, MergeDomain, RecordRelease, AppUpdate, Kept
<1>3. CASE \/ CreateStack(h) \/ CheckAbsent(h) \/ PutNew(h) \/ Insert(h) \/ RollOut(h)
           \/ Uncluster(h) \/ DropRecord(h) \/ DropStack(h) \/ DropBuilds(h) \/ ListBuilds(h)
  BY <1>3, MoveOrder DEF CreateStack, CheckAbsent, PutNew, Insert, RollOut, Uncluster, DropRecord,
                         DropStack, DropBuilds, ListBuilds, Kept
<1>4. CASE Fail(h)
  BY <1>4, IdleOrdered, ContinueOrder DEF Fail, Return, Kept
<1>5. CASE ListBuildsPanics(h)
  BY <1>5, IdleOrdered DEF ListBuildsPanics, Die, OrderInv, Kept
<1>6. ~ DropReleases(h)
  BY NextCall DEF DropReleases
<1>7. CASE FetchBuild(h)
  BY <1>7, FetchOrder DEF FetchBuild, Kept
<1>8. CASE Count(h)
  BY <1>8, CountOrder DEF Count, Kept
<1> QED BY <1>1, <1>2, <1>3, <1>4, <1>5, <1>6, <1>7, <1>8, SaveOrder DEF Step

LEMMA RequestOrder ==
  ASSUME TypeInv, OrderInv, provider = "aws", NEW h \in Handlers, Request(h)
  PROVE  OrderInv'
<1>1. ASSUME NEW f, NEW s, f.release = Nobody, Accept(h, f, s),
             s \in {CreateCalls, AppGetCalls, DeleteCalls, DomainCalls, ReleaseCalls}
      PROVE  OrderInv'
  <2>1. Ordered(s, f) /\ VersionNamed(releases', f)
    BY <1>1 DEF Ordered, VersionNamed, CreateCalls, AppGetCalls, DeleteCalls, DomainCalls,
                ReleaseCalls, CallsOf, AwsCreateCalls, AwsDeleteCalls, AwsReleaseCalls
  <2> QED BY <1>1, <2>1, ContinueOrder DEF Accept, Kept
<1>2. PICK a \in Apps :
        \/ AppCreate(h, a) \/ AppGet(h, a) \/ AppDelete(h, a)
        \/ \E d \in Domains, add \in BOOLEAN : AppUpdateDomain(h, a, d, add)
        \/ \E b \in Builds : BuildRelease(h, a, b)
  BY DEF Request
<1>3. CASE AppCreate(h, a) \/ AppGet(h, a) \/ AppDelete(h, a)
  BY <1>1, <1>3 DEF AppCreate, AppGet, AppDelete, Idle
<1>4. CASE \E d \in Domains, add \in BOOLEAN : AppUpdateDomain(h, a, d, add)
  BY <1>1, <1>4 DEF AppUpdateDomain, Idle
<1>5. CASE \E b \in Builds : BuildRelease(h, a, b)
  BY <1>1, <1>5 DEF BuildRelease, Idle
<1> QED BY <1>2, <1>3, <1>4, <1>5

\* What was released goes on being so while releases are kept.
LEMMA LiveKept ==
  ASSUME LiveInv, Kept(releases'), \A a \in Apps : live'[a] \in {live[a], Nobody}
  PROVE  LiveInv'
  BY DEF LiveInv, Kept, ReleasedAs

LEMMA RollOutLive ==
  ASSUME TypeInv, NamesInv, OrderInv, LiveInv, NEW h \in Handlers, RollOut(h)
  PROVE  LiveInv'
<1> DEFINE f == frame[h]
           r == [build |-> f.build, version |-> f.version]
<1>1. /\ todo[h] \in Seq(Steps) /\ todo[h] # <<>> /\ todo[h][1] = "rollout" /\ f \in Frame
      /\ f.app \in Apps /\ Ordered(todo[h], f) /\ VersionNamed(releases, f) /\ FrameNames(releases, f)
      /\ UNCHANGED releases /\ live' = [live EXCEPT ![f.app] = r]
  BY NextCall DEF RollOut, OrderInv, NamesInv, At
<1>2. f.release # Nobody /\ f.release \in ReleaseIds
  <2>1. 1 \in 1..Len(todo[h]) /\ ~ \E j \in 1..(1-1) : TRUE
    BY <1>1
  <2> QED BY <1>1, <2>1 DEF Ordered, Frame
<1>3. /\ releases[f.release] # Nobody /\ releases[f.release] \in Release
      /\ releases[f.release].app = f.app /\ releases[f.release].build = f.build
      /\ releases[f.release].version = f.version
  BY <1>1, <1>2 DEF VersionNamed, FrameNames, TypeInv, TypeOK
<1>4. releases[f.release] = [app |-> f.app, build |-> f.build, version |-> f.version]
  BY <1>3 DEF Release
<1>5. ReleasedAs(releases, f.app, r)
  BY <1>2, <1>3, <1>4 DEF ReleasedAs
<1> HIDE DEF f, r
<1>6. \A a \in Apps : live'[a] = IF a = f.app THEN r ELSE live[a]
  BY <1>1 DEF TypeInv, TypeOK
<1> QED BY <1>1, <1>5, <1>6 DEF LiveInv, ReleasedAs

LEMMA StepLive ==
  ASSUME TypeInv, NamesInv, OrderInv, LiveInv, provider = "aws", NEW h \in Handlers, Step(h)
  PROVE  LiveInv'
<1>1. Kept(releases')
  BY StepOrder
<1>2. CASE Uncluster(h)
  <2>1. \A a \in Apps : live'[a] \in {live[a], Nobody}
    BY <1>2 DEF Uncluster, TypeInv, TypeOK
  <2> QED BY <1>1, <2>1, LiveKept
<1>3. CASE ~ Uncluster(h) /\ ~ RollOut(h)
  <2>1. UNCHANGED live
    BY <1>3 DEF Step, Load, Refresh, Probe, CreateStack, CheckAbsent, PutNew, Insert,
                MergeDomain, FetchBuild, Count, SaveRelease, RecordRelease,
                DropRecord, DropStack, DropBuilds, DropReleases, ListBuilds, ListBuildsPanics,
                Fail, Die
  <2> QED BY <1>1, <2>1, LiveKept
<1> QED BY <1>2, <1>3, RollOutLive

\* On aws what the cluster runs of an app is always a build and a version that
\* were saved together as one release of that app, however deploys overlap, fail
\* or die: each counts, saves and rolls out from its own local variables, in
\* that order, and no release is ever taken back.
THEOREM AwsLiveWasReleased == Spec => []LiveWasReleased
<1> DEFINE Inv == provider = "aws" => OrderInv /\ LiveInv
<1>1. Init => Inv
  BY IdleOrdered DEF Init, OrderInv, LiveInv
<1>2. TypeInv /\ (provider = "aws" => NamesInv) /\ Inv /\ [Next]_vars => Inv'
  <2> SUFFICES ASSUME TypeInv, NamesInv, OrderInv, LiveInv, [Next]_vars, provider = "aws"
               PROVE  OrderInv' /\ LiveInv'
    BY ProviderFixed
  <2>1. ASSUME NEW h \in Handlers, Step(h) PROVE OrderInv' /\ LiveInv'
    BY <2>1, StepOrder, StepLive
  <2>2. ASSUME NEW h \in Handlers, Request(h) PROVE OrderInv' /\ LiveInv'
    <3>1. UNCHANGED <<live, releases>>
      BY <2>2 DEF Request, AppCreate, AppGet, AppDelete, AppUpdateDomain, BuildRelease, Accept
    <3> QED BY <2>2, <3>1, RequestOrder, LiveKept DEF Kept
  <2>3. ASSUME NEW a \in Apps, NEW b \in Builds, BuildCreate(a, b) \/ BuildDelete(a, b)
        PROVE  OrderInv' /\ LiveInv'
    BY <2>3 DEF BuildCreate, BuildDelete, OrderInv, LiveInv
  <2>4. ~ \E id \in ReleaseIds : ReleaseDelete(id)
    BY DEF ReleaseDelete
  <2>5. CASE Crash
    BY <2>5, IdleOrdered DEF Crash, Die, OrderInv, LiveInv
  <2>6. CASE UNCHANGED vars
    BY <2>6 DEF vars, OrderInv, LiveInv
  <2> QED BY <2>1, <2>2, <2>3, <2>4, <2>5, <2>6 DEF Next
<1>3. Inv => LiveWasReleased
  BY DEF LiveInv, ReleasedAs, LiveWasReleased
<1> QED BY <1>1, <1>2, <1>3, AwsNames, TypeInvariant, PTL DEF Spec

------------------------------------------------------------------------------
(* local: an app that is gone comes back only by a create.                   *)

\* On the secret store only the create request of an app makes it exist: every
\* other write of a record, late as it may be, is refused when the app is gone.
THEOREM LocalOnlyCreateRevives == Spec => OnlyCreateRevives
<1> DEFINE Revived(a) == apps[a] = Nobody /\ apps'[a] # Nobody
           Creates(a) == \E h \in Handlers : frame[h].app = a /\ (PutNew(h) \/ Insert(h))
<1>1. ASSUME TypeInv, provider = "local", [Next]_vars, NEW a \in Apps, Revived(a)
      PROVE  Creates(a)
  <2>1. ASSUME NEW h \in Handlers, NEW r, AppUpdate(h, r) PROVE FALSE
    BY <1>1, <2>1 DEF AppUpdate, Written, TypeInv, TypeOK
  <2>2. ASSUME NEW h \in Handlers, PutNew(h) \/ Insert(h) PROVE frame[h].app = a
    BY <1>1, <2>2, NextCall DEF PutNew, Insert, TypeInv, TypeOK
  <2>3. ASSUME NEW h \in Handlers, Step(h) PROVE PutNew(h) \/ Insert(h)
    <3>1. ~ Refresh(h) /\ ~ MergeDomain(h) /\ ~ RecordRelease(h)
      BY <1>1, <2>1 DEF Refresh, MergeDomain, RecordRelease
    <3>2. ~ DropRecord(h)
      BY <1>1 DEF DropRecord, TypeInv, TypeOK
    <3>3. ~ (\/ Load(h) \/ Probe(h) \/ CreateStack(h) \/ CheckAbsent(h) \/ FetchBuild(h) \/ Count(h)
             \/ SaveRelease(h) \/ RollOut(h) \/ Uncluster(h) \/ DropStack(h) \/ DropBuilds(h)
             \/ DropReleases(h) \/ ListBuilds(h) \/ ListBuildsPanics(h) \/ Fail(h))
      BY <1>1 DEF Load, Probe, CreateStack, CheckAbsent, FetchBuild, Count, SaveRelease, RollOut,
                  Uncluster, DropStack, DropBuilds, DropReleases, ListBuilds, ListBuildsPanics,
                  Fail, Die
    <3> QED BY <2>3, <3>1, <3>2, <3>3 DEF Step
  <2>4. ~ \E h \in Handlers : Request(h)
    BY <1>1 DEF Request, AppCreate, AppGet, AppDelete, AppUpdateDomain, BuildRelease, Accept
  <2>5. PICK h \in Handlers : Step(h)
    BY <1>1, <2>4 DEF Next, vars, BuildCreate, BuildDelete, ReleaseDelete, Crash, Die
  <2> QED BY <2>2, <2>3, <2>5
<1>2. TypeInv /\ [Next]_vars =>
        [provider = "local" => \A a \in Apps : Revived(a) => Creates(a)]_vars
  BY <1>1
<1> QED BY <1>2, TypeInvariant, PTL DEF Spec, OnlyCreateRevives

------------------------------------------------------------------------------
(* One request at a time.  A handler that nobody overlaps finds the store as *)
(* it left it: Alone says of its next call what the calls before it have      *)
(* established, and Before which call that was.                               *)

OneAtATime == \A h, k \in Handlers : h = k

\* Call d comes just after call c only if c has prepared for it.
Before(c, d, cloud) ==
  /\ d = "refresh" => c = "load"
  /\ d \in {"mergeDomain", "count"} => c = "refresh"
  /\ d = "saveRelease" => c = "count"
  /\ d = "record" => c = IF cloud = "aws" THEN "saveRelease" ELSE "rollout"
  /\ d = "rollout" => c = IF cloud = "aws" THEN "record" ELSE "saveRelease"
  /\ d = "putNew" => c = "checkAbsent"
  /\ d = "checkAbsent" /\ cloud = "aws" => c = "createStack"
  /\ d = "dropStack" => c = "dropRecord"
  /\ d = "insert" => cloud = "local"

Follows(s, cloud) == \A i \in 1..(Len(s) - 1) : Before(s[i], s[i+1], cloud)

\* A record and a copy of it, but for the mark of an empty list of domains.
Same(r, c) == r.domains \ {NoDomain} = c.domains \ {NoDomain} /\ r.build = c.build

UsesCopy(d, cloud) ==
  \/ d \in {"refresh", "mergeDomain", "count", "saveRelease", "record"}
  \/ d = "rollout" /\ cloud # "aws"

\* The releases that the version of a new release of app a is counted from.
CountedIds(rel, cloud, a) ==
  {id \in ReleaseIds : rel[id] # Nobody /\ rel[id].app \in IF cloud = "aws" THEN Apps ELSE {a}}

\* What a handler finds before call d: the record r of its app, what the cluster
\* runs of it, and the number n of releases it counts.
Ready(d, f, cloud, r, run, n) ==
  /\ UsesCopy(d, cloud) => r # Nobody /\ Same(r, f.copy)
  /\ d = "putNew" /\ cloud = "aws" => r = Nobody
  /\ d = "record" /\ cloud # "aws" => run.build = f.build
  /\ d = "saveRelease" /\ cloud # "local" => f.version \in {1, n + 1}

Alone(s, f, cloud, table, running, rel) ==
  /\ Follows(s, cloud)
  /\ s # <<>> => Ready(Head(s), f, cloud, table[f.app], running[f.app],
                       Cardinality(CountedIds(rel, cloud, f.app)))

AloneInv == \A h \in Handlers : Alone(todo[h], frame[h], provider, apps, live, releases)

\* No version is beyond the count that the next one is made from.
Numbered(rel, cloud) ==
  \A i \in ReleaseIds :
    rel[i] # Nobody => rel[i].version <= Cardinality(CountedIds(rel, cloud, rel[i].app))

VersionInv == provider # "local" => Numbered(releases, provider) /\ OnlyFirstRepeats

LEMMA TailFollows ==
  ASSUME NEW s \in Seq(Steps), s # <<>>, NEW cloud, Follows(s, cloud)
  PROVE  /\ Follows(Tail(s), cloud)
         /\ Tail(s) # <<>> => Before(Head(s), Head(Tail(s)), cloud)
<1> DEFINE t == Tail(s)
<1>1. /\ t \in Seq(Steps) /\ Len(t) = Len(s) - 1 /\ Len(s) \in Nat
      /\ \A i \in 1..Len(t) : t[i] = s[i+1]
      /\ Head(s) = s[1]
  OBVIOUS
<1>2. t # <<>> => Head(t) = s[2] /\ 1 \in 1..(Len(s) - 1)
  BY <1>1
<1>3. ASSUME NEW i \in 1..(Len(t) - 1) PROVE Before(t[i], t[i+1], cloud)
  <2>1. i + 1 \in 1..(Len(s) - 1) /\ t[i] = s[i+1] /\ t[i+1] = s[(i+1)+1]
    BY <1>1
  <2> QED BY <2>1 DEF Follows
<1>4. t # <<>> => Before(Head(s), Head(t), cloud)
  BY <1>1, <1>2 DEF Follows
<1> QED BY <1>3, <1>4 DEF Follows

\* The handler goes on with calls that find what they need, or answers.
LEMMA ContinueAlone ==
  ASSUME OneAtATime, TypeInv, NEW h \in Handlers, NEW s, NEW f, Continue(h, s, f),
         Alone(s, f, provider', apps', live', releases')
  PROVE  AloneInv'
<1>1. todo'[h] = s /\ (s = <<>> \/ frame'[h] = f)
  BY DEF Continue, TypeInv, TypeOK
<1>2. Alone(todo'[h], frame'[h], provider', apps', live', releases')
  <2>1. CASE s = <<>>
    BY <1>1, <2>1 DEF Alone
  <2>2. CASE frame'[h] = f
    BY <1>1, <2>2
  <2> QED BY <1>1, <2>1, <2>2
<1>3. \A k \in Handlers : k = h
  BY DEF OneAtATime
<1> QED BY <1>2, <1>3 DEF AloneInv

LEMMA ReturnAlone ==
  ASSUME OneAtATime, TypeInv, NEW h \in Handlers, Return(h)
  PROVE  AloneInv'
<1>1. Alone(<<>>, Idle, provider', apps', live', releases')
  BY DEF Alone, Follows
<1> QED BY <1>1, ContinueAlone DEF Return

\* A handler that has made call c goes on with the local variables g.
LEMMA NextAlone ==
  ASSUME OneAtATime, TypeInv, AloneInv, UNCHANGED provider,
         NEW h \in Handlers, NEW c, At(h, c), NEW g, Continue(h, Tail(todo[h]), g),
         \A d : Before(c, d, provider) =>
           Ready(d, g, provider, apps'[g.app], live'[g.app],
                 Cardinality(CountedIds(releases', provider, g.app)))
  PROVE  AloneInv'
<1>1. todo[h] \in Seq(Steps) /\ todo[h] # <<>> /\ Head(todo[h]) = c /\ Follows(todo[h], provider)
  BY DEF TypeInv, TypeOK, At, AloneInv, Alone
<1>2. /\ Follows(Tail(todo[h]), provider)
      /\ Tail(todo[h]) # <<>> => Before(c, Head(Tail(todo[h])), provider)
  BY <1>1, TailFollows
<1>3. Alone(Tail(todo[h]), g, provider', apps', live', releases')
  BY <1>2 DEF Alone
<1> QED BY <1>3, ContinueAlone

\* A call that prepares for nothing.
LEMMA FreeAlone ==
  ASSUME OneAtATime, TypeInv, AloneInv, UNCHANGED provider,
         NEW h \in Handlers, NEW c, At(h, c), Proceed(h),
         c \notin {"load", "refresh", "count", "saveRelease", "record", "rollout", "checkAbsent"}
  PROVE  AloneInv'
<1>1. \A d, r, run, n : Before(c, d, provider) => Ready(d, frame[h], provider, r, run, n)
  BY DEF Before, Ready, UsesCopy
<1> QED BY <1>1, NextAlone DEF Proceed

\* What the handler finds at call c.
LEMMA FindsIt ==
  ASSUME TypeInv, AloneInv, NEW h \in Handlers, NEW c, At(h, c)
  PROVE  /\ frame[h] \in Frame /\ frame[h].app \in Apps
         /\ Ready(c, frame[h], provider, apps[frame[h].app], live[frame[h].app],
                  Cardinality(CountedIds(releases, provider, frame[h].app)))
  BY NextCall DEF AloneInv, Alone, At

LEMMA SameWritten ==
  ASSUME NEW r \in Record
  PROVE  Persisted(r) \in Record /\ Same(Persisted(r), r)
<1>1. CASE provider = "local" /\ r.domains = {}
  <2>1. Persisted(r) = [r EXCEPT !.domains = {NoDomain}]
    BY <1>1 DEF Persisted
  <2> QED BY <1>1, <2>1 DEF Record, Same
<1>2. CASE ~ (provider = "local" /\ r.domains = {})
  BY <1>2 DEF Persisted, Same
<1> QED BY <1>1, <1>2

\* Reading the record, and writing it back as it is.
LEMMA ReadAlone ==
  ASSUME OneAtATime, TypeInv, AloneInv, NEW h \in Handlers, Load(h) \/ Probe(h) \/ Refresh(h)
  PROVE  AloneInv'
<1> DEFINE a == frame[h].app
           g == [frame[h] EXCEPT !.copy = apps[a]]
<1>0. frame[h] \in Frame /\ a \in Apps
  BY NextCall DEF Load, Probe, Refresh
<1>1. Found(a) => /\ g.app = a /\ g.copy = apps[a] /\ apps[a] # Nobody
                  /\ Same(apps[a], g.copy)
  BY <1>0 DEF Frame, Found, Same
<1>2. CASE Load(h)
  <2>1. CASE Found(a) /\ Continue(h, Tail(todo[h]), g)
    <3> HIDE DEF g, a
    <3>1. \A d, run, n : Before("load", d, provider) => Ready(d, g, provider, apps[a], run, n)
      BY <1>1, <2>1 DEF Before, Ready, UsesCopy
    <3> QED BY <1>1, <1>2, <2>1, <3>1, NextAlone DEF Load
  <2> QED BY <1>2, <2>1, ReturnAlone DEF Load
<1>3. CASE Probe(h)
  <2>1. CASE Found(a) /\ Continue(h, <<"refresh">>, g)
    <3> HIDE DEF g, a
    <3>1. Alone(<<"refresh">>, g, provider, apps, live, releases)
      BY <1>1, <2>1 DEF Alone, Follows, Ready, UsesCopy
    <3> QED BY <1>3, <2>1, <3>1, ContinueAlone DEF Probe
  <2> QED BY <1>3, <2>1, FreeAlone DEF Probe
<1>4. CASE Refresh(h)
  <2>1. /\ At(h, "refresh") /\ UNCHANGED <<provider, live, releases>>
        /\ frame[h].copy \in Record /\ apps[a] # Nobody /\ Same(apps[a], frame[h].copy)
    BY <1>4, FindsIt, NextCall DEF Refresh, Ready, UsesCopy
  <2>2. ASSUME Proceed(h), apps'[a] # Nobody, Same(apps'[a], frame[h].copy) PROVE AloneInv'
    <3>1. \A d, run, n : Before("refresh", d, provider) => Ready(d, frame[h], provider, apps'[a], run, n)
      BY <2>2 DEF Before, Ready, UsesCopy
    <3> QED BY <2>1, <2>2, <3>1, NextAlone DEF Proceed
  <2>3. CASE AppUpdate(h, frame[h].copy)
    <3>1. CASE Return(h)
      BY <3>1, ReturnAlone
    <3>2. CASE Proceed(h) /\ apps' = [apps EXCEPT ![a] = Persisted(frame[h].copy)]
      <4>1. apps'[a] = Persisted(frame[h].copy)
        BY <1>0, <3>2 DEF TypeInv, TypeOK
      <4> QED BY <2>1, <2>2, <3>2, <4>1, SameWritten, NobodyAssumption DEF Record
    <3> QED BY <2>3, <3>1, <3>2 DEF AppUpdate
  <2> QED BY <1>4, <2>1, <2>2, <2>3, ReturnAlone DEF Refresh
<1> QED BY <1>2, <1>3, <1>4

\* A count is the number of the releases there are, or has failed.
LEMMA CountIs ==
  ASSUME TypeOK, provider # "local", NEW a, NEW n \in ReleaseCount(a)
  PROVE  n \in {0, Cardinality(CountedIds(releases, provider, a))}
<1>1. CASE provider = "aws"
  <2>1. CountedIds(releases, provider, a) = SavedIds(Apps)
    BY <1>1 DEF CountedIds, SavedIds
  <2> QED BY <1>1, <2>1 DEF ReleaseCount
<1>2. CASE provider = "gcp"
  <2>1. CountedIds(releases, provider, a) = SavedIds({a})
    BY <1>2 DEF CountedIds, SavedIds
  <2> QED BY <1>2, <2>1 DEF ReleaseCount
<1> QED BY <1>1, <1>2 DEF TypeOK

\* The calls of a release: count, save, record and roll out.
LEMMA ReleaseAlone ==
  ASSUME OneAtATime, TypeInv, AloneInv, NEW h \in Handlers,
         Count(h) \/ SaveRelease(h) \/ RecordRelease(h) \/ RollOut(h)
  PROVE  AloneInv'
<1> DEFINE a == frame[h].app
<1>0. frame[h] \in Frame /\ a \in Apps /\ UNCHANGED provider
  BY NextCall DEF Count, SaveRelease, RecordRelease, RollOut
<1>1. CASE Count(h)
  <2>0. PICK n \in ReleaseCount(a) :
          Continue(h, Tail(todo[h]), [frame[h] EXCEPT !.version = n + 1])
    BY <1>1 DEF Count
  <2> DEFINE g == [frame[h] EXCEPT !.version = n + 1]
  <2>1. /\ At(h, "count") /\ UNCHANGED <<apps, live, releases>> /\ Continue(h, Tail(todo[h]), g)
        /\ apps[a] # Nobody /\ Same(apps[a], frame[h].copy)
    BY <1>1, <2>0, FindsIt DEF Count, Ready, UsesCopy
  <2>2. g.app = a /\ g.copy = frame[h].copy /\ g.version = n + 1
    BY <1>0 DEF Frame
  <2>3. provider # "local" => g.version \in {1, Cardinality(CountedIds(releases, provider, a)) + 1}
    <3>1. provider # "local" => n \in {0, Cardinality(CountedIds(releases, provider, a))}
      BY CountIs DEF TypeInv
    <3>2. g.version = n + 1
      BY <2>2
    <3> HIDE DEF g
    <3> QED BY <3>1, <3>2
  <2> HIDE DEF g, a
  <2>4. \A d, run : Before("count", d, provider) =>
          Ready(d, g, provider, apps[a], run, Cardinality(CountedIds(releases, provider, a)))
    BY <2>1, <2>2, <2>3 DEF Before, Ready, UsesCopy
  <2> QED BY <1>0, <2>1, <2>2, <2>4, NextAlone
<1>2. CASE SaveRelease(h)
  <2>1. PICK id \in ReleaseIds : Continue(h, Tail(todo[h]), [frame[h] EXCEPT !.release = id])
    BY <1>2 DEF SaveRelease
  <2> DEFINE g == [frame[h] EXCEPT !.release = id]
  <2>2. /\ At(h, "saveRelease") /\ UNCHANGED <<apps, live>>
        /\ apps[a] # Nobody /\ Same(apps[a], frame[h].copy)
    BY <1>2, FindsIt DEF SaveRelease, Ready, UsesCopy
  <2>3. g.app = a /\ g.copy = frame[h].copy /\ Continue(h, Tail(todo[h]), g)
    BY <1>0, <2>1 DEF Frame
  <2> HIDE DEF g, a
  <2>4. \A d, run, n : Before("saveRelease", d, provider) => Ready(d, g, provider, apps[a], run, n)
    BY <2>2, <2>3 DEF Before, Ready, UsesCopy
  <2> QED BY <1>0, <2>2, <2>3, <2>4, NextAlone
<1>3. CASE RecordRelease(h)
  <2>1. CASE Return(h)
    BY <2>1, ReturnAlone
  <2>2. CASE Proceed(h)
    <3>1. \A d, r, run, n : Before("record", d, provider) => Ready(d, frame[h], provider, r, run, n)
      BY DEF Before, Ready, UsesCopy
    <3> QED BY <1>0, <1>3, <2>2, <3>1, NextAlone DEF RecordRelease, Proceed
  <2> QED BY <1>3, <2>1, <2>2 DEF RecordRelease, AppUpdate
<1>4. CASE RollOut(h)
  <2>1. /\ At(h, "rollout") /\ UNCHANGED <<apps, releases>> /\ Proceed(h)
        /\ provider # "aws" => apps[a] # Nobody /\ Same(apps[a], frame[h].copy)
    BY <1>4, FindsIt DEF RollOut, Ready, UsesCopy
  <2>2. live'[a].build = frame[h].build
    BY <1>0, <1>4 DEF RollOut, TypeInv, TypeOK
  <2>3. \A d, n : Before("rollout", d, provider) => Ready(d, frame[h], provider, apps[a], live'[a], n)
    <3> HIDE DEF a
    <3> QED BY <2>1, <2>2 DEF Before, Ready, UsesCopy
  <2> QED BY <1>0, <2>1, <2>3, NextAlone DEF Proceed
<1> QED BY <1>1, <1>2, <1>3, <1>4

\* The calls a request begins with.
LEMMA StartsAlone ==
  ASSUME TypeOK, NEW s \in {CreateCalls, AppGetCalls, DeleteCalls, DomainCalls, ReleaseCalls}, NEW f,
         NEW table, NEW running, NEW rel
  PROVE  Alone(s, f, provider, table, running, rel)
<1>1. provider \in {"aws", "gcp", "local"}
  BY DEF TypeOK
<1>2. ASSUME NEW c \in {"probe", "load", "uncluster", "putNew", "checkAbsent"}, NEW r, NEW run, NEW n,
             c = "putNew" => provider = "gcp"
      PROVE  Ready(c, f, provider, r, run, n)
  BY <1>2 DEF Ready, UsesCopy
<1>3. CASE s = CreateCalls
  <2>1. Follows(s, provider)
    BY <1>1, <1>3 DEF CreateCalls, CallsOf, AwsCreateCalls, GcpCreateCalls, LocalCreateCalls, Follows, Before
  <2>2. /\ Head(s) \in {"probe", "putNew", "checkAbsent"}
        /\ Head(s) = "putNew" => provider = "gcp"
    BY <1>1, <1>3 DEF CreateCalls, CallsOf, AwsCreateCalls, GcpCreateCalls, LocalCreateCalls
  <2> QED BY <1>2, <2>1, <2>2 DEF Alone
<1>4. CASE s \in {AppGetCalls, DomainCalls}
  <2>1. Follows(s, provider) /\ Head(s) = "load"
    BY <1>4 DEF AppGetCalls, DomainCalls, Follows, Before
  <2> QED BY <1>2, <2>1 DEF Alone
<1>5. CASE s = DeleteCalls
  <2>1. Follows(s, provider) /\ Head(s) = "uncluster"
    BY <1>1, <1>5 DEF DeleteCalls, CallsOf, AwsDeleteCalls, GcpDeleteCalls, LocalDeleteCalls, Follows, Before
  <2> QED BY <1>2, <2>1 DEF Alone
<1>6. CASE s = ReleaseCalls
  <2>1. Follows(s, provider) /\ Head(s) = "load"
    BY <1>1, <1>6 DEF ReleaseCalls, CallsOf, AwsReleaseCalls, GcpReleaseCalls, LocalReleaseCalls, Follows, Before
  <2> QED BY <1>2, <2>1 DEF Alone
<1> QED BY <1>3, <1>4, <1>5, <1>6

LEMMA RequestAlone ==
  ASSUME OneAtATime, TypeInv, NEW h \in Handlers, Request(h)
  PROVE  AloneInv'
<1>1. ASSUME NEW f, NEW s \in {CreateCalls, AppGetCalls, DeleteCalls, DomainCalls, ReleaseCalls},
             Accept(h, f, s)
      PROVE  AloneInv'
  <2>1. Alone(s, f, provider, apps, live, releases)
    BY StartsAlone DEF TypeInv
  <2> QED BY <1>1, <2>1, ContinueAlone DEF Accept
<1>2. PICK a \in Apps :
        \/ AppCreate(h, a) \/ AppGet(h, a) \/ AppDelete(h, a)
        \/ \E d \in Domains, add \in BOOLEAN : AppUpdateDomain(h, a, d, add)
        \/ \E b \in Builds : BuildRelease(h, a, b)
  BY DEF Request
<1>3. CASE AppCreate(h, a) \/ AppGet(h, a) \/ AppDelete(h, a)
  BY <1>1, <1>3 DEF AppCreate, AppGet, AppDelete
<1>4. CASE \E d \in Domains, add \in BOOLEAN : AppUpdateDomain(h, a, d, add)
  BY <1>1, <1>4 DEF AppUpdateDomain
<1>5. CASE \E b \in Builds : BuildRelease(h, a, b)
  BY <1>1, <1>5 DEF BuildRelease
<1> QED BY <1>2, <1>3, <1>4, <1>5

LEMMA StepAlone ==
  ASSUME OneAtATime, TypeInv, AloneInv, NEW h \in Handlers, Step(h)
  PROVE  AloneInv'
<1>1. CASE \/ CreateStack(h) \/ PutNew(h) \/ Insert(h) \/ MergeDomain(h) \/ Uncluster(h) \/ DropRecord(h)
           \/ DropStack(h) \/ DropBuilds(h) \/ DropReleases(h) \/ ListBuilds(h)
  <2>1. PICK c : /\ At(h, c) /\ UNCHANGED provider
                 /\ c \notin {"load", "refresh", "count", "saveRelease", "record", "rollout", "checkAbsent"}
                 /\ Proceed(h) \/ Return(h)
    <3>1. CASE CreateStack(h) \/ PutNew(h) \/ Insert(h) \/ MergeDomain(h) \/ Uncluster(h) \/ DropRecord(h)
      BY <3>1 DEF CreateStack, PutNew, Insert, MergeDomain, AppUpdate, Uncluster, DropRecord
    <3>2. CASE DropStack(h) \/ DropBuilds(h) \/ DropReleases(h) \/ ListBuilds(h)
      BY <3>2 DEF DropStack, DropBuilds, DropReleases, ListBuilds
    <3> QED BY <1>1, <3>1, <3>2
  <2> QED BY <2>1, ReturnAlone, FreeAlone
<1>2. CASE FetchBuild(h)
  <2>1. ASSUME NEW f, Continue(h, ReleaseCalls, f) PROVE AloneInv'
    <3>1. Alone(ReleaseCalls, f, provider, apps', live', releases')
      BY StartsAlone DEF TypeInv
    <3> QED BY <1>2, <2>1, <3>1, ContinueAlone DEF FetchBuild
  <2> QED BY <1>2, <2>1, ReturnAlone DEF FetchBuild
<1>3. CASE CheckAbsent(h)
  <2> DEFINE a == frame[h].app
  <2>1. CASE apps[a] = Nobody
    <3>1. At(h, "checkAbsent") /\ Proceed(h) /\ UNCHANGED <<provider, apps, live, releases>>
      BY <1>3, <2>1 DEF CheckAbsent
    <3> HIDE DEF a
    <3>2. \A d, run, n : Before("checkAbsent", d, provider) => Ready(d, frame[h], provider, apps[a], run, n)
      BY <2>1 DEF Before, Ready, UsesCopy
    <3> QED BY <3>1, <3>2, NextAlone DEF Proceed, a
  <2> QED BY <1>3, <2>1, ReturnAlone DEF CheckAbsent
<1>4. CASE ListBuildsPanics(h)
  BY <1>4 DEF ListBuildsPanics, Die, AloneInv, Alone, Follows
<1>5. CASE Fail(h)
  BY <1>5, ReturnAlone DEF Fail
<1> QED BY <1>1, <1>2, <1>3, <1>4, <1>5, ReadAlone, ReleaseAlone DEF Step

LEMMA AloneHolds == OneAtATime => (Spec => []AloneInv)
<1> SUFFICES ASSUME OneAtATime PROVE Spec => []AloneInv
  OBVIOUS
<1>1. Init => AloneInv
  BY DEF Init, AloneInv, Alone, Follows
<1>2. TypeInv /\ AloneInv /\ [Next]_vars => AloneInv'
  <2> SUFFICES ASSUME TypeInv, AloneInv, [Next]_vars PROVE AloneInv'
    OBVIOUS
  <2>1. ASSUME NEW h \in Handlers, Request(h) \/ Step(h) PROVE AloneInv'
    BY <2>1, RequestAlone, StepAlone
  <2>2. ASSUME NEW a \in Apps, NEW b \in Builds, BuildCreate(a, b) \/ BuildDelete(a, b)
        PROVE  AloneInv'
    BY <2>2 DEF BuildCreate, BuildDelete, AloneInv
  <2>3. ASSUME NEW id \in ReleaseIds, ReleaseDelete(id) PROVE AloneInv'
    <3>1. \A d, f, r, run, n, m : Ready(d, f, "local", r, run, n) => Ready(d, f, "local", r, run, m)
      BY DEF Ready
    <3> QED BY <2>3, <3>1 DEF ReleaseDelete, AloneInv, Alone
  <2>4. CASE Crash
    BY <2>4 DEF Crash, Die, AloneInv, Alone, Follows
  <2>5. CASE UNCHANGED vars
    BY <2>5 DEF vars, AloneInv
  <2> QED BY <2>1, <2>2, <2>3, <2>4, <2>5 DEF Next
<1> QED BY <1>1, <1>2, TypeInvariant, PTL DEF Spec

\* On gcp and local, a request to deploy that nobody overlaps ends with the record
\* naming the build the cluster runs: the rollout comes before the record, and
\* both take the build from the same local variable.
THEOREM DeployIsRecorded == OneAtATime => (Spec => DeployedIsRecorded)
<1> SUFFICES ASSUME OneAtATime PROVE Spec => DeployedIsRecorded
  OBVIOUS
<1> DEFINE Recorded ==
      provider # "aws" => \A h \in Handlers :
        LET a == frame[h].app IN
        RecordRelease(h) /\ apps'[a] # Nobody => live[a].build = apps'[a].build
<1>1. TypeInv /\ AloneInv => Recorded
  <2> SUFFICES ASSUME TypeInv, AloneInv, provider # "aws", NEW h \in Handlers, RecordRelease(h),
                      apps'[frame[h].app] # Nobody
               PROVE  live[frame[h].app].build = apps'[frame[h].app].build
    OBVIOUS
  <2> DEFINE a == frame[h].app
  <2>1. /\ frame[h] \in Frame /\ a \in Apps /\ frame[h].copy \in Record /\ frame[h].build \in Builds
        /\ live[a].build = frame[h].build /\ AppUpdate(h, Released(h))
    BY FindsIt, NextCall DEF RecordRelease, Ready
  <2>2. Released(h).build = frame[h].build /\ Persisted(Released(h)).build = frame[h].build
    BY <2>1 DEF Released, Persisted, Record
  <2>3. apps'[a] = Persisted(Released(h))
    <3> HIDE DEF a
    <3>1. apps \in [Apps -> Record \cup {Nobody}]
      BY DEF TypeInv, TypeOK
    <3>2. apps[a] # Nobody
      BY FindsIt DEF RecordRelease, Ready, UsesCopy, a
    <3> QED BY <2>1, <3>1, <3>2 DEF AppUpdate, Written, a
  <2> QED BY <2>1, <2>2, <2>3
<1>2. TypeInv /\ AloneInv /\ [Next]_vars => [Recorded]_vars
  BY <1>1
<1>3. Spec => [][Recorded]_vars
  BY <1>2, TypeInvariant, AloneHolds, PTL DEF Spec
<1> QED BY <1>3 DEF DeployedIsRecorded

------------------------------------------------------------------------------
(* Stacks: what a create has made, and a delete has taken, before call d.    *)

StackReady(d, has, r) ==
  /\ d \in {"checkAbsent", "putNew"} => has
  /\ d = "dropStack" => r = Nobody
  /\ d # "insert"

StackInv ==
  provider = "aws" =>
    /\ RecordHasStack
    /\ \A h \in Handlers :
         todo[h] # <<>> => StackReady(Head(todo[h]), frame[h].app \in stacks, apps[frame[h].app])

LEMMA StackContinue ==
  ASSUME OneAtATime, TypeInv, NEW h \in Handlers, NEW s, NEW f, Continue(h, s, f), RecordHasStack',
         s # <<>> => StackReady(Head(s), f.app \in stacks', apps'[f.app])
  PROVE  StackInv'
<1>1. todo'[h] = s /\ (s # <<>> => frame'[h] = f)
  BY DEF Continue, TypeInv, TypeOK
<1>2. \A k \in Handlers : k = h
  BY DEF OneAtATime
<1> QED BY <1>1, <1>2 DEF StackInv

LEMMA StackReturn ==
  ASSUME OneAtATime, TypeInv, NEW h \in Handlers, Return(h), RecordHasStack'
  PROVE  StackInv'
  BY StackContinue DEF Return

LEMMA StackNext ==
  ASSUME OneAtATime, TypeInv, AloneInv, provider = "aws", RecordHasStack',
         NEW h \in Handlers, NEW c, At(h, c), NEW g, Continue(h, Tail(todo[h]), g),
         c = "createStack" => g.app \in stacks',
         c = "checkAbsent" => g.app \in stacks',
         c = "dropRecord" => apps'[g.app] = Nobody
  PROVE  StackInv'
<1>1. todo[h] \in Seq(Steps) /\ todo[h] # <<>> /\ Head(todo[h]) = c /\ Follows(todo[h], provider)
  BY DEF TypeInv, TypeOK, At, AloneInv, Alone
<1>2. Tail(todo[h]) # <<>> => Before(c, Head(Tail(todo[h])), provider)
  BY <1>1, TailFollows
<1>3. Tail(todo[h]) # <<>> => StackReady(Head(Tail(todo[h])), g.app \in stacks', apps'[g.app])
  BY <1>2 DEF Before, StackReady
<1> QED BY <1>3, StackContinue

\* A record written back is one that the handler has found.
LEMMA StackWrite ==
  ASSUME OneAtATime, TypeInv, AloneInv, StackInv, provider = "aws", UNCHANGED stacks,
         NEW h \in Handlers, NEW c, At(h, c), c \in {"refresh", "mergeDomain", "record"},
         NEW r, AppUpdate(h, r)
  PROVE  StackInv'
<1> DEFINE a == frame[h].app
<1>1. a \in Apps /\ apps[a] # Nobody
  BY FindsIt DEF Ready, UsesCopy
<1>2. apps' = [apps EXCEPT ![a] = Persisted(r)] /\ Proceed(h)
  BY DEF AppUpdate, Written
<1>3. \A b \in Apps : b # a => apps'[b] = apps[b]
  BY <1>2 DEF TypeInv, TypeOK
<1>4. RecordHasStack'
  BY <1>1, <1>3 DEF StackInv, RecordHasStack
<1> QED BY <1>2, <1>4, StackNext DEF Proceed

LEMMA StackStep ==
  ASSUME OneAtATime, TypeInv, AloneInv, StackInv, provider = "aws", NEW h \in Handlers, Step(h)
  PROVE  StackInv'
<1> DEFINE a == frame[h].app
<1>0. RecordHasStack /\ apps \in [Apps -> Record \cup {Nobody}]
  BY DEF StackInv, TypeInv, TypeOK
<1>1. UNCHANGED <<apps, stacks>> => RecordHasStack'
  BY <1>0, ProviderFixed DEF RecordHasStack, Next
<1>2. ASSUME Return(h), UNCHANGED <<apps, stacks>> PROVE StackInv'
  BY <1>1, <1>2, StackReturn
<1>3. CASE Load(h) \/ Probe(h) \/ Count(h) \/ SaveRelease(h) \/ FetchBuild(h)
  <2>1. PICK c, s, g :
          /\ At(h, c) /\ Continue(h, s, g) /\ UNCHANGED <<apps, stacks>>
          /\ c \notin {"createStack", "checkAbsent", "dropRecord"}
          /\ s = Tail(todo[h]) \/ s = <<>> \/ s = <<"refresh">> \/ s = ReleaseCalls
    <3>1. CASE Load(h) \/ Probe(h)
      BY <3>1 DEF Load, Probe, Proceed, Return
    <3>2. CASE Count(h) \/ SaveRelease(h) \/ FetchBuild(h)
      BY <3>2 DEF Count, SaveRelease, FetchBuild, Return
    <3> QED BY <1>3, <3>1, <3>2
  <2>2. CASE s = Tail(todo[h])
    BY <1>1, <2>1, <2>2, StackNext
  <2>3. CASE s \in {<<>>, <<"refresh">>, ReleaseCalls}
    <3>1. s # <<>> => Head(s) \in {"refresh", "load"}
      BY <2>3 DEF ReleaseCalls, CallsOf, AwsReleaseCalls
    <3> QED BY <1>1, <2>1, <3>1, StackContinue DEF StackReady
  <2> QED BY <2>1, <2>2, <2>3
<1>4. CASE Refresh(h) \/ MergeDomain(h) \/ RecordRelease(h)
  <2>1. PICK c : At(h, c) /\ c \in {"refresh", "mergeDomain", "record"} /\ UNCHANGED stacks
    BY <1>4 DEF Refresh, MergeDomain, RecordRelease
  <2>2. \/ \E r : AppUpdate(h, r)
        \/ UNCHANGED apps /\ (Proceed(h) \/ Return(h))
    BY <1>4 DEF Refresh, MergeDomain, RecordRelease
  <2> QED BY <1>1, <1>2, <2>1, <2>2, StackWrite, StackNext DEF Proceed
<1>5. CASE CreateStack(h)
  <2>1. CASE Proceed(h) /\ stacks' = stacks \cup {a} /\ UNCHANGED apps
    <3>1. RecordHasStack'
      BY <1>0, <2>1 DEF RecordHasStack
    <3> QED BY <1>5, <2>1, <3>1, StackNext DEF CreateStack, Proceed
  <2> QED BY <1>2, <1>5, <2>1 DEF CreateStack
<1>6. CASE CheckAbsent(h)
  <2>1. a \in stacks /\ At(h, "checkAbsent") /\ UNCHANGED <<apps, stacks>>
    BY <1>6 DEF CheckAbsent, At, StackInv, StackReady
  <2> QED BY <1>1, <1>2, <1>6, <2>1, StackNext DEF CheckAbsent, Proceed
<1>7. CASE PutNew(h)
  <2>1. /\ a \in stacks /\ At(h, "putNew") /\ UNCHANGED stacks
        /\ apps' = [apps EXCEPT ![a] = NewRecord] /\ Proceed(h)
    BY <1>7 DEF PutNew, At, StackInv, StackReady
  <2>2. RecordHasStack'
    BY <1>0, <2>1 DEF RecordHasStack
  <2> QED BY <2>1, <2>2, StackNext DEF Proceed
<1>8. CASE DropRecord(h)
  <2>1. /\ a \in Apps /\ At(h, "dropRecord") /\ UNCHANGED stacks
        /\ apps' = [apps EXCEPT ![a] = Nobody] /\ Proceed(h)
    BY <1>8, NextCall DEF DropRecord, Written
  <2>2. RecordHasStack' /\ apps'[a] = Nobody
    BY <1>0, <2>1 DEF RecordHasStack
  <2> QED BY <2>1, <2>2, StackNext DEF Proceed
<1>9. CASE DropStack(h)
  <2>1. /\ apps[a] = Nobody /\ At(h, "dropStack") /\ UNCHANGED apps
        /\ stacks' = stacks \ {a} /\ Proceed(h)
    BY <1>9 DEF DropStack, At, StackInv, StackReady
  <2>2. RecordHasStack'
    BY <1>0, <2>1 DEF RecordHasStack
  <2> QED BY <2>1, <2>2, StackNext DEF Proceed
<1>10. CASE RollOut(h) \/ Uncluster(h) \/ DropBuilds(h) \/ DropReleases(h) \/ ListBuilds(h)
  <2>1. PICK c : /\ At(h, c) /\ Proceed(h) /\ UNCHANGED <<apps, stacks>>
                 /\ c \notin {"createStack", "checkAbsent", "dropRecord"}
    BY <1>10 DEF RollOut, Uncluster, DropBuilds, DropReleases, ListBuilds
  <2> QED BY <1>1, <2>1, StackNext DEF Proceed
<1>11. CASE Fail(h)
  BY <1>2, <1>11 DEF Fail
<1>12. CASE ListBuildsPanics(h)
  BY <1>1, <1>12 DEF ListBuildsPanics, Die, StackInv
<1>13. ~ Insert(h)
  BY DEF Insert, At, StackInv, StackReady
<1> QED BY <1>3, <1>4, <1>5, <1>6, <1>7, <1>8, <1>9, <1>10, <1>11, <1>12, <1>13 DEF Step

\* On aws, requests one at a time leave no app record without its stack, whichever
\* call fails or dies: a create makes the stack before the record, and a delete
\* takes the record before the stack.
THEOREM RecordKeepsStack == OneAtATime => (Spec => []RecordHasStack)
<1> SUFFICES ASSUME OneAtATime PROVE Spec => []RecordHasStack
  OBVIOUS
<1>1. Init => StackInv
  BY DEF Init, StackInv, RecordHasStack
<1>2. TypeInv /\ AloneInv /\ StackInv /\ [Next]_vars => StackInv'
  <2> SUFFICES ASSUME TypeInv, AloneInv, StackInv, [Next]_vars, provider = "aws" PROVE StackInv'
    BY ProviderFixed DEF StackInv
  <2>1. UNCHANGED <<apps, stacks>> => RecordHasStack'
    BY ProviderFixed DEF StackInv, RecordHasStack
  <2>2. ASSUME NEW h \in Handlers, Request(h) PROVE StackInv'
    <3>1. PICK f, s : /\ Continue(h, s, f) /\ UNCHANGED <<apps, stacks>>
                      /\ s \in {CreateCalls, AppGetCalls, DeleteCalls, DomainCalls, ReleaseCalls}
      BY <2>2 DEF Request, AppCreate, AppGet, AppDelete, AppUpdateDomain, BuildRelease, Accept
    <3>2. Head(s) \in {"probe", "load", "uncluster"}
      BY <3>1 DEF CreateCalls, AppGetCalls, DeleteCalls, DomainCalls, ReleaseCalls, CallsOf,
                  AwsCreateCalls, AwsDeleteCalls, AwsReleaseCalls
    <3> QED BY <2>1, <3>1, <3>2, StackContinue DEF StackReady
  <2>3. CASE Crash
    BY <2>1, <2>3 DEF Crash, Die, StackInv
  <2>4. CASE \/ \E a \in Apps, b \in Builds : BuildCreate(a, b) \/ BuildDelete(a, b)
             \/ \E id \in ReleaseIds : ReleaseDelete(id)
             \/ UNCHANGED vars
    BY <2>1, <2>4 DEF BuildCreate, BuildDelete, ReleaseDelete, vars, StackInv
  <2> QED BY <2>2, <2>3, <2>4, StackStep DEF Next
<1>3. StackInv => RecordHasStack
  BY DEF StackInv, RecordHasStack
<1> QED BY <1>1, <1>2, <1>3, TypeInvariant, AloneHolds, PTL DEF Spec

------------------------------------------------------------------------------
(* Versions                                                                 *)

LEMMA CountedIsFinite == \A rel, cloud, a : IsFiniteSet(CountedIds(rel, cloud, a))
  BY FinitenessAssumption, FS_Subset DEF CountedIds

\* One release more, numbered one beyond those that are counted.
LEMMA SaveVersions ==
  ASSUME TypeInv, AloneInv, VersionInv, provider # "local", NEW h \in Handlers, SaveRelease(h)
  PROVE  Numbered(releases', provider) /\ OnlyFirstRepeats'
<1> DEFINE a == frame[h].app
           n == Cardinality(CountedIds(releases, provider, a))
<1>1. PICK id \in ReleaseIds :
        /\ releases[id] = Nobody
        /\ releases' = [releases EXCEPT ![id] =
               [app |-> frame[h].app, build |-> frame[h].build, version |-> frame[h].version]]
  BY DEF SaveRelease
<1> DEFINE new == [app |-> frame[h].app, build |-> frame[h].build, version |-> frame[h].version]
<1>2. /\ frame[h] \in Frame /\ a \in Apps /\ frame[h].build \in Builds /\ frame[h].version \in Nat
      /\ frame[h].version \in {1, n + 1} /\ UNCHANGED provider
  BY FindsIt, NextCall DEF SaveRelease, Ready, Frame
<1>3. new.app = a /\ new.version \in {1, n + 1} /\ new # Nobody
  BY <1>2, NobodyAssumption
<1>4. \A i \in ReleaseIds : releases'[i] = IF i = id THEN new ELSE releases[i]
  BY <1>1 DEF TypeInv, TypeOK
<1>5. \A i \in ReleaseIds : releases[i] # Nobody => releases[i].app \in Apps /\ releases[i].version \in Nat
  BY DEF TypeInv, TypeOK, Release
<1> HIDE DEF new, a
<1>6. n \in Nat
  BY CountedIsFinite, FS_CardinalityType
<1>7. ASSUME NEW b \in Apps
      PROVE  /\ Cardinality(CountedIds(releases, provider, b)) \in Nat
             /\ Cardinality(CountedIds(releases', provider, b)) \in Nat
             /\ Cardinality(CountedIds(releases, provider, b)) <= Cardinality(CountedIds(releases', provider, b))
             /\ b = a => Cardinality(CountedIds(releases', provider, b)) = n + 1
  <2>1. CountedIds(releases, provider, b) \subseteq CountedIds(releases', provider, b)
    BY <1>1, <1>4 DEF CountedIds
  <2>2. IsFiniteSet(CountedIds(releases, provider, b)) /\ IsFiniteSet(CountedIds(releases', provider, b))
    BY CountedIsFinite
  <2>3. ASSUME b = a PROVE Cardinality(CountedIds(releases', provider, b)) = n + 1
    <3>1. CountedIds(releases', provider, a) = CountedIds(releases, provider, a) \cup {id}
      <4>1. a \in Apps /\ new.app = a /\ new # Nobody
        BY <1>2, <1>3
      <4>2. \A i \in ReleaseIds : i \in CountedIds(releases', provider, a)
                                    <=> i \in CountedIds(releases, provider, a) \/ i = id
        BY <1>1, <1>4, <4>1 DEF CountedIds
      <4>3. /\ CountedIds(releases', provider, a) \subseteq ReleaseIds
            /\ CountedIds(releases, provider, a) \subseteq ReleaseIds
        BY DEF CountedIds
      <4> QED BY <4>2, <4>3
    <3>2. id \notin CountedIds(releases, provider, a)
      BY <1>1 DEF CountedIds
    <3> QED BY <2>2, <2>3, <3>1, <3>2, FS_AddElement
  <2> QED BY <2>1, <2>2, <2>3, FS_Subset, FS_CardinalityType
<1> HIDE DEF n
<1>8. Numbered(releases, provider) /\ OnlyFirstRepeats
  BY DEF VersionInv
<1>9. ASSUME NEW i \in ReleaseIds, i # id, releases[i] # Nobody, releases[i].app = a
      PROVE  releases[i].version <= n
  BY <1>8, <1>9 DEF Numbered, n
<1>10. Numbered(releases', provider)
  <2> SUFFICES ASSUME NEW i \in ReleaseIds, releases'[i] # Nobody
               PROVE  releases'[i].version <= Cardinality(CountedIds(releases', provider, releases'[i].app))
    BY DEF Numbered
  <2>1. CASE i = id
    BY <1>2, <1>3, <1>4, <1>6, <1>7, <2>1
  <2>2. CASE i # id
    <3>1. /\ releases'[i] = releases[i] /\ releases[i].app \in Apps /\ releases[i].version \in Nat
          /\ releases[i].version <= Cardinality(CountedIds(releases, provider, releases[i].app))
      BY <1>4, <1>5, <1>8, <2>2 DEF Numbered
    <3> DEFINE b == releases[i].app
    <3>2. /\ Cardinality(CountedIds(releases, provider, b)) \in Nat
          /\ Cardinality(CountedIds(releases', provider, b)) \in Nat
          /\ Cardinality(CountedIds(releases, provider, b)) <= Cardinality(CountedIds(releases', provider, b))
      BY <1>7, <3>1
    <3> QED BY <3>1, <3>2
  <2> QED BY <2>1, <2>2
<1>11. OnlyFirstRepeats'
  BY <1>2, <1>3, <1>4, <1>5, <1>6, <1>8, <1>9 DEF OnlyFirstRepeats
<1> QED BY <1>10, <1>11

\* The releases of one app gone: no other app's count is less.
LEMMA DropVersions ==
  ASSUME TypeInv, VersionInv, NEW h \in Handlers, DropReleases(h)
  PROVE  VersionInv'
<1>1. provider = "gcp" /\ UNCHANGED provider
  BY NextCall DEF DropReleases
<1>2. \A i \in ReleaseIds :
        releases'[i] = IF releases[i] # Nobody /\ releases[i].app = frame[h].app THEN Nobody ELSE releases[i]
  BY DEF DropReleases, SavedIds
<1>3. \A b : b # frame[h].app => CountedIds(releases', "gcp", b) = CountedIds(releases, "gcp", b)
  BY <1>2 DEF CountedIds
<1>4. Numbered(releases', "gcp")
  BY <1>1, <1>2, <1>3 DEF VersionInv, Numbered
<1>5. OnlyFirstRepeats'
  BY <1>1, <1>2 DEF VersionInv, OnlyFirstRepeats
<1> QED BY <1>1, <1>4, <1>5 DEF VersionInv

\* On aws and gcp, requests one at a time give two releases of one app the same
\* version only if it is 1, whatever is deleted in between and whichever call has
\* failed: no version is beyond the count of releases there are, and a new release
\* is numbered one beyond that count, or 1 where the count has failed.
THEOREM OnlyOneRepeats == OneAtATime => (Spec => []OnlyFirstRepeats)
<1> SUFFICES ASSUME OneAtATime PROVE Spec => []OnlyFirstRepeats
  OBVIOUS
<1>1. Init => VersionInv
  BY DEF Init, VersionInv, Numbered, OnlyFirstRepeats
<1>2. TypeInv /\ AloneInv /\ VersionInv /\ [Next]_vars => VersionInv'
  <2> SUFFICES ASSUME TypeInv, AloneInv, VersionInv, [Next]_vars PROVE VersionInv'
    OBVIOUS
  <2>1. UNCHANGED provider
    BY ProviderFixed
  <2>2. CASE UNCHANGED releases
    BY <2>1, <2>2 DEF VersionInv, OnlyFirstRepeats
  <2>3. ASSUME NEW h \in Handlers, SaveRelease(h) PROVE VersionInv'
    BY <2>1, <2>3, SaveVersions DEF VersionInv
  <2>4. ASSUME NEW id \in ReleaseIds, ReleaseDelete(id) PROVE VersionInv'
    BY <2>1, <2>4 DEF ReleaseDelete, VersionInv
  <2>5. ASSUME NEW h \in Handlers, Request(h) PROVE UNCHANGED releases
    BY <2>5 DEF Request, AppCreate, AppGet, AppDelete, AppUpdateDomain, BuildRelease, Accept
  <2>6. ASSUME NEW h \in Handlers, Step(h), ~ SaveRelease(h), ~ DropReleases(h) PROVE UNCHANGED releases
    BY <2>6 DEF Step, Load, Refresh, Probe, CreateStack, CheckAbsent, PutNew, Insert, MergeDomain,
                FetchBuild, Count, RecordRelease, RollOut, Uncluster, DropRecord, DropStack,
                DropBuilds, ListBuilds, ListBuildsPanics, Fail, Die
  <2>7. CASE (\E a \in Apps, b \in Builds : BuildCreate(a, b) \/ BuildDelete(a, b)) \/ Crash \/ UNCHANGED vars
    BY <2>2, <2>7 DEF BuildCreate, BuildDelete, Crash, Die, vars
  <2> QED BY <2>2, <2>3, <2>4, <2>5, <2>6, <2>7, DropVersions DEF Next
<1>3. VersionInv => OnlyFirstRepeats
  BY DEF VersionInv, OnlyFirstRepeats
<1> QED BY <1>1, <1>2, <1>3, TypeInvariant, AloneHolds, PTL DEF Spec

------------------------------------------------------------------------------
(* The table of apps that one request at a time implements: AppRegistry.     *)

\* What the table of the store is to a caller.
Entry(r) == IF r = Nobody THEN Nobody ELSE [domains |-> r.domains \ {NoDomain}, build |-> r.build]

Entries(table) == [a \in Apps |-> Entry(table[a])]

LEMMA EntriesAre ==
  /\ Entries(apps) = [a \in Apps |->
                        IF apps[a] = Nobody THEN Nobody
                        ELSE [domains |-> apps[a].domains \ {NoDomain}, build |-> apps[a].build]]
  /\ Entries(apps') = [a \in Apps |->
                        IF apps'[a] = Nobody THEN Nobody
                        ELSE [domains |-> apps'[a].domains \ {NoDomain}, build |-> apps'[a].build]]
  BY DEF Entries, Entry

\* A call that writes one record changes the entry of one app.
LEMMA EntryChanges ==
  ASSUME TypeOK, NEW a \in Apps, NEW r, apps' = [apps EXCEPT ![a] = r]
  PROVE  Entries(apps') = [Entries(apps) EXCEPT ![a] = Entry(r)]
<1>1. \A b \in Apps : apps'[b] = IF b = a THEN r ELSE apps[b]
  BY DEF TypeOK
<1>2. \A b \in Apps : Entry(apps'[b]) = IF b = a THEN Entry(r) ELSE Entry(apps[b])
  BY <1>1
<1> DEFINE new == [Entries(apps) EXCEPT ![a] = Entry(r)]
<1>3. new = [b \in Apps |-> IF b = a THEN Entry(r) ELSE Entry(apps[b])]
  BY DEF Entries
<1> HIDE DEF new
<1>4. Entries(apps') = new
  BY <1>2, <1>3 DEF Entries
<1> QED BY <1>4 DEF new

\* The entry of an app is not Nobody while there is a record.
LEMMA EntryOf ==
  ASSUME NEW r \in Record
  PROVE  Entry(r) # Nobody /\ Entry(r) = [domains |-> r.domains \ {NoDomain}, build |-> r.build]
<1>1. r # Nobody
  BY NobodyAssumption DEF Record
<1>2. [domains |-> r.domains \ {NoDomain}, build |-> r.build]
        \in [domains : SUBSET Domains, build : Builds \cup {Nobody}]
  BY DEF Record
<1> QED BY <1>1, <1>2, NobodyAssumption DEF Entry

\* The view of a write: the entry of the app of handler h becomes that of r.
LEMMA WrittenEntry ==
  ASSUME TypeOK, NEW a \in Apps, NEW r \in Record, apps' = [apps EXCEPT ![a] = Persisted(r)]
  PROVE  Entries(apps') = [Entries(apps) EXCEPT ![a] = Entry(r)]
<1>1. Persisted(r) \in Record /\ Same(Persisted(r), r)
  BY SameWritten
<1>2. Entry(Persisted(r)) = Entry(r)
  BY <1>1, EntryOf DEF Same
<1> QED BY <1>2, EntryChanges

\* The entry of the app, as the copy of the record that its request has loaded.
LEMMA EntryOfCopy ==
  ASSUME TypeInv, AloneInv, NEW h \in Handlers, NEW c, At(h, c), UsesCopy(c, provider),
         frame[h].copy \in Record
  PROVE  /\ Entry(apps[frame[h].app]) = Entry(frame[h].copy)
         /\ Entries(apps)[frame[h].app] = Entry(frame[h].copy)
<1>1. /\ frame[h].app \in Apps /\ apps[frame[h].app] # Nobody
      /\ Same(apps[frame[h].app], frame[h].copy)
  BY FindsIt DEF Ready
<1>2. apps[frame[h].app] \in Record
  BY <1>1 DEF TypeInv, TypeOK
<1> QED BY <1>1, <1>2, EntryOf DEF Same, Entries

LEMMA RefreshStutters ==
  ASSUME TypeInv, AloneInv, NEW h \in Handlers, Refresh(h)
  PROVE  Entries(apps') = Entries(apps)
<1> DEFINE a == frame[h].app
<1>1. a \in Apps /\ frame[h].copy \in Record /\ At(h, "refresh")
  BY NextCall DEF Refresh
<1>2. CASE apps' = [apps EXCEPT ![a] = Persisted(frame[h].copy)]
  <2>1. Entries(apps') = [Entries(apps) EXCEPT ![a] = Entry(frame[h].copy)]
    BY <1>1, <1>2, WrittenEntry DEF TypeInv
  <2>2. Entries(apps)[a] = Entry(frame[h].copy)
    BY <1>1, EntryOfCopy DEF UsesCopy
  <2> QED BY <2>1, <2>2 DEF Entries
<1> QED BY <1>2 DEF Refresh, AppUpdate

\* A write of the record of one app is a step of the table.
LEMMA TableSteps ==
  ASSUME UNCHANGED provider, NEW a \in Apps,
         \/ Registry!Create(a) \/ Registry!Delete(a)
         \/ \E d \in Domains : Registry!AddDomain(a, d) \/ Registry!RemoveDomain(a, d)
         \/ \E b \in Builds : Registry!Deploy(a, b)
  PROVE  Registry!Next
  BY DEF Registry!Next

LEMMA EntryIs ==
  ASSUME NEW a \in Apps, NEW r \in Record, Entries(apps)[a] = Entry(r)
  PROVE  Registry!Exists(a)
<1>1. Entries(apps)[a] # Nobody
  BY EntryOf
<1> QED BY <1>1, EntriesAre DEF Registry!Exists

LEMMA DomainWritten ==
  ASSUME TypeOK, UNCHANGED provider, NEW a \in Apps, NEW d \in Domains, NEW r \in Record, NEW new \in Record,
         Entries(apps)[a] = Entry(r), apps' = [apps EXCEPT ![a] = Persisted(new)],
         new.build = r.build, new.domains \in {r.domains \cup {d}, r.domains \ {d}}
  PROVE  Registry!Next
<1> DEFINE e == Entries(apps)
           shown == r.domains \ {NoDomain}
<1>1. Entries(apps') = [e EXCEPT ![a] = Entry(new)]
  BY WrittenEntry
<1>2. e[a] = [domains |-> shown, build |-> r.build]
  BY EntryOf
<1>3. Entry(new) = [domains |-> new.domains \ {NoDomain}, build |-> r.build]
  BY EntryOf
<1>4. Registry!Exists(a)
  BY EntryIs
<1>5. d # NoDomain
  BY NobodyAssumption
<1>6. CASE new.domains = r.domains \cup {d}
  <2>1. new.domains \ {NoDomain} = shown \cup {d}
    BY <1>5, <1>6
  <2> HIDE DEF shown
  <2>2. [e[a] EXCEPT !.domains = @ \cup {d}] = Entry(new)
    BY <1>2, <1>3, <2>1
  <2>3. Entries(apps') = [e EXCEPT ![a].domains = @ \cup {d}]
    BY <1>1, <2>2
  <2>4. Registry!AddDomain(a, d)
    BY <1>4, <2>3, EntriesAre DEF Registry!AddDomain
  <2> QED BY <2>4, TableSteps
<1>7. CASE new.domains = r.domains \ {d}
  <2>1. new.domains \ {NoDomain} = shown \ {d}
    BY <1>5, <1>7
  <2> HIDE DEF shown
  <2>2. [e[a] EXCEPT !.domains = @ \ {d}] = Entry(new)
    BY <1>2, <1>3, <2>1
  <2>3. Entries(apps') = [e EXCEPT ![a].domains = @ \ {d}]
    BY <1>1, <2>2
  <2>4. Registry!RemoveDomain(a, d)
    BY <1>4, <2>3, EntriesAre DEF Registry!RemoveDomain
  <2> QED BY <2>4, TableSteps
<1> QED BY <1>6, <1>7

LEMMA BuildWritten ==
  ASSUME TypeOK, UNCHANGED provider, NEW a \in Apps, NEW b \in Builds, NEW r \in Record, NEW new \in Record,
         Entries(apps)[a] = Entry(r), apps' = [apps EXCEPT ![a] = Persisted(new)],
         new.build = b, new.domains = r.domains
  PROVE  Registry!Next
<1> DEFINE e == Entries(apps)
<1>1. Entries(apps') = [e EXCEPT ![a] = Entry(new)]
  BY WrittenEntry
<1>2. e[a] = [domains |-> r.domains \ {NoDomain}, build |-> r.build]
  BY EntryOf
<1>3. Entry(new) = [domains |-> r.domains \ {NoDomain}, build |-> b]
  BY EntryOf
<1>4. [e[a] EXCEPT !.build = b] = Entry(new)
  BY <1>2, <1>3
<1>5. Entries(apps') = [e EXCEPT ![a].build = b]
  BY <1>1, <1>4
<1>6. Registry!Deploy(a, b)
  BY <1>5, EntryIs, EntriesAre DEF Registry!Deploy
<1> QED BY <1>6, TableSteps

LEMMA NewWritten ==
  ASSUME TypeOK, UNCHANGED provider, NEW a \in Apps, apps' = [apps EXCEPT ![a] = Persisted(NewRecord)],
         apps[a] = Nobody \/ provider = "gcp"
  PROVE  Registry!Next
<1>1. NewRecord \in Record /\ Entry(NewRecord) = [domains |-> {}, build |-> Nobody]
  <2>1. NewRecord \in Record
    BY DEF NewRecord, Record
  <2> QED BY <2>1, EntryOf DEF NewRecord
<1>2. Entries(apps') = [Entries(apps) EXCEPT ![a] = [domains |-> {}, build |-> Nobody]]
  BY <1>1, WrittenEntry
<1>3. Registry!Exists(a) => provider = "gcp"
  BY DEF Registry!Exists
<1>4. Registry!Create(a)
  BY <1>2, <1>3, EntriesAre DEF Registry!Create
<1> QED BY <1>4, TableSteps

LEMMA Dropped ==
  ASSUME TypeOK, UNCHANGED provider, NEW a \in Apps, apps' = [apps EXCEPT ![a] = Nobody]
  PROVE  Entries(apps') = Entries(apps) \/ Registry!Next
<1>1. Entries(apps') = [Entries(apps) EXCEPT ![a] = Nobody]
  BY EntryChanges DEF Entry
<1>2. CASE apps[a] = Nobody
  <2>1. Entries(apps)[a] = Nobody
    BY <1>2 DEF Entries, Entry
  <2> QED BY <1>1, <2>1 DEF Entries
<1>3. CASE apps[a] # Nobody
  <2>1. apps[a] \in Record /\ Entries(apps)[a] = Entry(apps[a])
    BY <1>3 DEF TypeOK, Entries
  <2>2. Registry!Exists(a)
    BY <2>1, EntryIs
  <2>3. Registry!Delete(a)
    BY <1>1, <2>2, EntriesAre DEF Registry!Delete
  <2> QED BY <2>3, TableSteps
<1> QED BY <1>2, <1>3

\* Every call of a handler is a step of the table or leaves it alone.
LEMMA StepTable ==
  ASSUME TypeInv, AloneInv, NEW h \in Handlers, Step(h)
  PROVE  Entries(apps') = Entries(apps) \/ Registry!Next
<1> DEFINE a == frame[h].app
<1>1. CASE Refresh(h)
  BY <1>1, RefreshStutters
<1>2. CASE MergeDomain(h)
  <2>1. /\ a \in Apps /\ frame[h].copy \in Record /\ At(h, "mergeDomain") /\ frame[h].domain \in Domains
        /\ UNCHANGED provider /\ Entries(apps)[a] = Entry(frame[h].copy)
    BY <1>2, NextCall, EntryOfCopy DEF MergeDomain, UsesCopy
  <2>2. /\ Merged(h) \in Record /\ Merged(h).build = frame[h].copy.build
        /\ Merged(h).domains \in {frame[h].copy.domains \cup {frame[h].domain},
                                  frame[h].copy.domains \ {frame[h].domain}}
    BY <2>1 DEF Merged, MergeAppDomains, Record
  <2>3. apps' = apps \/ apps' = [apps EXCEPT ![a] = Persisted(Merged(h))]
    BY <1>2 DEF MergeDomain, AppUpdate
  <2> HIDE DEF a
  <2> QED BY <2>1, <2>2, <2>3, DomainWritten DEF TypeInv
<1>3. CASE RecordRelease(h)
  <2>1. /\ a \in Apps /\ frame[h].copy \in Record /\ At(h, "record") /\ frame[h].build \in Builds
        /\ frame[h].release \in ReleaseIds
        /\ UNCHANGED provider /\ Entries(apps)[a] = Entry(frame[h].copy)
    BY <1>3, NextCall, EntryOfCopy DEF RecordRelease, UsesCopy
  <2>2. /\ Released(h) \in Record /\ Released(h).build = frame[h].build
        /\ Released(h).domains = frame[h].copy.domains
    BY <2>1 DEF Released, Record
  <2>3. apps' = apps \/ apps' = [apps EXCEPT ![a] = Persisted(Released(h))]
    BY <1>3 DEF RecordRelease, AppUpdate
  <2> HIDE DEF a
  <2> QED BY <2>1, <2>2, <2>3, BuildWritten DEF TypeInv
<1>4. CASE PutNew(h)
  <2>1. /\ a \in Apps /\ At(h, "putNew") /\ UNCHANGED provider /\ provider # "local"
        /\ apps' = [apps EXCEPT ![a] = NewRecord]
        /\ provider = "aws" => apps[a] = Nobody
    BY <1>4, NextCall, FindsIt DEF PutNew, Ready
  <2>2. Persisted(NewRecord) = NewRecord
    BY <2>1 DEF Persisted
  <2>3. provider \in {"aws", "gcp"}
    BY <2>1 DEF TypeInv, TypeOK
  <2> HIDE DEF a
  <2> QED BY <2>1, <2>2, <2>3, NewWritten DEF TypeInv
<1>5. CASE Insert(h)
  <2>1. /\ a \in Apps /\ UNCHANGED provider
        /\ \/ apps' = apps
           \/ apps[a] = Nobody /\ apps' = [apps EXCEPT ![a] = Persisted(NewRecord)]
    BY <1>5, NextCall DEF Insert
  <2> HIDE DEF a
  <2> QED BY <2>1, NewWritten DEF TypeInv
<1>6. CASE DropRecord(h)
  <2>1. a \in Apps /\ UNCHANGED provider /\ (apps' = apps \/ apps' = [apps EXCEPT ![a] = Nobody])
    BY <1>6, NextCall DEF DropRecord
  <2> HIDE DEF a
  <2> QED BY <2>1, Dropped DEF TypeInv
<1>7. CASE ~ \/ Refresh(h) \/ MergeDomain(h) \/ RecordRelease(h) \/ PutNew(h) \/ Insert(h) \/ DropRecord(h)
  <2>1. apps' = apps
    BY <1>7 DEF Step, Load, Probe, CreateStack, CheckAbsent, FetchBuild, Count, SaveRelease, RollOut,
                Uncluster, DropStack, DropBuilds, DropReleases, ListBuilds, ListBuildsPanics, Fail, Die
  <2> QED BY <2>1
<1> QED BY <1>1, <1>2, <1>3, <1>4, <1>5, <1>6, <1>7

\* Requests one at a time implement the table of apps, whichever of their calls fail
\* and whenever the server dies: a record is created, given or relieved of one
\* domain, pointed at one build or deleted, each by one write.
THEOREM RegistryImplemented == OneAtATime => (Spec => ImplementsRegistry)
<1> SUFFICES ASSUME OneAtATime PROVE Spec => ImplementsRegistry
  OBVIOUS
<1>1. Init => Registry!Init
  BY DEF Init, Registry!Init
<1>2. TypeInv /\ AloneInv /\ [Next]_vars =>
        Registry!Next \/ (Entries(apps') = Entries(apps) /\ UNCHANGED provider)
  <2> SUFFICES ASSUME TypeInv, AloneInv, [Next]_vars
               PROVE  Registry!Next \/ (Entries(apps') = Entries(apps) /\ UNCHANGED provider)
    OBVIOUS
  <2>1. UNCHANGED provider
    BY ProviderFixed
  <2>2. ASSUME NEW h \in Handlers, Step(h) PROVE Entries(apps') = Entries(apps) \/ Registry!Next
    BY <2>2, StepTable
  <2>3. ASSUME NEW h \in Handlers, Request(h) PROVE apps' = apps
    BY <2>3 DEF Request, AppCreate, AppGet, AppDelete, AppUpdateDomain, BuildRelease, Accept
  <2>4. CASE \/ \E a \in Apps, b \in Builds : BuildCreate(a, b) \/ BuildDelete(a, b)
             \/ \E id \in ReleaseIds : ReleaseDelete(id)
             \/ Crash \/ UNCHANGED vars
    BY <2>4 DEF BuildCreate, BuildDelete, ReleaseDelete, Crash, Die, vars
  <2> QED BY <2>1, <2>2, <2>3, <2>4 DEF Next
<1>3. TypeInv /\ AloneInv /\ [Next]_vars => [Registry!Next]_<<
        [a \in Apps |-> IF apps[a] = Nobody THEN Nobody
                        ELSE [domains |-> apps[a].domains \ {NoDomain}, build |-> apps[a].build]],
        provider = "gcp">>
  BY <1>2, EntriesAre
<1> QED BY <1>1, <1>3, TypeInvariant, AloneHolds, PTL DEF Spec, ImplementsRegistry, Registry!Spec
==============================================================================
