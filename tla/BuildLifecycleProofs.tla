------------------------- MODULE BuildLifecycleProofs -------------------------
(***************************************************************************)
(* Proofs about BuildLifecycle, for any provider, builds, command lines    *)
(* and number of commands.                                                 *)
(*                                                                         *)
(* That a build recorded as a success has its image is a fact about the    *)
(* record which calls write from copies they have read, from answers of    *)
(* the remote builder and from imports.  The invariant says the same of    *)
(* every copy (Held) and of the remote job (RemoteOK), and that a job      *)
(* begins when there is a source for it to take (InputOK).                 *)
(*                                                                         *)
(* With CodeBuild, that a recorded end stays is a fact about what overlaps *)
(* a write: every other copy that is about to be saved (Fits).             *)
(*                                                                         *)
(* That a release waits for its build, and that no image holds an older    *)
(* source, are facts about the command that makes the build: it has the    *)
(* build to itself (Apart), and knows its job (Mine, Told).                *)
(***************************************************************************)
EXTENDS BuildLifecycle, TLAPS

Steps == {"idle", "send", "upload", "start", "saveJob", "import", "saveImport", "sync", "poll",
          "check", "release"}

Cli == [step : Steps, get : {"load", "fetch", "save", "done"}, build : Builds \cup {None},
        source : Sources \cup {None}, copy : Record \cup {None}]

------------------------------------------------------------------------------
(* The invariant                                                            *)

\* A record r of build b claims no success without an image, nor a job that
\* was never started.
Backed(rem, img, b, r) ==
  /\ r.status = Good /\ b \notin Untagged => img[b] # None
  /\ r.job => rem[b] # None

\* The steps that use the copy a BuildGet has left.
Reading(r) ==
  \/ r.get \in {"fetch", "save"}
  \/ /\ r.get = "done"
     /\ \/ r.step \in {"import", "saveImport", "upload", "start", "sync", "poll", "check"}
        \/ r.step = "saveJob" /\ provider # "aws"

\* What a command line holds.
Held(rem, img, ups, r) ==
  /\ r.copy # None => r.build \in Builds /\ Backed(rem, img, r.build, r.copy)
  /\ r.step # "idle" \/ r.get # "done" => r.build \in Builds
  /\ Reading(r) => r.copy # None
  /\ r.step = "start" => ups # <<>>
  /\ r.step = "saveJob" => rem[r.build] # None

CliInv == cli \in [Clients -> Cli] /\ \A c \in Clients : Held(remote, image, uploads, cli[c])

TableTypes ==
  /\ provider \in {"aws", "gcp", "local"}
  /\ record \in [Builds -> Record \cup {None}]
  /\ remote \in [Builds -> Waiting \cup Ended \cup {None}]
  /\ input \in [Builds -> Builds \cup {None}] /\ image \in [Builds -> Builds \cup {None}]
  /\ uploads \in Seq(Ids)

RecordOK == \A b \in Builds : record[b] # None => Backed(remote, image, b, record[b])
RemoteOK == \A b \in Builds : remote[b] = Good => image[b] # None
InputOK  == \A b \in Builds : remote[b] \in Waiting /\ input[b] = None => uploads # <<>>

TableInv == TableTypes /\ RecordOK /\ RemoteOK /\ InputOK

BuildInv == TableInv /\ CliInv

------------------------------------------------------------------------------
(* What there is stays                                                      *)

Grown(f, g) == \A b \in Builds : f[b] # None => g[b] # None

LEMMA StatusTypes ==
  ASSUME provider \in {"aws", "gcp", "local"}
  PROVE  /\ Waiting \cup Ended \subseteq Statuses
         /\ Good \in Statuses /\ Good \notin Waiting /\ Good \notin {"", "CREATED", "IN_PROGRESS", "FAILED"}
         /\ StartedStatus \in Waiting \/ provider = "local"
         /\ None \notin Waiting \cup Ended
  BY NoneIsNothing DEF Waiting, Ended, Good, Bad, Statuses, StartedStatus

LEMMA IdleHeld ==
  ASSUME NEW rem, NEW img, NEW ups
  PROVE  Idle \in Cli /\ Held(rem, img, ups, Idle)
  BY DEF Idle, Cli, Held, Reading, Steps

LEMMA HeldKept ==
  ASSUME NEW r \in Cli, NEW rem, NEW rem2, NEW img, NEW img2, NEW ups, NEW ups2,
         Held(rem, img, ups, r), Grown(rem, rem2), Grown(img, img2), ups # <<>> => ups2 # <<>>
  PROVE  Held(rem2, img2, ups2, r)
<1>1. r.copy # None => r.build \in Builds /\ Backed(rem2, img2, r.build, r.copy)
  BY DEF Held, Backed, Grown
<1>2. r.step = "saveJob" => rem2[r.build] # None
  BY DEF Held, Grown
<1> QED BY <1>1, <1>2 DEF Held

\* Command line c comes to hold r.
LEMMA BecomesOK ==
  ASSUME CliInv, NEW c \in Clients, NEW r \in Cli, Becomes(c, r),
         Held(remote', image', uploads', r), UNCHANGED provider,
         Grown(remote, remote'), Grown(image, image'), uploads # <<>> => uploads' # <<>>
  PROVE  CliInv'
<1>1. cli' = [cli EXCEPT ![c] = r] /\ cli \in [Clients -> Cli]
  BY DEF Becomes, CliInv
<1>2. cli' \in [Clients -> Cli]
  BY <1>1
<1>3. ASSUME NEW d \in Clients PROVE Held(remote', image', uploads', cli'[d])
  <2>1. CASE d = c
    BY <1>1, <2>1
  <2>2. CASE d # c
    <3>1. cli'[d] = cli[d] /\ cli[d] \in Cli /\ Held(remote, image, uploads, cli[d])
      BY <1>1, <2>2 DEF CliInv
    <3> QED BY <3>1, HeldKept
  <2> QED BY <2>1, <2>2
<1>4. ASSUME NEW d \in Clients PROVE Held(remote, image, uploads, cli[d])'
  BY <1>3 DEF Held, Reading, Backed, Good
<1> QED BY <1>2, <1>4 DEF CliInv

LEMMA StaysOK ==
  ASSUME CliInv, UNCHANGED <<cli, provider>>,
         Grown(remote, remote'), Grown(image, image'), uploads # <<>> => uploads' # <<>>
  PROVE  CliInv'
<1>1. ASSUME NEW d \in Clients PROVE Held(remote', image', uploads', cli[d])
  <2>1. cli[d] \in Cli /\ Held(remote, image, uploads, cli[d])
    BY DEF CliInv
  <2> QED BY <2>1, HeldKept
<1>2. ASSUME NEW d \in Clients PROVE Held(remote, image, uploads, cli[d])'
  BY <1>1 DEF Held, Reading, Backed, Good
<1> QED BY <1>2 DEF CliInv

\* The tables when only the command lines change.
LEMMA SameTables ==
  ASSUME TableInv, UNCHANGED <<provider, record, jobs, uploads, image>>
  PROVE  TableInv'
  BY DEF TableInv, TableTypes, RecordOK, RemoteOK, InputOK, Backed, Good, Bad, Waiting, Ended, jobs

\* A record is saved, or deleted, and nothing else changes in the tables.
LEMMA SaveOK ==
  ASSUME TableInv, NEW b \in Builds, NEW r \in Record \cup {None},
         r # None => Backed(remote, image, b, r), Save(b, r),
         UNCHANGED <<provider, jobs, uploads, image>>
  PROVE  TableInv'
<1>1. record' = [record EXCEPT ![b] = r] /\ remote' = remote /\ input' = input
  BY DEF Save, jobs
<1>2. TableTypes'
  BY <1>1 DEF TableInv, TableTypes, Good, Bad, Waiting, Ended
<1>3. \A d \in Builds : record'[d] # None => Backed(remote, image, d, record'[d])
  BY <1>1 DEF TableInv, TableTypes, RecordOK
<1>4. RecordOK'
  BY <1>1, <1>3 DEF RecordOK, Backed, Good
<1>5. RemoteOK' /\ InputOK'
  BY <1>1 DEF TableInv, RemoteOK, InputOK, Good, Waiting
<1> QED BY <1>2, <1>4, <1>5 DEF TableInv

------------------------------------------------------------------------------
(* Steps of a command line                                                  *)

LEMMA Client ==
  ASSUME BuildInv, NEW c \in Clients
  PROVE  cli[c] \in Cli /\ Held(remote, image, uploads, cli[c]) /\ CliInv
  BY DEF BuildInv, CliInv

\* The whole state when only command line c changes, and comes to hold r.
LEMMA MoveOK ==
  ASSUME BuildInv, NEW c \in Clients, NEW r \in Cli, Becomes(c, r), Held(remote, image, uploads, r),
         UNCHANGED <<provider, record, jobs, uploads, image>>
  PROVE  BuildInv'
<1>1. TableInv'
  BY SameTables DEF BuildInv
<1>2. remote' = remote /\ Grown(remote, remote') /\ Grown(image, image')
  BY DEF jobs, Grown
<1>3. CliInv'
  BY <1>2, BecomesOK DEF BuildInv
<1> QED BY <1>1, <1>3 DEF BuildInv

LEMMA ExitOK ==
  ASSUME BuildInv, NEW c \in Clients, Exit(c), UNCHANGED <<provider, record, jobs, uploads, image>>
  PROVE  BuildInv'
  BY IdleHeld, MoveOK DEF Exit

\* A step that a BuildGet precedes needs no copy yet.
LEMMA GetHeld ==
  ASSUME NEW r \in Cli, r.build \in Builds, NEW step \in Steps, NEW rem, NEW img, NEW ups,
         step = "start" => ups # <<>>, step = "saveJob" => rem[r.build] # None
  PROVE  LET g == [r EXCEPT !.step = step, !.get = "load", !.copy = None]
         IN  g \in Cli /\ Held(rem, img, ups, g)
<1> DEFINE g == [r EXCEPT !.step = step, !.get = "load", !.copy = None]
<1>1. g \in Cli /\ g.step = step /\ g.get = "load" /\ g.copy = None /\ g.build = r.build
  BY DEF Cli
<1> HIDE DEF g
<1>2. Held(rem, img, ups, g)
  BY <1>1 DEF Held, Reading
<1> QED BY <1>1, <1>2 DEF g

\* A step that goes on with the copy, if it has one.
LEMMA StepHeld ==
  ASSUME NEW r \in Cli, NEW step \in Steps, NEW rem, NEW img, NEW ups,
         Held(rem, img, ups, r), r.get = "done", r.step # "idle", r.copy # None,
         step = "start" => ups # <<>>, step = "saveJob" => rem[r.build] # None
  PROVE  [r EXCEPT !.step = step] \in Cli /\ Held(rem, img, ups, [r EXCEPT !.step = step])
<1> DEFINE g == [r EXCEPT !.step = step]
<1>1. g \in Cli /\ g.step = step /\ g.get = "done" /\ g.copy = r.copy /\ g.build = r.build
  BY DEF Cli
<1> HIDE DEF g
<1>2. Held(rem, img, ups, g)
  BY <1>1 DEF Held, Reading
<1> QED BY <1>1, <1>2 DEF g

LEMMA LoadOK == ASSUME BuildInv, NEW c \in Clients, LoadBuild(c) PROVE BuildInv'
<1> DEFINE b == cli[c].build
           get == IF Refreshes(record[b]) THEN "fetch" ELSE "done"
           g == [cli[c] EXCEPT !.copy = record[b], !.get = get]
<1>1. /\ cli[c] \in Cli /\ Held(remote, image, uploads, cli[c]) /\ cli[c].get = "load"
      /\ UNCHANGED <<provider, record, jobs, uploads, image>>
  BY Client DEF LoadBuild
<1>2. b \in Builds
  BY <1>1 DEF Held
<1>3. CASE record[b] = None
  BY <1>1, <1>3, ExitOK DEF LoadBuild
<1>4. CASE record[b] # None
  <2>1. record[b] \in Record /\ Backed(remote, image, b, record[b]) /\ Becomes(c, g)
    BY <1>2, <1>4 DEF LoadBuild, BuildInv, TableInv, TableTypes, RecordOK
  <2>2. g \in Cli /\ g.step = cli[c].step /\ g.copy = record[b] /\ g.build = b
    BY <1>1, <2>1 DEF Cli
  <2> HIDE DEF g
  <2>3. Held(remote, image, uploads, g)
    BY <1>1, <1>2, <1>4, <2>1, <2>2 DEF Held
  <2> QED BY <1>1, <2>1, <2>2, <2>3, MoveOK
<1> QED BY <1>3, <1>4

LEMMA FetchOK == ASSUME BuildInv, NEW c \in Clients, FetchBuild(c) PROVE BuildInv'
<1> DEFINE b == cli[c].build
           old == cli[c].copy
           fetched == Status(b, old)
           new == [old EXCEPT !.status = fetched]
           get == IF Differs(old.status, fetched) THEN "save" ELSE "done"
           g == [cli[c] EXCEPT !.copy.status = fetched, !.get = get]
<1>1. /\ cli[c] \in Cli /\ Held(remote, image, uploads, cli[c]) /\ cli[c].get = "fetch"
      /\ UNCHANGED <<provider, record, jobs, uploads, image>> /\ Becomes(c, g)
  BY Client DEF FetchBuild
<1>2. b \in Builds /\ old \in Record /\ Backed(remote, image, b, old)
  BY <1>1 DEF Held, Reading, Cli
<1>3. fetched \in Statuses /\ (fetched = Good => remote[b] = Good)
  <2>1. remote[b] \in Waiting \cup Ended \cup {None} /\ provider \in {"aws", "gcp", "local"}
    BY <1>2 DEF BuildInv, TableInv, TableTypes
  <2> QED BY <1>2, <2>1, StatusTypes DEF Status, Backed, Statuses
<1>4. fetched = Good => image[b] # None
  BY <1>2, <1>3 DEF BuildInv, TableInv, RemoteOK
<1>5. new \in Record /\ new.status = fetched /\ new.job = old.job
  BY <1>2, <1>3 DEF Record
<1>6. Backed(remote, image, b, new)
  BY <1>2, <1>4, <1>5 DEF Backed
<1>7. g = [cli[c] EXCEPT !.copy = new, !.get = get]
  BY <1>1, <1>2 DEF Cli, Record
<1> HIDE DEF new
<1>8. g \in Cli /\ g.step = cli[c].step /\ g.copy = new /\ g.build = b
  BY <1>1, <1>5, <1>7 DEF Cli
<1> HIDE DEF g
<1>9. Held(remote, image, uploads, g)
  BY <1>1, <1>2, <1>5, <1>6, <1>8, NoneIsNothing DEF Held
<1> QED BY <1>1, <1>8, <1>9, MoveOK

LEMMA SaveBuildOK == ASSUME BuildInv, NEW c \in Clients, SaveBuild(c) PROVE BuildInv'
<1> DEFINE g == [cli[c] EXCEPT !.get = "done"]
<1>1. /\ cli[c] \in Cli /\ Held(remote, image, uploads, cli[c]) /\ cli[c].get = "save" /\ CliInv
      /\ Save(cli[c].build, cli[c].copy) \/ UNCHANGED record
      /\ Becomes(c, g) /\ UNCHANGED <<provider, jobs, uploads, image>>
  BY Client DEF SaveBuild
<1>2. /\ cli[c].build \in Builds /\ cli[c].copy \in Record /\ cli[c].copy # None
      /\ Backed(remote, image, cli[c].build, cli[c].copy)
  BY <1>1 DEF Held, Reading, Cli
<1>4. g \in Cli /\ g.step = cli[c].step /\ g.copy = cli[c].copy /\ g.build = cli[c].build
  BY <1>1 DEF Cli
<1> HIDE DEF g
<1>5. Held(remote, image, uploads, g) /\ remote' = remote
  BY <1>1, <1>2, <1>4 DEF Held, jobs
<1>6. CASE Save(cli[c].build, cli[c].copy)
  <2>1. TableInv'
    BY <1>1, <1>2, <1>6, SaveOK DEF BuildInv
  <2>2. CliInv'
    BY <1>1, <1>4, <1>5, BecomesOK DEF Grown
  <2> QED BY <2>1, <2>2 DEF BuildInv
<1>7. CASE UNCHANGED record
  BY <1>1, <1>4, <1>5, <1>7, MoveOK
<1> QED BY <1>1, <1>6, <1>7

\* Steps that only move the command line.
LEMMA WaitOK ==
  ASSUME BuildInv, NEW c \in Clients, Send(c) \/ Sync(c) \/ Poll(c) \/ Check(c) \/ Release(c)
  PROVE  BuildInv'
<1>1. /\ cli[c] \in Cli /\ Held(remote, image, uploads, cli[c]) /\ cli[c].step # "idle"
      /\ cli[c].get = "done" /\ UNCHANGED <<provider, record, jobs, uploads, image>>
  BY Client DEF Send, Sync, Poll, Check, Release, At
<1>2. cli[c].build \in Builds
  BY <1>1 DEF Held
<1>3. ASSUME NEW step \in {"upload", "poll", "check"}, ThenGet(c, step) PROVE BuildInv'
  BY <1>1, <1>2, <1>3, GetHeld, MoveOK DEF ThenGet, Steps
<1>4. CASE Exit(c)
  BY <1>1, <1>4, ExitOK
<1>5. CASE At(c, "check") /\ Then(c, "release")
  <2>1. cli[c].copy # None
    BY <1>1, <1>5 DEF Held, Reading, At
  <2> QED BY <1>1, <1>5, <2>1, StepHeld, MoveOK DEF Then, Steps
<1> QED BY <1>3, <1>4, <1>5 DEF Send, Sync, Poll, Round, Check, Release

LEMMA FailOK == ASSUME BuildInv, NEW c \in Clients, Fail(c) PROVE BuildInv'
<1>1. /\ cli[c] \in Cli /\ Held(remote, image, uploads, cli[c]) /\ cli[c].step # "idle"
      /\ UNCHANGED <<provider, record, jobs, uploads, image>>
  BY Client DEF Fail
<1>2. CASE Exit(c)
  BY <1>1, <1>2, ExitOK
<1>3. CASE Becomes(c, [cli[c] EXCEPT !.step = "check", !.get = "load"])
  <2> DEFINE g == [cli[c] EXCEPT !.step = "check", !.get = "load"]
  <2>1. g \in Cli /\ g.step = "check" /\ g.get = "load" /\ g.copy = cli[c].copy /\ g.build = cli[c].build
    BY <1>1 DEF Cli, Steps
  <2> HIDE DEF g
  <2>2. Held(remote, image, uploads, g)
    BY <1>1, <2>1 DEF Held, Reading
  <2>3. Becomes(c, g)
    BY <1>3 DEF g
  <2> QED BY <1>1, <2>1, <2>2, <2>3, MoveOK
<1> QED BY <1>2, <1>3 DEF Fail

------------------------------------------------------------------------------
(* Builds are created                                                       *)

LEMMA BeginHeld ==
  ASSUME NEW b \in Builds, NEW source \in Sources, NEW step \in Steps, NEW get \in {"load", "done"},
         NEW rem, NEW img, NEW ups,
         step = "send" \/ get = "load" \/ (step = "saveJob" /\ provider = "aws"),
         step = "saveJob" => rem[b] # None, step # "start"
  PROVE  LET g == [Idle EXCEPT !.step = step, !.get = get, !.build = b, !.source = source]
         IN  g \in Cli /\ Held(rem, img, ups, g)
<1> DEFINE g == [Idle EXCEPT !.step = step, !.get = get, !.build = b, !.source = source]
<1>1. g \in Cli /\ g.step = step /\ g.get = get /\ g.copy = None /\ g.build = b
  BY DEF Idle, Cli
<1> HIDE DEF g
<1>2. Held(rem, img, ups, g)
  BY <1>1 DEF Held, Reading
<1> QED BY <1>1, <1>2 DEF g

LEMMA CreateOK ==
  ASSUME BuildInv, NEW c \in Clients, NEW b \in Builds, NEW source \in Sources,
         NEW step \in {"send", "import", "sync", "check"}, NEW get \in {"load", "done"},
         step = "send" \/ get = "load", Create(c, b, source, step, get)
  PROVE  BuildInv'
<1> DEFINE r == [status |-> "CREATED", job |-> FALSE]
           g == [Idle EXCEPT !.step = step, !.get = get, !.build = b, !.source = source]
<1>1. /\ Becomes(c, g) /\ Save(b, r) /\ CliInv
      /\ UNCHANGED <<provider, jobs, uploads, image>>
  BY DEF Create, Begin, BuildInv
<1>2. r \in Record /\ Backed(remote, image, b, r)
  BY StatusTypes DEF Record, Statuses, Backed, BuildInv, TableInv, TableTypes
<1>3. TableInv'
  BY <1>1, <1>2, SaveOK DEF BuildInv
<1>4. g \in Cli /\ Held(remote', image', uploads', g)
  BY BeginHeld DEF Steps
<1>5. CliInv'
  <2> HIDE DEF g
  <2>1. Grown(remote, remote') /\ Grown(image, image') /\ uploads' = uploads
    BY <1>1 DEF Grown, jobs
  <2> QED BY <1>1, <1>4, <2>1, BecomesOK
<1> QED BY <1>3, <1>5 DEF BuildInv

LEMMA TriggerOK ==
  ASSUME BuildInv, NEW c \in Clients, NEW b \in Builds, Trigger(c, b)
  PROVE  BuildInv'
<1> DEFINE g == [Idle EXCEPT !.step = "saveJob", !.get = "done", !.build = b, !.source = "git"]
<1>1. /\ provider = "aws" /\ remote[b] = None /\ Becomes(c, g) /\ CliInv
      /\ remote' = [remote EXCEPT ![b] = "IN_PROGRESS"] /\ input' = [input EXCEPT ![b] = b]
      /\ UNCHANGED <<provider, record, uploads, image>>
  BY DEF Trigger, Fresh, Begin, BuildInv
<1>2. /\ remote'[b] = "IN_PROGRESS" /\ input'[b] = b /\ b # None /\ "IN_PROGRESS" # None
      /\ \A d \in Builds \ {b} : remote'[d] = remote[d] /\ input'[d] = input[d]
  BY <1>1, BuildAssumption, StatusTypes DEF BuildInv, TableInv, TableTypes, Builds, Waiting
<1>3. Grown(remote, remote') /\ Grown(image, image')
  BY <1>1, <1>2 DEF Grown
<1>4. TableTypes'
  BY <1>1 DEF BuildInv, TableInv, TableTypes, Good, Bad, Waiting, Ended
<1>5. RecordOK'
  BY <1>1, <1>3 DEF BuildInv, TableInv, RecordOK, Backed, Grown, Good
<1>6. RemoteOK' /\ InputOK'
  BY <1>1, <1>2 DEF BuildInv, TableInv, RemoteOK, InputOK, Good, Waiting
<1>7. g \in Cli /\ Held(remote', image', uploads', g)
  BY <1>1, <1>2, BeginHeld DEF Steps, Sources
<1>8. CliInv'
  <2> HIDE DEF g
  <2> QED BY <1>1, <1>3, <1>7, BecomesOK
<1> QED BY <1>4, <1>5, <1>6, <1>8 DEF BuildInv, TableInv

LEMMA StartOK ==
  ASSUME BuildInv, NEW c \in Clients, NEW b \in Builds, Start(c, b)
  PROVE  BuildInv'
<1>1. CASE StartDir(c, b) \/ StartArchive(c, b)
  BY <1>1, CreateOK DEF StartDir, StartArchive, Sources
<1>2. CASE StartGit(c, b)
  BY <1>2, CreateOK, TriggerOK DEF StartGit, Sources
<1>3. CASE StartImage(c, b)
  BY <1>3, CreateOK DEF StartImage, Sources
<1>4. CASE StartExisting(c, b)
  <2>1. PICK step \in {"check", "sync"} : Begin(c, b, "existing", step, "load")
    BY <1>4 DEF StartExisting
  <2> DEFINE g == [Idle EXCEPT !.step = step, !.get = "load", !.build = b, !.source = "existing"]
  <2>2. Becomes(c, g) /\ UNCHANGED <<provider, record, jobs, uploads, image>>
    BY <1>4, <2>1 DEF StartExisting, Begin
  <2>3. g \in Cli /\ Held(remote, image, uploads, g)
    BY BeginHeld DEF Steps, Sources
  <2> HIDE DEF g
  <2> QED BY <2>2, <2>3, MoveOK
<1> QED BY <1>1, <1>2, <1>3, <1>4 DEF Start

LEMMA DeleteOK ==
  ASSUME BuildInv, NEW c \in Clients, NEW b \in Builds, Delete(c, b)
  PROVE  BuildInv'
<1>1. Save(b, None) /\ UNCHANGED <<provider, jobs, uploads, image, cli>> /\ CliInv
  BY DEF Delete, BuildInv
<1>2. TableInv'
  BY <1>1, SaveOK DEF BuildInv
<1>3. CliInv'
  BY <1>1, StaysOK DEF Grown, jobs
<1> QED BY <1>2, <1>3 DEF BuildInv

------------------------------------------------------------------------------
(* The source, the job and the image                                        *)

LEMMA UploadOK == ASSUME BuildInv, NEW c \in Clients, Upload(c), cli[c].build \in Ids PROVE BuildInv'
<1>1. /\ cli[c] \in Cli /\ Held(remote, image, uploads, cli[c]) /\ CliInv
      /\ cli[c].step = "upload" /\ cli[c].get = "done"
      /\ uploads' = Append(uploads, cli[c].build) /\ Then(c, "start")
      /\ UNCHANGED <<provider, record, jobs, image>>
  BY Client DEF Upload, At
<1>2. cli[c].build \in Builds /\ cli[c].copy # None
  BY <1>1 DEF Held, Reading
<1>3. uploads' \in Seq(Ids) /\ uploads' # <<>>
  BY <1>1 DEF BuildInv, TableInv, TableTypes
<1>4. TableInv'
  BY <1>1, <1>3 DEF BuildInv, TableInv, TableTypes, RecordOK, RemoteOK, InputOK, Backed, Good, Bad,
                    Waiting, Ended, jobs
<1>5. Grown(remote, remote') /\ Grown(image, image')
  BY <1>1 DEF Grown, jobs
<1> DEFINE g == [cli[c] EXCEPT !.step = "start"]
<1>6. Held(remote', image', uploads', cli[c])
  BY <1>1, <1>3, <1>5, HeldKept
<1>7. g \in Cli /\ Held(remote', image', uploads', g)
  BY <1>1, <1>2, <1>3, <1>6, StepHeld DEF Steps
<1>8. Becomes(c, g)
  BY <1>1 DEF Then
<1> HIDE DEF g
<1>9. CliInv'
  BY <1>1, <1>3, <1>5, <1>7, <1>8, BecomesOK
<1> QED BY <1>4, <1>9 DEF BuildInv

LEMMA StartRemoteJobOK == ASSUME BuildInv, NEW c \in Clients, StartRemoteJob(c) PROVE BuildInv'
<1> DEFINE b == cli[c].build
           g == [cli[c] EXCEPT !.step = "saveJob"]
<1>1. /\ cli[c] \in Cli /\ Held(remote, image, uploads, cli[c]) /\ CliInv
      /\ cli[c].step = "start" /\ cli[c].get = "done" /\ provider # "local"
      /\ remote' = [remote EXCEPT ![b] = StartedStatus] /\ Becomes(c, g)
      /\ UNCHANGED <<provider, record, input, uploads, image>>
  BY Client DEF StartRemoteJob, At, Then
<1>2. b \in Builds /\ cli[c].copy # None /\ uploads # <<>>
  BY <1>1 DEF Held, Reading
<1>3. StartedStatus \in Waiting /\ StartedStatus # None /\ StartedStatus # Good
  BY <1>1, StatusTypes DEF BuildInv, TableInv, TableTypes
<1>4. remote'[b] = StartedStatus /\ \A d \in Builds \ {b} : remote'[d] = remote[d]
  BY <1>1, <1>2 DEF BuildInv, TableInv, TableTypes
<1>5. Grown(remote, remote') /\ Grown(image, image')
  BY <1>1, <1>3, <1>4 DEF Grown
<1>6. TableTypes'
  BY <1>1, <1>3 DEF BuildInv, TableInv, TableTypes, Good, Bad, Waiting, Ended
<1>7. RecordOK'
  BY <1>1, <1>5 DEF BuildInv, TableInv, RecordOK, Backed, Grown, Good
<1>8. RemoteOK' /\ InputOK'
  BY <1>1, <1>2, <1>3, <1>4 DEF BuildInv, TableInv, RemoteOK, InputOK, Good, Waiting
<1>9. Held(remote', image', uploads', cli[c])
  BY <1>1, <1>5, HeldKept
<1>10. g \in Cli /\ Held(remote', image', uploads', g)
  BY <1>1, <1>2, <1>3, <1>4, <1>9, StepHeld DEF Steps
<1> HIDE DEF g
<1>11. CliInv'
  BY <1>1, <1>5, <1>10, BecomesOK
<1> QED BY <1>6, <1>7, <1>8, <1>11 DEF BuildInv, TableInv

\* An image of build b is pushed, whatever is in it.
LEMMA PushOK ==
  ASSUME TableInv, NEW b \in Builds, NEW x \in Builds, image' = [image EXCEPT ![b] = x],
         UNCHANGED <<provider, record, jobs, uploads>>
  PROVE  TableInv' /\ Grown(image, image')
<1>1. x # None
  BY BuildAssumption DEF Builds
<1>2. Grown(image, image')
  BY <1>1 DEF Grown, TableInv, TableTypes
<1>3. TableTypes'
  BY DEF TableInv, TableTypes, Good, Bad, Waiting, Ended, jobs
<1>4. RecordOK'
  BY <1>2 DEF TableInv, RecordOK, Backed, Grown, Good, jobs
<1>5. RemoteOK' /\ InputOK'
  BY <1>2 DEF TableInv, RemoteOK, InputOK, Grown, Good, Waiting, jobs
<1> QED BY <1>2, <1>3, <1>4, <1>5 DEF TableInv

LEMMA SourceType ==
  ASSUME TableTypes, NEW b \in Builds, provider = "gcp" \/ uploads # <<>>
  PROVE  Source(b) \in Builds
<1>1. CASE provider = "gcp"
  BY <1>1 DEF Source
<1>2. CASE uploads # <<>>
  <2>1. uploads \in Seq(Ids) /\ Len(uploads) \in 1..Len(uploads)
    BY <1>2 DEF TableTypes
  <2>2. uploads[Len(uploads)] \in Ids
    BY <2>1
  <2> QED BY <2>2 DEF Source, Last, Builds
<1> QED BY <1>1, <1>2

LEMMA TagAndPushOK == ASSUME BuildInv, NEW c \in Clients, TagAndPush(c) PROVE BuildInv'
<1> DEFINE b == cli[c].build
           g == [cli[c] EXCEPT !.step = "sync", !.get = "load", !.copy = None]
<1>1. /\ cli[c] \in Cli /\ Held(remote, image, uploads, cli[c]) /\ CliInv /\ cli[c].step = "start"
      /\ image' = [image EXCEPT ![b] = Source(b)] /\ Becomes(c, g)
      /\ UNCHANGED <<provider, record, jobs, uploads>>
  BY Client DEF TagAndPush, At, ThenGet
<1>2. b \in Builds /\ uploads # <<>>
  BY <1>1 DEF Held
<1>3. Source(b) \in Builds
  BY <1>2, SourceType DEF BuildInv, TableInv
<1>4. TableInv' /\ Grown(image, image') /\ Grown(remote, remote')
  BY <1>1, <1>2, <1>3, PushOK DEF BuildInv, Grown, jobs
<1>5. g \in Cli /\ Held(remote', image', uploads', g)
  BY <1>1, <1>2, GetHeld DEF Steps
<1> HIDE DEF g
<1>6. CliInv'
  BY <1>1, <1>4, <1>5, BecomesOK
<1> QED BY <1>4, <1>6 DEF BuildInv

LEMMA SaveJobOK == ASSUME BuildInv, NEW c \in Clients, SaveJob(c) PROVE BuildInv'
<1> DEFINE b == cli[c].build
           status == IF provider = "aws" THEN "IN_PROGRESS" ELSE cli[c].copy.status
           r == [status |-> status, job |-> TRUE]
           g == [cli[c] EXCEPT !.step = "sync", !.get = "load", !.copy = None]
<1>1. /\ cli[c] \in Cli /\ Held(remote, image, uploads, cli[c]) /\ CliInv
      /\ cli[c].step = "saveJob" /\ cli[c].get = "done" /\ Save(b, r) /\ Becomes(c, g)
      /\ UNCHANGED <<provider, jobs, uploads, image>>
  BY Client DEF SaveJob, At, ThenGet
<1>2. b \in Builds /\ remote[b] # None
  BY <1>1 DEF Held
<1>3. status \in Statuses /\ (status = Good /\ b \notin Untagged => image[b] # None)
  <2>1. CASE provider = "aws"
    BY <2>1 DEF Statuses, Good
  <2>2. CASE provider # "aws"
    <3>1. cli[c].copy \in Record /\ Backed(remote, image, b, cli[c].copy)
      BY <1>1, <2>2 DEF Held, Reading, Cli
    <3> QED BY <2>2, <3>1 DEF Record, Backed
  <2> QED BY <2>1, <2>2
<1> HIDE DEF status
<1>4. r \in Record /\ Backed(remote, image, b, r)
  BY <1>2, <1>3 DEF Record, Backed
<1>5. TableInv'
  BY <1>1, <1>2, <1>4, SaveOK DEF BuildInv
<1>6. g \in Cli /\ Held(remote', image', uploads', g)
  BY <1>1, <1>2, GetHeld DEF Steps
<1>7. Grown(remote, remote') /\ Grown(image, image') /\ uploads' = uploads
  BY <1>1 DEF Grown, jobs
<1> HIDE DEF g
<1>8. CliInv'
  BY <1>1, <1>6, <1>7, BecomesOK
<1> QED BY <1>5, <1>8 DEF BuildInv

LEMMA BuildImportOK ==
  ASSUME BuildInv, NEW c \in Clients, NEW ok \in BOOLEAN, BuildImport(c, ok)
  PROVE  BuildInv'
<1> DEFINE b == cli[c].build
           load == BuildDockerLoad(b, ok)
           new == [cli[c].copy EXCEPT !.status = load.status]
           g == [cli[c] EXCEPT !.step = "saveImport", !.copy.status = load.status]
<1>1. /\ cli[c] \in Cli /\ Held(remote, image, uploads, cli[c]) /\ CliInv
      /\ cli[c].step = "import" /\ cli[c].get = "done" /\ Becomes(c, g)
      /\ image' = IF load.image THEN [image EXCEPT ![b] = b] ELSE image
      /\ UNCHANGED <<provider, record, jobs, uploads>>
  BY Client DEF BuildImport, At
<1>2. b \in Builds /\ cli[c].copy \in Record /\ Backed(remote, image, b, cli[c].copy)
  BY <1>1 DEF Held, Reading, Cli
<1>3. TableInv' /\ Grown(image, image') /\ Grown(remote, remote')
  <2>1. CASE load.image
    BY <1>1, <1>2, <2>1, PushOK DEF BuildInv, Grown, jobs
  <2>2. CASE ~ load.image
    BY <1>1, <2>2, SameTables DEF BuildInv, Grown, jobs
  <2> QED BY <2>1, <2>2
<1>4. load.status \in Statuses /\ (load.status = Good /\ b \notin Untagged => load.image)
  BY StatusTypes DEF BuildDockerLoad, Statuses, BuildInv, TableInv, TableTypes
<1>5. load.image => image'[b] = b /\ b # None
  BY <1>1, <1>2, BuildAssumption DEF BuildInv, TableInv, TableTypes, Builds
<1> HIDE DEF load
<1>6. new \in Record /\ new.status = load.status /\ new.job = cli[c].copy.job
  BY <1>2, <1>4 DEF Record
<1>7. Backed(remote', image', b, new)
  BY <1>1, <1>2, <1>4, <1>5, <1>6 DEF Backed, jobs
<1>8. g = [cli[c] EXCEPT !.step = "saveImport", !.copy = new]
  BY <1>1, <1>2 DEF Cli, Record
<1> HIDE DEF new
<1>9. g \in Cli /\ g.step = "saveImport" /\ g.get = "done" /\ g.copy = new /\ g.build = b
  BY <1>1, <1>6, <1>8 DEF Cli, Steps
<1> HIDE DEF g
<1>10. Held(remote', image', uploads', g)
  BY <1>2, <1>6, <1>7, <1>9, NoneIsNothing DEF Held
<1>11. CliInv'
  BY <1>1, <1>3, <1>9, <1>10, BecomesOK
<1> QED BY <1>3, <1>11 DEF BuildInv

LEMMA SaveImportOK == ASSUME BuildInv, NEW c \in Clients, SaveImport(c) PROVE BuildInv'
<1> DEFINE b == cli[c].build
           g == [cli[c] EXCEPT !.step = "check", !.get = "load", !.copy = None]
<1>1. /\ cli[c] \in Cli /\ Held(remote, image, uploads, cli[c]) /\ CliInv
      /\ cli[c].step = "saveImport" /\ cli[c].get = "done" /\ Becomes(c, g)
      /\ Save(b, cli[c].copy) \/ UNCHANGED record
      /\ UNCHANGED <<provider, jobs, uploads, image>>
  BY Client DEF SaveImport, At, ThenGet
<1>2. b \in Builds /\ cli[c].copy \in Record /\ Backed(remote, image, b, cli[c].copy)
  BY <1>1 DEF Held, Reading, Cli
<1>3. TableInv'
  BY <1>1, <1>2, SaveOK, SameTables DEF BuildInv
<1>4. g \in Cli /\ Held(remote', image', uploads', g)
  BY <1>1, <1>2, GetHeld DEF Steps
<1>5. Grown(remote, remote') /\ Grown(image, image') /\ uploads' = uploads
  BY <1>1 DEF Grown, jobs
<1> HIDE DEF g
<1>6. CliInv'
  BY <1>1, <1>4, <1>5, BecomesOK
<1> QED BY <1>3, <1>6 DEF BuildInv

------------------------------------------------------------------------------
(* The remote builder                                                       *)

LEMMA DownloadOK == ASSUME BuildInv, NEW b \in Builds, Download(b) PROVE BuildInv'
<1>1. /\ remote[b] \in {"WORKING", "IN_PROGRESS"} /\ input[b] = None
      /\ input' = [input EXCEPT ![b] = Source(b)]
      /\ UNCHANGED <<provider, record, remote, uploads, image, cli>>
  BY DEF Download
<1>2. Source(b) \in Builds
  <2>1. remote[b] \in Waiting \/ provider = "gcp"
    BY <1>1, NoneIsNothing DEF BuildInv, TableInv, TableTypes, Waiting, Ended, Good, Bad, Statuses
  <2> QED BY <1>1, <2>1, SourceType DEF BuildInv, TableInv, InputOK
<1>3. TableTypes' /\ RecordOK' /\ RemoteOK'
  BY <1>1, <1>2 DEF BuildInv, TableInv, TableTypes, RecordOK, RemoteOK, Backed, Good, Bad, Waiting,
                    Ended
<1>4. InputOK'
  <2>1. Source(b) # None
    BY <1>2, BuildAssumption DEF Builds
  <2> QED BY <1>1, <2>1 DEF BuildInv, TableInv, TableTypes, InputOK, Waiting
<1>5. CliInv'
  BY <1>1, StaysOK DEF BuildInv, Grown
<1> QED BY <1>3, <1>4, <1>5 DEF BuildInv, TableInv

LEMMA ProgressOK == ASSUME BuildInv, NEW b \in Builds, Progress(b) PROVE BuildInv'
<1>1. PICK s \in (Waiting \cup Ended) \ {remote[b], ""} :
        /\ s = Good => input[b] # None
        /\ remote' = [remote EXCEPT ![b] = s]
        /\ image' = IF s = Good THEN [image EXCEPT ![b] = input[b]] ELSE image
  BY DEF Progress
<1>2. remote[b] \in Waiting /\ UNCHANGED <<provider, record, input, uploads, cli>>
  BY DEF Progress
<1>3. TableTypes
  BY DEF BuildInv, TableInv
<1>4. s # None
  BY <1>3, StatusTypes DEF TableTypes
<1>5. s = Good => input[b] \in Builds
  BY <1>1, <1>3 DEF TableTypes
<1>6. /\ remote'[b] = s /\ \A d \in Builds \ {b} : remote'[d] = remote[d] /\ image'[d] = image[d]
      /\ s = Good => image'[b] # None
      /\ s # Good => image'[b] = image[b]
  BY <1>1, <1>3 DEF TableTypes
<1>7. Grown(remote, remote') /\ Grown(image, image')
  BY <1>4, <1>6 DEF Grown
<1>8. TableTypes'
  BY <1>1, <1>2, <1>3, <1>5 DEF TableTypes, Good, Bad, Waiting, Ended
<1>9. RecordOK'
  BY <1>2, <1>7 DEF BuildInv, TableInv, RecordOK, Backed, Grown, Good
<1>10. RemoteOK' /\ InputOK'
  BY <1>2, <1>6 DEF BuildInv, TableInv, RemoteOK, InputOK, Good, Waiting
<1>11. CliInv'
  BY <1>2, <1>7, StaysOK DEF BuildInv
<1> QED BY <1>8, <1>9, <1>10, <1>11 DEF BuildInv, TableInv

------------------------------------------------------------------------------
(* A source arrives once                                                    *)

Sending(r) == r.step \in {"send", "upload"}

\* What is sent has not arrived, and is sent by nobody else.
SendInv ==
  \A c \in Clients : Sending(cli[c]) =>
    /\ cli[c].build \in Ids
    /\ ~ Contains(uploads, cli[c].build)
    /\ \A d \in Clients : Sending(cli[d]) /\ cli[d].build = cli[c].build => d = c

UploadInv == SendInv /\ IsInjective(uploads)

\* A command line that sends nothing new.
LEMMA SendKept ==
  ASSUME CliInv, UploadInv, UNCHANGED uploads, NEW c \in Clients, NEW r, Becomes(c, r),
         Sending(r) => Sending(cli[c]) /\ r.build = cli[c].build
  PROVE  UploadInv'
<1>1. /\ cli'[c] = r /\ \A d \in Clients \ {c} : cli'[d] = cli[d]
      /\ IsInjective(uploads)
  BY DEF Becomes, CliInv, UploadInv
<1>2. ASSUME NEW d \in Clients, Sending(cli'[d])
      PROVE  Sending(cli[d]) /\ cli'[d].build = cli[d].build
  BY <1>1, <1>2
<1>3. SendInv'
  BY <1>2 DEF SendInv, UploadInv, Sending, Contains
<1> QED BY <1>1, <1>3 DEF UploadInv, IsInjective

LEMMA BeginSend ==
  ASSUME CliInv, UploadInv, UNCHANGED uploads, NEW c \in Clients, NEW b, NEW source, NEW step, NEW get,
         Begin(c, b, source, step, get), Fresh(b) \/ step \notin {"send", "upload"}
  PROVE  UploadInv'
<1> DEFINE g == [Idle EXCEPT !.step = step, !.get = get, !.build = b, !.source = source]
<1>1. Becomes(c, g) /\ g.step = step /\ g.build = b
  BY DEF Begin, Idle
<1> HIDE DEF g
<1>2. CASE ~ Sending(g)
  BY <1>1, <1>2, SendKept
<1>3. CASE Sending(g)
  <2>1. b \in Ids /\ ~ Contains(uploads, b) /\ \A d \in Clients : cli[d].build # b
    BY <1>1, <1>3 DEF Sending, Fresh
  <2>2. cli'[c] = g /\ \A d \in Clients \ {c} : cli'[d] = cli[d]
    BY <1>1 DEF Becomes, CliInv
  <2>3. SendInv'
    BY <1>1, <2>1, <2>2 DEF SendInv, UploadInv, Sending, Contains
  <2> QED BY <2>3 DEF UploadInv, IsInjective
<1> QED BY <1>2, <1>3

LEMMA UploadSend ==
  ASSUME BuildInv, UploadInv, NEW c \in Clients, Upload(c)
  PROVE  UploadInv'
<1> DEFINE b == cli[c].build
<1>1. /\ cli[c] \in Cli /\ cli[c].step = "upload" /\ uploads \in Seq(Ids)
      /\ uploads' = Append(uploads, b) /\ Becomes(c, [cli[c] EXCEPT !.step = "start"])
  BY Client DEF Upload, At, Then, BuildInv, TableInv, TableTypes
<1>2. /\ b \in Ids /\ ~ Contains(uploads, b) /\ IsInjective(uploads)
      /\ \A d \in Clients \ {c} : Sending(cli[d]) => cli[d].build # b
  BY <1>1 DEF UploadInv, SendInv, Sending
<1>3. /\ Len(uploads') = Len(uploads) + 1 /\ Len(uploads) \in Nat /\ uploads'[Len(uploads) + 1] = b
      /\ \A i \in 1..Len(uploads) : uploads'[i] = uploads[i]
      /\ DOMAIN uploads = 1..Len(uploads) /\ DOMAIN uploads' = 1..(Len(uploads) + 1)
  BY <1>1, <1>2
<1> HIDE DEF b
<1>4. IsInjective(uploads')
  BY <1>2, <1>3 DEF IsInjective, Contains
<1>5. /\ ~ Sending(cli'[c])
      /\ \A d \in Clients \ {c} : cli'[d] = cli[d]
  BY <1>1 DEF Becomes, BuildInv, CliInv, Sending, Cli
<1>6. ASSUME NEW d \in Clients, Sending(cli'[d])
      PROVE  ~ Contains(uploads', cli'[d].build)
  <2>1. d # c /\ cli'[d] = cli[d] /\ ~ Contains(uploads, cli[d].build) /\ cli[d].build # b
    BY <1>2, <1>5, <1>6 DEF UploadInv, SendInv
  <2> QED BY <1>3, <2>1 DEF Contains
<1>7. SendInv'
  BY <1>5, <1>6 DEF UploadInv, SendInv, Sending
<1> QED BY <1>4, <1>7 DEF UploadInv, IsInjective

\* Every other step of a command line leaves the uploads alone.
LEMMA StepSend ==
  ASSUME BuildInv, UploadInv, NEW c \in Clients, Step(c) \/ Fail(c)
  PROVE  UploadInv'
<1> DEFINE Quiet(r) == Sending(r) => Sending(cli[c]) /\ r.build = cli[c].build
<1>1. cli[c] \in Cli /\ CliInv
  BY Client
<1>2. ASSUME NEW r, Becomes(c, r), Quiet(r), UNCHANGED uploads PROVE UploadInv'
  BY <1>1, <1>2, SendKept
<1>3. Quiet(Idle)
  BY DEF Idle, Sending
<1>4. \A step \in Steps \ {"send", "upload"} :
        Quiet([cli[c] EXCEPT !.step = step]) /\ Quiet([cli[c] EXCEPT !.step = step, !.get = "load", !.copy = None])
  BY <1>1 DEF Sending, Cli
<1>5. CASE LoadBuild(c)
  <2>1. \A x, y : Quiet([cli[c] EXCEPT !.copy = x, !.get = y])
    BY <1>1 DEF Sending, Cli
  <2> HIDE DEF Quiet
  <2> QED BY <1>2, <1>3, <1>5, <2>1 DEF LoadBuild, Exit
<1>6. CASE FetchBuild(c)
  <2>1. \A x, y : Quiet([cli[c] EXCEPT !.copy.status = x, !.get = y])
    BY <1>1 DEF Sending, Cli
  <2> HIDE DEF Quiet
  <2> QED BY <1>2, <1>6, <2>1 DEF FetchBuild
<1>7. CASE SaveBuild(c)
  <2>1. Quiet([cli[c] EXCEPT !.get = "done"])
    BY <1>1 DEF Sending, Cli
  <2> HIDE DEF Quiet
  <2> QED BY <1>2, <1>7, <2>1 DEF SaveBuild
<1>8. CASE Send(c)
  <2>1. Quiet([cli[c] EXCEPT !.step = "upload", !.get = "load", !.copy = None])
    BY <1>1, <1>8 DEF Send, At, Sending, Cli
  <2> HIDE DEF Quiet
  <2> QED BY <1>2, <1>8, <2>1 DEF Send, ThenGet
<1>9. CASE StartJob(c) \/ SaveJob(c) \/ SaveImport(c)
  <2> HIDE DEF Quiet
  <2> QED BY <1>2, <1>4, <1>9 DEF StartJob, StartRemoteJob, TagAndPush, SaveJob, SaveImport, Then, ThenGet, Steps
<1>10. CASE \E ok \in BOOLEAN : BuildImport(c, ok)
  <2>1. \A x : Quiet([cli[c] EXCEPT !.step = "saveImport", !.copy.status = x])
    BY <1>1 DEF Sending, Cli
  <2> HIDE DEF Quiet
  <2> QED BY <1>2, <1>10, <2>1 DEF BuildImport
<1>11. CASE Sync(c) \/ Poll(c) \/ Check(c) \/ Release(c)
  <2> HIDE DEF Quiet
  <2> QED BY <1>2, <1>3, <1>4, <1>11 DEF Sync, Poll, Round, Check, Release, Then, ThenGet, Exit, Steps
<1>12. CASE Fail(c)
  <2>1. Quiet([cli[c] EXCEPT !.step = "check", !.get = "load"])
    BY <1>1 DEF Sending, Cli
  <2> HIDE DEF Quiet
  <2> QED BY <1>2, <1>3, <1>12, <2>1 DEF Fail, Exit
<1> QED
  BY <1>5, <1>6, <1>7, <1>8, <1>9, <1>10, <1>11, <1>12, UploadSend DEF Step

LEMMA StartSend ==
  ASSUME BuildInv, UploadInv, NEW c \in Clients, NEW b \in Builds, Start(c, b)
  PROVE  UploadInv'
<1>1. CliInv
  BY DEF BuildInv
<1>2. CASE StartDir(c, b) \/ StartArchive(c, b)
  BY <1>1, <1>2, BeginSend DEF StartDir, StartArchive, Create
<1>3. CASE StartGit(c, b) \/ StartImage(c, b) \/ StartExisting(c, b)
  BY <1>1, <1>3, BeginSend DEF StartGit, Trigger, StartImage, StartExisting, Create
<1> QED BY <1>2, <1>3 DEF Start

LEMMA CliSame == ASSUME UploadInv, UNCHANGED <<cli, uploads>> PROVE UploadInv'
  BY DEF UploadInv, SendInv, Sending, IsInjective, Contains

------------------------------------------------------------------------------
(* Theorems                                                                 *)

Counts == released \subseteq Builds /\ commands \in 0..MaxCommands

LEMMA CountsOK == BuildInv /\ Counts /\ [Next]_vars => Counts'
<1> SUFFICES ASSUME BuildInv, Counts, [Next]_vars PROVE Counts'
  OBVIOUS
<1>1. ASSUME NEW c \in Clients, Release(c) PROVE Counts'
  <2>1. cli[c].build \in Builds
    BY <1>1, Client DEF Release, At, Held
  <2> QED BY <1>1, <2>1 DEF Release, Counts
<1>2. ASSUME Command, UNCHANGED released PROVE Counts'
  BY <1>2, BuildAssumption DEF Command, Counts
<1>3. ASSUME NEW c \in Clients, NEW b \in Builds, Start(c, b) \/ Delete(c, b) PROVE Counts'
  BY <1>2, <1>3 DEF Start, StartDir, StartArchive, StartGit, Trigger, StartImage, StartExisting, Create, Begin, Delete
<1>4. ASSUME NEW c \in Clients, Step(c) \/ Fail(c), ~ Release(c) PROVE UNCHANGED <<released, commands>>
  BY <1>4 DEF Step, LoadBuild, FetchBuild, SaveBuild, Send, Upload, StartJob, StartRemoteJob, TagAndPush, SaveJob,
              BuildImport, SaveImport, Sync, Poll, Check, Fail
<1>5. ASSUME NEW b \in Builds, Download(b) \/ Progress(b) PROVE UNCHANGED <<released, commands>>
  BY <1>5 DEF Download, Progress
<1> QED BY <1>1, <1>3, <1>4, <1>5 DEF Next, vars, Counts

IndInv == BuildInv /\ UploadInv /\ Counts

LEMMA InitOK == Init => IndInv
<1> SUFFICES ASSUME Init PROVE IndInv
  OBVIOUS
<1>1. TableTypes
  BY BuildAssumption DEF Init, TableTypes
<1>2. RecordOK /\ RemoteOK /\ InputOK
  <2>1. \A b \in Builds : record[b] = None /\ remote[b] = None
    BY DEF Init
  <2>2. None \notin Waiting /\ None # Good
    BY <1>1, StatusTypes, NoneIsNothing DEF TableTypes
  <2> QED BY <2>1, <2>2 DEF RecordOK, RemoteOK, InputOK
<1>3. CliInv
  BY IdleHeld DEF Init, CliInv
<1>4. UploadInv
  BY DEF Init, UploadInv, SendInv, Sending, Idle, IsInjective
<1>5. Counts
  BY BuildAssumption DEF Init, Counts
<1> QED BY <1>1, <1>2, <1>3, <1>4, <1>5 DEF IndInv, BuildInv, TableInv

LEMMA NextOK == IndInv /\ [Next]_vars => IndInv'
<1> SUFFICES ASSUME BuildInv, UploadInv, Counts, [Next]_vars PROVE BuildInv' /\ UploadInv'
  BY CountsOK DEF IndInv
<1>1. ASSUME NEW c \in Clients, Step(c) PROVE BuildInv' /\ UploadInv'
  <2>1. CASE Upload(c)
    <3>1. cli[c].build \in Ids
      BY <2>1 DEF Upload, At, UploadInv, SendInv, Sending
    <3> QED BY <2>1, <3>1, UploadOK, UploadSend
  <2>2. CASE ~ Upload(c)
    BY <1>1, <2>2, StepSend, LoadOK, FetchOK, SaveBuildOK, WaitOK, StartRemoteJobOK, TagAndPushOK, SaveJobOK,
       BuildImportOK, SaveImportOK DEF Step, StartJob
  <2> QED BY <2>1, <2>2
<1>2. ASSUME NEW c \in Clients, Fail(c) PROVE BuildInv' /\ UploadInv'
  BY <1>2, FailOK, StepSend
<1>3. ASSUME NEW c \in Clients, NEW b \in Builds, Start(c, b) \/ Delete(c, b) PROVE BuildInv' /\ UploadInv'
  BY <1>3, StartOK, StartSend, DeleteOK, CliSame DEF Delete
<1>4. ASSUME NEW b \in Builds, Download(b) \/ Progress(b) PROVE BuildInv' /\ UploadInv'
  BY <1>4, DownloadOK, ProgressOK, CliSame DEF Download, Progress
<1>5. CASE UNCHANGED vars
  <2>1. TableInv' /\ CliInv'
    BY <1>5, SameTables, StaysOK DEF BuildInv, vars, jobs, Grown
  <2> QED BY <1>5, <2>1, CliSame DEF BuildInv, vars
<1> QED BY <1>1, <1>2, <1>3, <1>4, <1>5 DEF Next

LEMMA Invariant == Spec => []IndInv
  BY InitOK, NextOK, PTL DEF Spec

LEMMA ProviderStays == [Next]_vars => UNCHANGED provider
<1> SUFFICES ASSUME [Next]_vars PROVE UNCHANGED provider
  OBVIOUS
<1>1. ASSUME NEW c \in Clients, Step(c) \/ Fail(c) PROVE UNCHANGED provider
  BY <1>1 DEF Step, LoadBuild, FetchBuild, SaveBuild, Send, Upload, StartJob, StartRemoteJob, TagAndPush, SaveJob,
              BuildImport, SaveImport, Sync, Poll, Check, Release, Fail
<1>2. ASSUME NEW c \in Clients, NEW b \in Builds, Start(c, b) \/ Delete(c, b) PROVE UNCHANGED provider
  BY <1>2 DEF Start, StartDir, StartArchive, StartGit, Trigger, StartImage, StartExisting, Create, Begin, Delete
<1>3. ASSUME NEW b \in Builds, Download(b) \/ Progress(b) PROVE UNCHANGED provider
  BY <1>3 DEF Download, Progress
<1> QED BY <1>1, <1>2, <1>3 DEF Next, vars

LEMMA ProviderChosen == Spec => [](provider \in Providers)
<1>1. Init => provider \in Providers
  BY DEF Init
<1>2. provider \in Providers /\ [Next]_vars => (provider \in Providers)'
  BY ProviderStays
<1> QED BY <1>1, <1>2, PTL DEF Spec

\* What the server has saved of builds, the jobs, the images and what every
\* command line has read have their types, and no source arrives twice.
THEOREM TypeCorrect == Spec => []TypeOK
<1>1. IndInv /\ provider \in Providers => TypeOK
  BY DEF IndInv, BuildInv, TableInv, TableTypes, CliInv, Cli, UploadInv, Counts, TypeOK
<1> QED BY <1>1, Invariant, ProviderChosen, PTL

\* However command lines overlap, calls fail and the remote builder delays, a
\* build recorded as a success has its image in the registry.
THEOREM SuccessBacked == Spec => []SuccessHasImage
<1>1. IndInv => SuccessHasImage
  BY DEF IndInv, BuildInv, TableInv, RecordOK, Backed, SuccessHasImage
<1> QED BY <1>1, Invariant, PTL

------------------------------------------------------------------------------
(* CodeBuild: an end that was recorded stays.  What could take it back is a *)
(* copy read before it, saved after it.  A BuildGet saves only what it got  *)
(* from a job that had ended, and jobs end once (Fits); the command that    *)
(* made the build writes its record only before anyone can track its job.   *)

Created == [status |-> "CREATED", job |-> FALSE]

\* A record that follows its job.
Tracked(rec, rem, b) ==
  /\ rec[b] # None /\ rec[b].job
  /\ rec[b].status = "IN_PROGRESS" \/ (rec[b].status \in Ended /\ rec[b].status = rem[b])

RecInv(rec, rem) ==
  /\ \A b \in Ids : rec[b] # None =>
       \/ rec[b] = Created \/ Tracked(rec, rem, b)
       \/ ~ rec[b].job /\ rec[b].status \in Ended
  /\ \A b \in Tags : rec[b] # None => rec[b] = Created

\* The command line has made its build and not handed it over.
Owning(r) == r.step \in {"send", "upload", "start", "saveJob", "import", "saveImport"}

Fits(rec, rem, r) ==
  /\ Owning(r) =>
       /\ r.build \in Ids /\ rec[r.build] \in {None, Created}
       /\ r.copy # None => ~ r.copy.job
       /\ r.step = "saveImport" => r.copy # None /\ r.copy.status \in Ended /\ r.get = "done"
  /\ r.get = "fetch" => Tracked(rec, rem, r.build) /\ r.copy.status = "IN_PROGRESS" /\ r.copy.job
  /\ r.get = "save" =>
       /\ Tracked(rec, rem, r.build) /\ rem[r.build] \in Ended
       /\ r.copy.status = rem[r.build] /\ r.copy.job

AwsInv ==
  /\ RecInv(record, remote)
  /\ \A c \in Clients :
       /\ Fits(record, remote, cli[c])
       /\ \A d \in Clients :
            Owning(cli[c]) /\ Owning(cli[d]) /\ cli[c].build = cli[d].build => c = d

\* Records go on following their jobs, and the ends of jobs stay.
Follows(rec, rem, rec2, rem2) ==
  \A b \in Builds :
    Tracked(rec, rem, b) => Tracked(rec2, rem2, b) /\ (rem[b] \in Ended => rem2[b] = rem[b])

LEMMA FitsKept ==
  ASSUME NEW r, NEW rec, NEW rem, NEW rec2, NEW rem2, Fits(rec, rem, r),
         r.get # "done" => r.build \in Builds, Follows(rec, rem, rec2, rem2),
         Owning(r) => rec2[r.build] = rec[r.build]
  PROVE  Fits(rec2, rem2, r)
  BY DEF Fits, Follows

\* Command line c comes to hold r.
LEMMA AwsBecomes ==
  ASSUME BuildInv, AwsInv, UNCHANGED provider, NEW c \in Clients, NEW r, Becomes(c, r),
         Fits(record', remote', r), Follows(record, remote, record', remote'),
         RecInv(record', remote'),
         \A d \in Clients \ {c} : Owning(cli[d]) =>
            record'[cli[d].build] = record[cli[d].build] /\ (Owning(r) => r.build # cli[d].build)
  PROVE  AwsInv'
<1>1. cli'[c] = r /\ \A d \in Clients \ {c} : cli'[d] = cli[d]
  BY DEF Becomes, BuildInv, CliInv
<1>2. ASSUME NEW d \in Clients PROVE Fits(record', remote', cli'[d])
  <2>1. CASE d = c
    BY <1>1, <2>1
  <2>2. CASE d # c
    <3>1. Fits(record, remote, cli[d]) /\ (cli[d].get # "done" => cli[d].build \in Builds)
      BY Client DEF AwsInv, Held
    <3> QED BY <1>1, <2>2, <3>1, FitsKept
  <2> QED BY <2>1, <2>2
<1>3. ASSUME NEW d \in Clients, NEW e \in Clients, Owning(cli'[d]), Owning(cli'[e]),
             cli'[d].build = cli'[e].build
      PROVE  d = e
  BY <1>1, <1>3 DEF AwsInv
<1>4. Ended' = Ended
  BY DEF Ended, Good, Bad
<1>5. RecInv(record, remote)' /\ \A d \in Clients : Fits(record, remote, cli[d])'
  BY <1>2, <1>4 DEF RecInv, Fits, Tracked, Created, Owning
<1>6. \A d, e \in Clients : (Owning(cli[d]) /\ Owning(cli[e]) /\ cli[d].build = cli[e].build)' => d = e
  BY <1>3 DEF Owning
<1> QED BY <1>5, <1>6 DEF AwsInv

\* Command line c comes to hold r, which it may as the tables are.
LEMMA AwsMove ==
  ASSUME BuildInv, AwsInv, UNCHANGED <<provider, record, remote>>, NEW c \in Clients, NEW r,
         Becomes(c, r), Fits(record, remote, r), Owning(r) => Owning(cli[c]) /\ r.build = cli[c].build
  PROVE  AwsInv'
<1>1. Follows(record, remote, record', remote') /\ RecInv(record', remote')
  BY DEF Follows, AwsInv
<1>2. Fits(record', remote', r)
  OBVIOUS
<1>3. \A d \in Clients \ {c} : Owning(cli[d]) =>
        record'[cli[d].build] = record[cli[d].build] /\ (Owning(r) => r.build # cli[d].build)
  BY DEF AwsInv
<1> QED BY <1>1, <1>2, <1>3, AwsBecomes

LEMMA AwsSame ==
  ASSUME BuildInv, AwsInv, UNCHANGED <<provider, cli>>, Follows(record, remote, record', remote'),
         UNCHANGED record, RecInv(record', remote')
  PROVE  AwsInv'
<1>1. ASSUME NEW d \in Clients PROVE Fits(record', remote', cli[d])
  <2>1. Fits(record, remote, cli[d]) /\ (cli[d].get # "done" => cli[d].build \in Builds)
    BY Client DEF AwsInv, Held
  <2> QED BY <2>1, FitsKept
<1>2. Ended' = Ended
  BY DEF Ended, Good, Bad
<1>3. RecInv(record, remote)' /\ \A d \in Clients : Fits(record, remote, cli[d])'
  BY <1>1, <1>2 DEF RecInv, Fits, Tracked, Created, Owning
<1> QED BY <1>3 DEF AwsInv, Owning

LEMMA AwsEnded ==
  ASSUME provider = "aws"
  PROVE  /\ Ended = {"SUCCEEDED", "FAILED", "STOPPED"} /\ Waiting = {"IN_PROGRESS"}
         /\ Good = "SUCCEEDED" /\ StartedStatus = "IN_PROGRESS"
  BY DEF Ended, Waiting, Good, Bad, StartedStatus

\* Steps that write neither records nor jobs.
LEMMA AwsWait ==
  ASSUME BuildInv, AwsInv, provider = "aws", NEW c \in Clients,
         Send(c) \/ Upload(c) \/ Sync(c) \/ Poll(c) \/ Check(c) \/ Release(c) \/ Fail(c)
  PROVE  AwsInv'
<1>1. cli[c] \in Cli /\ Fits(record, remote, cli[c]) /\ UNCHANGED <<provider, record, remote>>
  BY Client DEF AwsInv, Send, Upload, Sync, Poll, Check, Release, Fail, jobs
<1> DEFINE OK(r) == Fits(record, remote, r) /\ (Owning(r) => Owning(cli[c]) /\ r.build = cli[c].build)
<1>2. ASSUME NEW r, Becomes(c, r), OK(r) PROVE AwsInv'
  BY <1>1, <1>2, AwsMove
<1>3. OK(Idle)
  BY DEF Idle, Fits, Owning
<1>4. \A step \in {"poll", "check"} : OK([cli[c] EXCEPT !.step = step, !.get = "load", !.copy = None])
  BY <1>1 DEF Fits, Owning, Cli
<1>5. CASE Send(c)
  <2>1. OK([cli[c] EXCEPT !.step = "upload", !.get = "load", !.copy = None])
    BY <1>1, <1>5 DEF Fits, Owning, Cli, Send, At
  <2> HIDE DEF OK
  <2> QED BY <1>2, <1>5, <2>1 DEF Send, ThenGet
<1>6. CASE Upload(c)
  <2>1. OK([cli[c] EXCEPT !.step = "start"])
    BY <1>1, <1>6 DEF Fits, Owning, Cli, Upload, At
  <2> HIDE DEF OK
  <2> QED BY <1>2, <1>6, <2>1 DEF Upload, Then
<1>7. CASE Sync(c) \/ Poll(c) \/ Release(c)
  <2> HIDE DEF OK
  <2> QED BY <1>2, <1>3, <1>4, <1>7 DEF Sync, Poll, Round, Release, ThenGet, Exit
<1>8. CASE Check(c)
  <2>1. OK([cli[c] EXCEPT !.step = "release"])
    BY <1>1, <1>8 DEF Fits, Owning, Cli, Check, At
  <2> HIDE DEF OK
  <2> QED BY <1>2, <1>3, <1>8, <2>1 DEF Check, Then, Exit
<1>9. CASE Fail(c)
  <2>1. OK([cli[c] EXCEPT !.step = "check", !.get = "load"])
    BY <1>1 DEF Fits, Owning, Cli
  <2> HIDE DEF OK
  <2> QED BY <1>2, <1>3, <1>9, <2>1 DEF Fail, Exit
<1> QED BY <1>5, <1>6, <1>7, <1>8, <1>9

LEMMA AwsLoad ==
  ASSUME BuildInv, AwsInv, provider = "aws", NEW c \in Clients, LoadBuild(c)
  PROVE  AwsInv'
<1> DEFINE b == cli[c].build
           get == IF Refreshes(record[b]) THEN "fetch" ELSE "done"
           g == [cli[c] EXCEPT !.copy = record[b], !.get = get]
<1>1. /\ cli[c] \in Cli /\ Fits(record, remote, cli[c]) /\ UNCHANGED <<provider, record, remote>>
      /\ cli[c].get = "load" /\ b \in Builds
  BY Client DEF AwsInv, LoadBuild, jobs, Held
<1>2. CASE record[b] = None
  <2>1. Fits(record, remote, Idle) /\ ~ Owning(Idle)
    BY DEF Idle, Fits, Owning
  <2> QED BY <1>1, <1>2, <2>1, AwsMove DEF LoadBuild, Exit
<1>3. CASE record[b] # None
  <2>1. g.step = cli[c].step /\ g.copy = record[b] /\ g.build = b /\ g.get = get
    BY <1>1 DEF Cli
  <2>2. Becomes(c, g)
    BY <1>3 DEF LoadBuild
  <2>3. get = "fetch" => Tracked(record, remote, b) /\ record[b].status = "IN_PROGRESS" /\ record[b].job
    BY <1>1, <1>3, AwsEnded DEF Refreshes, AwsInv, RecInv, Tracked, Created, Builds
  <2>4. Owning(cli[c]) => ~ record[b].job /\ cli[c].step # "saveImport"
    BY <1>1, <1>3 DEF Fits, Created
  <2>5. get \in {"fetch", "done"}
    OBVIOUS
  <2> HIDE DEF g, get
  <2>6. Fits(record, remote, g) /\ (Owning(g) => Owning(cli[c]) /\ g.build = cli[c].build)
    BY <1>1, <2>1, <2>3, <2>4, <2>5 DEF Fits, Owning
  <2> QED BY <1>1, <2>2, <2>6, AwsMove
<1> QED BY <1>2, <1>3

LEMMA AwsFetch ==
  ASSUME BuildInv, AwsInv, provider = "aws", NEW c \in Clients, FetchBuild(c)
  PROVE  AwsInv'
<1> DEFINE b == cli[c].build
           old == cli[c].copy
           fetched == Status(b, old)
           get == IF Differs(old.status, fetched) THEN "save" ELSE "done"
           g == [cli[c] EXCEPT !.copy.status = fetched, !.get = get]
<1>1. /\ cli[c] \in Cli /\ Fits(record, remote, cli[c]) /\ UNCHANGED <<provider, record, remote>>
      /\ cli[c].get = "fetch" /\ b \in Builds /\ Becomes(c, g) /\ old \in Record
      /\ Backed(remote, image, b, old)
  BY Client DEF AwsInv, FetchBuild, jobs, Held, Reading, Cli
<1>2. Tracked(record, remote, b) /\ old.status = "IN_PROGRESS" /\ old.job
  BY <1>1 DEF Fits
<1>3. fetched = remote[b] /\ remote[b] \in Waiting \cup Ended
  BY <1>1, <1>2 DEF Status, Backed, BuildInv, TableInv, TableTypes
<1>4. (get = "save" => fetched \in Ended) /\ get \in {"save", "done"}
  BY <1>2, <1>3, AwsEnded DEF Differs
<1>5. ~ Owning(cli[c])
  BY <1>1, <1>2 DEF Fits, Tracked, Created, Ended, Good, Bad
<1>6. g.step = cli[c].step /\ g.build = b /\ g.get = get /\ g.copy.status = fetched /\ g.copy.job
  BY <1>1, <1>2 DEF Cli, Record
<1> HIDE DEF g, get, fetched
<1>7. Fits(record, remote, g) /\ ~ Owning(g)
  BY <1>2, <1>3, <1>4, <1>5, <1>6 DEF Fits, Owning
<1> QED BY <1>1, <1>7, AwsMove

\* A record is saved whose build nobody else owns.
LEMMA AwsWrite ==
  ASSUME BuildInv, AwsInv, NEW b \in Builds, NEW r \in Record, Save(b, r), UNCHANGED remote,
         \/ (r = Created /\ ~ Tracked(record, remote, b))
         \/ (b \in Ids /\ r.job /\ (r.status = "IN_PROGRESS" \/ (r.status \in Ended /\ r.status = remote[b])))
         \/ (b \in Ids /\ ~ r.job /\ r.status \in Ended /\ ~ Tracked(record, remote, b))
  PROVE  Follows(record, remote, record', remote') /\ RecInv(record', remote')
<1>1. record'[b] = r /\ r # None /\ \A d \in Builds \ {b} : record'[d] = record[d]
  BY NoneIsNothing DEF Save, BuildInv, TableInv, TableTypes
<1>2. Follows(record, remote, record', remote')
  BY <1>1 DEF Follows, Tracked
<1>3. RecInv(record', remote')
  BY <1>1, BuildAssumption DEF AwsInv, RecInv, Tracked, Builds
<1> QED BY <1>2, <1>3

LEMMA AwsSaveBuild ==
  ASSUME BuildInv, AwsInv, provider = "aws", NEW c \in Clients, SaveBuild(c)
  PROVE  /\ AwsInv'
         /\ \/ UNCHANGED record
            \/ LET b == cli[c].build
               IN  b \in Ids /\ record'[b] # None /\ Tracked(record, remote, b) /\ record'[b].status = remote[b]
<1> DEFINE b == cli[c].build
           g == [cli[c] EXCEPT !.get = "done"]
<1>1. /\ cli[c] \in Cli /\ Fits(record, remote, cli[c]) /\ UNCHANGED <<provider, remote>>
      /\ cli[c].get = "save" /\ b \in Builds /\ Becomes(c, g) /\ cli[c].copy \in Record
      /\ Save(b, cli[c].copy) \/ UNCHANGED record
  BY Client DEF AwsInv, SaveBuild, jobs, Held, Reading, Cli
<1>2. /\ Tracked(record, remote, b) /\ cli[c].copy.status \in Ended /\ cli[c].copy.status = remote[b]
      /\ cli[c].copy.job
  BY <1>1 DEF Fits
<1>3. record[b] # Created /\ b \in Ids
  BY <1>1, <1>2 DEF Tracked, Created, AwsInv, RecInv, Builds, Ended, Good, Bad
<1>4. ~ Owning(cli[c]) /\ \A d \in Clients : Owning(cli[d]) => cli[d].build \in Builds \ {b}
  BY <1>2, <1>3 DEF AwsInv, Fits, Tracked, Builds
<1>5. g.step = cli[c].step /\ g.get = "done"
  BY <1>1 DEF Cli
<1> HIDE DEF g
<1>6. Fits(record', remote', g) /\ Fits(record, remote, g) /\ ~ Owning(g)
  BY <1>4, <1>5 DEF Fits, Owning
<1>7. CASE Save(b, cli[c].copy)
  <2>1. Follows(record, remote, record', remote') /\ RecInv(record', remote')
    BY <1>1, <1>2, <1>3, <1>7, AwsWrite
  <2>2. record'[b] = cli[c].copy /\ \A d \in Builds \ {b} : record'[d] = record[d]
    BY <1>1, <1>7 DEF Save, BuildInv, TableInv, TableTypes
  <2>3. AwsInv'
    BY <1>1, <1>4, <1>6, <2>1, <2>2, AwsBecomes
  <2> QED BY <1>1, <1>2, <1>3, <2>2, <2>3, NoneIsNothing
<1>8. CASE UNCHANGED record
  BY <1>1, <1>6, <1>8, AwsMove
<1> QED BY <1>1, <1>7, <1>8

\* A job starts whose build has no record that follows one.
LEMMA AwsRemote ==
  ASSUME BuildInv, AwsInv, NEW b \in Builds, ~ Tracked(record, remote, b), UNCHANGED record,
         remote' = [remote EXCEPT ![b] = "IN_PROGRESS"]
  PROVE  Follows(record, remote, record', remote') /\ RecInv(record', remote')
<1>1. \A d \in Builds \ {b} : remote'[d] = remote[d]
  BY DEF BuildInv, TableInv, TableTypes
<1>2. \A d \in Builds : Tracked(record, remote, d) => Tracked(record, remote', d) /\ remote'[d] = remote[d]
  BY <1>1 DEF Tracked
<1> QED BY <1>2 DEF Follows, AwsInv, RecInv, Builds

LEMMA AwsStartJob ==
  ASSUME BuildInv, AwsInv, provider = "aws", NEW c \in Clients, StartJob(c)
  PROVE  AwsInv'
<1> DEFINE b == cli[c].build
           g == [cli[c] EXCEPT !.step = "saveJob"]
<1>1. /\ cli[c] \in Cli /\ Fits(record, remote, cli[c]) /\ UNCHANGED <<provider, record>>
      /\ cli[c].step = "start" /\ cli[c].get = "done" /\ Becomes(c, g)
      /\ remote' = [remote EXCEPT ![b] = "IN_PROGRESS"]
  BY Client, AwsEnded DEF AwsInv, StartJob, StartRemoteJob, TagAndPush, At, Then
<1>2. Owning(cli[c]) /\ b \in Builds /\ ~ Tracked(record, remote, b)
  BY <1>1 DEF Owning, Fits, Builds, Tracked, Created
<1>3. Follows(record, remote, record', remote') /\ RecInv(record', remote')
  BY <1>1, <1>2, AwsRemote
<1>4. g.step = "saveJob" /\ g.get = "done" /\ g.build = b /\ g.copy = cli[c].copy
  BY <1>1 DEF Cli
<1> HIDE DEF g
<1>5. Fits(record', remote', g)
  BY <1>1, <1>2, <1>4 DEF Fits
<1>6. \A d \in Clients \ {c} : Owning(cli[d]) => cli[d].build # b
  BY <1>2 DEF AwsInv
<1> QED BY <1>1, <1>3, <1>4, <1>5, <1>6, AwsBecomes

LEMMA AwsSaveJob ==
  ASSUME BuildInv, AwsInv, provider = "aws", NEW c \in Clients, SaveJob(c)
  PROVE  /\ AwsInv'
         /\ record[cli[c].build] \in {None, Created}
         /\ \A d \in Builds \ {cli[c].build} : record'[d] = record[d]
<1> DEFINE b == cli[c].build
           r == [status |-> "IN_PROGRESS", job |-> TRUE]
           g == [cli[c] EXCEPT !.step = "sync", !.get = "load", !.copy = None]
<1>1. /\ cli[c] \in Cli /\ Fits(record, remote, cli[c]) /\ UNCHANGED <<provider, remote>>
      /\ cli[c].step = "saveJob" /\ Save(b, r) /\ Becomes(c, g)
  BY Client DEF AwsInv, SaveJob, At, ThenGet, jobs
<1>2. Owning(cli[c]) /\ b \in Ids /\ b \in Builds /\ record[b] \in {None, Created}
  BY <1>1 DEF Owning, Fits, Builds
<1>3. Follows(record, remote, record', remote') /\ RecInv(record', remote')
  <2>1. r \in Record
    BY DEF Record, Statuses
  <2>2. b \in Ids /\ r.job /\ r.status = "IN_PROGRESS"
    BY <1>2
  <2> HIDE DEF r
  <2> QED BY <1>1, <1>2, <2>1, <2>2, AwsWrite
<1>4. g.step = "sync" /\ g.get = "load" /\ g.copy = None
  BY <1>1 DEF Cli
<1>5. \A d \in Builds \ {b} : record'[d] = record[d]
  BY <1>1 DEF Save, BuildInv, TableInv, TableTypes
<1> HIDE DEF g
<1>6. Fits(record', remote', g) /\ ~ Owning(g)
  BY <1>4 DEF Fits, Owning
<1>7. \A d \in Clients \ {c} : Owning(cli[d]) => cli[d].build \in Builds \ {b}
  BY <1>2 DEF AwsInv, Fits, Builds
<1> QED BY <1>1, <1>2, <1>3, <1>5, <1>6, <1>7, AwsBecomes

LEMMA AwsImport ==
  ASSUME BuildInv, AwsInv, provider = "aws", NEW c \in Clients, NEW ok \in BOOLEAN, BuildImport(c, ok)
  PROVE  AwsInv'
<1> DEFINE status == BuildDockerLoad(cli[c].build, ok).status
           g == [cli[c] EXCEPT !.step = "saveImport", !.copy.status = status]
<1>1. /\ cli[c] \in Cli /\ Fits(record, remote, cli[c]) /\ UNCHANGED <<provider, record, remote>>
      /\ cli[c].step = "import" /\ cli[c].get = "done" /\ Becomes(c, g)
  BY Client DEF AwsInv, BuildImport, At, jobs
<1>2. cli[c].copy \in Record
  BY <1>1, Client DEF Held, Reading, Cli
<1>3. status \in Ended /\ status \in Statuses
  BY AwsEnded DEF BuildDockerLoad, Statuses
<1> HIDE DEF status
<1>4. /\ g.step = "saveImport" /\ g.get = "done" /\ g.build = cli[c].build
      /\ g.copy \in Record /\ g.copy.status = status /\ g.copy.job = cli[c].copy.job
  BY <1>1, <1>2, <1>3 DEF Cli, Record
<1>5. Owning(cli[c]) /\ ~ cli[c].copy.job
  BY <1>1, <1>2, NoneIsNothing DEF Owning, Fits
<1> HIDE DEF g
<1>6. Fits(record, remote, g)
  BY <1>1, <1>3, <1>4, <1>5, NoneIsNothing DEF Fits
<1> QED BY <1>1, <1>4, <1>5, <1>6, AwsMove

LEMMA AwsSaveImport ==
  ASSUME BuildInv, AwsInv, provider = "aws", NEW c \in Clients, SaveImport(c)
  PROVE  /\ AwsInv'
         /\ record[cli[c].build] \in {None, Created}
         /\ \A d \in Builds \ {cli[c].build} : record'[d] = record[d]
<1> DEFINE b == cli[c].build
           g == [cli[c] EXCEPT !.step = "check", !.get = "load", !.copy = None]
<1>1. /\ cli[c] \in Cli /\ Fits(record, remote, cli[c]) /\ UNCHANGED <<provider, remote>>
      /\ cli[c].step = "saveImport" /\ Becomes(c, g)
      /\ Save(b, cli[c].copy) \/ UNCHANGED record
  BY Client DEF AwsInv, SaveImport, At, ThenGet, jobs
<1>2. Owning(cli[c]) /\ b \in Ids /\ b \in Builds /\ record[b] \in {None, Created}
  BY <1>1 DEF Owning, Fits, Builds
<1>3. cli[c].copy \in Record /\ cli[c].copy.status \in Ended /\ ~ cli[c].copy.job
  BY <1>1, <1>2 DEF Fits, Cli
<1>4. /\ Follows(record, remote, record', remote') /\ RecInv(record', remote')
      /\ \A d \in Builds \ {b} : record'[d] = record[d]
  <2>1. CASE Save(b, cli[c].copy)
    <3>1. ~ Tracked(record, remote, b)
      BY <1>2 DEF Tracked, Created
    <3>2. Follows(record, remote, record', remote') /\ RecInv(record', remote')
      BY <1>1, <1>2, <1>3, <2>1, <3>1, AwsWrite
    <3> QED BY <2>1, <3>2 DEF Save, BuildInv, TableInv, TableTypes
  <2>2. CASE UNCHANGED record
    BY <1>1, <2>2 DEF Follows, AwsInv
  <2> QED BY <1>1, <2>1, <2>2
<1>5. g.step = "check" /\ g.get = "load" /\ g.copy = None
  BY <1>1 DEF Cli
<1> HIDE DEF g
<1>6. Fits(record', remote', g) /\ ~ Owning(g)
  BY <1>5 DEF Fits, Owning
<1>7. \A d \in Clients \ {c} : Owning(cli[d]) => cli[d].build \in Builds \ {b}
  BY <1>2 DEF AwsInv, Fits, Builds
<1> QED BY <1>1, <1>2, <1>4, <1>6, <1>7, AwsBecomes

LEMMA AwsCreate ==
  ASSUME BuildInv, AwsInv, provider = "aws", NEW c \in Clients, NEW b \in Builds, NEW source,
         NEW step, NEW get \in {"load", "done"}, Create(c, b, source, step, get),
         (Fresh(b) /\ step \in {"send", "import"}) \/ (b \in Tags /\ step = "check")
  PROVE  AwsInv' /\ (Fresh(b) \/ b \in Tags) /\ \A d \in Builds \ {b} : record'[d] = record[d]
<1> DEFINE g == [Idle EXCEPT !.step = step, !.get = get, !.build = b, !.source = source]
<1>1. Becomes(c, g) /\ Save(b, Created) /\ UNCHANGED <<provider, remote>>
  BY DEF Create, Begin, Created, jobs
<1>2. ~ Tracked(record, remote, b)
  BY BuildAssumption DEF Fresh, Tracked, AwsInv, RecInv, Created
<1>3. Created \in Record
  BY DEF Created, Record, Statuses
<1>4. Follows(record, remote, record', remote') /\ RecInv(record', remote')
  BY <1>1, <1>2, <1>3, AwsWrite
<1>5. record'[b] = Created /\ \A d \in Builds \ {b} : record'[d] = record[d]
  BY <1>1 DEF Save, BuildInv, TableInv, TableTypes
<1>6. g.step = step /\ g.get = get /\ g.build = b /\ g.copy = None
  BY DEF Idle
<1>7. Owning(g) => Fresh(b)
  BY <1>6 DEF Owning
<1> HIDE DEF g
<1>8. Fits(record', remote', g)
  BY <1>5, <1>6, <1>7 DEF Fits, Fresh, Owning
<1>9. \A d \in Clients : Owning(cli[d]) => cli[d].build \in Builds \ {b}
  BY BuildAssumption DEF AwsInv, Fits, Builds, Fresh
<1> QED BY <1>1, <1>4, <1>5, <1>6, <1>8, <1>9, AwsBecomes

LEMMA AwsTrigger ==
  ASSUME BuildInv, AwsInv, provider = "aws", NEW c \in Clients, NEW b \in Builds, Trigger(c, b)
  PROVE  AwsInv' /\ UNCHANGED record
<1> DEFINE g == [Idle EXCEPT !.step = "saveJob", !.get = "done", !.build = b, !.source = "git"]
<1>1. /\ Becomes(c, g) /\ Fresh(b) /\ UNCHANGED <<provider, record>>
      /\ remote' = [remote EXCEPT ![b] = "IN_PROGRESS"]
  BY DEF Trigger, Begin
<1>2. b \in Ids /\ record[b] = None /\ \A d \in Clients : cli[d].build # b
  BY <1>1 DEF Fresh
<1>3. Follows(record, remote, record', remote') /\ RecInv(record', remote')
  BY <1>1, <1>2, AwsRemote DEF Tracked
<1>4. g.step = "saveJob" /\ g.get = "done" /\ g.build = b /\ g.copy = None
  BY DEF Idle
<1> HIDE DEF g
<1>5. Fits(record', remote', g)
  BY <1>1, <1>2, <1>4 DEF Fits
<1> QED BY <1>1, <1>2, <1>3, <1>4, <1>5, AwsBecomes

LEMMA AwsStart ==
  ASSUME BuildInv, AwsInv, provider = "aws", NEW c \in Clients, NEW b \in Builds, Start(c, b)
  PROVE  AwsInv' /\ (UNCHANGED record \/ ((Fresh(b) \/ b \in Tags) /\ \A d \in Builds \ {b} : record'[d] = record[d]))
<1>1. CASE StartDir(c, b) \/ StartArchive(c, b) \/ StartImage(c, b)
  <2>1. PICK source \in Sources, step \in Steps, get \in {"load", "done"} :
          /\ Create(c, b, source, step, get)
          /\ (Fresh(b) /\ step \in {"send", "import"}) \/ (b \in Tags /\ step = "check")
    BY <1>1 DEF StartDir, StartArchive, StartImage, Sources, Steps
  <2> QED BY <2>1, AwsCreate
<1>2. CASE StartGit(c, b)
  BY <1>2, AwsTrigger DEF StartGit
<1>3. CASE StartExisting(c, b)
  <2>1. PICK step \in {"check", "sync"} : Begin(c, b, "existing", step, "load")
    BY <1>3 DEF StartExisting
  <2> DEFINE g == [Idle EXCEPT !.step = step, !.get = "load", !.build = b, !.source = "existing"]
  <2>2. Becomes(c, g) /\ UNCHANGED <<provider, record, remote>>
    BY <1>3, <2>1 DEF StartExisting, Begin, jobs
  <2>3. g.step = step /\ g.get = "load"
    BY DEF Idle
  <2> HIDE DEF g
  <2>4. Fits(record, remote, g) /\ ~ Owning(g)
    BY <2>3 DEF Fits, Owning
  <2> QED BY <2>2, <2>4, AwsMove
<1> QED BY <1>1, <1>2, <1>3 DEF Start

LEMMA AwsProgress ==
  ASSUME BuildInv, AwsInv, provider = "aws", NEW b \in Builds, Download(b) \/ Progress(b)
  PROVE  AwsInv' /\ UNCHANGED record
<1>1. UNCHANGED <<provider, record, cli>>
  BY DEF Download, Progress
<1>2. \A d \in Builds : remote'[d] = remote[d] \/ remote[d] \in Waiting
  BY DEF Download, Progress, BuildInv, TableInv, TableTypes
<1>3. \A d \in Builds : remote[d] \in Ended => remote'[d] = remote[d]
  BY <1>2, AwsEnded
<1>4. \A d \in Builds : Tracked(record, remote, d) => Tracked(record, remote', d)
  BY <1>3 DEF Tracked
<1>5. Follows(record, remote, record', remote') /\ RecInv(record', remote')
  BY <1>1, <1>3, <1>4 DEF Follows, AwsInv, RecInv, Builds
<1> QED BY <1>1, <1>5, AwsSame

\* A step keeps the invariant, and the ends it finds recorded.
Stays(b) ==
  record[b] # None /\ record[b].status \in Ended =>
    record'[b] # None /\ record'[b].status = record[b].status

EndsKept == \A b \in Ids : Stays(b)

LEMMA AwsNext ==
  ASSUME BuildInv, AwsInv, provider = "aws", [Next]_vars
  PROVE  AwsInv' /\ EndsKept
<1>1. UNCHANGED record => EndsKept
  BY DEF EndsKept, Stays
<1>2. ASSUME NEW d \in Builds, AwsInv', \A b \in Builds \ {d} : record'[b] = record[b],
             d \in Tags \/ Fresh(d) \/ record[d] \in {None, Created}
      PROVE  AwsInv' /\ EndsKept
  <2>1. ASSUME NEW b \in Ids PROVE Stays(b)
    <3>1. CASE b # d
      BY <1>2, <3>1 DEF Stays, Builds
    <3>2. CASE b = d
      BY <1>2, <3>2, BuildAssumption, AwsEnded DEF Stays, Fresh, Created
    <3> QED BY <3>1, <3>2
  <2> QED BY <1>2, <2>1 DEF EndsKept
<1>3. ASSUME NEW c \in Clients, SaveBuild(c) PROVE AwsInv' /\ EndsKept
  <2> DEFINE d == cli[c].build
  <2>1. CASE UNCHANGED record
    BY <1>1, <1>3, <2>1, AwsSaveBuild
  <2>2. CASE /\ d \in Ids /\ record'[d] # None /\ Tracked(record, remote, d)
             /\ record'[d].status = remote[d]
    <3>1. \A b \in Builds \ {d} : record'[b] = record[b]
      BY <1>3 DEF SaveBuild, Save, BuildInv, TableInv, TableTypes
    <3>2. Stays(d)
      BY <2>2, AwsEnded DEF Stays, Tracked
    <3>3. \A b \in Ids \ {d} : Stays(b)
      BY <3>1 DEF Stays, Builds
    <3>4. AwsInv'
      BY <1>3, AwsSaveBuild
    <3> QED BY <3>2, <3>3, <3>4 DEF EndsKept
  <2> QED BY <1>3, <2>1, <2>2, AwsSaveBuild
<1>4. ASSUME NEW c \in Clients, SaveJob(c) \/ SaveImport(c) PROVE AwsInv' /\ EndsKept
  <2> DEFINE d == cli[c].build
  <2>1. /\ AwsInv' /\ record[d] \in {None, Created} /\ \A b \in Builds \ {d} : record'[b] = record[b]
    BY <1>4, AwsSaveJob, AwsSaveImport
  <2>2. d \in Builds
    BY <1>4, Client DEF SaveJob, SaveImport, At, Held
  <2> QED BY <1>2, <2>1, <2>2
<1>5. ASSUME NEW c \in Clients, Step(c) PROVE AwsInv' /\ EndsKept
  <2>1. CASE SaveBuild(c) \/ SaveJob(c) \/ SaveImport(c)
    BY <1>3, <1>4, <2>1
  <2>2. CASE LoadBuild(c) \/ FetchBuild(c) \/ StartJob(c) \/ \E ok \in BOOLEAN : BuildImport(c, ok)
    <3>1. AwsInv'
      BY <2>2, AwsLoad, AwsFetch, AwsStartJob, AwsImport
    <3>2. UNCHANGED record
      BY <2>2 DEF LoadBuild, FetchBuild, StartJob, StartRemoteJob, TagAndPush, BuildImport
    <3> QED BY <1>1, <3>1, <3>2
  <2>3. CASE Send(c) \/ Upload(c) \/ Sync(c) \/ Poll(c) \/ Check(c) \/ Release(c)
    <3>1. AwsInv'
      BY <2>3, AwsWait
    <3>2. UNCHANGED record
      BY <2>3 DEF Send, Upload, Sync, Poll, Check, Release
    <3> QED BY <1>1, <3>1, <3>2
  <2> QED BY <1>5, <2>1, <2>2, <2>3 DEF Step
<1>6. ASSUME NEW c \in Clients, Fail(c) PROVE AwsInv' /\ EndsKept
  <2>1. AwsInv' /\ UNCHANGED record
    BY <1>6, AwsWait DEF Fail
  <2> QED BY <1>1, <2>1
<1>7. ASSUME NEW c \in Clients, NEW b \in Builds, Start(c, b) PROVE AwsInv' /\ EndsKept
  BY <1>1, <1>2, <1>7, AwsStart
<1>8. ASSUME NEW c \in Clients, NEW b \in Builds, Delete(c, b) PROVE FALSE
  BY <1>8 DEF Delete, Deletes
<1>9. ASSUME NEW b \in Builds, Download(b) \/ Progress(b) PROVE AwsInv' /\ EndsKept
  BY <1>1, <1>9, AwsProgress
<1>10. CASE UNCHANGED vars
  <2>1. UNCHANGED <<provider, cli, record, remote>> /\ Follows(record, remote, record', remote')
        /\ RecInv(record', remote')
    BY <1>10 DEF vars, Follows, AwsInv
  <2> QED BY <1>1, <2>1, AwsSame
<1>11. CASE Next
  BY <1>5, <1>6, <1>7, <1>8, <1>9, <1>11 DEF Next
<1> QED BY <1>10, <1>11

AwsIndInv == provider = "aws" => AwsInv

LEMMA AwsInit == Init => AwsIndInv
<1> SUFFICES ASSUME Init, provider = "aws" PROVE AwsInv
  BY DEF AwsIndInv
<1>1. RecInv(record, remote)
  BY DEF Init, RecInv, Builds
<1>2. \A c \in Clients : Fits(record, remote, cli[c]) /\ ~ Owning(cli[c])
  BY DEF Init, Idle, Fits, Owning
<1> QED BY <1>1, <1>2 DEF AwsInv

LEMMA AwsStep == IndInv /\ AwsIndInv /\ [Next]_vars => AwsIndInv'
<1> SUFFICES ASSUME BuildInv, AwsIndInv, [Next]_vars, provider' = "aws" PROVE AwsInv'
  BY DEF IndInv, AwsIndInv
<1>1. provider = "aws"
  BY ProviderStays
<1> QED BY <1>1, AwsNext DEF AwsIndInv

LEMMA AwsInvariant == Spec => []AwsIndInv
  BY AwsInit, AwsStep, Invariant, PTL DEF Spec

\* With CodeBuild, a recorded end is never taken back, however BuildGets of the
\* build, the command that makes it and the builds of others overlap.
THEOREM AwsEndedStays == Spec => EndedStays
<1>1. IndInv /\ AwsIndInv /\ [Next]_vars =>
        [\A b \in Ids :
           provider = "aws" /\ record[b] # None /\ record[b].status \in Ended =>
             record'[b] # None /\ record'[b].status = record[b].status]_vars
  <2> SUFFICES ASSUME BuildInv, AwsIndInv, [Next]_vars, NEW b \in Ids, provider = "aws"
               PROVE  Stays(b)
    BY DEF IndInv, Stays
  <2> QED BY AwsNext DEF AwsIndInv, EndsKept
<1> QED BY <1>1, AwsInvariant, Invariant, PTL DEF Spec, EndedStays

------------------------------------------------------------------------------
(* A command that makes a build has it to itself, and knows its job: the    *)
(* second half of the invariant.  Whoever sends a source finds no job and   *)
(* no image of its build, so every source that is taken for the build has   *)
(* arrived with it or later; and whoever has waited for the build knows an  *)
(* end which the job has had.                                               *)

\* Sources whose build nobody else makes.
Made == {"dir", "git", "archive"}

FromSource(r) == r.source \in {"dir", "git"}

\* The steps a command takes for its source.
Course(r) ==
  /\ r.source \in Made => r.build \in Ids
  /\ r.step \in {"send", "upload", "start"} => r.source = "dir"
  /\ r.step \in {"import", "saveImport"} => r.source = "archive"
  /\ r.step = "saveJob" => FromSource(r)

\* Two commands do not make the same build.
Apart(r, s) == r.source \in Made /\ s.source \in Made => r.build # s.build

\* Where r says that build b has ended, its job has.
True(rem, b, r) == r # None /\ r.status \in Ended => rem[b] \in Ended

\* The steps after the job was started.
Asked == {"sync", "poll", "check", "release"}

\* With CodeBuild, a record that says CREATED no more.
Live(r) == r # None /\ r.status \in {"IN_PROGRESS"} \cup Ended

\* What the tables say of the build a command makes from source.
Mine(rec, rem, img, r) ==
  LET b == r.build IN
  FromSource(r) =>
    /\ r.step \in {"send", "upload"} => img[b] = None
    /\ r.step \in {"send", "upload", "start"} => rem[b] = None
    /\ r.step = "saveJob" => provider # "local"
    /\ provider = "gcp" /\ r.source = "git" => r.step = "sync" /\ rem[b] = None
    /\ True(rem, b, rec[b])
    /\ provider = "aws" /\ r.step \in Asked => Live(rec[b])
    /\ provider = "aws" /\ r.step = "poll" /\ r.copy # None => Live(r.copy)
    /\ provider # "local" /\ r.step \in {"check", "release"} => rem[b] \in Ended
    /\ provider = "local" /\ r.source = "dir" /\ r.step \in Asked => img[b] # None

\* What s has read of a build that r makes from source.
Told(rem, r, s) == FromSource(r) /\ r.build = s.build => True(rem, s.build, s.copy)

\* A job takes a source after it was started.
JobFirst == \A b \in Builds : remote[b] = None => input[b] = None

MakeInv ==
  /\ JobFirst
  /\ \A c \in Clients : Course(cli[c]) /\ Mine(record, remote, image, cli[c])
  /\ \A c, d \in Clients : Told(remote, cli[c], cli[d]) /\ (c # d => Apart(cli[c], cli[d]))

\* What a step may do to a build that somebody else makes.
Calm(rec, rem, img, rec2, rem2, img2, b) ==
  /\ rem[b] = None => rem2[b] = None /\ (img[b] = None => img2[b] = None)
  /\ rem[b] \in Ended => rem2[b] \in Ended
  /\ img[b] # None => img2[b] # None
  /\ True(rem, b, rec[b]) => True(rem2, b, rec2[b])
  /\ provider = "aws" /\ Live(rec[b]) => Live(rec2[b])

CalmFor(b) == Calm(record, remote, image, record', remote', image', b)

LEMMA MineKept ==
  ASSUME NEW r, NEW rec, NEW rem, NEW img, NEW rec2, NEW rem2, NEW img2, Mine(rec, rem, img, r),
         FromSource(r) => Calm(rec, rem, img, rec2, rem2, img2, r.build)
  PROVE  Mine(rec2, rem2, img2, r)
  BY DEF Mine, Calm

LEMMA ToldKept ==
  ASSUME NEW r, NEW s, NEW rem, NEW rem2, Told(rem, r, s),
         FromSource(r) => (rem[r.build] \in Ended => rem2[r.build] \in Ended)
  PROVE  Told(rem2, r, s)
  BY DEF Told, True

\* Command line c comes to hold r.
LEMMA MakeBecomes ==
  ASSUME BuildInv, MakeInv, UNCHANGED provider, JobFirst', NEW c \in Clients, NEW r, Becomes(c, r),
         Course(r), Mine(record', remote', image', r), Told(remote', r, r),
         \A d \in Clients \ {c} :
            /\ Apart(r, cli[d]) /\ (FromSource(cli[d]) => CalmFor(cli[d].build))
            /\ Told(remote', r, cli[d]) /\ Told(remote', cli[d], r)
  PROVE  MakeInv'
<1>1. cli'[c] = r /\ \A d \in Clients \ {c} : cli'[d] = cli[d]
  BY DEF Becomes, BuildInv, CliInv
<1>2. ASSUME NEW d \in Clients PROVE Course(cli'[d]) /\ Mine(record', remote', image', cli'[d])
  <2>1. CASE d = c
    BY <1>1, <2>1
  <2>2. CASE d # c
    <3>1. Course(cli[d]) /\ Mine(record, remote, image, cli[d]) /\ cli'[d] = cli[d]
      BY <1>1, <2>2 DEF MakeInv
    <3>2. FromSource(cli[d]) => Calm(record, remote, image, record', remote', image', cli[d].build)
      BY <2>2 DEF CalmFor
    <3> QED BY <3>1, <3>2, MineKept
  <2> QED BY <2>1, <2>2
<1>3. ASSUME NEW d \in Clients, NEW e \in Clients
      PROVE  Told(remote', cli'[d], cli'[e]) /\ (d # e => Apart(cli'[d], cli'[e]))
  <2>1. CASE d = c \/ e = c
    <3>1. \A x \in Clients : Apart(r, cli[x]) <=> Apart(cli[x], r)
      BY DEF Apart
    <3> QED BY <1>1, <2>1, <3>1
  <2>2. CASE d # c /\ e # c
    <3>1. /\ Told(remote, cli[d], cli[e]) /\ (d # e => Apart(cli[d], cli[e]))
          /\ cli'[d] = cli[d] /\ cli'[e] = cli[e]
      BY <1>1, <2>2 DEF MakeInv
    <3>2. FromSource(cli[d]) => (remote[cli[d].build] \in Ended => remote'[cli[d].build] \in Ended)
      BY <2>2 DEF CalmFor, Calm
    <3> QED BY <3>1, <3>2, ToldKept
  <2> QED BY <2>1, <2>2
<1>4. Ended' = Ended
  BY DEF Ended, Good, Bad
<1>5. \A d \in Clients : Course(cli[d])' /\ Mine(record, remote, image, cli[d])'
  BY <1>2, <1>4 DEF Course, FromSource, Made, Mine, True, Live, Asked
<1>6. \A d, e \in Clients : Told(remote, cli[d], cli[e])' /\ (d # e => Apart(cli[d], cli[e])')
  BY <1>3, <1>4 DEF Told, True, FromSource, Apart, Made
<1> QED BY <1>5, <1>6 DEF MakeInv

LEMMA CalmSame ==
  ASSUME UNCHANGED <<record, remote, image>>, NEW b
  PROVE  CalmFor(b)
  BY DEF CalmFor, Calm

\* Command line c goes on with its build, or ends, and nothing else happens.
LEMMA MakeMove ==
  ASSUME BuildInv, MakeInv, UNCHANGED <<provider, record, jobs, image>>, NEW c \in Clients, NEW r,
         Becomes(c, r), r = Idle \/ (r.source = cli[c].source /\ r.build = cli[c].build),
         Course(r), Mine(record, remote, image, r),
         \A d \in Clients : Told(remote, cli[d], r)
  PROVE  MakeInv'
<1>1. JobFirst' /\ remote' = remote
  BY DEF MakeInv, JobFirst, jobs
<1>2. CASE r = Idle
  <2>1. ~ FromSource(r) /\ \A d \in Clients : Apart(r, cli[d])
    BY <1>2, NoneIsNothing DEF Idle, FromSource, Apart, Made, Sources
  <2>2. \A d \in Clients : Told(remote, r, cli[d]) /\ Told(remote, r, r)
    BY <2>1 DEF Told
  <2> QED BY <1>1, <2>1, <2>2, MakeBecomes, CalmSame
<1>3. CASE r.source = cli[c].source /\ r.build = cli[c].build
  <2>1. \A d \in Clients \ {c} : Apart(r, cli[d]) /\ Told(remote, r, cli[d])
    BY <1>3 DEF MakeInv, Apart, Told, FromSource
  <2>2. Told(remote, r, r)
    BY <1>3 DEF Told, FromSource
  <2> QED BY <1>1, <2>1, <2>2, MakeBecomes, CalmSame
<1> QED BY <1>2, <1>3

\* It keeps what it has read, or forgets it.
LEMMA MakeKeep ==
  ASSUME BuildInv, MakeInv, UNCHANGED <<provider, record, jobs, image>>, NEW c \in Clients, NEW r,
         Becomes(c, r), r = Idle \/ (r.source = cli[c].source /\ r.build = cli[c].build),
         r.copy \in {None, cli[c].copy}, Course(r), Mine(record, remote, image, r)
  PROVE  MakeInv'
<1>1. ASSUME NEW d \in Clients PROVE Told(remote, cli[d], r)
  BY DEF MakeInv, Told, True, Idle
<1> QED BY <1>1, MakeMove

LEMMA IdleMine == Idle.copy = None /\ Course(Idle) /\ Mine(record, remote, image, Idle)
  BY NoneIsNothing DEF Idle, Course, Mine, FromSource, Made, Sources

LEMMA Maker ==
  ASSUME MakeInv, NEW c \in Clients
  PROVE  /\ Course(cli[c]) /\ Mine(record, remote, image, cli[c])
         /\ \A d \in Clients : /\ Told(remote, cli[c], cli[d]) /\ Told(remote, cli[d], cli[c])
                               /\ (c # d => Apart(cli[c], cli[d]))
  BY DEF MakeInv

\* A step that a BuildGet precedes.
LEMMA MakeGet ==
  ASSUME BuildInv, MakeInv, NEW c \in Clients, NEW step \in {"upload", "poll", "check"},
         ThenGet(c, step), UNCHANGED <<provider, record, jobs, image>>,
         step = "upload" => cli[c].step = "send",
         step = "poll" => cli[c].step \in {"sync", "poll"},
         step = "check" /\ FromSource(cli[c]) =>
            /\ cli[c].step = "poll" /\ (provider # "local" => remote[cli[c].build] \in Ended)
            /\ provider # "gcp" \/ cli[c].source # "git",
         step = "poll" /\ FromSource(cli[c]) => provider # "gcp" \/ cli[c].source # "git"
  PROVE  MakeInv'
<1> DEFINE g == [cli[c] EXCEPT !.step = step, !.get = "load", !.copy = None]
<1>1. cli[c] \in Cli /\ Course(cli[c]) /\ Mine(record, remote, image, cli[c]) /\ Becomes(c, g)
  BY Client, Maker DEF ThenGet
<1>2. /\ g.step = step /\ g.build = cli[c].build /\ g.source = cli[c].source /\ g.copy = None
  BY <1>1 DEF Cli
<1> HIDE DEF g
<1>3. Course(g)
  BY <1>1, <1>2 DEF Course, FromSource
<1>4. Mine(record, remote, image, g)
  BY <1>1, <1>2 DEF Mine, FromSource, Asked
<1> QED BY <1>1, <1>2, <1>3, <1>4, MakeKeep

LEMMA MakeExit ==
  ASSUME BuildInv, MakeInv, NEW c \in Clients, Exit(c), UNCHANGED <<provider, record, jobs, image>>
  PROVE  MakeInv'
  BY IdleMine, MakeKeep DEF Exit

\* With Cloud Build a command that gave a git reference has no job to wait for.
LEMMA MakeSync == ASSUME BuildInv, MakeInv, NEW c \in Clients, Sync(c) PROVE MakeInv'
<1>1. /\ cli[c] \in Cli /\ Held(remote, image, uploads, cli[c]) /\ Mine(record, remote, image, cli[c])
      /\ cli[c].step = "sync" /\ cli[c].get = "done" /\ UNCHANGED <<provider, record, jobs, image>>
  BY Client, Maker DEF Sync, At
<1>2. CASE Exit(c)
  BY <1>1, <1>2, MakeExit
<1>3. CASE ThenGet(c, "poll") /\ ~ (provider = "gcp" /\ ~ cli[c].copy.job)
  <2>1. FromSource(cli[c]) => provider # "gcp" \/ cli[c].source # "git"
    BY <1>1, <1>3 DEF Held, Backed, Reading, Mine
  <2> QED BY <1>1, <1>3, <2>1, MakeGet
<1> QED BY <1>2, <1>3 DEF Sync, Round

LEMMA MakePoll == ASSUME BuildInv, MakeInv, NEW c \in Clients, Poll(c) PROVE MakeInv'
<1>1. /\ cli[c] \in Cli /\ Held(remote, image, uploads, cli[c]) /\ Mine(record, remote, image, cli[c])
      /\ cli[c].step = "poll" /\ cli[c].get = "done" /\ UNCHANGED <<provider, record, jobs, image>>
      /\ Told(remote, cli[c], cli[c])
  BY Client, Maker DEF Poll, At
<1>2. CASE Exit(c)
  BY <1>1, <1>2, MakeExit
<1>3. FromSource(cli[c]) => provider # "gcp" \/ cli[c].source # "git"
  BY <1>1 DEF Mine
<1>4. CASE ThenGet(c, "poll")
  BY <1>1, <1>3, <1>4, MakeGet
<1>5. CASE /\ ThenGet(c, "check") /\ ~ Pending(cli[c].copy.status)
           /\ ~ (provider = "gcp" /\ cli[c].copy.status # Good)
  <2>1. cli[c].copy # None /\ provider \in {"aws", "gcp", "local"}
    BY <1>1 DEF Held, Reading, BuildInv, TableInv, TableTypes
  <2>2. ASSUME FromSource(cli[c]), provider # "local" PROVE cli[c].copy.status \in Ended
    <3>1. CASE provider = "gcp"
      BY <1>5, <3>1 DEF Ended
    <3>2. CASE provider = "aws"
      BY <1>1, <1>5, <2>1, <2>2, <3>2 DEF Mine, Live, Pending
    <3> QED BY <2>1, <2>2, <3>1, <3>2
  <2>3. FromSource(cli[c]) /\ provider # "local" => remote[cli[c].build] \in Ended
    BY <1>1, <2>1, <2>2 DEF Told, True
  <2> QED BY <1>1, <1>3, <1>5, <2>3, MakeGet
<1> QED BY <1>2, <1>4, <1>5 DEF Poll, Round

LEMMA MakeWait ==
  ASSUME BuildInv, MakeInv, NEW c \in Clients, Send(c) \/ Check(c) \/ Release(c) \/ Fail(c)
  PROVE  MakeInv'
<1>1. cli[c] \in Cli /\ Course(cli[c]) /\ Mine(record, remote, image, cli[c])
      /\ UNCHANGED <<provider, record, jobs, image>>
  BY Client, Maker DEF Send, Check, Release, Fail
<1>2. CASE Exit(c)
  BY <1>1, <1>2, MakeExit
<1>3. CASE Send(c)
  BY <1>1, <1>3, MakeGet DEF Send, At
<1>4. CASE At(c, "check") /\ Then(c, "release")
  <2> DEFINE g == [cli[c] EXCEPT !.step = "release"]
  <2>1. /\ Becomes(c, g) /\ g.step = "release" /\ g.build = cli[c].build /\ g.source = cli[c].source
        /\ g.copy = cli[c].copy /\ cli[c].step = "check"
    BY <1>1, <1>4 DEF Then, At, Cli
  <2> HIDE DEF g
  <2>2. Course(g) /\ Mine(record, remote, image, g)
    BY <1>1, <2>1 DEF Course, Mine, FromSource, Asked
  <2> QED BY <1>1, <2>1, <2>2, MakeKeep
<1>5. CASE cli[c].step \in {"import", "saveImport"} /\ Becomes(c, [cli[c] EXCEPT !.step = "check", !.get = "load"])
  <2> DEFINE g == [cli[c] EXCEPT !.step = "check", !.get = "load"]
  <2>1. /\ Becomes(c, g) /\ g.step = "check" /\ g.build = cli[c].build /\ g.source = cli[c].source
        /\ g.copy = cli[c].copy
    BY <1>1, <1>5 DEF Cli
  <2> HIDE DEF g
  <2>2. g.source = "archive"
    BY <1>1, <1>5, <2>1 DEF Course
  <2>3. Course(g) /\ Mine(record, remote, image, g)
    BY <1>1, <2>1, <2>2 DEF Course, Mine, FromSource
  <2> QED BY <1>1, <2>1, <2>3, MakeKeep
<1> QED BY <1>2, <1>3, <1>4, <1>5 DEF Check, Release, Fail

LEMMA MakeLoad == ASSUME BuildInv, MakeInv, NEW c \in Clients, LoadBuild(c) PROVE MakeInv'
<1> DEFINE b == cli[c].build
           get == IF Refreshes(record[b]) THEN "fetch" ELSE "done"
           g == [cli[c] EXCEPT !.copy = record[b], !.get = get]
<1>1. /\ cli[c] \in Cli /\ Course(cli[c]) /\ Mine(record, remote, image, cli[c])
      /\ UNCHANGED <<provider, record, jobs, image>>
  BY Client, Maker DEF LoadBuild
<1>2. CASE record[b] = None
  BY <1>1, <1>2, MakeExit DEF LoadBuild
<1>3. CASE record[b] # None
  <2>1. /\ Becomes(c, g) /\ g.step = cli[c].step /\ g.build = b /\ g.source = cli[c].source
        /\ g.copy = record[b]
    BY <1>1, <1>3 DEF LoadBuild, Cli
  <2> HIDE DEF g
  <2>2. Course(g) /\ Mine(record, remote, image, g)
    BY <1>1, <2>1 DEF Course, Mine, FromSource, Asked
  <2>3. ASSUME NEW d \in Clients PROVE Told(remote, cli[d], g)
    BY <2>1, Maker DEF Told, Mine
  <2> QED BY <1>1, <2>1, <2>2, <2>3, MakeMove
<1> QED BY <1>2, <1>3

LEMMA MakeFetch ==
  ASSUME BuildInv, MakeInv, AwsIndInv, NEW c \in Clients, FetchBuild(c)
  PROVE  MakeInv'
<1> DEFINE b == cli[c].build
           old == cli[c].copy
           fetched == Status(b, old)
           get == IF Differs(old.status, fetched) THEN "save" ELSE "done"
           g == [cli[c] EXCEPT !.copy.status = fetched, !.get = get]
<1>1. /\ cli[c] \in Cli /\ Held(remote, image, uploads, cli[c]) /\ Course(cli[c])
      /\ Mine(record, remote, image, cli[c]) /\ UNCHANGED <<provider, record, jobs, image>>
      /\ cli[c].get = "fetch" /\ Becomes(c, g)
  BY Client, Maker DEF FetchBuild
<1>2. b \in Builds /\ old \in Record /\ Backed(remote, image, b, old) /\ "" \notin Ended
  BY <1>1 DEF Held, Reading, Cli, Ended, Good, Bad
<1>3. fetched \in Ended => remote[b] \in Ended
  BY <1>2 DEF Status
<1>4. provider = "aws" => fetched \in {"IN_PROGRESS"} \cup Ended
  <2> SUFFICES ASSUME provider = "aws" PROVE fetched \in {"IN_PROGRESS"} \cup Ended
    OBVIOUS
  <2>1. Fits(record, remote, cli[c]) /\ remote[b] \in Waiting \cup Ended \cup {None}
    BY <1>2 DEF AwsIndInv, AwsInv, BuildInv, TableInv, TableTypes
  <2>2. old.job /\ remote[b] # None
    BY <1>1, <1>2, <2>1 DEF Fits, Backed
  <2> QED BY <2>1, <2>2, AwsEnded DEF Status
<1> HIDE DEF fetched, get
<1>5. /\ g.step = cli[c].step /\ g.build = b /\ g.source = cli[c].source
      /\ g.copy.status = fetched
  BY <1>1, <1>2 DEF Cli, Record
<1>6. provider = "aws" => g.copy # None
  <2> SUFFICES ASSUME provider = "aws" PROVE g.copy \in Record
    BY NoneIsNothing
  <2>1. g.copy = [old EXCEPT !.status = fetched]
    BY <1>1, <1>2 DEF Cli, Record
  <2>2. fetched \in Statuses
    BY <1>4, AwsEnded DEF Statuses
  <2> HIDE DEF g
  <2> QED BY <1>2, <2>1, <2>2 DEF Record
<1> HIDE DEF g
<1>7. Course(g) /\ Mine(record, remote, image, g)
  BY <1>1, <1>4, <1>5, <1>6 DEF Course, Mine, FromSource, Asked, Live
<1>8. ASSUME NEW d \in Clients PROVE Told(remote, cli[d], g)
  BY <1>3, <1>5 DEF Told, True
<1> QED BY <1>1, <1>5, <1>7, <1>8, MakeMove

\* Command line c writes the record of its build, and goes on as r.
LEMMA MakeWrite ==
  ASSUME BuildInv, MakeInv, NEW c \in Clients, NEW r, NEW x, Becomes(c, r), Save(cli[c].build, x),
         UNCHANGED <<provider, jobs, image>>, cli[c].build \in Builds,
         r.source = cli[c].source, r.build = cli[c].build, r.copy \in {None, cli[c].copy},
         Course(r), Mine(record', remote, image, r),
         \A d \in Clients \ {c} : FromSource(cli[d]) /\ cli[d].build = cli[c].build =>
            True(remote, cli[c].build, x) /\ (provider = "aws" => Live(x))
  PROVE  MakeInv'
<1>1. /\ record'[cli[c].build] = x /\ \A d \in Builds \ {cli[c].build} : record'[d] = record[d]
      /\ remote' = remote /\ image' = image
  BY DEF Save, BuildInv, TableInv, TableTypes, jobs
<1>2. JobFirst'
  BY DEF MakeInv, JobFirst, jobs
<1>3. ASSUME NEW d \in Clients, FromSource(cli[d]), d # c PROVE CalmFor(cli[d].build)
  <2>1. cli[d].build \in Builds
    BY <1>3, Maker DEF FromSource, Course, Made, Builds
  <2> QED BY <1>1, <1>3, <2>1 DEF CalmFor, Calm
<1>4. ASSUME NEW d \in Clients
      PROVE  Told(remote, cli[d], r) /\ Told(remote, r, cli[d]) /\ (d # c => Apart(r, cli[d]))
  BY Maker DEF Told, True, FromSource, Apart
<1>5. Told(remote, r, r)
  BY <1>4 DEF Told, FromSource
<1> QED BY <1>1, <1>2, <1>3, <1>4, <1>5, MakeBecomes

LEMMA MakeSaveBuild ==
  ASSUME BuildInv, MakeInv, AwsIndInv, NEW c \in Clients, SaveBuild(c)
  PROVE  MakeInv'
<1> DEFINE b == cli[c].build
           g == [cli[c] EXCEPT !.get = "done"]
<1>1. /\ cli[c] \in Cli /\ Held(remote, image, uploads, cli[c]) /\ Course(cli[c])
      /\ Mine(record, remote, image, cli[c]) /\ UNCHANGED <<provider, jobs, image>>
      /\ cli[c].get = "save" /\ Becomes(c, g) /\ (Save(b, cli[c].copy) \/ UNCHANGED record)
  BY Client, Maker DEF SaveBuild
<1>2. b \in Builds /\ cli[c].copy # None
  BY <1>1 DEF Held, Reading
<1>3. provider = "aws" => Live(cli[c].copy)
  BY <1>1, <1>2 DEF AwsIndInv, AwsInv, Fits, Live
<1>4. \A d \in Clients : FromSource(cli[d]) /\ cli[d].build = b => True(remote, b, cli[c].copy)
  BY Maker DEF Told
<1>5. g.step = cli[c].step /\ g.build = b /\ g.source = cli[c].source /\ g.copy = cli[c].copy
  BY <1>1 DEF Cli
<1> HIDE DEF g
<1>6. CASE Save(b, cli[c].copy)
  <2>1. record'[b] = cli[c].copy
    BY <1>2, <1>6 DEF Save, BuildInv, TableInv, TableTypes
  <2>2. Course(g) /\ Mine(record', remote, image, g)
    BY <1>1, <1>3, <1>4, <1>5, <2>1 DEF Course, Mine, FromSource
  <2> QED BY <1>1, <1>2, <1>3, <1>4, <1>5, <1>6, <2>2, MakeWrite
<1>7. CASE UNCHANGED record
  <2>1. Course(g) /\ Mine(record, remote, image, g)
    BY <1>1, <1>3, <1>5 DEF Course, Mine, FromSource
  <2>2. \A d \in Clients : Told(remote, cli[d], g)
    BY <1>4, <1>5 DEF Told
  <2> QED BY <1>1, <1>5, <1>7, <2>1, <2>2, MakeMove
<1> QED BY <1>1, <1>6, <1>7

LEMMA MakeSaveJob == ASSUME BuildInv, MakeInv, NEW c \in Clients, SaveJob(c) PROVE MakeInv'
<1> DEFINE b == cli[c].build
           status == IF provider = "aws" THEN "IN_PROGRESS" ELSE cli[c].copy.status
           x == [status |-> status, job |-> TRUE]
           g == [cli[c] EXCEPT !.step = "sync", !.get = "load", !.copy = None]
<1>1. /\ cli[c] \in Cli /\ Held(remote, image, uploads, cli[c]) /\ Course(cli[c])
      /\ Mine(record, remote, image, cli[c]) /\ UNCHANGED <<provider, jobs, image>>
      /\ Told(remote, cli[c], cli[c])
      /\ cli[c].step = "saveJob" /\ cli[c].get = "done" /\ Save(b, x) /\ Becomes(c, g)
  BY Client, Maker DEF SaveJob, At, ThenGet
<1>2. b \in Builds /\ FromSource(cli[c]) /\ provider \in {"aws", "gcp"}
  BY <1>1 DEF Held, Course, Mine, BuildInv, TableInv, TableTypes
<1>3. True(remote, b, x)
  <2>1. CASE provider = "aws"
    BY <2>1, AwsEnded DEF True
  <2>2. CASE provider = "gcp"
    BY <1>1, <1>2, <2>2 DEF Held, Reading, Told, True
  <2> QED BY <1>2, <2>1, <2>2
<1>4. provider = "aws" => Live(x)
  <2> SUFFICES ASSUME provider = "aws" PROVE Live(x)
    OBVIOUS
  <2>1. x = [status |-> "IN_PROGRESS", job |-> TRUE]
    OBVIOUS
  <2>2. x \in Record
    BY <2>1 DEF Record, Statuses
  <2> QED BY <2>1, <2>2, NoneIsNothing DEF Live
<1>5. g.step = "sync" /\ g.build = b /\ g.source = cli[c].source /\ g.copy = None
  BY <1>1 DEF Cli
<1>6. record'[b] = x
  BY <1>1, <1>2 DEF Save, BuildInv, TableInv, TableTypes
<1>7. \A d \in Clients \ {c} : ~ (FromSource(cli[d]) /\ cli[d].build = b)
  BY <1>2, Maker DEF Apart, FromSource, Made
<1> HIDE DEF g, x
<1>8. Course(g)
  BY <1>1, <1>5 DEF Course, FromSource
<1>9. Mine(record', remote, image, g)
  BY <1>1, <1>2, <1>3, <1>4, <1>5, <1>6 DEF Mine, FromSource
<1> QED BY <1>1, <1>2, <1>5, <1>7, <1>8, <1>9, MakeWrite

\* An import concerns no build from source.
LEMMA MakeSaveImport == ASSUME BuildInv, MakeInv, NEW c \in Clients, SaveImport(c) PROVE MakeInv'
<1> DEFINE b == cli[c].build
           g == [cli[c] EXCEPT !.step = "check", !.get = "load", !.copy = None]
<1>1. /\ cli[c] \in Cli /\ Held(remote, image, uploads, cli[c]) /\ Course(cli[c])
      /\ UNCHANGED <<provider, jobs, image>> /\ cli[c].step = "saveImport"
      /\ Save(b, cli[c].copy) \/ UNCHANGED record
      /\ Becomes(c, g)
  BY Client, Maker DEF SaveImport, At, ThenGet
<1>2. g.step = "check" /\ g.build = b /\ g.source = "archive" /\ g.source = cli[c].source /\ g.copy = None
      /\ b \in Builds
  BY <1>1 DEF Cli, Course, Held
<1>3. \A d \in Clients : ~ (FromSource(cli[d]) /\ cli[d].build = b)
  BY <1>2, Maker DEF Apart, FromSource, Made
<1> HIDE DEF g
<1>4. Course(g) /\ Mine(record', remote, image, g) /\ Mine(record, remote, image, g)
  BY <1>1, <1>2 DEF Course, Mine, FromSource
<1>5. CASE Save(b, cli[c].copy)
  BY <1>1, <1>2, <1>3, <1>4, <1>5, MakeWrite
<1>6. CASE UNCHANGED record
  BY <1>1, <1>2, <1>4, <1>6, MakeKeep
<1> QED BY <1>1, <1>5, <1>6

LEMMA MakeUpload == ASSUME BuildInv, MakeInv, NEW c \in Clients, Upload(c) PROVE MakeInv'
<1> DEFINE g == [cli[c] EXCEPT !.step = "start"]
<1>1. /\ cli[c] \in Cli /\ Course(cli[c]) /\ Mine(record, remote, image, cli[c]) /\ cli[c].step = "upload"
      /\ UNCHANGED <<provider, record, jobs, image>> /\ Becomes(c, g)
  BY Client, Maker DEF Upload, At, Then
<1>2. g.step = "start" /\ g.build = cli[c].build /\ g.source = cli[c].source /\ g.copy = cli[c].copy
  BY <1>1 DEF Cli
<1> HIDE DEF g
<1>3. Course(g) /\ Mine(record, remote, image, g)
  BY <1>1, <1>2 DEF Course, Mine, FromSource, Asked
<1> QED BY <1>1, <1>2, <1>3, MakeKeep

LEMMA MakeStartJob == ASSUME BuildInv, MakeInv, NEW c \in Clients, StartRemoteJob(c) PROVE MakeInv'
<1> DEFINE b == cli[c].build
           g == [cli[c] EXCEPT !.step = "saveJob"]
<1>1. /\ cli[c] \in Cli /\ Held(remote, image, uploads, cli[c]) /\ Course(cli[c])
      /\ Mine(record, remote, image, cli[c]) /\ cli[c].step = "start" /\ provider # "local"
      /\ remote' = [remote EXCEPT ![b] = StartedStatus] /\ Becomes(c, g)
      /\ UNCHANGED <<provider, record, input, image>>
  BY Client, Maker DEF StartRemoteJob, At, Then
<1>2. b \in Builds /\ cli[c].source = "dir" /\ remote[b] = None /\ None \notin Ended /\ StartedStatus # None
  BY <1>1, StatusTypes DEF Held, Course, Mine, FromSource, BuildInv, TableInv, TableTypes
<1>3. remote'[b] = StartedStatus /\ \A d \in Builds \ {b} : remote'[d] = remote[d]
  BY <1>1, <1>2 DEF BuildInv, TableInv, TableTypes
<1>4. JobFirst'
  BY <1>1, <1>2, <1>3 DEF MakeInv, JobFirst
<1>5. g.step = "saveJob" /\ g.build = b /\ g.source = "dir" /\ g.copy = cli[c].copy
  BY <1>1, <1>2 DEF Cli
<1> HIDE DEF g
<1>6. Course(g)
  BY <1>1, <1>2, <1>5 DEF Course, FromSource, Made
<1>7. Mine(record', remote', image', g)
  BY <1>1, <1>2, <1>5 DEF Mine, FromSource, True, Asked
\* Nobody has read of an end of the build yet.
<1>8. ASSUME NEW d \in Clients PROVE Told(remote', g, cli[d])
  <2>1. Told(remote, cli[c], cli[d])
    BY Maker
  <2> QED BY <1>2, <1>5, <2>1 DEF Told, True, FromSource
<1>9. Told(remote', g, g)
  BY <1>5, <1>8 DEF Told
<1>10. ASSUME NEW d \in Clients \ {c}, FromSource(cli[d])
       PROVE  cli[d].build # b /\ CalmFor(cli[d].build) /\ Told(remote', cli[d], g)
  <2>1. cli[d].build # b /\ cli[d].build \in Builds
    BY <1>2, <1>10, Maker DEF Apart, FromSource, Made, Course, Builds
  <2>2. CalmFor(cli[d].build)
    BY <1>1, <1>3, <2>1 DEF CalmFor, Calm, True
  <2>3. Told(remote', cli[d], g)
    BY <1>5, <2>1 DEF Told
  <2> QED BY <2>1, <2>2, <2>3
<1>11. \A d \in Clients \ {c} : Apart(g, cli[d])
  BY <1>2, <1>5, Maker DEF Apart, Made
<1>12. \A d \in Clients \ {c} : Told(remote', cli[d], g)
  BY <1>10 DEF Told
<1>13. \A d \in Clients \ {c} : FromSource(cli[d]) => CalmFor(cli[d].build)
  BY <1>10
<1> QED BY <1>1, <1>4, <1>6, <1>7, <1>8, <1>9, <1>11, <1>12, <1>13, MakeBecomes

\* An image is pushed for the build of command line c, which goes on as r.
LEMMA MakePush ==
  ASSUME BuildInv, MakeInv, NEW c \in Clients, NEW r, NEW x \in Builds, Becomes(c, r),
         image' = [image EXCEPT ![cli[c].build] = x], UNCHANGED <<provider, record, jobs>>,
         cli[c].source \in Made, r.source = cli[c].source, r.build = cli[c].build,
         Course(r), Mine(record, remote, image', r), FromSource(r) => r.copy \in {None, cli[c].copy}
  PROVE  MakeInv'
<1>1. /\ remote' = remote /\ JobFirst' /\ x # None
      /\ \A d \in Builds \ {cli[c].build} : image'[d] = image[d]
  BY BuildAssumption DEF jobs, MakeInv, JobFirst, BuildInv, TableInv, TableTypes, Builds
<1>2. ASSUME NEW d \in Clients \ {c}
      PROVE  Apart(r, cli[d]) /\ (FromSource(cli[d]) => CalmFor(cli[d].build))
  <2>1. Apart(r, cli[d]) /\ (FromSource(cli[d]) => cli[d].build # cli[c].build /\ cli[d].build \in Builds)
    BY Maker DEF Apart, FromSource, Made, Course, Builds
  <2> QED BY <1>1, <2>1 DEF CalmFor, Calm
<1>3. ASSUME NEW d \in Clients PROVE Told(remote, r, cli[d]) /\ (d # c => Told(remote, cli[d], r))
  <2>1. Told(remote, cli[c], cli[d]) /\ (d # c => Apart(cli[c], cli[d]))
    BY Maker
  <2> QED BY <2>1 DEF Told, FromSource, Apart, Made
<1>4. Told(remote, r, r)
  BY <1>3 DEF Told, FromSource, True
<1> QED BY <1>1, <1>2, <1>3, <1>4, MakeBecomes

LEMMA MakeTag == ASSUME BuildInv, MakeInv, NEW c \in Clients, TagAndPush(c) PROVE MakeInv'
<1> DEFINE b == cli[c].build
           g == [cli[c] EXCEPT !.step = "sync", !.get = "load", !.copy = None]
<1>1. /\ cli[c] \in Cli /\ Held(remote, image, uploads, cli[c]) /\ Course(cli[c])
      /\ Mine(record, remote, image, cli[c]) /\ cli[c].step = "start" /\ provider = "local"
      /\ image' = [image EXCEPT ![b] = Source(b)] /\ Becomes(c, g)
      /\ UNCHANGED <<provider, record, jobs>>
  BY Client, Maker DEF TagAndPush, At, ThenGet
<1>2. b \in Builds /\ cli[c].source = "dir" /\ Source(b) \in Builds
  BY <1>1, SourceType DEF Held, Course, BuildInv, TableInv
<1>3. image'[b] = Source(b) /\ Source(b) # None
  BY <1>1, <1>2, BuildAssumption DEF BuildInv, TableInv, TableTypes, Builds
<1>4. g.step = "sync" /\ g.build = b /\ g.source = "dir" /\ g.copy = None
  BY <1>1, <1>2 DEF Cli
<1> HIDE DEF g
<1>5. Course(g)
  BY <1>1, <1>2, <1>4 DEF Course, FromSource, Made
<1>6. Mine(record, remote, image', g)
  BY <1>1, <1>2, <1>3, <1>4 DEF Mine, FromSource
<1> QED BY <1>1, <1>2, <1>4, <1>5, <1>6, MakePush DEF Made

LEMMA MakeImport ==
  ASSUME BuildInv, MakeInv, NEW c \in Clients, NEW ok \in BOOLEAN, BuildImport(c, ok)
  PROVE  MakeInv'
<1> DEFINE b == cli[c].build
           load == BuildDockerLoad(b, ok)
           g == [cli[c] EXCEPT !.step = "saveImport", !.copy.status = load.status]
<1>1. /\ cli[c] \in Cli /\ Held(remote, image, uploads, cli[c]) /\ Course(cli[c])
      /\ cli[c].step = "import" /\ Becomes(c, g)
      /\ image' = IF load.image THEN [image EXCEPT ![b] = b] ELSE image
      /\ UNCHANGED <<provider, record, jobs>>
  BY Client, Maker DEF BuildImport, At
<1>2. b \in Builds /\ cli[c].source = "archive"
  BY <1>1 DEF Held, Course
<1> HIDE DEF load
<1>3. g.step = "saveImport" /\ g.build = b /\ g.source = "archive"
  BY <1>1, <1>2 DEF Cli
<1> HIDE DEF g
<1>4. ~ FromSource(g) /\ Course(g) /\ Mine(record, remote, image', g) /\ Mine(record, remote, image, g)
  BY <1>1, <1>2, <1>3 DEF Course, Mine, FromSource, Made
<1>5. CASE load.image
  BY <1>1, <1>2, <1>3, <1>4, <1>5, MakePush DEF Made
<1>6. CASE ~ load.image
  <2>1. image' = image
    BY <1>1, <1>6
  <2>2. ASSUME NEW d \in Clients PROVE Told(remote, cli[d], g)
    <3>1. FromSource(cli[d]) => cli[d].build # b
      BY <1>2, Maker DEF Apart, FromSource, Made
    <3> QED BY <1>3, <3>1 DEF Told
  <2> QED BY <1>1, <1>2, <1>3, <1>4, <2>1, <2>2, MakeMove
<1> QED BY <1>5, <1>6

\* A command begins, which makes a fresh build, or none.
LEMMA MakeBegin ==
  ASSUME BuildInv, MakeInv, NEW c \in Clients, NEW b \in Builds, NEW source \in Sources, NEW step, NEW get,
         Begin(c, b, source, step, get), UNCHANGED <<provider, image>>, JobFirst',
         source \in Made => Fresh(b),
         step \in {"send", "upload", "start"} => source = "dir",
         step \in {"import", "saveImport"} => source = "archive",
         step = "saveJob" => source \in {"dir", "git"} /\ provider # "local",
         source \in {"dir", "git"} =>
            /\ True(remote', b, record'[b])
            /\ step \in {"send", "upload", "start"} => remote'[b] = None
            /\ step \in {"sync", "send", "saveJob"}
            /\ step = "sync" => provider # "aws" /\ source = "git" /\ remote'[b] = None
            /\ provider = "gcp" /\ source = "git" => step = "sync",
         \A d \in Clients : FromSource(cli[d]) => CalmFor(cli[d].build)
  PROVE  MakeInv'
<1> DEFINE g == [Idle EXCEPT !.step = step, !.get = get, !.build = b, !.source = source]
<1>1. Becomes(c, g) /\ g.step = step /\ g.build = b /\ g.source = source /\ g.copy = None
  BY DEF Begin, Idle
<1> HIDE DEF g
<1>2. Course(g)
  BY <1>1 DEF Course, FromSource, Made, Fresh
<1>3. Mine(record', remote', image', g)
  BY <1>1 DEF Mine, FromSource, Asked, Made, Fresh
<1>4. \A d \in Clients : g.source \in Made => cli[d].build # b
  BY <1>1 DEF Fresh
<1>5. \A d \in Clients : Apart(g, cli[d]) /\ Told(remote', g, cli[d])
  BY <1>1, <1>4 DEF Apart, Told, FromSource, Made
<1>6. \A d \in Clients : Told(remote', cli[d], g) /\ Told(remote', g, g)
  BY <1>1 DEF Told, True
<1> QED BY <1>1, <1>2, <1>3, <1>5, <1>6, MakeBecomes

LEMMA MakeCreate ==
  ASSUME BuildInv, MakeInv, NEW c \in Clients, NEW b \in Builds, NEW source \in Sources, NEW step, NEW get,
         Create(c, b, source, step, get),
         \/ Fresh(b) /\ source = "dir" /\ step = "send"
         \/ Fresh(b) /\ source = "archive" /\ step = "import"
         \/ Fresh(b) /\ source = "git" /\ step = "sync" /\ provider # "aws"
         \/ (Fresh(b) \/ b \in Tags) /\ source = "image" /\ step = "check"
  PROVE  MakeInv'
<1> DEFINE x == [status |-> "CREATED", job |-> FALSE]
<1>1. /\ Begin(c, b, source, step, get) /\ Save(b, x) /\ UNCHANGED <<provider, jobs, image>>
      /\ JobFirst' /\ remote' = remote
  BY DEF Create, MakeInv, JobFirst, jobs
<1>2. record'[b] = x /\ \A d \in Builds \ {b} : record'[d] = record[d]
  BY <1>1 DEF Save, BuildInv, TableInv, TableTypes
<1>3. True(remote', b, record'[b])
  BY <1>2 DEF True, Ended, Good, Bad
<1>4. ASSUME NEW d \in Clients, FromSource(cli[d]) PROVE CalmFor(cli[d].build)
  <2>1. cli[d].build \in Ids
    BY <1>4, Maker DEF FromSource, Course, Made
  <2>2. cli[d].build \in Builds \ {b}
    BY <2>1, BuildAssumption DEF Fresh, Builds
  <2> QED BY <1>1, <1>2, <2>2 DEF CalmFor, Calm
<1>5. source \in Made => Fresh(b) /\ remote'[b] = None
  BY <1>1 DEF Made, Fresh
<1> QED BY <1>1, <1>3, <1>4, <1>5, MakeBegin DEF Made

LEMMA MakeTrigger ==
  ASSUME BuildInv, MakeInv, NEW c \in Clients, NEW b \in Builds, Trigger(c, b)
  PROVE  MakeInv'
<1>1. /\ Begin(c, b, "git", "saveJob", "done") /\ Fresh(b) /\ provider = "aws"
      /\ remote' = [remote EXCEPT ![b] = "IN_PROGRESS"] /\ input' = [input EXCEPT ![b] = b]
      /\ UNCHANGED <<provider, record, image>>
  BY DEF Trigger
<1>2. /\ remote'[b] = "IN_PROGRESS" /\ "IN_PROGRESS" # None
      /\ \A d \in Builds \ {b} : remote'[d] = remote[d] /\ input'[d] = input[d]
  BY <1>1, NoneIsNothing DEF BuildInv, TableInv, TableTypes, Statuses
<1>3. JobFirst'
  BY <1>2 DEF MakeInv, JobFirst
<1>4. True(remote', b, record'[b])
  BY <1>1 DEF True, Fresh
<1>5. ASSUME NEW d \in Clients, FromSource(cli[d]) PROVE CalmFor(cli[d].build)
  <2>1. cli[d].build \in Builds \ {b}
    BY <1>1, <1>5, Maker DEF FromSource, Course, Made, Fresh, Builds
  <2> QED BY <1>1, <1>2, <2>1 DEF CalmFor, Calm, True
<1> QED BY <1>1, <1>3, <1>4, <1>5, MakeBegin DEF Sources

LEMMA MakeStart ==
  ASSUME BuildInv, MakeInv, NEW c \in Clients, NEW b \in Builds, Start(c, b)
  PROVE  MakeInv'
<1>1. CASE StartDir(c, b) \/ StartArchive(c, b)
  BY <1>1, MakeCreate DEF StartDir, StartArchive, Sources
<1>2. CASE StartGit(c, b)
  BY <1>2, MakeCreate, MakeTrigger DEF StartGit, Sources
<1>3. CASE StartImage(c, b)
  BY <1>3, MakeCreate DEF StartImage, Sources
<1>4. CASE StartExisting(c, b)
  <2>1. PICK step \in {"check", "sync"} : Begin(c, b, "existing", step, "load")
    BY <1>4 DEF StartExisting
  <2>2. UNCHANGED <<provider, record, remote, image>> /\ JobFirst'
    BY <1>4 DEF StartExisting, MakeInv, JobFirst, jobs
  <2>3. ASSUME NEW d \in Clients PROVE CalmFor(cli[d].build)
    BY <2>2, CalmSame
  <2> QED BY <2>1, <2>2, <2>3, MakeBegin DEF Sources, Made
<1> QED BY <1>1, <1>2, <1>3, <1>4 DEF Start

\* The tables change, and no command line.
LEMMA MakeSame ==
  ASSUME BuildInv, MakeInv, UNCHANGED <<provider, cli>>, JobFirst',
         \A d \in Clients : FromSource(cli[d]) => CalmFor(cli[d].build)
  PROVE  MakeInv'
<1>1. ASSUME NEW d \in Clients PROVE Mine(record', remote', image', cli[d])
  BY Maker, MineKept DEF CalmFor
<1>2. ASSUME NEW d \in Clients, NEW e \in Clients PROVE Told(remote', cli[d], cli[e])
  BY Maker, ToldKept DEF CalmFor, Calm
<1>3. Ended' = Ended
  BY DEF Ended, Good, Bad
<1>4. \A d \in Clients : Course(cli[d])' /\ Mine(record, remote, image, cli[d])'
  BY <1>1, <1>3 DEF Course, FromSource, Made, Mine, True, Live, Asked, MakeInv
<1>5. \A d, e \in Clients : Told(remote, cli[d], cli[e])' /\ (d # e => Apart(cli[d], cli[e])')
  BY <1>2, <1>3 DEF Told, True, FromSource, Apart, Made, MakeInv
<1> QED BY <1>4, <1>5 DEF MakeInv

LEMMA MakeDelete ==
  ASSUME BuildInv, MakeInv, NEW c \in Clients, NEW b \in Builds, Delete(c, b)
  PROVE  MakeInv'
<1>1. /\ UNCHANGED <<provider, remote, image, cli>> /\ JobFirst' /\ provider # "aws"
      /\ record'[b] = None /\ \A d \in Builds \ {b} : record'[d] = record[d]
  BY DEF Delete, Deletes, Save, jobs, MakeInv, JobFirst, BuildInv, TableInv, TableTypes
<1>2. ASSUME NEW d \in Clients, FromSource(cli[d]) PROVE CalmFor(cli[d].build)
  <2>1. cli[d].build \in Builds
    BY <1>2, Maker DEF FromSource, Course, Made, Builds
  <2> QED BY <1>1, <2>1 DEF CalmFor, Calm, True
<1> QED BY <1>1, <1>2, MakeSame

LEMMA MakeRemote ==
  ASSUME BuildInv, MakeInv, NEW b \in Builds, Download(b) \/ Progress(b)
  PROVE  MakeInv'
<1>1. provider \in {"aws", "gcp", "local"} /\ UNCHANGED <<provider, record, cli>>
  BY DEF BuildInv, TableInv, TableTypes, Download, Progress
<1>2. CASE Download(b)
  <2>1. remote[b] # None /\ remote' = remote /\ image' = image
        /\ \A d \in Builds \ {b} : input'[d] = input[d]
    BY <1>2, NoneIsNothing DEF Download, Statuses, BuildInv, TableInv, TableTypes
  <2>2. JobFirst'
    BY <2>1 DEF MakeInv, JobFirst
  <2> QED BY <1>1, <2>1, <2>2, CalmSame, MakeSame
<1>3. CASE Progress(b)
  <2>1. PICK s \in Waiting \cup Ended :
          /\ s = Good => input[b] # None
          /\ remote' = [remote EXCEPT ![b] = s]
          /\ image' = IF s = Good THEN [image EXCEPT ![b] = input[b]] ELSE image
    BY <1>3 DEF Progress
  <2>2. remote[b] \in Waiting /\ input' = input
    BY <1>3 DEF Progress
  <2>3. s # None /\ remote[b] # None /\ remote[b] \notin Ended
    BY <1>1, <2>1, <2>2, StatusTypes, NoneIsNothing DEF Waiting, Ended, Good, Bad, Statuses
  <2>4. /\ remote'[b] = s /\ \A d \in Builds \ {b} : remote'[d] = remote[d] /\ image'[d] = image[d]
        /\ image[b] # None => image'[b] # None
    BY <2>1 DEF BuildInv, TableInv, TableTypes
  <2>5. JobFirst'
    BY <2>2, <2>3, <2>4 DEF MakeInv, JobFirst
  <2>6. ASSUME NEW d \in Clients, FromSource(cli[d]) PROVE CalmFor(cli[d].build)
    <3>1. cli[d].build \in Builds
      BY <2>6, Maker DEF FromSource, Course, Made, Builds
    <3> QED BY <1>1, <2>3, <2>4, <3>1 DEF CalmFor, Calm, True
  <2> QED BY <1>1, <2>5, <2>6, MakeSame
<1> QED BY <1>2, <1>3

LEMMA MakeInit == Init => MakeInv
<1> SUFFICES ASSUME Init PROVE MakeInv
  OBVIOUS
<1>1. JobFirst
  BY DEF Init, JobFirst
<1>2. ASSUME NEW c \in Clients, NEW d \in Clients
      PROVE  Course(cli[c]) /\ Mine(record, remote, image, cli[c]) /\ Told(remote, cli[c], cli[d])
             /\ Apart(cli[c], cli[d])
  <2>1. cli[c] = Idle /\ cli[d] = Idle
    BY DEF Init
  <2> QED BY <2>1, IdleMine, NoneIsNothing DEF Told, True, Apart, Idle, Made, Sources
<1> QED BY <1>1, <1>2 DEF MakeInv

LEMMA MakeStep == IndInv /\ AwsIndInv /\ MakeInv /\ [Next]_vars => MakeInv'
<1> SUFFICES ASSUME BuildInv, AwsIndInv, MakeInv, [Next]_vars PROVE MakeInv'
  BY DEF IndInv
<1>1. ASSUME NEW c \in Clients, Step(c) PROVE MakeInv'
  BY <1>1, MakeLoad, MakeFetch, MakeSaveBuild, MakeWait, MakeUpload, MakeStartJob, MakeTag, MakeSaveJob,
     MakeImport, MakeSaveImport, MakeSync, MakePoll DEF Step, StartJob
<1>2. ASSUME NEW c \in Clients, NEW b \in Builds, Start(c, b) \/ Delete(c, b) PROVE MakeInv'
  BY <1>2, MakeStart, MakeDelete
<1>3. CASE UNCHANGED vars
  BY <1>3, MakeSame, CalmSame DEF vars, MakeInv, JobFirst
<1> QED BY <1>1, <1>2, <1>3, MakeWait, MakeRemote DEF Next

LEMMA MakeInvariant == Spec => []MakeInv
  BY MakeInit, MakeStep, Invariant, AwsInvariant, PTL DEF Spec

\* However late the record of a build learns of its job, and whoever else asks
\* for the build, a command that builds from source has it released only after
\* the job has ended or, where docker builds, after the image was pushed.
THEOREM ReleaseWaits == Spec => ReleasedAfterBuild
<1>1. MakeInv /\ [Next]_vars =>
        [\A c \in Clients :
           LET b == cli[c].build IN
           Release(c) =>
             /\ provider # "local" /\ cli[c].source \in {"dir", "git"} => remote[b] \in Ended
             /\ provider = "local" /\ cli[c].source = "dir" => image[b] # None]_vars
  <2> SUFFICES ASSUME MakeInv, NEW c \in Clients, Release(c)
               PROVE  LET b == cli[c].build IN
                      /\ provider # "local" /\ cli[c].source \in {"dir", "git"} => remote[b] \in Ended
                      /\ provider = "local" /\ cli[c].source = "dir" => image[b] # None
    OBVIOUS
  <2>1. Mine(record, remote, image, cli[c]) /\ cli[c].step = "release"
    BY Maker DEF Release, At
  <2> QED BY <2>1 DEF Mine, FromSource, Asked
<1> QED BY <1>1, MakeInvariant, PTL DEF Spec, ReleasedAfterBuild

------------------------------------------------------------------------------
(* The order of the sources                                                 *)

\* x is the source of b, or one that arrived after it.
NotOlder(ups, b, x) ==
  IF provider = "gcp" THEN x = b
  ELSE \E i, j \in DOMAIN ups : ups[i] = b /\ ups[j] = x /\ i =< j

InOrder(ups, b, x) == x # None => NotOlder(ups, b, x)

OrderInv ==
  \A b \in ToSet(uploads) : InOrder(uploads, b, input[b]) /\ InOrder(uploads, b, image[b])

LEMMA OwnSource ==
  ASSUME NEW ups, NEW b \in ToSet(ups), DOMAIN ups \subseteq Nat
  PROVE  NotOlder(ups, b, b)
  BY DEF NotOlder, ToSet

\* The last source that arrived is older than none.
LEMMA LastSourceFits ==
  ASSUME TableTypes, NEW b \in ToSet(uploads)
  PROVE  NotOlder(uploads, b, Source(b))
<1>1. CASE provider = "gcp"
  BY <1>1 DEF NotOlder, Source
<1>2. CASE provider # "gcp"
  <2>1. PICK i \in DOMAIN uploads : uploads[i] = b
    BY DEF ToSet
  <2>2. uploads \in Seq(Ids) /\ DOMAIN uploads = 1..Len(uploads) /\ Len(uploads) \in Nat
    BY DEF TableTypes
  <2>3. Source(b) = uploads[Len(uploads)] /\ Len(uploads) \in DOMAIN uploads /\ i =< Len(uploads)
    BY <1>2, <2>1, <2>2 DEF Source, Last
  <2> QED BY <1>2, <2>1, <2>3 DEF NotOlder
<1> QED BY <1>1, <1>2

\* A step that takes for a build whose source has arrived only one that fits.
LEMMA OrderKept ==
  ASSUME OrderInv, UNCHANGED <<provider, uploads>>,
         \A b \in ToSet(uploads) :
            /\ input'[b] = input[b] \/ NotOlder(uploads, b, input'[b])
            /\ image'[b] = image[b] \/ NotOlder(uploads, b, image'[b])
  PROVE  OrderInv'
<1>1. ASSUME NEW b \in ToSet(uploads) PROVE InOrder(uploads, b, input'[b]) /\ InOrder(uploads, b, image'[b])
  BY DEF OrderInv, InOrder
<1> QED BY <1>1 DEF OrderInv, InOrder, NotOlder, ToSet

LEMMA OrderUpload ==
  ASSUME BuildInv, UploadInv, MakeInv, OrderInv, NEW c \in Clients, Upload(c)
  PROVE  OrderInv'
<1> DEFINE b == cli[c].build
           ups == Append(uploads, b)
<1>1. /\ cli[c].step = "upload" /\ uploads' = ups /\ UNCHANGED <<provider, input, image>>
      /\ uploads \in Seq(Ids) /\ Held(remote, image, uploads, cli[c]) /\ Course(cli[c])
      /\ Mine(record, remote, image, cli[c])
  BY Client, Maker DEF Upload, At, jobs, BuildInv, TableInv, TableTypes
<1>2. b \in Builds /\ b \in Ids /\ image[b] = None /\ remote[b] = None /\ input[b] = None
  BY <1>1 DEF Held, Course, Mine, FromSource, Made, MakeInv, JobFirst
<1>3. /\ DOMAIN uploads \subseteq DOMAIN ups /\ ToSet(ups) \subseteq ToSet(uploads) \cup {b}
      /\ \A i \in DOMAIN uploads : ups[i] = uploads[i]
  BY <1>1, <1>2 DEF ToSet
<1> HIDE DEF ups
<1>4. ASSUME NEW d \in ToSet(ups) PROVE InOrder(ups, d, input[d]) /\ InOrder(ups, d, image[d])
  <2>1. CASE d = b
    BY <1>2, <2>1 DEF InOrder
  <2>2. CASE d # b
    <3>1. InOrder(uploads, d, input[d]) /\ InOrder(uploads, d, image[d])
      BY <1>3, <2>2 DEF OrderInv
    <3> QED BY <1>3, <3>1 DEF InOrder, NotOlder
  <2> QED BY <2>1, <2>2
<1> QED BY <1>1, <1>4 DEF OrderInv, InOrder, NotOlder, ToSet

LEMMA OrderTables ==
  ASSUME BuildInv, OrderInv, NEW b \in Builds, Download(b) \/ Progress(b)
  PROVE  OrderInv'
<1>1. UNCHANGED <<provider, uploads>> /\ TableTypes
  BY DEF Download, Progress, BuildInv, TableInv
<1>2. CASE Download(b)
  <2>1. image' = image /\ input'[b] = Source(b) /\ \A d \in Builds \ {b} : input'[d] = input[d]
    BY <1>1, <1>2 DEF Download, TableTypes
  <2>2. ToSet(uploads) \subseteq Builds
    BY <1>1 DEF TableTypes, ToSet, Builds
  <2> QED BY <1>1, <2>1, <2>2, LastSourceFits, OrderKept
<1>3. CASE Progress(b)
  <2>1. /\ input' = input /\ \A d \in Builds \ {b} : image'[d] = image[d]
        /\ image'[b] = image[b] \/ (image'[b] = input[b] /\ input[b] # None)
    BY <1>1, <1>3 DEF Progress, TableTypes
  <2>2. ToSet(uploads) \subseteq Builds
    BY <1>1 DEF TableTypes, ToSet, Builds
  <2>3. b \in ToSet(uploads) => InOrder(uploads, b, input[b])
    BY DEF OrderInv
  <2> QED BY <1>1, <2>1, <2>2, <2>3, OrderKept DEF InOrder
<1> QED BY <1>2, <1>3

LEMMA OrderImage ==
  ASSUME BuildInv, OrderInv, NEW c \in Clients, TagAndPush(c) \/ \E ok \in BOOLEAN : BuildImport(c, ok)
  PROVE  OrderInv'
<1> DEFINE b == cli[c].build
<1>1. UNCHANGED <<provider, uploads, input>> /\ TableTypes
  BY DEF TagAndPush, BuildImport, jobs, BuildInv, TableInv
<1>2. uploads \in Seq(Ids) /\ DOMAIN uploads \subseteq Nat /\ ToSet(uploads) \subseteq Builds
  BY <1>1 DEF TableTypes, ToSet, Builds
<1>3. \/ \A d \in Builds : image'[d] = image[d]
      \/ /\ \A d \in Builds \ {b} : image'[d] = image[d]
         /\ b \in Builds => image'[b] = b \/ image'[b] = Source(b)
  BY <1>1 DEF TagAndPush, BuildImport, TableTypes
<1> QED BY <1>1, <1>2, <1>3, LastSourceFits, OwnSource, OrderKept

LEMMA OrderTrigger ==
  ASSUME BuildInv, OrderInv, NEW c \in Clients, NEW b \in Builds, Start(c, b)
  PROVE  OrderInv'
<1>1. UNCHANGED <<provider, uploads, image>> /\ TableTypes
  BY DEF Start, StartDir, StartArchive, StartGit, Trigger, StartImage, StartExisting, Create, BuildInv, TableInv
<1>2. uploads \in Seq(Ids) /\ DOMAIN uploads \subseteq Nat /\ ToSet(uploads) \subseteq Builds
  BY <1>1 DEF TableTypes, ToSet, Builds
<1>3. \A d \in Builds : input'[d] = input[d] \/ (d = b /\ input'[d] = b)
  BY <1>1 DEF Start, StartDir, StartArchive, StartGit, Trigger, StartImage, StartExisting, Create, jobs, TableTypes
<1> QED BY <1>1, <1>2, <1>3, OwnSource, OrderKept

LEMMA OrderStep == IndInv /\ MakeInv /\ OrderInv /\ [Next]_vars => OrderInv'
<1> SUFFICES ASSUME BuildInv, UploadInv, MakeInv, OrderInv, [Next]_vars PROVE OrderInv'
  BY DEF IndInv
<1>1. ASSUME UNCHANGED <<provider, uploads, input, image>> PROVE OrderInv'
  BY <1>1, OrderKept
<1>2. ASSUME NEW c \in Clients, Step(c) PROVE OrderInv'
  <2>1. CASE Upload(c) \/ TagAndPush(c) \/ \E ok \in BOOLEAN : BuildImport(c, ok)
    BY <2>1, OrderUpload, OrderImage
  <2>2. CASE \/ LoadBuild(c) \/ FetchBuild(c) \/ SaveBuild(c) \/ Send(c) \/ StartRemoteJob(c) \/ SaveJob(c)
             \/ SaveImport(c) \/ Sync(c) \/ Poll(c) \/ Check(c) \/ Release(c)
    BY <1>1, <2>2 DEF LoadBuild, FetchBuild, SaveBuild, Send, StartRemoteJob, SaveJob, SaveImport, Sync, Poll,
                      Check, Release, jobs
  <2> QED BY <1>2, <2>1, <2>2 DEF Step, StartJob
<1>3. ASSUME NEW c \in Clients, NEW b \in Builds, Delete(c, b) PROVE OrderInv'
  BY <1>1, <1>3 DEF Delete, jobs
<1>4. ASSUME NEW c \in Clients, Fail(c) PROVE OrderInv'
  BY <1>1, <1>4 DEF Fail, jobs
<1>5. CASE UNCHANGED vars
  BY <1>1, <1>5 DEF vars
<1> QED BY <1>2, <1>3, <1>4, <1>5, OrderTrigger, OrderTables DEF Next

\* However the builds of an app overlap, an image holds the source its own
\* command sent or, where all builds share one place for it, one that arrived
\* later; with Cloud Build only its own.
THEOREM SourcesInOrder == Spec => []NoOlderSource
<1>1. Init => OrderInv
  BY DEF Init, OrderInv, ToSet
<1>2. OrderInv => NoOlderSource
  BY DEF OrderInv, InOrder, NotOlder, NoOlderSource, ToSet
<1> QED BY <1>1, <1>2, OrderStep, Invariant, MakeInvariant, PTL DEF Spec
=============================================================================
