--------------------------- MODULE BuildLifecycle ---------------------------
(***************************************************************************)
(* From source to release: the command line creates a build, hands over    *)
(* the source, waits for the remote builder and asks for a release; the    *)
(* server keeps a record of the build and copies the status of the remote  *)
(* job into it whenever somebody asks for the build (BuildGet).            *)
(*                                                                         *)
(* Several command lines work at once.  Every call is a step of its own;   *)
(* BuildGet is three: load the record, fetch the remote job, save.  Any    *)
(* call may fail, which ends the command with what was written left.       *)
(*                                                                         *)
(* The builds are those of one app.  Its source travels as an archive to a *)
(* place the job takes it from later: what an image holds is the build     *)
(* whose source is in it.                                                  *)
(*                                                                         *)
(* Abstracted: what is in an archive, the lines of the logs, and the ends  *)
(* of a remote job that are neither success nor failure (cancelled, timed  *)
(* out), which are one status.  An app whose builds come from a repository *)
(* (CODECOMMIT in the template) has no archive, and its jobs fetch the     *)
(* reference they are given.  The release is the subject of AppRecord.     *)
(***************************************************************************)
EXTENDS Naturals, FiniteSets, SequencesExt

CONSTANTS
  Providers,  \* aws, gcp, local: the stack may be any of them
  Ids,        \* generated ids of builds
  Tags,       \* ids a user gives to builds of existing images
  Untagged,   \* builds whose source, if it is an archive, has an image without a tag
  Clients,    \* command lines: a bound on the concurrency
  MaxCommands,  \* how many commands are given: a bound
  None

ASSUME BuildAssumption ==
  /\ Providers \subseteq {"aws", "gcp", "local"}
  /\ Ids \cap Tags = {} /\ Untagged \subseteq Ids /\ None \notin Ids \cup Tags
  /\ MaxCommands \in Nat

VARIABLES
  provider,
  record,    \* build -> what the server has saved of it
  remote,    \* build -> status of its job at CodeBuild or Cloud Build
  input,     \* build -> the build whose source its job has taken
  uploads,   \* builds whose source has arrived, in that order
  image,     \* build -> the build whose source its image in the registry holds
  cli,       \* per command line: what it does and what it has read
  released,  \* builds a command line has had released
  commands   \* how many commands were given

vars == <<provider, record, remote, input, uploads, image, cli, released, commands>>
jobs == <<remote, input>>

Builds == Ids \cup Tags

Good == IF provider = "gcp" THEN "SUCCESS" ELSE "SUCCEEDED"
Bad  == IF provider = "gcp" THEN "FAILURE" ELSE "FAILED"

\* The statuses of a remote job before it ends, in their order.
Waiting == IF provider = "gcp" THEN {"", "QUEUED", "WORKING"} ELSE {"IN_PROGRESS"}
Ended   == {Good, Bad, "STOPPED"}

Statuses == {"", "CREATED", "QUEUED", "WORKING", "IN_PROGRESS", "SUCCEEDED", "SUCCESS",
             "FAILED", "FAILURE", "STOPPED"}

Record == [status : Statuses, job : BOOLEAN]   \* is the id of the remote job in it

\* The source of a build: a directory, a git reference, an archive of an image,
\* the name of an image, or a build that is there.
Sources == {"dir", "git", "archive", "image", "existing"}

ASSUME NoneIsNothing == None \notin Record \cup Statuses \cup Sources

\* get: where in BuildGet the call that precedes the step is.
Idle == [step |-> "idle", get |-> "done", build |-> None, source |-> None, copy |-> None]

At(c, step) == cli[c].step = step /\ cli[c].get = "done"
Becomes(c, r) == cli' = [cli EXCEPT ![c] = r]

\* The next step of c, after a BuildGet or without one.
Then(c, step) == Becomes(c, [cli[c] EXCEPT !.step = step])
ThenGet(c, step) == Becomes(c, [cli[c] EXCEPT !.step = step, !.get = "load", !.copy = None])
Exit(c) == Becomes(c, Idle)

Save(b, r) == record' = [record EXCEPT ![b] = r]

------------------------------------------------------------------------------
(* BuildGet *)

\* The mistake of never asking the remote builder.
NeverRefreshes(r) == FALSE

\* The statuses that make the server ask the remote builder.
Refreshes(r) ==
  \/ provider = "aws" /\ r.status = "IN_PROGRESS"
  \/ provider = "gcp" /\ r.status \in {"WORKING", "CREATED", ""}

\* The mistake of saving whatever was fetched.
SaveAlways(old, fetched) == TRUE

Differs(old, fetched) == old # fetched

LoadBuild(c) ==
  LET b == cli[c].build IN
  /\ cli[c].get = "load"
  /\ IF record[b] = None
     THEN Exit(c)
     ELSE Becomes(c, [cli[c] EXCEPT !.copy = record[b],
                                    !.get = IF Refreshes(record[b]) THEN "fetch" ELSE "done"])
  /\ UNCHANGED <<provider, record, jobs, uploads, image, released, commands>>

\* The mistake of a status where there is no job.
StatusOfNone(b, r) == remote[b]

\* The answer for a job id: the status of the job.  Cloud Build is also asked
\* without an id, when none is saved, and then answers no status or an error.
Status(b, r) == IF r.job THEN remote[b] ELSE ""

FetchBuild(c) ==
  LET b == cli[c].build
      old == cli[c].copy
      fetched == Status(b, old)
  IN
  /\ cli[c].get = "fetch"
  /\ Becomes(c, [cli[c] EXCEPT !.copy.status = fetched,
                               !.get = IF Differs(old.status, fetched) THEN "save" ELSE "done"])
  /\ UNCHANGED <<provider, record, jobs, uploads, image, released, commands>>

\* The copy replaces the record, whatever the record is by now.  With CodeBuild
\* nobody looks whether that failed.
SaveBuild(c) ==
  /\ cli[c].get = "save"
  /\ Save(cli[c].build, cli[c].copy) \/ (provider = "aws" /\ UNCHANGED record)
  /\ Becomes(c, [cli[c] EXCEPT !.get = "done"])
  /\ UNCHANGED <<provider, jobs, uploads, image, released, commands>>

------------------------------------------------------------------------------
(* Creating a build *)

Command == commands < MaxCommands /\ commands' = commands + 1

Begin(c, b, source, step, get) ==
  /\ At(c, "idle") /\ Command
  /\ Becomes(c, [Idle EXCEPT !.step = step, !.get = get, !.build = b, !.source = source])

Fresh(b) ==
  /\ b \in Ids /\ record[b] = None /\ remote[b] = None /\ image[b] = None
  /\ ~ Contains(uploads, b) /\ \A c \in Clients : cli[c].build # b

\* BuildCreate.  On the clouds the id of a build of an image is its tag: creating
\* it again replaces the record.
Create(c, b, source, step, get) ==
  /\ Begin(c, b, source, step, get)
  /\ Save(b, [status |-> "CREATED", job |-> FALSE])
  /\ UNCHANGED <<provider, jobs, uploads, image, released>>

StartDir(c, b) == Fresh(b) /\ Create(c, b, "dir", "send", "done")

StartArchive(c, b) == Fresh(b) /\ Create(c, b, "archive", "import", "load")

\* Only CodeBuild starts a build from a git reference, before there is a record.
Trigger(c, b) ==
  /\ Fresh(b) /\ provider = "aws"
  /\ Begin(c, b, "git", "saveJob", "done")
  /\ remote' = [remote EXCEPT ![b] = "IN_PROGRESS"]
  /\ input' = [input EXCEPT ![b] = b]
  /\ UNCHANGED <<provider, record, uploads, image, released>>

StartGit(c, b) ==
  \/ Trigger(c, b)
  \/ Fresh(b) /\ provider # "aws" /\ Create(c, b, "git", "sync", "load")

\* The local provider gives a build of an image an id of its own.
StartImage(c, b) ==
  /\ IF provider = "local" THEN Fresh(b) ELSE b \in Tags
  /\ Create(c, b, "image", "check", "load")

\* deploy takes a build that is there; build waits for it to end.
StartExisting(c, b) ==
  /\ \E step \in {"check", "sync"} : Begin(c, b, "existing", step, "load")
  /\ UNCHANGED <<provider, record, jobs, uploads, image, released>>

Start(c, b) ==
  \/ StartDir(c, b) \/ StartArchive(c, b) \/ StartGit(c, b)
  \/ StartImage(c, b) \/ StartExisting(c, b)

\* BuildDelete.  The image stays, and so does a job that runs.
Deletes == provider # "aws"

Delete(c, b) ==
  /\ At(c, "idle") /\ Command /\ Deletes /\ record[b] # None
  /\ Save(b, None)
  /\ UNCHANGED <<provider, jobs, uploads, image, cli, released>>

------------------------------------------------------------------------------
(* The source *)

\* The archive goes in chunks into a file of the handler: BuildUpload starts,
\* with a BuildGet, after the last of them.  A stream that breaks leaves nothing.
Send(c) ==
  /\ At(c, "send")
  /\ ThenGet(c, "upload")
  /\ UNCHANGED <<provider, record, jobs, uploads, image, released, commands>>

\* From the file to the bucket, or into the image docker builds here.
Upload(c) ==
  /\ At(c, "upload")
  /\ uploads' = Append(uploads, cli[c].build)
  /\ Then(c, "start")
  /\ UNCHANGED <<provider, record, jobs, image, released, commands>>

\* The mistake of one place for the sources of all builds.
LastSource(b) == Last(uploads)

\* Cloud Build finds the source of a build under its id.  The archive in the
\* bucket of CodeBuild, and the image docker has built, are named after the app.
Source(b) == IF provider = "gcp" THEN b ELSE Last(uploads)

\* What the remote builder says of a job that was just started.
StartedStatus == IF provider = "gcp" THEN "" ELSE "IN_PROGRESS"

\* Upload the archive under the id of the build, and have a job created for it;
\* the id of the job is in the answer.
StartRemoteJob(c) ==
  /\ At(c, "start") /\ provider # "local"
  /\ remote' = [remote EXCEPT ![cli[c].build] = StartedStatus]
  /\ Then(c, "saveJob")
  /\ UNCHANGED <<provider, record, input, uploads, image, released, commands>>

\* Tag and push what docker has built here; the status stays as it is.
TagAndPush(c) ==
  LET b == cli[c].build IN
  /\ At(c, "start") /\ provider = "local"
  /\ image' = [image EXCEPT ![b] = Source(b)]
  /\ ThenGet(c, "sync")
  /\ UNCHANGED <<provider, record, jobs, uploads, released, commands>>

StartJob(c) == StartRemoteJob(c) \/ TagAndPush(c)

\* The id of the job is saved after it is started; with CodeBuild its status too.
SaveJob(c) ==
  LET b == cli[c].build
      status == IF provider = "aws" THEN "IN_PROGRESS" ELSE cli[c].copy.status
  IN
  /\ At(c, "saveJob")
  /\ Save(b, [status |-> status, job |-> TRUE])
  /\ ThenGet(c, "sync")
  /\ UNCHANGED <<provider, jobs, uploads, image, released, commands>>

\* The mistake of reporting an import whose push failed.
ImportUnchecked(b, ok) == [image |-> ok /\ b \notin Untagged, status |-> Good]

\* BuildDockerLoad pushes the tags of the archive one by one: if there are none
\* it has nothing to do, and succeeds.
BuildDockerLoad(b, ok) ==
  [image |-> ok /\ b \notin Untagged, status |-> IF ok THEN Good ELSE "FAILED"]

BuildImport(c, ok) ==
  LET b == cli[c].build
      load == BuildDockerLoad(b, ok)
  IN
  /\ At(c, "import")
  /\ image' = IF load.image THEN [image EXCEPT ![b] = b] ELSE image
  /\ Becomes(c, [cli[c] EXCEPT !.step = "saveImport", !.copy.status = load.status])
  /\ UNCHANGED <<provider, record, jobs, uploads, released, commands>>

\* A save that fails is only logged.
SaveImport(c) ==
  /\ At(c, "saveImport")
  /\ Save(cli[c].build, cli[c].copy) \/ UNCHANGED record
  /\ ThenGet(c, "check")
  /\ UNCHANGED <<provider, jobs, uploads, image, released, commands>>

------------------------------------------------------------------------------
(* Waiting for the remote job *)

\* A job that has begun has a log.
HasLog(b) == remote[b] \notin {None, "", "QUEUED"}

\* A round of the wait is a look at the log, then a BuildGet.  With Cloud Build
\* the look fails when there is no log for five minutes.
Round(c) ==
  IF provider = "gcp" /\ ~ HasLog(cli[c].build) THEN Exit(c) ELSE ThenGet(c, "poll")

\* With Cloud Build, logs need the id of the job the record had at this point.
Sync(c) ==
  /\ At(c, "sync")
  /\ IF provider = "gcp" /\ ~ cli[c].copy.job THEN Exit(c) ELSE Round(c)
  /\ UNCHANGED <<provider, record, jobs, uploads, image, released, commands>>

\* The mistake of going on while the job runs.
NothingPending(status) == FALSE

Pending(status) ==
  IF provider = "gcp" THEN status \in {"WORKING", ""} ELSE status = "IN_PROGRESS"

Poll(c) ==
  LET status == cli[c].copy.status IN
  /\ At(c, "poll")
  /\ IF Pending(status) THEN Round(c)
     ELSE IF cli[c].source = "existing" \/ (provider = "gcp" /\ status # Good) THEN Exit(c)
     ELSE ThenGet(c, "check")
  /\ UNCHANGED <<provider, record, jobs, uploads, image, released, commands>>

\* cmdDeploy refuses one status; cmdBuild stops before this step.
Check(c) ==
  /\ At(c, "check")
  /\ IF cli[c].copy.status = "FAILED" THEN Exit(c) ELSE Then(c, "release") \/ Exit(c)
  /\ UNCHANGED <<provider, record, jobs, uploads, image, released, commands>>

Release(c) ==
  /\ At(c, "release")
  /\ released' = released \cup {cli[c].build}
  /\ Exit(c)
  /\ UNCHANGED <<provider, record, jobs, uploads, image, commands>>

------------------------------------------------------------------------------
(* The remote builder, and failures *)

\* A job takes its source when it begins, some time after it was started.
Download(b) ==
  /\ remote[b] \in {"WORKING", "IN_PROGRESS"} /\ input[b] = None
  /\ input' = [input EXCEPT ![b] = Source(b)]
  /\ UNCHANGED <<provider, record, remote, uploads, image, cli, released, commands>>

Progress(b) ==
  /\ remote[b] \in Waiting
  /\ \E s \in (Waiting \cup Ended) \ {remote[b], ""} :
       /\ remote[b] = "WORKING" => s \in Ended
       /\ s = Good => input[b] # None
       /\ remote' = [remote EXCEPT ![b] = s]
       /\ image' = IF s = Good THEN [image EXCEPT ![b] = input[b]] ELSE image
  /\ UNCHANGED <<provider, record, input, uploads, cli, released, commands>>

\* A call fails and the command ends; but the stream of an import tells the
\* command line nothing of how it ended, and the command goes on.
Fail(c) ==
  /\ cli[c].step # "idle"
  /\ IF cli[c].step \in {"import", "saveImport"}
     THEN Becomes(c, [cli[c] EXCEPT !.step = "check", !.get = "load"])
     ELSE Exit(c)
  /\ UNCHANGED <<provider, record, jobs, uploads, image, released, commands>>

Init ==
  /\ provider \in Providers
  /\ record = [b \in Builds |-> None]
  /\ remote = [b \in Builds |-> None]
  /\ input = [b \in Builds |-> None]
  /\ uploads = <<>>
  /\ image = [b \in Builds |-> None]
  /\ cli = [c \in Clients |-> Idle]
  /\ released = {}
  /\ commands = 0

Step(c) ==
  \/ LoadBuild(c) \/ FetchBuild(c) \/ SaveBuild(c)
  \/ Send(c) \/ Upload(c) \/ StartJob(c) \/ SaveJob(c) \/ (\E ok \in BOOLEAN : BuildImport(c, ok)) \/ SaveImport(c)
  \/ Sync(c) \/ Poll(c) \/ Check(c) \/ Release(c)

Next ==
  \/ \E c \in Clients : Step(c) \/ Fail(c) \/ \E b \in Builds : Start(c, b) \/ Delete(c, b)
  \/ \E b \in Builds : Download(b) \/ Progress(b)

\* A command that has begun goes on, and a remote job ends (CodeBuild and
\* Cloud Build stop a job at its time limit).
Fairness ==
  /\ \A c \in Clients : WF_vars(Step(c))
  /\ \A b \in Builds : WF_vars(Progress(b))

Spec == Init /\ [][Next]_vars /\ Fairness

------------------------------------------------------------------------------
(* Properties *)

TypeOK ==
  /\ provider \in Providers
  /\ record \in [Builds -> Record \cup {None}]
  /\ remote \in [Builds -> Waiting \cup Ended \cup {None}]
  /\ input \in [Builds -> Builds \cup {None}] /\ image \in [Builds -> Builds \cup {None}]
  /\ uploads \in Seq(Ids) /\ IsInjective(uploads)
  /\ released \subseteq Builds /\ commands \in 0..MaxCommands
  /\ \A c \in Clients :
       /\ cli[c].get \in {"load", "fetch", "save", "done"}
       /\ cli[c].build \in Builds \cup {None}
       /\ cli[c].source \in Sources \cup {None}
       /\ cli[c].copy \in Record \cup {None}

\* However calls overlap and fail, a build recorded as a success has its image
\* in the registry, unless it was imported from an archive without tags.
SuccessHasImage ==
  \A b \in Builds \ Untagged :
    record[b] # None /\ record[b].status = Good => image[b] # None

\* However builds of an app overlap, an image holds the source its own command
\* sent or, where the place of the source is shared, one that arrived later;
\* with Cloud Build only its own.
NoOlderSource ==
  \A b \in ToSet(uploads) :
    image[b] # None =>
      \E i, j \in DOMAIN uploads :
        uploads[i] = b /\ uploads[j] = image[b] /\ (IF provider = "gcp" THEN i = j ELSE i =< j)

\* With CodeBuild, calls for one build that overlap never take a recorded end
\* of it back.
EndedStays ==
  [][\A b \in Ids :
       provider = "aws" /\ record[b] # None /\ record[b].status \in Ended =>
         record'[b] # None /\ record'[b].status = record[b].status]_vars

\* A command that builds from source has its build released only after the
\* build has ended, however late the record learns of it.  (The local provider
\* builds nothing from a git reference.)
ReleasedAfterBuild ==
  [][\A c \in Clients :
       LET b == cli[c].build IN
       Release(c) =>
         /\ provider # "local" /\ cli[c].source \in {"dir", "git"} => remote[b] \in Ended
         /\ provider = "local" /\ cli[c].source = "dir" => image[b] # None]_vars

\* A command that waits for a build stops waiting, for the record follows the
\* job; except that, with Cloud Build, a BuildGet of somebody else that overlaps
\* the upload may take the id of the job out of the record again.
WaitingEnds ==
  \A c \in Clients :
    LET b == cli[c].build IN
    cli[c].step = "poll" ~>
      cli[c].step # "poll" \/ (provider = "gcp" /\ record[b] # None /\ ~ record[b].job)

\* What is released has been built: "Check build status before deploying an app".
ReleasedIsBuilt == \A b \in released \cap Ids : image[b] # None
=============================================================================
