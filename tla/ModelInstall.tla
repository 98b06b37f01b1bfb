---------------------------- MODULE ModelInstall ----------------------------
(***************************************************************************)
(* Installation of one model: ModelManagerController (install, cancel,     *)
(* uninstall), DownloadManager, InstallerBase.install and the Hugging Face *)
(* and local installers.  Everything of an installation is keyed by the    *)
(* model id, so one model is enough.                                       *)
(*                                                                         *)
(* The event loop runs the job (an asyncio task) up to its next await; the *)
(* awaits are the executor threads that fetch, hash and test the files.  A *)
(* cancelled task leaves its thread running and its staging directory as   *)
(* it is.  A directory maps each file to the chunks it holds; a chunk      *)
(* <<r, i>> is the i-th chunk of the file in revision r.                   *)
(***************************************************************************)
EXTENDS Naturals, Sequences

CONSTANTS
    Revision,     \* revisions of the upstream repository
    File,         \* files of any revision
    FilesOf,      \* FilesOf[r]: the files of revision r
    Chunks,       \* Chunks[f]: length of file f, the same in every revision
    Weights,      \* the files the smoke test counts as weights
    Fetchers,     \* subset of {"hub", "raw", "local"}
    MaxInstalls,  \* bound on the installations started
    MaxRestarts   \* bound on the restarts of the process

ASSUME InstallAssumption ==
    /\ FilesOf \in [Revision -> (SUBSET File) \ {{}}]
    /\ Chunks \in [File -> Nat \ {0}]
    /\ Weights \subseteq File
    /\ Fetchers \subseteq {"hub", "raw", "local"}
    /\ MaxInstalls \in Nat
    /\ MaxRestarts \in Nat

VARIABLES
    fetcher,   \* how this process fetches: huggingface_hub, raw HTTPS, local import
    status,    \* installation_status of the entry, in memory and in registry.json
    job,       \* the DownloadTask and the asyncio task that runs it
    thread,    \* executor thread of each installation started
    stage,     \* staging directory: whether it exists, and its files
    store,     \* directory of the model in the model store
    origin,    \* history: the installation the store's content comes from
    orphaned,  \* history: "downloading" was left behind without a job
    halved,    \* history: the process died between the two halves of an uninstall
    restarts

installVars == <<fetcher, status, job, thread, stage, store, origin, orphaned, halved, restarts>>

Install == 1..MaxInstalls
NoFiles == [f \in File |-> <<>>]
Whole(r, f) == IF f \in FilesOf[r] THEN [i \in 1..Chunks[f] |-> <<r, i>>] ELSE <<>>
Hole == <<"hole", 0>>

NoJob == [pc |-> "none", n |-> 0, rev |-> "none", sums |-> FALSE, cancel |-> FALSE,
          left |-> {}, fresh |-> FALSE, alone |-> FALSE]
NoThread == [st |-> "none", rev |-> "none", mode |-> "none", file |-> "none",
             at |-> 0, left |-> {}, dir |-> "stage"]
NoOrigin == [rev |-> "none", fresh |-> FALSE, checked |-> FALSE]

Live == job.pc \in {"queued", "fetching", "checking", "testing"}
Working(n) == thread[n].st \in {"ready", "running"}
OnDisk == store # NoFiles

InstallInit ==
    /\ fetcher \in Fetchers
    /\ status \in {"unknown", "none"}
    /\ job = NoJob
    /\ thread = [n \in Install |-> NoThread]
    /\ stage = [made |-> FALSE, has |-> NoFiles]
    /\ store = NoFiles
    /\ origin = NoOrigin
    /\ orphaned = FALSE
    /\ halved = FALSE
    /\ restarts = 0

-----------------------------------------------------------------------------
(* The controller's operations *)

(* install_model: the status becomes DOWNLOADING whatever it was; a job that
   is not done, a cancelled one included, makes start_install return. *)
InstallModel(r, sums) ==
    /\ status' = "downloading"
    /\ IF Live
       THEN /\ orphaned' = (orphaned \/ job.cancel)
            /\ UNCHANGED job
       ELSE /\ job.n < MaxInstalls
            /\ orphaned' = FALSE
            /\ job' = [pc |-> "queued", n |-> job.n + 1, rev |-> r, sums |-> sums,
                       cancel |-> FALSE, left |-> FilesOf[r],
                       fresh |-> stage.has = NoFiles,
                       alone |-> \A n \in Install : ~Working(n)]
    /\ UNCHANGED <<fetcher, thread, stage, store, origin, halved, restarts>>

(* cancel_install: DownloadManager.cancel is true while the task is not done. *)
CancelInstall ==
    /\ Live
    /\ job' = [job EXCEPT !.cancel = TRUE]
    /\ status' = "none"
    /\ UNCHANGED <<fetcher, thread, stage, store, origin, orphaned, halved, restarts>>

(* The open file handles of a directory that is removed write to no name. *)
HoldsFile(n) == thread[n].st = "running" /\ thread[n].mode # "path"

Unlink(d) == [n \in Install |-> IF HoldsFile(n) /\ thread[n].dir = d
                                THEN [thread[n] EXCEPT !.dir = "gone"] ELSE thread[n]]

\* Mutant: the directory goes, the registry still says installed.
UninstallModel_Mutant ==
    /\ status # "unknown"
    /\ store' = NoFiles
    /\ thread' = Unlink("store")
    /\ origin' = NoOrigin
    /\ UNCHANGED <<fetcher, status, job, stage, orphaned, halved, restarts>>

(* uninstall_model of a model that is neither active nor pinned. *)
UninstallModel ==
    /\ status # "unknown"
    /\ store' = NoFiles
    /\ thread' = Unlink("store")
    /\ status' = "none"
    /\ origin' = NoOrigin
    /\ UNCHANGED <<fetcher, job, stage, orphaned, halved, restarts>>

(* _ensure_registry_install_state, on the way into set_active_model: a model
   found on disk is recorded as installed. *)
EnsureInstallState ==
    /\ status \notin {"unknown", "installed"}
    /\ OnDisk
    /\ status' = "installed"
    /\ UNCHANGED <<fetcher, job, thread, stage, store, origin, orphaned, halved, restarts>>

-----------------------------------------------------------------------------
(* The job *)

Keep == UNCHANGED <<fetcher, origin, store, orphaned, halved, restarts>>

\* Mutant: a failed phase cleans up and does not tell the registry.
JobFails_Mutant ==
    /\ job' = [job EXCEPT !.pc = "ended"]
    /\ stage' = [made |-> FALSE, has |-> NoFiles]
    /\ thread' = Unlink("stage")
    /\ UNCHANGED <<fetcher, status, origin, store, orphaned, halved, restarts>>

(* A failed phase: _cleanup_staging, and FAILED through the progress callback. *)
JobFails ==
    /\ job' = [job EXCEPT !.pc = "ended"]
    /\ status' = "failed"
    /\ stage' = [made |-> FALSE, has |-> NoFiles]
    /\ thread' = Unlink("stage")
    /\ UNCHANGED <<fetcher, origin, store, orphaned, halved, restarts>>

(* The thread that fetches file f over raw HTTPS: existing_size and the mode
   are read here, before the thread opens the file. *)
RawThread(f) ==
    [st |-> "ready", rev |-> job.rev, mode |-> IF stage.has[f] = <<>> THEN "wb" ELSE "ab",
     file |-> f, at |-> Len(stage.has[f]), left |-> {f}, dir |-> "stage"]

(* snapshot_download and the local copy fetch every file, by path. *)
PathThread ==
    [st |-> "ready", rev |-> job.rev, mode |-> "path", file |-> "none", at |-> 0,
     left |-> FilesOf[job.rev], dir |-> "stage"]

(* _download_file_resumable skips a file that has its full size. *)
ToFetch(left) == {f \in left : Len(stage.has[f]) # Chunks[f]}

\* Mutant: the old directory is not removed, the staged files go over it.
Promoted_Mutant == [f \in File |-> IF stage.has[f] # <<>> THEN stage.has[f] ELSE store[f]]

(* What _promote leaves in the model store: the old directory is removed. *)
Promoted == stage.has

(* _promote and the done event, which records INSTALLED, without an await. *)
Promote ==
    /\ store' = Promoted
    /\ stage' = [made |-> FALSE, has |-> NoFiles]
    /\ thread' = [n \in Install |->
                    IF HoldsFile(n)
                    THEN [thread[n] EXCEPT !.dir = IF @ = "stage" THEN "store" ELSE "gone"]
                    ELSE thread[n]]
    /\ origin' = [rev |-> job.rev, fresh |-> job.fresh /\ job.alone,
                  checked |-> job.sums /\ job.alone]
    /\ status' = "installed"
    /\ job' = [job EXCEPT !.pc = "ended"]
    /\ halved' = FALSE
    /\ UNCHANGED <<fetcher, orphaned, restarts>>

HasWeights == \E f \in Weights : stage.has[f] # <<>>

(* The smoke test of a local import and the promotion do not await. *)
Smoke ==
    IF fetcher # "local"
    THEN job' = [job EXCEPT !.pc = "testing"] /\ UNCHANGED <<status, stage, thread>> /\ Keep
    ELSE IF HasWeights THEN Promote ELSE JobFails

(* Without files validation fails; with checksums it awaits their threads. *)
Validate ==
    IF stage.has = NoFiles THEN JobFails
    ELSE IF job.sums
    THEN job' = [job EXCEPT !.pc = "checking"] /\ UNCHANGED <<status, stage, thread>> /\ Keep
    ELSE Smoke

(* Start the next fetch, or go on to validation when none is left. *)
FetchNext(left) ==
    IF fetcher = "raw"
    THEN IF ToFetch(left) = {} THEN Validate
         ELSE \E f \in ToFetch(left) :
                /\ job' = [job EXCEPT !.pc = "fetching", !.left = left \ {f}]
                /\ thread' = [thread EXCEPT ![job.n] = RawThread(f)]
                /\ stage' = [stage EXCEPT !.made = TRUE]
                /\ UNCHANGED status /\ Keep
    ELSE /\ job' = [job EXCEPT !.pc = "fetching", !.left = {}]
         /\ thread' = [thread EXCEPT ![job.n] = PathThread]
         /\ stage' = [stage EXCEPT !.made = TRUE]
         /\ UNCHANGED status /\ Keep

JobBegins ==
    /\ job.pc = "queued" /\ ~job.cancel
    /\ FetchNext(job.left)

(* The repository listing, or the local path, is not there. *)
JobFindsNothing ==
    /\ job.pc = "queued" /\ ~job.cancel
    /\ JobFails

JobFetched ==
    /\ job.pc = "fetching" /\ ~job.cancel
    /\ thread[job.n].st = "done"
    /\ IF fetcher = "raw" THEN FetchNext(job.left) ELSE Validate

JobFetchFails ==
    /\ job.pc = "fetching" /\ ~job.cancel
    /\ thread[job.n].st = "failed"
    /\ JobFails

(* SHA-256 of every expected file, and the version of torch. *)
ChecksumsMatch == \A f \in FilesOf[job.rev] : stage.has[f] = Whole(job.rev, f)

JobChecked ==
    /\ job.pc = "checking" /\ ~job.cancel
    /\ \/ ChecksumsMatch /\ Smoke
       \/ JobFails

JobTested ==
    /\ job.pc = "testing" /\ ~job.cancel
    /\ \/ HasWeights /\ Promote
       \/ JobFails

(* CancelledError passes the except Exception of install: no cleanup, no
   progress event; the executor thread is not interrupted. *)
JobCancelled ==
    /\ Live /\ job.cancel
    /\ job' = [job EXCEPT !.pc = "ended"]
    /\ UNCHANGED <<status, thread, stage>> /\ Keep

-----------------------------------------------------------------------------
(* The executor threads *)

(* A write at position p of a file opened for writing, which another writer
   may have made shorter. *)
WriteAt(s, p, c) ==
    [i \in 1..(IF Len(s) > p THEN Len(s) ELSE p + 1) |->
        IF i = p + 1 THEN c ELSE IF i <= Len(s) THEN s[i] ELSE Hole]

Written(s, t) ==
    IF t.mode = "ab" THEN Append(s, <<t.rev, t.at + 1>>)
    ELSE WriteAt(s, t.at, <<t.rev, t.at + 1>>)

ThreadOnly == UNCHANGED <<fetcher, status, job, origin, orphaned, halved, restarts>>

(* open(dest, mode); a Range beyond the end of the file is refused. *)
RawOpens(n) ==
    /\ thread[n].st = "ready" /\ thread[n].mode # "path"
    /\ LET t == thread[n] IN
       IF stage.made /\ t.at < Chunks[t.file]
       THEN /\ thread' = [thread EXCEPT ![n].st = "running"]
            /\ stage' = IF t.mode = "wb" THEN [stage EXCEPT !.has[t.file] = <<>>] ELSE stage
       ELSE thread' = [thread EXCEPT ![n].st = "failed"] /\ UNCHANGED stage
    /\ UNCHANGED store /\ ThreadOnly

RawWrites(n) ==
    /\ thread[n].st = "running" /\ thread[n].mode # "path"
    /\ LET t == thread[n]
           last == t.at + 1 = Chunks[t.file]
       IN /\ thread' = [thread EXCEPT ![n].at = @ + 1,
                                      ![n].st = IF last THEN "done" ELSE @]
          /\ stage' = IF t.dir = "stage"
                      THEN [stage EXCEPT !.has[t.file] = Written(@, t)] ELSE stage
          /\ store' = IF t.dir = "store"
                      THEN [store EXCEPT ![t.file] = Written(@, t)] ELSE store
    /\ ThreadOnly

(* The local copy first removes what is staged. *)
PathOpens(n) ==
    /\ thread[n].st = "ready" /\ thread[n].mode = "path"
    /\ thread' = [thread EXCEPT ![n].st = "running"]
    /\ stage' = [made |-> TRUE, has |-> IF fetcher = "local" THEN NoFiles ELSE stage.has]
    /\ UNCHANGED store /\ ThreadOnly

(* One whole file is put in place. *)
PathWrites(n) ==
    /\ thread[n].st = "running" /\ thread[n].mode = "path"
    /\ \E f \in thread[n].left :
         /\ thread' = [thread EXCEPT ![n].left = @ \ {f},
                                     ![n].st = IF thread[n].left = {f} THEN "done" ELSE @]
         /\ stage' = [made |-> TRUE, has |-> [stage.has EXCEPT ![f] = Whole(thread[n].rev, f)]]
    /\ UNCHANGED store /\ ThreadOnly

(* The connection, the disk or the copy fails. *)
ThreadFails(n) ==
    /\ Working(n)
    /\ thread' = [thread EXCEPT ![n].st = "failed"]
    /\ UNCHANGED <<stage, store>> /\ ThreadOnly

ThreadStep(n) == RawOpens(n) \/ RawWrites(n) \/ PathOpens(n) \/ PathWrites(n)

-----------------------------------------------------------------------------
(* Restarts: registry.json and the directories are what is left; the
   DownloadManager is created without a state file. *)

Restart ==
    /\ restarts < MaxRestarts
    /\ restarts' = restarts + 1
    /\ job' = [NoJob EXCEPT !.n = job.n]
    /\ thread' = [n \in Install |-> NoThread]
    /\ UNCHANGED fetcher

CrashBetweenSteps ==
    /\ Restart
    /\ orphaned' = (orphaned \/ status = "downloading")
    /\ UNCHANGED <<status, stage, store, origin, halved>>

(* Between rmtree and the save of uninstall_model. *)
CrashInUninstall ==
    /\ status # "unknown"
    /\ Restart
    /\ store' = NoFiles
    /\ origin' = NoOrigin
    /\ halved' = TRUE
    /\ orphaned' = (orphaned \/ status = "downloading")
    /\ UNCHANGED <<status, stage>>

(* Between rmtree and move of _promote. *)
CrashInPromote ==
    /\ job.pc = "testing" /\ ~job.cancel /\ HasWeights
    /\ Restart
    /\ store' = NoFiles
    /\ origin' = NoOrigin
    /\ halved' = TRUE
    /\ orphaned' = (orphaned \/ status = "downloading")
    /\ UNCHANGED <<status, stage>>

Operation ==
    \/ \E r \in Revision, sums \in BOOLEAN : InstallModel(r, sums)
    \/ CancelInstall
    \/ UninstallModel
    \/ EnsureInstallState

JobStep ==
    \/ JobBegins \/ JobFindsNothing \/ JobFetched \/ JobFetchFails
    \/ JobChecked \/ JobTested \/ JobCancelled

InstallNext ==
    \/ Operation
    \/ JobStep
    \/ \E n \in Install : ThreadStep(n) \/ ThreadFails(n)
    \/ CrashBetweenSteps \/ CrashInUninstall \/ CrashInPromote

Fairness == WF_installVars(JobStep) /\ \A n \in Install : WF_installVars(ThreadStep(n))

InstallSpec == InstallInit /\ [][InstallNext]_installVars /\ Fairness

-----------------------------------------------------------------------------
(* Properties *)

(* An installation that began with an empty staging directory, and with no
   thread of an earlier one still running, leaves in the model store exactly
   the files of its revision, whatever was installed before; one that was
   given checksums and was alone leaves those files whole even when it resumed
   what an earlier, cancelled one had staged.  It stays so whatever later
   installations do until one of them is promoted. *)
CleanInstallIsWhole ==
    /\ origin.fresh => \A f \in File : store[f] = Whole(origin.rev, f)
    /\ origin.checked => \A f \in FilesOf[origin.rev] : store[f] = Whole(origin.rev, f)

(* A model that registry.json calls installed has its directory in the model
   store, unless the process died between the two halves of an uninstall or
   of a promotion and nothing has been promoted since. *)
InstalledIsOnDisk == status = "installed" => OnDisk \/ halved

(* An installation that was accepted comes to an end: DOWNLOADING does not
   last, unless a restart lost the job or the request was swallowed because a
   cancelled job was not done yet. *)
InstallsSettle == status = "downloading" ~> (status # "downloading" \/ orphaned)
=============================================================================
