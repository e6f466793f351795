----------------------------- MODULE ArchiveRun -----------------------------
(***************************************************************************)
(* One run of mongo-archive: archivePipeline.run with everything it calls  *)
(* that changes state (uploadBackupToStorages, the cleanup stack,          *)
(* closeStorages, sendNotification), followed by what its caller does with *)
(* the result (main in one-shot mode, the scheduled task in cron mode).    *)
(*                                                                         *)
(* Every external call may fail at any time, the process may be signalled  *)
(* at any time, and a call on a cancelled context fails.                   *)
(***************************************************************************)
EXTENDS Naturals, FiniteSets, Sequences

CONSTANTS
  NumBackends,      \* len(storageBackends)
  Kind,             \* [Backend -> {"Local", "Azure", "AWS", "GCP"}]
  Older,            \* managed backups (isEligibleBackupObject) of earlier runs
  New,              \* the object name of this run's archive
  NumDestinations,  \* len(notifications)
  MaxSignals        \* bound: SIGINT/SIGTERM deliveries in a behaviour

Backend == 1..NumBackends
Object == Older \cup {New}
Destination == 1..NumDestinations
Artifact == {"workspace", "dumpDir", "tarfile"}

ASSUME ArchiveRunAssumption ==
  /\ NumBackends \in Nat
  /\ Kind \in [Backend -> {"Local", "Azure", "AWS", "GCP"}]
  /\ New \notin Older
  /\ NumDestinations \in Nat
  /\ MaxSignals \in Nat

VARIABLES
  pc,         \* where the run is
  deferred,   \* registered deferred calls that have not run
  retErr,     \* what the joined return error holds: {} is nil
  report,     \* what a multiBackendArchiveError names, or NoReport
  open,       \* opened backends that nothing has closed
  files,      \* artifacts on disk
  cleanup,    \* cleanupStack.entries
  stuck,      \* artifacts whose removal returned an error (history)
  unseen,     \* artifacts passed over because os.Stat failed (history)
  keep,       \* cfg.HasKeep()
  retention,  \* ExpiryDays # 0
  store,      \* [Backend -> [Object -> "absent", "truncated" or "whole"]]
  uploaded,   \* len(uploadedBackends)
  retained,   \* len(retainedBackends)
  cancelled,  \* the root context is done
  handler,    \* the dump's interrupt handler: "off", "armed" or "fired"
  signals,    \* signals delivered so far
  notice,     \* the verdict being sent: "none", "success" or "failure"
  next,       \* the next destination of sendNotification's loop
  tried       \* destinations whose Send was called, with the verdict

config == <<keep, retention>>
backends == <<store, uploaded, retained, open>>
disk == <<files, cleanup, stuck, unseen>>
sigs == <<cancelled, handler, signals>>
notices == <<notice, next, tried>>
vars == <<pc, deferred, retErr, report, config, backends, disk, sigs, notices>>

NoReport == [phase |-> "none", received |-> {}, pruned |-> {}]

Body == {"getStorages", "createWorkspace", "newDump", "init", "dump", "tar",
         "buildObjectName", "upload", "retain"}
Deferred == {"notifySuccess", "closeStorages", "cleanup", "closeInterrupt"}

(* Deferred calls run last registered first; this is the order in which    *)
(* run registers them.                                                     *)
NoticeRegisteredLate ==
  [notifySuccess |-> 3, closeStorages |-> 1, cleanup |-> 2, closeInterrupt |-> 4]
NoticeBeforeClose ==
  [notifySuccess |-> 2, closeStorages |-> 1, cleanup |-> 3, closeInterrupt |-> 4]
Registered ==
  [notifySuccess |-> 1, closeStorages |-> 2, cleanup |-> 3, closeInterrupt |-> 4]

-----------------------------------------------------------------------------

Init ==
  /\ pc = "getStorages"
  /\ deferred = {"notifySuccess"}
  /\ retErr = {}
  /\ report = NoReport
  /\ open = {}
  /\ files = {} /\ cleanup = <<>> /\ stuck = {} /\ unseen = {}
  /\ keep \in BOOLEAN /\ retention \in BOOLEAN
  /\ store \in [Backend -> {f \in [Object -> {"absent", "whole"}] : f[New] = "absent"}]
  /\ uploaded = 0 /\ retained = 0
  /\ cancelled = FALSE /\ handler = "off" /\ signals = 0
  /\ notice = "none" /\ next = 1 /\ tried = {}

(* return err: the deferred calls run next. *)
Return(errs) ==
  /\ retErr' = retErr \cup errs
  /\ pc' = "unwind"

-----------------------------------------------------------------------------
(* The body of run up to the upload. *)

LeaveOpen(opened) == opened
CloseOpened(opened) == {}

(* All backends are opened, also after one failed; if any did, those that  *)
(* were opened are closed. No backend at all is an error of the caller.    *)
GetStorages ==
  /\ pc = "getStorages"
  /\ \/ /\ NumBackends > 0
        /\ open' = Backend
        /\ deferred' = deferred \cup {"closeStorages"}
        /\ pc' = "createWorkspace"
        /\ UNCHANGED retErr
     \/ /\ \E failed \in SUBSET Backend :
             /\ failed # {} \/ NumBackends = 0
             /\ open' = CloseOpened(Backend \ failed)
        /\ Return({"primary"})
        /\ UNCHANGED deferred
  /\ UNCHANGED <<report, config, store, uploaded, retained, disk, sigs, notices>>

CreateWorkspace ==
  /\ pc = "createWorkspace"
  /\ \/ /\ files' = files \cup {"workspace"}
        /\ cleanup' = Append(cleanup, "workspace")
        /\ deferred' = deferred \cup {"cleanup"}
        /\ pc' = "newDump"
        /\ UNCHANGED retErr
     \/ /\ Return({"primary"})
        /\ UNCHANGED <<files, cleanup, deferred>>
  /\ UNCHANGED <<report, config, backends, stuck, unseen, sigs, notices>>

(* newFilename, newDump and handleInterrupt. *)
NewDump ==
  /\ pc = "newDump"
  /\ \/ /\ handler' = "armed"
        /\ deferred' = deferred \cup {"closeInterrupt"}
        /\ pc' = "init"
        /\ UNCHANGED retErr
     \/ /\ Return({"primary"})
        /\ UNCHANGED <<handler, deferred>>
  /\ UNCHANGED <<report, config, backends, disk, cancelled, signals, notices>>

InitDump ==
  /\ pc = "init"
  /\ \/ pc' = "dump" /\ UNCHANGED retErr
     \/ Return({"primary"})
  /\ UNCHANGED <<deferred, report, config, backends, disk, sigs, notices>>

(* A dump that fails or is interrupted may leave part of its output, which *)
(* has no cleanup entry of its own.                                        *)
Dump ==
  /\ pc = "dump"
  /\ \/ /\ files' = files \cup {"dumpDir"}
        /\ cleanup' = Append(cleanup, "dumpDir")
        /\ pc' = "tar"
        /\ UNCHANGED retErr
     \/ /\ Return({"primary"})
        /\ files' \in {files, files \cup {"dumpDir"}}
        /\ UNCHANGED cleanup
  /\ UNCHANGED <<deferred, report, config, backends, stuck, unseen, sigs, notices>>

Tar ==
  /\ pc = "tar"
  /\ \/ /\ files' = files \cup {"tarfile"}
        /\ cleanup' = Append(cleanup, "tarfile")
        /\ pc' = "buildObjectName"
        /\ UNCHANGED retErr
     \/ /\ Return({"primary"})
        /\ files' \in {files, files \cup {"tarfile"}}
        /\ UNCHANGED cleanup
  /\ UNCHANGED <<deferred, report, config, backends, stuck, unseen, sigs, notices>>

(* Fails when the clock gave a name that is not a managed backup name. *)
BuildObjectName ==
  /\ pc = "buildObjectName"
  /\ \/ pc' = "upload" /\ UNCHANGED retErr
     \/ Return({"primary"})
  /\ UNCHANGED <<deferred, report, config, backends, disk, sigs, notices>>

-----------------------------------------------------------------------------
(* uploadBackupToStorages: phase 1, then phase 2. *)

(* A multiBackendArchiveError: its message names the backends that received*)
(* the archive and those that completed retention. The errors of the       *)
(* single-backend path name none.                                          *)
IndexedFromZero(phase) ==
  [phase |-> phase, received |-> 0..uploaded, pruned |-> 0..retained]
RetentionOnlyReport(phase) ==
  IF phase = "retention" /\ NumBackends > 1
    THEN [phase |-> phase, received |-> 1..uploaded, pruned |-> 1..retained]
    ELSE NoReport
Report(phase) ==
  IF NumBackends > 1
    THEN [phase |-> phase, received |-> 1..uploaded, pruned |-> 1..retained]
    ELSE NoReport

(* Where n completed uploads leave the run: retention starts after all. *)
RetainAfterEach(n) == "retain"
RetainOneEarly(n) == IF n + 1 >= NumBackends THEN "retain" ELSE "upload"
AfterUpload(n) == IF n = NumBackends THEN "retain" ELSE "upload"

(* Upload returns nil: the object is stored and was seen by the check that *)
(* follows the transfer.                                                   *)
UploadSucceeds(b) ==
  /\ ~cancelled
  /\ store' = [store EXCEPT ![b][New] = "whole"]
  /\ uploaded' = uploaded + 1
  /\ pc' = AfterUpload(uploaded + 1)
  /\ UNCHANGED <<retErr, report>>

(* What a failed Upload may have left under the object name: nothing; the  *)
(* whole object, when only the check or the answer was lost; and on GCP    *)
(* the bytes read so far, because the writer is closed after a failed copy.*)
LeftBehind(b) ==
  {store[b][New], "whole"} \cup (IF Kind[b] = "GCP" THEN {"truncated"} ELSE {})

(* Cancellation during the call is the failure here and Signal next to it. *)
UploadFails(b) ==
  /\ \E left \in IF cancelled THEN {store[b][New]} ELSE LeftBehind(b) :
        store' = [store EXCEPT ![b][New] = left]
  /\ report' = Report("upload")
  /\ Return({"primary"})
  /\ UNCHANGED uploaded

(* STORAGE_OPERATION_TIMEOUT is read before every storage operation: a     *)
(* value that is not a positive duration shows before the first upload.    *)
TimeoutInvalid ==
  /\ Return({"primary"})
  /\ UNCHANGED <<store, report, uploaded>>

Upload ==
  /\ pc = "upload"
  /\ \/ UploadSucceeds(uploaded + 1)
     \/ UploadFails(uploaded + 1)
     \/ uploaded = 0 /\ TimeoutInvalid
  /\ UNCHANGED <<deferred, config, retained, open, disk, sigs, notices>>

(* What isExpired may accept at the moment retention reads the clock: any  *)
(* object, this run's archive included, since the modification times come  *)
(* from the backend's clock and uploads to other backends may take long.   *)
PastExpiry == IF retention THEN SUBSET Object ELSE {{}}

(* What deleteExpiredObjects goes on to delete on b. *)
AllExpired(b, past) == {o \in past : store[b][o] # "absent"}
Deletable(b, past) == {o \in past : store[b][o] # "absent" /\ o # New}

Delete(b, gone) ==
  store' = [store EXCEPT ![b] = [o \in Object |->
              IF o \in gone THEN "absent" ELSE store[b][o]]]

(* DeleteOldObjects returns nil; with no expiry configured the cloud       *)
(* backends do so even on a cancelled context.                             *)
RetainSucceeds(b) ==
  /\ ~cancelled \/ (~retention /\ Kind[b] # "Local")
  /\ \E past \in PastExpiry : Delete(b, Deletable(b, past))
  /\ retained' = retained + 1
  /\ pc' = IF retained + 1 = NumBackends THEN "unwind" ELSE "retain"
  /\ UNCHANGED <<retErr, report>>

(* It stops at the first error: some of the deletions are done. *)
RetainFails(b) ==
  /\ retention \/ (cancelled /\ Kind[b] = "Local")
  /\ \E past \in PastExpiry :
       \E gone \in IF cancelled THEN {{}} ELSE SUBSET Deletable(b, past) :
         Delete(b, gone)
  /\ report' = Report("retention")
  /\ Return({"primary"})
  /\ UNCHANGED retained

Retain ==
  /\ pc = "retain"
  /\ RetainSucceeds(retained + 1) \/ RetainFails(retained + 1)
  /\ UNCHANGED <<deferred, config, uploaded, open, disk, sigs, notices>>

-----------------------------------------------------------------------------
(* The deferred calls. *)

RunsNext(d) ==
  /\ pc = "unwind"
  /\ d \in deferred
  /\ \A e \in deferred : Registered[e] <= Registered[d]

(* close(finishedChan): the interrupt handler ends. *)
CloseInterrupt ==
  /\ RunsNext("closeInterrupt")
  /\ handler' = "off"
  /\ deferred' = deferred \ {"closeInterrupt"}
  /\ UNCHANGED <<pc, retErr, report, config, backends, disk, cancelled, signals, notices>>

(* The entries left for cleanupStack.run once the last one was tried. *)
RetrySame(entries) == entries
Rest(entries) == SubSeq(entries, 1, Len(entries) - 1)

(* DeleteFile or DeleteDirectory on one entry, last registered first. The  *)
(* directories are removed with what is in them. Both functions return nil *)
(* when os.Stat fails, whatever the reason.                                *)
RemoveArtifact ==
  LET last == cleanup[Len(cleanup)] IN
  /\ RunsNext("cleanup")
  /\ ~keep
  /\ cleanup # <<>>
  /\ \/ /\ files' = IF last = "workspace" THEN {} ELSE files \ {last}
        /\ UNCHANGED <<retErr, stuck, unseen>>
     \/ /\ last \in files
        /\ retErr' = retErr \cup {"cleanup"}
        /\ stuck' = stuck \cup {last}
        /\ files' \in IF last = "workspace"
                        THEN {f \in SUBSET files : "workspace" \in f}
                        ELSE {files}
        /\ UNCHANGED unseen
     \/ /\ last \in files
        /\ unseen' = unseen \cup {last}
        /\ UNCHANGED <<files, retErr, stuck>>
  /\ cleanup' = Rest(cleanup)
  /\ UNCHANGED <<pc, deferred, report, config, backends, sigs, notices>>

CleanupDone ==
  /\ RunsNext("cleanup")
  /\ keep \/ cleanup = <<>>
  /\ deferred' = deferred \ {"cleanup"}
  /\ UNCHANGED <<pc, retErr, report, config, backends, disk, sigs, notices>>

(* Close is called on every backend, whatever the others returned. *)
CloseStorages ==
  /\ RunsNext("closeStorages")
  /\ open' = {}
  /\ retErr' \in {retErr, retErr \cup {"close"}}
  /\ deferred' = deferred \ {"closeStorages"}
  /\ UNCHANGED <<pc, report, config, store, uploaded, retained, disk, sigs, notices>>

(* No destination is tried when GetNotifications fails on one of them, or  *)
(* when NOTIFICATION_TIMEOUT is not a positive duration.                   *)
BeginNotice(verdict) ==
  /\ notice' = verdict
  /\ next' \in {1, NumDestinations + 1}
  /\ pc' = "notify"
  /\ UNCHANGED tried

(* The deferred call registered first. A nil retErr implies filename # "". *)
NotifySuccess ==
  /\ RunsNext("notifySuccess")
  /\ deferred' = deferred \ {"notifySuccess"}
  /\ \/ retErr = {} /\ BeginNotice("success")
     \/ retErr # {} /\ UNCHANGED <<pc, notices>>
  /\ UNCHANGED <<retErr, report, config, backends, disk, sigs>>

(* One iteration of sendNotification's loop; an error of Send is only      *)
(* logged, and a call on a done context is an error.                       *)
StopAtSendError(delivered) ==
  IF delivered THEN next + 1 ELSE NumDestinations + 1
NextDestination(delivered) == next + 1

Notify ==
  /\ pc = "notify"
  /\ next \in Destination
  /\ tried' = tried \cup {<<next, notice>>}
  /\ \/ ~cancelled /\ next' = NextDestination(TRUE)
     \/ next' = NextDestination(FALSE)
  /\ UNCHANGED <<pc, deferred, retErr, report, config, backends, disk, sigs, notice>>

NotifyDone ==
  /\ pc = "notify"
  /\ next \notin Destination
  /\ pc' = IF notice = "success" THEN "unwind" ELSE "exited"
  /\ UNCHANGED <<deferred, retErr, report, config, backends, disk, sigs, notices>>

(* run has returned. The caller announces a failure, then main exits with 1. *)
Returned ==
  /\ pc = "unwind"
  /\ deferred = {}
  /\ \/ retErr = {} /\ pc' = "exited" /\ UNCHANGED notices
     \/ retErr # {} /\ BeginNotice("failure")
  /\ UNCHANGED <<deferred, retErr, report, config, backends, disk, sigs>>

-----------------------------------------------------------------------------

(* SIGINT or SIGTERM. NotifyContext cancels the root context. The handler  *)
(* of signals.HandleWithInterrupt, while it runs, interrupts the dump on   *)
(* its first signal and calls os.Exit on its second.                       *)
Signal ==
  /\ pc \notin {"exited", "killed"}
  /\ signals < MaxSignals
  /\ signals' = signals + 1
  /\ cancelled' = TRUE
  /\ handler' = IF handler = "armed" THEN "fired" ELSE handler
  /\ pc' = IF handler = "fired" THEN "killed" ELSE pc
  /\ UNCHANGED <<deferred, retErr, report, config, backends, disk, notices>>

Ended ==
  /\ pc \in {"exited", "killed"}
  /\ UNCHANGED vars

Step ==
  \/ GetStorages \/ CreateWorkspace \/ NewDump \/ InitDump \/ Dump \/ Tar
  \/ BuildObjectName \/ Upload \/ Retain
  \/ CloseInterrupt \/ RemoveArtifact \/ CleanupDone \/ CloseStorages
  \/ NotifySuccess \/ Notify \/ NotifyDone \/ Returned

Next == Step \/ Signal \/ Ended

(* Every external call returns, so the goroutine that runs the pipeline    *)
(* keeps taking steps; no signal is ever owed.                             *)
Spec == Init /\ [][Next]_vars /\ WF_vars(Step)

-----------------------------------------------------------------------------
(* Properties. *)

(* The variables keep their types.                                         *)
TypeOK ==
  /\ pc \in Body \cup {"unwind", "notify", "exited", "killed"}
  /\ deferred \subseteq Deferred
  /\ retErr \subseteq {"primary", "cleanup", "close"}
  /\ report \in [phase : {"none", "upload", "retention"},
                  received : SUBSET Backend, pruned : SUBSET Backend]
  /\ open \subseteq Backend
  /\ files \subseteq Artifact
  /\ cleanup \in Seq(Artifact)
  /\ stuck \subseteq Artifact /\ unseen \subseteq Artifact
  /\ keep \in BOOLEAN /\ retention \in BOOLEAN
  /\ store \in [Backend -> [Object -> {"absent", "truncated", "whole"}]]
  /\ uploaded \in 0..NumBackends /\ retained \in 0..NumBackends
  /\ cancelled \in BOOLEAN
  /\ handler \in {"off", "armed", "fired"}
  /\ signals \in 0..MaxSignals
  /\ notice \in {"none", "success", "failure"}
  /\ next \in 1..(NumDestinations + 1)
  /\ tried \subseteq Destination \X {"success", "failure"}

(* A backend whose Upload returned nil keeps the whole archive for the rest*)
(* of the run: no retention, its own or a later backend's, successful or   *)
(* stopped half-way, removes it, even if the clocks disagree so much that  *)
(* the new object looks expired.                                           *)
NewArchiveSurvives ==
  \A b \in 1..uploaded : store[b][New] = "whole"

(* No older backup is ever deleted before every configured backend holds a *)
(* verified copy of the new archive, nor when no expiry is configured, nor *)
(* once the run is cancelled (README.md: "retention never starts until the *)
(* upload phase succeeds for all configured backends").                    *)
DeletionIsSafe ==
  [][\A b \in Backend, o \in Older :
        store[b][o] # "absent" /\ store'[b][o] = "absent" =>
          /\ uploaded = NumBackends
          /\ \A c \in Backend : store[c][New] = "whole"
          /\ retention /\ ~cancelled]_vars

(* With several backends, a failure after the first completed upload names *)
(* exactly the backends that verified the archive and exactly those that   *)
(* completed retention, and what it names is true of the backends          *)
(* (README.md: "the error output names which backends already received the *)
(* new archive or completed retention").                                   *)
ReportFaithful ==
  /\ NumBackends > 1 /\ "primary" \in retErr /\ uploaded > 0
       => report.phase # "none"
  /\ report.phase # "none" =>
       /\ report.received = 1..uploaded
       /\ report.pruned = 1..retained
       /\ \A b \in report.received : store[b][New] = "whole"

(* Whatever path run takes, when its result is announced the storages are  *)
(* closed, the interrupt handler is gone, and no artifact is left that is  *)
(* not kept on request, or left by a removal that failed and was reported, *)
(* or by one that os.Stat hid.                                             *)
ReturnReleasesEverything ==
  pc \in {"notify", "exited"} =>
    /\ open = {}
    /\ handler = "off"
    /\ keep \/ \A x \in files : {x, "workspace"} \cap (stuck \cup unseen) # {}
    /\ keep \/ files = {} \/ unseen # {} \/ "cleanup" \in retErr

(* Nobody is told "success", and the process does not exit with 0, unless  *)
(* every backend holds the archive and completed retention, the clients    *)
(* are closed and the workspace is gone.                                   *)
SuccessIsEarned ==
  notice = "success" \/ (pc = "exited" /\ retErr = {}) =>
    /\ \A b \in Backend : store[b][New] = "whole"
    /\ retained = NumBackends
    /\ open = {}
    /\ keep \/ files = {} \/ unseen # {}

(* A run announces one verdict, the one its exit code shows, and never     *)
(* takes a success back.                                                   *)
OneVerdict ==
  /\ pc = "exited" => notice = IF retErr = {} THEN "success" ELSE "failure"
  /\ \A d, e \in Destination :
        ~(<<d, "success">> \in tried /\ <<e, "failure">> \in tried)

(* A destination that cannot be reached does not keep the verdict from the *)
(* others: once one was tried, all are.                                    *)
EveryDestinationTried ==
  pc = "exited" /\ tried # {} =>
    \A d \in Destination : <<d, notice>> \in tried

(* Provided every external call returns, a run ends, with any combination  *)
(* of failures and signals.                                                *)
Terminates == <>(pc \in {"exited", "killed"})

(* What a run does to the backends is what BackupDelivery promises.        *)
Contract == INSTANCE BackupDelivery WITH
  delivered <- 1..uploaded,
  older <- [b \in Backend |-> {o \in Older : store[b][o] # "absent"}],
  verdict <- IF pc = "killed" /\ notice = "none" THEN "failure"
             ELSE IF notice = "none" THEN "pending" ELSE notice

Delivery == Contract!Spec

(* The claim of docs/tasks/20260804-165757-codebase-health-remediation.md, *)
(* line 372, that the artifacts are removed "on all exits unless --keep":  *)
(* it counts the exit that a second signal takes.                          *)
NothingLeftAtExit ==
  pc \in {"exited", "killed"} /\ ~keep /\ stuck \cup unseen = {} => files = {}
=============================================================================
