----------------------------- MODULE RestoreRun -----------------------------
(***************************************************************************)
(* One run of mongo-unarchive: restorePipeline.run with everything it calls*)
(* that changes state (the cleanup stack, closeStorages, the restore       *)
(* session, applyUpdates), to the exit of main.  As in ArchiveRun every    *)
(* external call may fail and a signal may come at any time.  The restore  *)
(* is two steps, its begin and its return, since it does not know the      *)
(* context: only the interrupt handler reaches it.                         *)
(***************************************************************************)
EXTENDS Naturals, Sequences

CONSTANTS
  MaxUpdates, \* bound: updates given to a run
  MaxSignals  \* bound: SIGINT/SIGTERM deliveries in a behaviour

ASSUME RestoreRunAssumption == MaxUpdates \in Nat /\ MaxSignals \in Nat

Artifact == {"workspace", "tarfile", "destDir", "staging"}

VARIABLES
  pc,         \* where the run is
  deferred,   \* registered deferred calls that have not run
  retErr,     \* what the joined return error holds: {} is nil
  open,       \* storages are open
  session,    \* the restore session is open
  files,      \* artifacts on disk
  cleanup,    \* cleanupStack.entries
  stuck,      \* artifacts whose removal returned an error (history)
  unseen,     \* artifacts passed over because os.Stat failed (history)
  keep,       \* cfg.HasKeep()
  dryRun,     \* cfg.DryRun
  hasUpdates, \* cfg.HasUpdates()
  wellFormed, \* the updates pass the decoder and the checks of parseUpdates
  requested,  \* how many updates the input holds
  db,         \* the target database: "untouched", "loading" or "loaded"
  applied,    \* updates the server acknowledged
  doubtful,   \* updates that failed and may have been applied (history)
  cancelled,  \* the root context is done
  handler,    \* the interrupt handler: "off", "armed" or "fired"
  signals     \* signals delivered so far

config == <<keep, dryRun, hasUpdates, wellFormed, requested>>
target == <<db, applied, doubtful>>
disk == <<files, cleanup, stuck, unseen>>
held == <<open, session>>
sigs == <<cancelled, handler, signals>>
vars == <<pc, deferred, retErr, config, target, disk, held, sigs>>

Body == {"parseUpdates", "createWorkspace", "getStorages", "select", "lookup",
         "download", "extract", "newRestore", "restore", "restoring", "connect",
         "update"}

(* The order of the defer statements of run; the calls run in reverse. *)
Registered == [cleanup |-> 1, closeStorages |-> 2, closeSession |-> 3, closeInterrupt |-> 4]

-----------------------------------------------------------------------------

Init ==
  /\ pc = "parseUpdates"
  /\ deferred = {} /\ retErr = {}
  /\ open = FALSE /\ session = FALSE
  /\ files = {} /\ cleanup = <<>> /\ stuck = {} /\ unseen = {}
  /\ keep \in BOOLEAN /\ dryRun \in BOOLEAN
  /\ hasUpdates \in BOOLEAN /\ wellFormed \in BOOLEAN
  /\ requested \in IF hasUpdates THEN 0..MaxUpdates ELSE {0}
  /\ db = "untouched" /\ applied = 0 /\ doubtful = {}
  /\ cancelled = FALSE /\ handler = "off" /\ signals = 0

(* return err: the deferred calls run next. *)
Fail ==
  /\ retErr' = retErr \cup {"primary"}
  /\ pc' = "unwind"

Proceed(to) == pc' = to /\ UNCHANGED retErr

-----------------------------------------------------------------------------
(* The body of run. *)

AnyUpdates == hasUpdates => wellFormed
UpdatesAccepted == hasUpdates => wellFormed /\ ~dryRun

(* parseUpdates; reading the input may fail too. *)
ParseUpdates ==
  /\ pc = "parseUpdates"
  /\ \/ UpdatesAccepted /\ Proceed("createWorkspace")
     \/ hasUpdates /\ Fail
  /\ UNCHANGED <<deferred, config, target, disk, held, sigs>>

CreateWorkspace ==
  /\ pc = "createWorkspace"
  /\ \/ /\ files' = files \cup {"workspace"}
        /\ cleanup' = Append(cleanup, "workspace")
        /\ deferred' = deferred \cup {"cleanup"}
        /\ Proceed("getStorages")
     \/ Fail /\ UNCHANGED <<files, cleanup, deferred>>
  /\ UNCHANGED <<config, target, stuck, unseen, held, sigs>>

(* GetStorages closes what it opened when it fails. *)
GetStorages ==
  /\ pc = "getStorages"
  /\ \/ /\ open' = TRUE
        /\ deferred' = deferred \cup {"closeStorages"}
        /\ Proceed("select")
     \/ Fail /\ UNCHANGED <<open, deferred>>
  /\ UNCHANGED <<config, target, disk, session, sigs>>

(* SelectRestoreStorage and getArchiveExtractionLimits. *)
Select ==
  /\ pc = "select"
  /\ Proceed("lookup") \/ Fail
  /\ UNCHANGED <<deferred, config, target, disk, held, sigs>>

(* GetTargetObjectName and ResolvePathWithinRoot. *)
Lookup ==
  /\ pc = "lookup"
  /\ \/ ~cancelled /\ Proceed("download")
     \/ Fail
  /\ UNCHANGED <<deferred, config, target, disk, held, sigs>>

(* A source that fails to close fails a download that is in place.         *)
Download ==
  /\ pc = "download"
  /\ \/ /\ ~cancelled
        /\ files' = files \cup {"tarfile"}
        /\ cleanup' = Append(cleanup, "tarfile")
        /\ Proceed("extract")
     \/ /\ Fail
        /\ files' \in IF cancelled THEN {files} ELSE {files, files \cup {"tarfile"}}
        /\ UNCHANGED cleanup
  /\ UNCHANGED <<deferred, config, target, stuck, unseen, held, sigs>>

(* UnTar; a failure to remove its staging directory goes unnoticed. It does*)
(* not know the context.                                                   *)
Extract ==
  /\ pc = "extract"
  /\ \/ /\ files' = files \cup {"destDir"}
        /\ cleanup' = Append(cleanup, "destDir")
        /\ Proceed("newRestore")
     \/ /\ Fail
        /\ files' \in {files, files \cup {"staging"}}
        /\ UNCHANGED cleanup
  /\ UNCHANGED <<deferred, config, target, stuck, unseen, held, sigs>>

(* newRestore and handleInterrupt. *)
NewRestore ==
  /\ pc = "newRestore"
  /\ \/ /\ session' = TRUE
        /\ handler' = "armed"
        /\ deferred' = deferred \cup {"closeSession", "closeInterrupt"}
        /\ Proceed("restore")
     \/ Fail /\ UNCHANGED <<session, handler, deferred>>
  /\ UNCHANGED <<config, target, disk, open, cancelled, signals>>

RestoreBegins ==
  /\ pc = "restore"
  /\ db' = IF dryRun THEN db ELSE "loading"
  /\ Proceed("restoring")
  /\ UNCHANGED <<deferred, config, applied, doubtful, disk, held, sigs>>

(* Where a restore that returned no error leaves the run: documents that   *)
(* failed one by one are counted, not returned.                            *)
AfterRestore == Proceed(IF requested > 0 THEN "connect" ELSE "unwind")

LogRestoreError == AfterRestore
OnRestoreError == Fail

(* A restore that was interrupted may have been done already. *)
RestoreReturns ==
  /\ pc = "restoring"
  /\ \/ /\ db' = IF db = "loading" THEN "loaded" ELSE db
        /\ AfterRestore
     \/ OnRestoreError /\ UNCHANGED db
  /\ UNCHANGED <<deferred, config, applied, doubtful, disk, held, sigs>>

(* operationContext and GetMongoClient. *)
Connect ==
  /\ pc = "connect"
  /\ \/ ~cancelled /\ Proceed("update")
     \/ Fail
  /\ UNCHANGED <<deferred, config, target, disk, held, sigs>>

(* After n acknowledged updates the loop of applyValidatedUpdates ends. *)
OneShort(n) == n + 1 >= requested
OneTooMany(n) == n > requested
LastUpdate(n) == n >= requested

RetryUpdate == Proceed("update")
OnUpdateError == Fail

(* One UpdateMany. An error may come after the server applied it, unless   *)
(* the context was done before it was sent.                                *)
Update ==
  /\ pc = "update"
  /\ \/ /\ ~cancelled
        /\ applied' = applied + 1
        /\ Proceed(IF LastUpdate(applied + 1) THEN "unwind" ELSE "update")
        /\ UNCHANGED doubtful
     \/ /\ OnUpdateError
        /\ doubtful' \in IF cancelled THEN {doubtful}
                         ELSE {doubtful, doubtful \cup {applied + 1}}
        /\ UNCHANGED applied
  /\ UNCHANGED <<deferred, config, db, disk, held, sigs>>

-----------------------------------------------------------------------------
(* The deferred calls. *)

RunsNext(d) ==
  /\ pc = "unwind"
  /\ d \in deferred
  /\ \A e \in deferred : Registered[e] <= Registered[d]

CloseInterrupt ==
  /\ RunsNext("closeInterrupt")
  /\ handler' = "off"
  /\ deferred' = deferred \ {"closeInterrupt"}
  /\ UNCHANGED <<pc, retErr, config, target, disk, held, cancelled, signals>>

(* mongorestore's Close; its wrapper always returns nil. *)
CloseSession ==
  /\ RunsNext("closeSession")
  /\ session' = FALSE
  /\ deferred' = deferred \ {"closeSession"}
  /\ UNCHANGED <<pc, retErr, config, target, disk, open, sigs>>

CloseStorages ==
  /\ RunsNext("closeStorages")
  /\ open' = FALSE
  /\ retErr' \in {retErr, retErr \cup {"close"}}
  /\ deferred' = deferred \ {"closeStorages"}
  /\ UNCHANGED <<pc, config, target, disk, session, sigs>>

(* The entries left for cleanupStack.run once the last one was tried. *)
StopAfterFirst(entries) == <<>>
Rest(entries) == SubSeq(entries, 1, Len(entries) - 1)

(* DeleteFile or DeleteDirectory on one entry, last registered first; the  *)
(* workspace goes with what is in it.                                      *)
RemoveArtifact ==
  LET last == cleanup[Len(cleanup)] IN
  /\ RunsNext("cleanup")
  /\ ~keep
  /\ cleanup # <<>>
  /\ \/ /\ files' = IF last = "workspace" THEN {} ELSE files \ {last}
        /\ UNCHANGED <<retErr, stuck, unseen>>
     \/ /\ last \in files
        /\ retErr' = retErr \cup {"cleanup"}
        /\ stuck' = stuck \cup {last}
        /\ files' \in IF last = "workspace"
                        THEN {f \in SUBSET files : "workspace" \in f}
                        ELSE {files}
        /\ UNCHANGED unseen
     \/ /\ last \in files
        /\ unseen' = unseen \cup {last}
        /\ UNCHANGED <<files, retErr, stuck>>
  /\ cleanup' = Rest(cleanup)
  /\ UNCHANGED <<pc, deferred, config, target, held, sigs>>

CleanupDone ==
  /\ RunsNext("cleanup")
  /\ keep \/ cleanup = <<>>
  /\ deferred' = deferred \ {"cleanup"}
  /\ UNCHANGED <<pc, retErr, config, target, disk, held, sigs>>

(* run returns and main exits, with 1 after an error. *)
Exit ==
  /\ pc = "unwind"
  /\ deferred = {}
  /\ pc' = "exited"
  /\ UNCHANGED <<deferred, retErr, config, target, disk, held, sigs>>

-----------------------------------------------------------------------------

(* SIGINT or SIGTERM: the context is cancelled, and the interrupt handler, *)
(* while it runs, interrupts the restore and exits at the second signal.   *)
Signal ==
  /\ pc \notin {"exited", "killed"}
  /\ signals < MaxSignals
  /\ signals' = signals + 1
  /\ cancelled' = TRUE
  /\ handler' = IF handler = "armed" THEN "fired" ELSE handler
  /\ pc' = IF handler = "fired" THEN "killed" ELSE pc
  /\ UNCHANGED <<deferred, retErr, config, target, disk, held>>

Ended ==
  /\ pc \in {"exited", "killed"}
  /\ UNCHANGED vars

Step ==
  \/ ParseUpdates \/ CreateWorkspace \/ GetStorages \/ Select \/ Lookup
  \/ Download \/ Extract \/ NewRestore \/ RestoreBegins \/ RestoreReturns
  \/ Connect \/ Update
  \/ CloseInterrupt \/ CloseSession \/ CloseStorages \/ RemoveArtifact
  \/ CleanupDone \/ Exit

Next == Step \/ Signal \/ Ended

(* The run is one goroutine whose calls return; signals need not come.     *)
Spec == Init /\ [][Next]_vars /\ WF_vars(Step)

-----------------------------------------------------------------------------
(* Properties. *)

(* The variables keep their types.                                         *)
TypeOK ==
  /\ pc \in Body \cup {"unwind", "exited", "killed"}
  /\ deferred \subseteq {"cleanup", "closeStorages", "closeSession", "closeInterrupt"}
  /\ retErr \subseteq {"primary", "cleanup", "close"}
  /\ open \in BOOLEAN /\ session \in BOOLEAN
  /\ files \subseteq Artifact
  /\ cleanup \in Seq(Artifact)
  /\ stuck \subseteq Artifact /\ unseen \subseteq Artifact
  /\ keep \in BOOLEAN /\ dryRun \in BOOLEAN
  /\ hasUpdates \in BOOLEAN /\ wellFormed \in BOOLEAN
  /\ requested \in 0..MaxUpdates
  /\ db \in {"untouched", "loading", "loaded"}
  /\ applied \in 0..requested
  /\ doubtful \subseteq 1..requested
  /\ cancelled \in BOOLEAN
  /\ handler \in {"off", "armed", "fired"}
  /\ signals \in 0..MaxSignals

(* Updates that are malformed, or come with a dry run, are refused before  *)
(* anything is downloaded, and a dry run writes nothing whatever it is     *)
(* given (docs: "Dry-run with updates performs zero writes").              *)
RefusedTouchesNothing ==
  /\ hasUpdates /\ (dryRun \/ ~wellFormed) => files = {} /\ ~open /\ ~session
  /\ dryRun \/ (hasUpdates /\ ~wellFormed) =>
       db = "untouched" /\ applied = 0 /\ doubtful = {}

(* Nothing is sent twice and nothing out of order: an update whose outcome *)
(* is unknown is the one after the acknowledged ones, and the run that     *)
(* sent it fails; so an operator knows what a retry has to start from.     *)
AtMostOneInDoubt ==
  doubtful # {} => doubtful = {applied + 1} /\ "primary" \in retErr

(* Whatever path run takes, the storages and the session are closed when   *)
(* the process exits, the handler is gone, and no artifact is left that is *)
(* not kept on request, or left by a removal that failed and was reported, *)
(* or by one that os.Stat hid: also the staging directory of an extraction *)
(* that no cleanup entry names.                                            *)
ExitReleasesEverything ==
  pc = "exited" =>
    /\ ~open /\ ~session
    /\ handler = "off"
    /\ keep \/ \A x \in files : {x, "workspace"} \cap (stuck \cup unseen) # {}
    /\ keep \/ files = {} \/ unseen # {} \/ "cleanup" \in retErr

(* The process exits with 0 only after a restore that returned no error    *)
(* and all the updates, with the clients closed and the artifacts removed. *)
SuccessIsEarned ==
  pc = "exited" /\ retErr = {} =>
    /\ dryRun \/ db = "loaded"
    /\ applied = requested
    /\ ~open /\ ~session
    /\ keep \/ files = {} \/ unseen # {}

(* Every run ends, whatever fails on the way and however many of its       *)
(* artifacts cannot be removed.                                            *)
Terminates == <>(pc \in {"exited", "killed"})

(* What a run does to the database is what RestoreContract promises.       *)
Contract == INSTANCE RestoreContract WITH
  data <- db,
  verdict <- IF pc = "killed" THEN "failure"
             ELSE IF pc # "exited" THEN "pending"
             ELSE IF retErr = {} THEN "success" ELSE "failure"

Delivery == Contract!Spec
=============================================================================
