# A TLA+ model of database-tools

`database-tools` is two Go programs. `mongo-archive` dumps a MongoDB database,
packs the dump, uploads it to one or more storage backends and deletes expired
backups there, once or on a cron schedule. `mongo-unarchive` finds a backup,
downloads and extracts it, restores it and applies updates. This directory
holds TLA+ modules that model the parts of these programs that are hard to
test, TLC configurations that check them on small instances, and proofs, checked
by TLAPS, of the properties that matter most.

## Inventory

| Component | State | Operations | What is hard | What makes it correct |
|---|---|---|---|---|
| Archive run: `mongoarchive/main/mongoarchive.go`, `archivePipeline` | opened storages, workspace and artifacts, cleanup stack, deferred calls, the joined error, lists of uploaded and retained backends | `run`, `uploadBackupToStorages`, `cleanupStack.run`, `closeStorages`, `sendNotification`, `main` | every step can fail; signals at any time; the order of deferred calls; partial success over several backends | no old backup is deleted before all backends hold the new one; the error tells the truth about partial state; success is announced only when it is final; nothing is left behind |
| Cron runtime: same file, `cronRuntime` | scheduler, running job, signal channels, signal context | `run`, `Schedule`, `Start`, `Shutdown`, `waitForShutdown` | three receivers of one signal; a job that hangs; a job that outlives the context | a signal stops the process; failures are announced as long as the scheduler runs |
| Backup contract: `storage/backup_contract.go`, `selection.go`, `retention.go`, `listing.go` | none (pure functions) | eligibility, expiry, latest selection, lookup candidates, retention | equal times, page boundaries, clocks that disagree, foreign objects, failing existence checks | the newest managed backup is chosen; an explicit name is never redirected; retention stays in scope and leaves something to restore |
| Storage backends: `storage/local.go`, `aws.go`, `azure.go`, `gcp.go` | the bucket or directory | `Init`, `Upload`, `GetTargetObjectName`, `Download`, `DeleteOldObjects`, `Close` | several processes on one bucket; paged listings that change underneath; uploads that fail after storing | the newest backup survives all retention; a restore finds it; a walk over the local directory stands what other runs do in it |
| Restore pipeline: `mongounarchive/main/mongounarchive.go` | workspace, cleanup stack, storages, restore session | `run`, `applyUpdates`, `parseUpdates` | failures and signals at every step; updates applied one by one | cleanup on every path; updates only after a restore that succeeded |
| File utilities: `utils/file.go` | files and temporary files | `WriteFileAtomically`, `CopyFileAtomically`, `Tar`, `UnTar`, `DeleteFile`, `DeleteDirectory` | crashes between two file operations; limits at their boundary | a destination is old or new, never half written; limits are never exceeded |
| Notifications: `notification/` | connections | `Send` of SMTP, SES, Slack, Rocket.Chat | the SMTP dialogue, timeouts | a verdict reaches every destination that works |
| Configuration: `internal/toolconfig`, `flags.go` of both programs, `utils/env.go` | variables and flags | parsing, `GetStorages`, `AppendToolOptions`, `MongoClientOptions`, `GetNotifications` | one option has up to four settings, and two translations; a backend that fails to open after others were opened | the restore looks where the archive stores; the updates reach the server the restore reached, as the same user; what was opened is closed |
| Small helpers (`utils/date.go`, `db.go`, `array.go`), flag documentation, scripts, sandbox, examples | none | - | - | - |

How they interact: `main` creates a context that a signal cancels, and calls the
pipeline directly or from the scheduler. The pipeline obtains its storages from
the configuration, drives the MongoDB tools and the file utilities, calls the
storages one after the other, and hands the outcome to the notifications. The
four storages share the contract functions. Archivers and restorers on different
hosts meet only in the bucket; nothing coordinates them.

`PROJECT.json` lists the hazards with their lines.

## Modules

| Module | Models | Kind |
|---|---|---|
| `BackupDelivery` | what a run promises about its backends (README, "Multi-Backend Archive Contract") | abstract specification |
| `ArchiveRun` | one run of `mongo-archive`, to the exit of the process | detailed specification, implements `BackupDelivery` |
| `ArchiveRun_proofs` | theorems about what `ArchiveRun` does to the backends, and about how it returns: resources, artifacts, announcement | proofs |
| `BackupContract` | the pure functions of `storage/` | operators checked over all contents of a small backend |
| `SharedStorage` | several archivers and restorers on one bucket | specification |
| `SharedStorage_proofs` | theorems about `SharedStorage` | proofs |
| `CronRuntime` | `mongo-archive --cron` and its signals | specification |
| `CronRuntime_proofs` | theorems about `CronRuntime` | proofs |
| `RestoreContract` | what a run of `mongo-unarchive` promises about the database | abstract specification |
| `RestoreRun` | one run of `mongo-unarchive`, to the exit of the process | detailed specification, implements `RestoreContract` |
| `RestoreRun_proofs` | theorems about `RestoreRun` | proofs |
| `AtomicCell` | what `WriteFileAtomically` promises | abstract specification |
| `AtomicWrite` | `WriteFileAtomically` as its callers use it, several at once | detailed specification, implements `AtomicCell` |
| `LocalDirectory` | the directory of the local backend: uploads (composes `AtomicWrite`), the walks of retention and restore, deletion and download | specification, implements `AtomicCell` |
| `LocalDirectory_proofs` | theorems about `AtomicWrite` and `LocalDirectory` | proofs |
| `Configuration` | which setting of an option counts, the backends it enables, the two translations of the MongoDB options | operators checked over all settings |
| `Decisions_proofs` | theorems about the two modules of pure functions, `BackupContract` and `Configuration` | proofs |
| `Extraction` | `UnTar` with its limits and staging directory | specification |
| `Extraction_proofs` | theorems about `Extraction` | proofs |
| `SmtpSend` | `SMTP.Send`: one notification to one server | specification |
| `SmtpSend_proofs` | theorems about `SmtpSend` | proofs |
| `MCArchiveRun`, `MCBackupContract`, `MCSharedStorage`, `MCLocalDirectory`, `MCConfiguration`, `MCExtraction` | the values of the constants | model checking |

### ArchiveRun

`pc` walks through `run`; each action is one call with what surrounds it up to
the next call that can fail, and has a succeeding and a failing disjunct.
`deferred` is the set of registered deferred calls; `Registered` gives the order
of their `defer` statements and `RunsNext` runs them in reverse. `retErr` is the
named result, as the set of the errors joined into it, so `{}` is nil. `report`
is what a `multiBackendArchiveError` says. `store` is what each backend holds;
`uploaded` and `retained` are the lengths of the two lists of
`uploadBackupToStorages`. `stuck` and `unseen` are history: artifacts whose
removal returned an error, and artifacts that `DeleteFile`/`DeleteDirectory`
passed over because `os.Stat` failed (both return nil on any error of `Stat`).

What is abstract: which objects are expired. `PastExpiry` lets a backend's
retention see any set of objects as expired, also the archive of this run, since
the modification times are the backend's and the current time the host's; and a
retention that fails may have deleted any part of them. A failed upload leaves
nothing, the whole object (the check after the transfer failed) or, on GCS,
whose writer is closed after a failed copy, the bytes so far. A cancelled
context fails every upload and every retention that has something to do. The
retention of one backend is one step, so a signal comes before or after it, not
between two of its deletions; what happens in between, page by page and
deletion by deletion, is in `SharedStorage`. The
Local backend checks the context even without an expiry, the cloud ones return
before they use it.

`Signal` is one delivery to both receivers: the signal context, which is
cancelled, and the MongoDB tools' interrupt handler while it is registered, which
interrupts the dump on its first signal and calls `os.Exit` on its second.

`GetStorages` opens every configured backend, also after one failed, and closes
what it opened when any failed; `failed` is the set of those.

### BackupContract

The operators carry the names of the Go functions. Names are pairs of a
directory and a last component; what a string contains beyond that (the regular
expression) is membership in `Stamped`. The state machine only generates
contents: any name, any time, any order, and one name whose existence check
fails. The properties quantify over the page sizes, clocks, expiries and requests.
The loops over a page and over the pages are folds whose step is the body of the
loop (`ChooseEligible`, `ChooseFromPage`); `Scoped` is what a listing shows and
`Listing` the order it shows it in.
`SelectRestoreStorage` is the set of backends a restore may read from: one, or
none when the code returns an error.

### SharedStorage

An archiver takes a name, uploads, lets time pass while it serves other
backends, reads the clock once, and then lists and deletes page by page, one
deletion per step. `plan` is what the current page showed as expired: other
processes run between the listing and each deletion. A restorer lists page by
page, keeps the best candidate so far, and downloads in a later step. A failed
upload may store nothing, the whole archive, or, with `FailureCommits`, a part
of it under the same name: the GCS writer is closed after a failed copy and
commits what it got (`StorePart`). Such an object is in `truncated`: retention
and selection take it for a backup, since nothing but its content tells, and the
properties that speak of a backup that is left mean a whole one. They hold
because the run that left the part does not go on to its retention. A run may
end at any point (`Abort` is an error of another backend as well as a crash).
The Local backend, which lists everything before it deletes, is the case of a
page that holds all names. `Forget` is the return of `run` and of what it called:
object name, current time and page are locals of theirs. Names are distinct here; two local runs that take
one name in the same millisecond are in `LocalDirectory`.

`MaxStall` bounds the days between a run's upload and the start of its
retention, `MaxSkew` how far host clocks are off the backend's. Both are
parameters because the code relies on them: a run only protects its own object.
If two archivers both stalled longer than the expiry between upload and
retention, each could delete the other's new backup; hence the assumption

    Prompt == MaxStall + MaxSkew <= ExpiryDays

of the theorems. It is a statement about deployments (days, against runs of
minutes), not about the code, and with one archiver it is not needed
(theorem `AloneKeepsNewest`).

### CronRuntime

The main goroutine, the scheduled job, the context goroutine and the signals are
separate processes. The job is "work that may use the context" and an outcome;
`handler` is the interrupt handler of the run in progress. A run may succeed
although its context is done, when the signal comes after the last use of it.
`Shutdown` waits for
the job, for the stop timeout of gocron at most (`GiveUp`).

### RestoreRun

The same shape as `ArchiveRun`: `pc` walks through `run`, `Registered` orders
its deferred calls, `retErr` is the joined result, `stuck` and `unseen` are
history. `db` is the target database (`loading` from the begin of the restore,
`loaded` when it returned without an error), `applied` counts the acknowledged
updates, and `doubtful` holds updates that failed after the server may have
applied them. The restore is two steps, since a signal in between reaches it
through the interrupt handler; it is the only part of a run that does. The
context stops lookup, download, connecting and updates, but neither
`utils.UnTar` nor `restore.Restore` knows it: a signal that comes before the
handler is registered does not keep the database from being loaded, and the run
fails only if there are updates. The model has these behaviours; nothing in the
repository promises otherwise. Documents that the restore counts as failed are
part of a restore that returned no error. The closing of the client
of the updates is not modelled: `applyUpdates` defers its `Disconnect` and drops
the error.

### AtomicWrite and LocalDirectory

A writer of `AtomicWrite` is one call of `WriteFileAtomically`; its steps are
file operations, and each may fail (`Break`), or the process may end (`Crash`).
Contents are buffers with the name of who wrote them, so a mixed or truncated
file is none of the writers' and `Owner` maps it to a value `AtomicCell` does not
allow. Several writers may have one name (`NameOf`); each name is a cell of its
own, and `Replaces` is about any one of them (`Watched`). The callers (`copyFile`
of the local storage, `CopyFileAtomically`) close their source last, and its
error fails a copy that is in place already (`Finish`).

`LocalDirectory` composes the writers with what reads the same directory. The
names are read at once, then each file is looked at in a step of its own
(`Lstat`), in the order of `filepath.Walk`; between two of these steps a
temporary file may be renamed or removed, which ends the walk with an error.
That is what the code does: the `.partial-` file of another run, in progress
or being cleaned up, can fail a restore or a retention that was not concerned
by it. `WalksAreSound` says how far that goes: a walk that failed names a file
that is gone (a leftover that stays fails nobody), a restore that downloaded has a whole
backup, and a backup that was chosen and is missing has another beside it.
Only backups from before are expired, because a run starts its retention before
its own upload can look expired (`SharedStorage`).

### Configuration

A state is a set of settings: for each variable prefix and command line, and
each option, a text, possibly empty. `Bind` gives the value an option has in a
command: a flag that is given, else the first variable that is not empty, else
the default. From these `Enabled` and `Place` are the backends and where they
keep backups; `AppendToolOptions` are the arguments of mongorestore,
`MongoClientOptions` what the client of the updates is made with. To compare
these, both become one record: the servers, who signs in where (`Login`), TLS
(`Tls`) and the database.

What the two readers do with what they are given is external and not in this
repository; it is modelled from mongo-tools and mongo-driver/v2 at the versions
of `go.mod`, as known from outside:

- mongorestore (`ToolConnection`) looks for the user in
  `--authenticationDatabase`, else in `$external` for the mechanisms that keep
  users there (`ExternalMechanism`), else in `--db`, else in admin. It reads the
  TLS files only with `--ssl`. Credentials of a `--uri` come before the flags,
  and flags that contradict it may be refused (`ToolMayRefuse`).
- the driver, which gets a URI with the path `/`, looks in `authSource`, else in
  `$external`, else in admin; `tlsCAFile` and `tlsCertificateKeyFile` in a URI
  turn TLS on by themselves.
- without a user name and a mechanism neither signs in (`NoLogin`).

`UpdatesFollowHost` says what holds of these without a `--uri`, and names the two
defaults in which they differ: the database of the user, and TLS with a file but without `--ssl`, where the updates
are the better protected ones. `UpdatesFollowRestore` is the unconditional
requirement. It fails for both defaults too; the run `update_identity` varies
what stands beside a URI, where this program itself is the cause. The
texts of hosts and URIs are what their parsing gives (`HostList`, `Uri`);
quoting is left out, and so are the options that are handed on untouched to one
side only (query, namespaces, tuning) or treated like `ssl` and `sslPEMKeyFile`
(the invalid-certificate switches, the PEM password, GSSAPI).

### Extraction

`Extraction` lets the archive be any sequence of headers. A path is a sequence
of names, so that a file may be in the way of a directory and the reverse; links,
special files and refused paths end the extraction (`ReadFails`). The byte
counters are signed integers up to `MaxInt` that wrap around (`Wrap`). `writeArchiveFile` drops the error of
`Close`: `lost` records the files that may be short because of it, and
`DestinationIsWhole` has to except them. The destination may exist: with an
object name that has no extension it is the downloaded archive itself.

### SmtpSend

`pc` is the command `Send` is at; `waiting` says that it was sent and the answer
is due, and `armed` that the connection has a deadline. The server is part of the
model: it may announce STARTTLS or not, answer, refuse at any command, or be
silent for ever, and what it did with a message whose answer is lost is open
(`MayHaveAccepted`). The context may be done at any moment; the goroutine of
`closeConnOnContextDone` then closes the connection under `Send`. Reading several
lines of an answer, addresses and the text of the message are left out; a header with
a line break is a failure of `Check`. That `net/smtp` refuses to
give a password to a remote host in clear is modelled as external
(`PasswordRefused`).

## Runs

| Run | Question | Bounds and why they suffice |
|---|---|---|
| `archive_run` | What does one run store, delete, report, announce and leave, whatever fails? | 3 backends (a failure before, between and after others; Local, S3, GCS: the three ways of failing), 1 older backup (objects are treated one by one), 2 destinations, 2 signals (a third finds the process gone) |
| `nothing_left` | Are artifacts removed on all exits? No: a finding | the same |
| `backup_contract` | Do selection, lookup and retention do what they must on every content? | 3 objects out of 9 names, 4 clock readings (older, equal, newer, expired), a name stands in the root, under the prefix or below it |
| `shared_storage` | What can archivers and a restorer do to each other? | 2 archivers, 1 restorer, 3 names, pages of one object (every page boundary), expiry 2 days, 1 day between upload and retention and clocks 1 day off, which is all that `Prompt` allows, 3 days, so that a host whose clock is ahead finds the first day expired on the last, failed uploads that store a part. Names and days are used up, so the system may stop: deadlock is not checked |
| `cron` | Does the process stop, cleanly, and announce failures? | 3 runs, 3 signals (wake up, interrupt, exit) |
| `cron_early_signal` | And with a signal before `waitForShutdown` listens? Not so: a finding | 1 signal, 2 runs |
| `restore_run` | What reaches the database, in which order, what is left, and does the run end? | 3 updates (first, middle, last), 2 signals |
| `local_directory` | Is a backup ever mixed, short or replaced late, and what do walks meet while others write and prune? | 2 writers that took the same name and both prune, 1 restore, files of 2 buffers (a first and a last write), 2 older backups (a retention stops between two deletions). All calls end: deadlock is not checked |
| `configuration` | Do the two commands, and the restore and its updates, mean the same by the same settings? | all choices of up to 3 settings over 11 options and 6 places, without a `--uri` (three relate two options of one translation, or two places of one option, and one that disturbs); host lists of one, of several and with a gap. The operator stops at 3: deadlock is not checked |
| `update_identity` | And with a `--uri`? Not so: a finding | the same, over a URI with and without credentials and 5 options beside it |
| `extraction` | Are the limits kept, and is the destination replaced only by the whole archive? | 3 paths (a directory, a file in it, one beside it), counters that wrap at 7, sizes and limits at both ends. All calls end: deadlock is not checked |
| `smtp_send` | Does a notification end, in clear only on request, and mean what it returns? | 3 recipients (first, middle, last); all options and both kinds of server |

Each property of a passing run has a mutant in `PROJECT.json`: a plausible bug in
a definition, under which TLC finds the property violated.

### Fairness

`ArchiveRun` assumes `WF_vars(Step)`: the goroutine that runs the pipeline keeps
running, and every external call returns, with a result or an error. Without
`STORAGE_OPERATION_TIMEOUT` that is what the client libraries give; with it the
context ends the call. Signals are never owed. `CronRuntime` assumes weak
fairness of the main goroutine (gocron's stop timeout included, a timer) and of
the goroutine that cancels the context; the job may hang for ever and nothing is
owed by the clock or the operator. `SmtpSend` assumes it of the sending
goroutine, whose deadlines are timers, and of the watcher; the server owes
nothing. `RestoreRun` assumes `WF_vars(Step)` like `ArchiveRun`. The restore
itself has no time limit in the code, so that it returns is an assumption about
mongorestore; with it, `Terminates` says that no failure, signal or refused
update keeps a run from its exit. `SharedStorage`, `BackupContract`,
`AtomicWrite`, `LocalDirectory`, `Configuration` and `Extraction` state safety
only: their processes may stop anywhere.

## Theorems

`ArchiveRun_proofs`, for every number and kind of backends, set of older
backups, number of destinations and of signals, from `ArchiveRunAssumption`:

- `TypeCorrect`, `ArchiveSurvives`, `DeletionSafe`, `ReportIsFaithful` state
  `TypeOK`, `NewArchiveSurvives`, `DeletionIsSafe`, `ReportFaithful`.
- `RunImplementsContract`: `Spec => Delivery`.

The inductive invariant `RunInv` adds to `TypeOK` and `NewArchiveSurvives` how
far the counters are at each `pc` (uploads are complete when retention begins,
nothing is uploaded before the upload phase) and what the verdicts imply
(`Phases`, `Verdicts`): `DeletionIsSafe` needs the former and the refinement the
latter, since the abstract contract allows success only after full delivery.
`ReportInv` ties the report to the counters; it needs the fact that `run` never
goes back to a phase it left. Only `Upload` and `Retain` change the stores
(`OnlyUploadAndRetainStore`), which carries most of the steps.

The same module, about the way back:

- `ReturnIsClean`, `SuccessIsTrue`, `VerdictIsOne`, `AllDestinationsTried` state
  `ReturnReleasesEverything`, `SuccessIsEarned`, `OneVerdict`,
  `EveryDestinationTried`.

`ReleaseInv` says that what is held has its deferred call, that the workspace is
at the bottom of the cleanup stack for as long as there is one, and that a failed
removal is in the result. `VerdictInv` follows the loop of `sendNotification`
and needs it: a signal that kills the process after a success was announced
is excluded because the handler is gone by then.

`SharedStorage_proofs`, for any archivers, restorers and page size, with and
without truncated objects, from `SharedStorageAssumption`:

- `NewestIsKept` and `DeletionLeavesNewer` state `NewestSurvives` and
  `DeletedOnlyWhenNewer`, under `Prompt`.
- `MissingIsReplaced` states `MissingMeansNewer`, under `Prompt`.
- `AloneKeepsNewest` states `NewestSurvives` for one archiver, without `Prompt`:
  it may stall past the expiry, and its clock may be wrong.
- `TypeCorrect` and `NewestIsPicked` state `TypeOK` and `PickIsNewest`, without
  any assumption on stalls and clocks.
- `RetentionIsComplete` states `RetentionComplete` when host clocks are off by
  no more than the expiry (`MaxSkew <= ExpiryDays`): a host whose clock is further
  ahead can find expired what another run stores behind its listing.

`NewestSurvives` alone is not inductive: a plan may be old when it is carried
out. `StorageInv` says that everything in a plan is strictly older than
something still stored: what is planned was expired at the run's clock, the
run's own upload was not, and modification times only grow. `AloneKeepsNewest` needs
another argument, `OwnIsNewest`: as long as its run lasts, the object that a
single archiver preserves is itself the newest. `MissingIsReplaced` adds what a
restore knows: what it saw as the best was stored with that time, and either is
still, or a later whole backup is (`LookKnows`).

The invariants are built on one another: `BaseInv` (types, clocks, plans) needs
no assumption, `StorageInv` adds `NewestSurvives`. `PickInv` says how far a lookup
has read and that its best candidate covers everything before that place that
was there all along; `SweepInv` says that behind the place of a retention all
that is expired is in its plan. Both need what a page is (`Listing`: a page ends
at a place, and shows all that is stored up to it), and that a finite set has
a largest name (`LargestName`).

`RestoreRun_proofs`, for every number of updates and signals, from
`RestoreRunAssumption`:

- `TypeCorrect`, `RefusalIsHarmless`, `DoubtIsBounded` state `TypeOK`,
  `RefusedTouchesNothing`, `AtMostOneInDoubt`.
- `RestoreImplementsContract`: `Spec => Delivery`.
- `ExitIsClean`, `SuccessIsTrue` state `ExitReleasesEverything` and
  `SuccessIsEarned`, from a `ReleaseInv` like that of `ArchiveRun_proofs`.

Its inductive invariant `RunInv` says what each `pc` implies: nothing is open or
on disk before `parseUpdates` accepted, the database is as the restore left it
from then on, fewer updates are acknowledged than requested while one is being
sent, and a run without an error that unwinds has applied them all.

`LocalDirectory_proofs` on `AtomicWrite`, for any writers and files of any length, from
`AtomicWriteAssumption`:

- `TypeCorrect` and `NoPartialIsLeft` state `TypeOK` and `PartialsAreRemoved`.
- `WriteImplementsCell`: `Spec => Replaces`, for every name that is watched.

`WriteInv` says that a temporary file holds what its writer has written so far
(`Progress`), all of it before the rename, so that the destination is always
whole.

On `LocalDirectory`, for any writers, prunings, restores and names, from
the assumptions of the two modules:

- `LocalTypeCorrect` and `WalksSound` state `LocalTypeOK` and `WalksAreSound`.
- `DirectoryKeepsCells`: the composition still implements the cell, and removes
  partial files.

`LocalInv` adds to `WriteInv` that a name whose file was renamed into place is
never empty again (`Stays`), that only a run whose upload is in place deletes
(`Replaced`), and that a walk holds only files that existed once (`Known`): a
file that existed and is gone does not come back, which is why a failed walk
can still point at it.

`CronRuntime_proofs`, for any number of runs and signals:

- `StopsClean` states `StopIsClean`.
- `AnnouncedLive` states `FailuresAreAnnounced` when no signal comes before
  `waitForShutdown` listens. With one the property is false: that is the finding
  `cron_early_signal`.

`CronInv` says that a run is in progress only once the scheduler was started, and
that an interrupt handler is armed only while its run works. `QuietInv` says that
no signal was caught before main listens, and none of which main was not told.

`SmtpSend_proofs`, for any number of recipients:

- `NeverInClear` and `NilIsEarned` state `ClearOnlyWithOverride` and
  `NilMeansDelivered`.

`SendInv` says how far the dialogue is at each command (`Progress`): no command
after STARTTLS without encryption or the override, all recipients accepted before
the data, the message accepted before QUIT.

`Extraction_proofs`, for any paths, sizes, limits and width of the counters, from
`ExtractionAssumption`:

- `LimitsAreKept`, `DestinationWhole`, `ReturnsAreClean` state `LimitsHold`,
  `DestinationIsWhole`, `ReturnIsClean`.

`ExtractInv` says that the counters bound what is on disk (`Counted`), that what
the archive declared is there in full unless its `Close` failed (`Declared`), and
which `pc` has a staging directory and which destination (`Placed`). That the sum
over the files grows by the size of a new one (`SumOfOneMore`) is a lemma about
the fold of the community modules. A fold is defined by recursion; its equation
is derived here without the induction theorems, by taking a smallest set for
which it would fail.

`Decisions_proofs`, for every finite content of a backend, all page sizes, clocks
and requests, from `BackupContractAssumption`:

- `LatestOfAnyPaging`, `LookupIsExact`, `RetentionLeavesRestorable` state
  `LatestIsNewest`, `LookupNeverGuesses`, `RetentionKeepsRestorable`.

The invariant is that the backend holds finitely many objects with positive times
(`BackendInv`). The argument is about `IsLatest(r, objs)`, "r is the latest backup
of these objects": there is only one such r (`LatestIsUnique`), the latest of two
sets is the later one of theirs (`LatestOfTwo`), so each loop returns it for what it
has seen (`LatestEligibleIsLatest`, `LatestOfPagesIsLatest`, again by a smallest
counterexample), and the pages of a listing show exactly the objects under the
prefix (`ListingExists`, `ListingIsComplete`, `PagesShowAll`).
`LookupNeverGuesses` holds of every content and needs only that the first settled
candidate decides (`FirstCandidateDecides`).

The same module, for every number of settings, all texts, host lists and URIs:

- `HostIsFollowed` and `PlacesAgree` state `UpdatesFollowHost` and
  `RestoreLooksWhereArchivePuts` of `Configuration`.

Both are true in every state, without induction: the first brings both
translations into one form (`ToolConnectionOfOptions`, `ClientOfOptions`) and
compares where the users are looked for (`LoginsDifferByDefault`), the second the three prefixes of the two commands.

Model-checked only: liveness (`Terminates` of both runs, `SignalStops`,
`ReturnsClean`), which is beyond this prover. Every safety property of a passing
run is a theorem; those that carry an assumption beyond the constants' own
(`AnnouncedLive`, and those of `SharedStorage` about deletion) name it above.

## Findings

1. `nothing_left`: a second SIGINT or SIGTERM during a dump leaves the workspace and
   the dump in it, although the requirement in `docs/tasks` is to remove
   artifacts on all exits.
2. `cron_early_signal`: a signal that comes before `waitForShutdown` registers
   its channel cancels the context for good and is not seen by main. The
   scheduler goes on, every run fails, and their failure notifications are sent
   on the cancelled context.
3. `update_identity`: with a `--uri`, the client of the updates takes the URI as
   it is, while mongorestore gets it without its credentials (`--uri-prune`) and
   beside the credentials and the TLS switch of the flags. The updates then
   connect as another user, or in another way, than the restore, although the
   plan in `docs/tasks` requires both to come from the same configuration.
   Without a `--uri` the same requirement fails by a default, which
   `UpdatesFollowHost` excepts by name: with `--username` and `--db` and no
   `--authentication-database`, mongorestore looks for the user in `--db`, and
   the client of the updates in admin (`shared.go:439-454`: a path `/`, no
   `authSource`). The restore succeeds, and the updates are refused or sign in as
   another user of that name; `--authentication-database` avoids it.

## Not modelled

The dump and restore themselves (MongoDB tools), credentials and client
construction beyond `Configuration`, the text form of flags and URIs, the checks of
the notification settings, the bytes of the updates file and its size limit,
message formatting, the HTTP transports, the flag
documentation, scripts and examples. Uploads that the server commits after the
client has given up are the "whole" outcome of a failed upload at the time of
the failure, not later. Symbolic links and permissions are left out.

## Plan

Written in this order, the behaviour that loses backups first:

1. `BackupDelivery`, `ArchiveRun`, their proofs (done).
2. `BackupContract`, `SharedStorage`, its proofs, `CronRuntime` (done).
3. `RestoreContract`, `RestoreRun`, its proofs (done).
4. `AtomicCell`, `AtomicWrite`, `Extraction`; `LocalDirectory`, the walks of the
   local backend beside other runs' files, and its proofs (done).
5. `SmtpSend`; `GetStorages` with the closing of what was opened, and
   `SelectRestoreStorage` (done).
6. `SharedStorage` with uploads that leave a truncated object, its theorems for
   a single archiver and for restores; `Terminates` of `RestoreRun` (done).
7. `Configuration` and its proofs (done).
8. The proofs of `CronRuntime`, `SmtpSend`, `Extraction`, `BackupContract`, and of
   the rest of `SharedStorage` (done).
9. Left to model: the calls of an explicit lookup as steps beside other
   processes.
