--------------------------- MODULE SharedStorage ---------------------------
(***************************************************************************)
(* Several mongo-archive and mongo-unarchive processes on one backend.     *)
(* Nothing coordinates them: a run uploads under a name of its own, lets   *)
(* time pass while it serves the other backends, then reads the clock once,*)
(* lists the backend page by page and deletes what each page showed as     *)
(* expired; a restore lists the backend page by page, chooses, then        *)
(* downloads.  A failing upload may leave nothing, the whole archive, or a *)
(* part of it under the same name.  All names here are backup names        *)
(* (BackupContract has the others), and stand in listing order.            *)
(***************************************************************************)
EXTENDS Naturals, FiniteSets

CONSTANTS
  Archiver,   \* mongo-archive processes
  Restorer,   \* mongo-unarchive processes
  NumNames,   \* bound: backup names, in listing order
  PageSize,   \* objects in a page of a listing (backupListPageSize)
  DeleteMissingFails, \* deleting an object that is gone is an error (not on S3)
  FailureCommits, \* a failed upload may store what was read so far (GCS)
  ExpiryDays, \* of every archiver
  MaxStall,   \* days between a run's upload and the start of its retention
  MaxSkew,    \* days a host's clock can be off the backend's
  MaxTime     \* bound: days

Name == 1..NumNames
Nobody == 0         \* no name
Absent == 0         \* the modification time of a name that is not stored
EndOfList == NumNames + 1

ASSUME SharedStorageAssumption ==
  /\ NumNames \in Nat /\ PageSize \in Nat \ {0}
  /\ DeleteMissingFails \in BOOLEAN /\ FailureCommits \in BOOLEAN
  /\ ExpiryDays \in Nat \ {0}
  /\ MaxStall \in Nat /\ MaxSkew \in Nat /\ MaxTime \in Nat

VARIABLES
  now,       \* the backend's clock, in days
  modified,  \* [Name -> modification time or Absent]
  used,      \* names that some run has taken
  truncated, \* names that hold only a part of their archive
  newest,    \* the latest modification time of a whole backup (history)
  stage,     \* [Archiver -> where the run is]
  own,       \* [Archiver -> objectName of the run]
  stored,    \* [Archiver -> when it was stored]
  cut,       \* [Archiver -> now := time.Now() in DeleteOldObjects]
  pruneAt,   \* [Archiver -> how far its listing is]
  plan,      \* [Archiver -> expired objects of the current page, to delete]
  view,      \* [Restorer -> where the restore is]
  lookAt,    \* [Restorer -> how far its listing is]
  best,      \* [Restorer -> the latest object so far: name and time]
  throughout \* [Restorer -> names stored ever since its listing began (history)]

bucket == <<modified, truncated, newest, throughout>>
runs == <<used, stage, own, stored, cut, pruneAt, plan>>
restores == <<view, lookAt, best>>
vars == <<now, bucket, runs, restores>>

Stored == {n \in Name : modified[n] # Absent}
Whole == Stored \ truncated

(* isExpired *)
ExpiredToday(time, clock) == clock >= time + ExpiryDays
Expired(time, clock) == clock > time + ExpiryDays

(* chooseLaterObject: later, or as late and of a smaller name. *)
EarlierName(a, b) == a.name < b.name
Later(a, b) == a.time > b.time \/ (a.time = b.time /\ a.name < b.name)

None == [name |-> Nobody, time |-> Absent]

-----------------------------------------------------------------------------
(* Listing. The continuation is the last name of the page: what is stored  *)
(* or deleted behind it changes nothing, what is stored ahead will be seen.*)

Page(from) ==
  LET ahead == {n \in Stored : n > from} IN
  {n \in ahead : Cardinality({m \in ahead : m < n}) < PageSize}

(* Where the listing is after that page. *)
OnlyFirstPage(from) == EndOfList
After(from) ==
  IF \E n \in Stored : n > from /\ n \notin Page(from)
    THEN CHOOSE n \in Page(from) : \A m \in Page(from) : m <= n
    ELSE EndOfList

-----------------------------------------------------------------------------

Init ==
  /\ now = 1
  /\ modified \in [Name -> {Absent, 1}]
  /\ used = Stored
  /\ truncated = {}
  /\ newest = IF Stored = {} THEN Absent ELSE 1
  /\ stage = [a \in Archiver |-> "idle"]
  /\ own = [a \in Archiver |-> Nobody]
  /\ stored = [a \in Archiver |-> 0]
  /\ cut = [a \in Archiver |-> 0]
  /\ pruneAt = [a \in Archiver |-> 0]
  /\ plan = [a \in Archiver |-> {}]
  /\ view = [r \in Restorer |-> "idle"]
  /\ lookAt = [r \in Restorer |-> 0]
  /\ best = [r \in Restorer |-> None]
  /\ throughout = [r \in Restorer |-> {}]

(* A day passes. A run waits at most MaxStall days between its upload and  *)
(* its retention (STORAGE_OPERATION_TIMEOUT bounds each call in between).  *)
Tick ==
  /\ now < MaxTime
  /\ \A a \in Archiver : stage[a] = "stored" => now + 1 <= stored[a] + MaxStall
  /\ now' = now + 1
  /\ UNCHANGED <<bucket, runs, restores>>

-----------------------------------------------------------------------------
(* mongo-archive. *)

(* newFilename: names are clock readings of different hosts, in any order. *)
StartRun(a) ==
  /\ stage[a] \in {"idle", "done"}
  /\ \E n \in Name \ used :
       /\ own' = [own EXCEPT ![a] = n]
       /\ used' = used \cup {n}
  /\ stage' = [stage EXCEPT ![a] = "upload"]
  /\ stored' = [stored EXCEPT ![a] = 0]
  /\ cut' = [cut EXCEPT ![a] = 0]
  /\ pruneAt' = [pruneAt EXCEPT ![a] = 0]
  /\ UNCHANGED <<now, bucket, plan, restores>>

Store(a) ==
  /\ modified' = [modified EXCEPT ![own[a]] = now]
  /\ newest' = now
  /\ UNCHANGED <<truncated, throughout>>

(* Closing the writer after a failed copy stores what it got.              *)
StorePart(a) ==
  /\ FailureCommits
  /\ modified' = [modified EXCEPT ![own[a]] = now]
  /\ truncated' = truncated \cup {own[a]}
  /\ UNCHANGED <<newest, throughout>>

Upload(a) ==
  /\ stage[a] = "upload"
  /\ Store(a)
  /\ stored' = [stored EXCEPT ![a] = now]
  /\ stage' = [stage EXCEPT ![a] = "stored"]
  /\ UNCHANGED <<now, used, own, cut, pruneAt, plan, restores>>

(* The run returns an error, or its process is gone, and with it the       *)
(* locals that hold its object name and how far it got.                    *)
Forget(a) ==
  /\ stage' = [stage EXCEPT ![a] = "idle"]
  /\ own' = [own EXCEPT ![a] = Nobody]
  /\ stored' = [stored EXCEPT ![a] = 0]
  /\ cut' = [cut EXCEPT ![a] = 0]
  /\ pruneAt' = [pruneAt EXCEPT ![a] = 0]
  /\ plan' = [plan EXCEPT ![a] = {}]

GoesOnUnverified(a) ==
  /\ stage[a] = "upload"
  /\ StorePart(a)
  /\ stored' = [stored EXCEPT ![a] = now]
  /\ stage' = [stage EXCEPT ![a] = "stored"]
  /\ UNCHANGED <<now, used, own, cut, pruneAt, plan, restores>>
(* The object, or a part of it, may be there all the same.                *)
UploadFails(a) ==
  /\ stage[a] = "upload"
  /\ Store(a) \/ StorePart(a) \/ UNCHANGED bucket
  /\ Forget(a)
  /\ UNCHANGED <<now, used, restores>>

(* DeleteOldObjects reads the host's clock once, before the first page. *)
BeginRetention(a) ==
  /\ stage[a] = "stored"
  /\ \E clock \in 0..(MaxTime + MaxSkew) :
       /\ clock <= now + MaxSkew /\ now <= clock + MaxSkew
       /\ cut' = [cut EXCEPT ![a] = clock]
  /\ pruneAt' = [pruneAt EXCEPT ![a] = 0]
  /\ plan' = [plan EXCEPT ![a] = {}]
  /\ stage' = [stage EXCEPT ![a] = "prune"]
  /\ UNCHANGED <<now, bucket, used, own, stored, restores>>

(* deleteExpiredObjects chooses from what the page showed, and never the   *)
(* object of its own run.                                                  *)
AnyAge(a, page) == {n \in page : n # own[a]}
Chosen(a, page) == {n \in page : n # own[a] /\ Expired(modified[n], cut[a])}

PrunePage(a) ==
  /\ stage[a] = "prune"
  /\ plan[a] = {} /\ pruneAt[a] # EndOfList
  /\ plan' = [plan EXCEPT ![a] = Chosen(a, Page(pruneAt[a]))]
  /\ pruneAt' = [pruneAt EXCEPT ![a] = After(pruneAt[a])]
  /\ UNCHANGED <<now, bucket, used, stage, own, stored, cut, restores>>

(* The page may be stale: the object may be gone by now. *)
Delete(a) ==
  /\ stage[a] = "prune"
  /\ \E n \in plan[a] :
       /\ \A m \in plan[a] : n <= m
       /\ \/ n \in Stored
          \/ ~DeleteMissingFails
       /\ modified' = [modified EXCEPT ![n] = Absent]
       /\ plan' = [plan EXCEPT ![a] = plan[a] \ {n}]
       /\ truncated' = truncated \ {n}
       /\ throughout' = [r \in Restorer |-> throughout[r] \ {n}]
  /\ UNCHANGED <<now, newest, used, stage, own, stored, cut, pruneAt, restores>>

StopAtLastPage(a) ==
  /\ stage[a] = "prune"
  /\ pruneAt[a] = EndOfList
  /\ stage' = [stage EXCEPT ![a] = "done"]
  /\ UNCHANGED <<now, bucket, used, own, stored, cut, pruneAt, plan, restores>>
FinishRetention(a) ==
  /\ stage[a] = "prune"
  /\ plan[a] = {} /\ pruneAt[a] = EndOfList
  /\ stage' = [stage EXCEPT ![a] = "done"]
  /\ UNCHANGED <<now, bucket, used, own, stored, cut, pruneAt, plan, restores>>

(* An error of another backend, of a listing or of a deletion ends the run,*)
(* and so does the end of the process.                                     *)
Abort(a) ==
  /\ stage[a] \in {"upload", "stored", "prune"}
  /\ Forget(a)
  /\ UNCHANGED <<now, bucket, used, restores>>

-----------------------------------------------------------------------------
(* mongo-unarchive: GetTargetObjectName(""), then Download, and the        *)
(* extraction, which fails for a part of an archive.                       *)

BeginLookup(r) ==
  /\ view[r] # "list"
  /\ view' = [view EXCEPT ![r] = "list"]
  /\ lookAt' = [lookAt EXCEPT ![r] = 0]
  /\ best' = [best EXCEPT ![r] = None]
  /\ throughout' = [throughout EXCEPT ![r] = Stored]
  /\ UNCHANGED <<now, modified, truncated, newest, runs>>

Candidates(r) ==
  {[name |-> n, time |-> modified[n]] : n \in Page(lookAt[r])}
    \cup (IF best[r] = None THEN {} ELSE {best[r]})
Latest(candidates) ==
  IF candidates = {} THEN None
  ELSE CHOOSE c \in candidates : \A d \in candidates \ {c} : Later(c, d)

LookupPage(r) ==
  /\ view[r] = "list"
  /\ best' = [best EXCEPT ![r] = Latest(Candidates(r))]
  /\ lookAt' = [lookAt EXCEPT ![r] = After(lookAt[r])]
  /\ view' = [view EXCEPT ![r] =
                IF lookAt'[r] # EndOfList THEN "list"
                ELSE IF best'[r] = None THEN "nothing" ELSE "chosen"]
  /\ UNCHANGED <<now, bucket, runs>>

Download(r) ==
  /\ view[r] = "chosen"
  /\ view' = [view EXCEPT ![r] =
                IF best[r].name \notin Stored THEN "missing"
                ELSE IF best[r].name \in truncated THEN "corrupt" ELSE "restored"]
  /\ UNCHANGED <<now, bucket, runs, lookAt, best>>

-----------------------------------------------------------------------------

ArchiverStep(a) ==
  \/ StartRun(a) \/ Upload(a) \/ UploadFails(a) \/ BeginRetention(a)
  \/ PrunePage(a) \/ Delete(a) \/ FinishRetention(a) \/ Abort(a)

RestorerStep(r) == BeginLookup(r) \/ LookupPage(r) \/ Download(r)

Next ==
  \/ Tick
  \/ \E a \in Archiver : ArchiverStep(a)
  \/ \E r \in Restorer : RestorerStep(r)

Spec == Init /\ [][Next]_vars

-----------------------------------------------------------------------------
(* Properties. *)

(* Every run starts its retention before what it uploaded can look expired *)
(* to any host.                                                            *)
Prompt == MaxStall + MaxSkew <= ExpiryDays

(* The variables keep their types, only what is stored can be a part of an *)
(* archive, and a retention that ends has deleted all that it chose.       *)
TypeOK ==
  /\ now \in Nat
  /\ modified \in [Name -> Nat]
  /\ used \subseteq Name
  /\ truncated \subseteq Stored
  /\ newest \in Nat
  /\ stage \in [Archiver -> {"idle", "upload", "stored", "prune", "done"}]
  /\ own \in [Archiver -> Name \cup {Nobody}]
  /\ stored \in [Archiver -> Nat]
  /\ cut \in [Archiver -> Nat]
  /\ pruneAt \in [Archiver -> 0..EndOfList]
  /\ plan \in [Archiver -> SUBSET Name]
  /\ \A a \in Archiver : plan[a] # {} => stage[a] = "prune"
  /\ view \in [Restorer -> {"idle", "list", "nothing", "chosen", "restored",
                            "corrupt", "missing"}]
  /\ lookAt \in [Restorer -> 0..EndOfList]
  /\ best \in [Restorer -> [name : Name \cup {Nobody}, time : Nat]]
  /\ throughout \in [Restorer -> SUBSET Name]

(* The most recent whole backup there has ever been is still there,        *)
(* whatever the runs do to each other: retention on a stale page, a crash  *)
(* between upload and retention, clocks that disagree, failed uploads that *)
(* look more recent.                                                       *)
NewestSurvives ==
  newest # Absent => \E n \in Whole : modified[n] = newest

(* A backup is only ever deleted while a more recent whole one is stored.  *)
DeletedOnlyWhenNewer ==
  [][\A n \in Name :
        modified[n] # Absent /\ modified'[n] = Absent =>
          \E m \in Whole' : modified'[m] > modified[n]]_vars

(* A retention that completes has removed every backup that was expired    *)
(* when it began, on every page, although pages shrink behind it.          *)
RetentionComplete ==
  \A a \in Archiver : stage[a] = "done" =>
    \A n \in Stored \ {own[a]} : ~Expired(modified[n], cut[a])

(* A restore that names no object chooses one at least as recent as every  *)
(* backup that was there all along, and reports that there is none only if *)
(* there was none.                                                         *)
PickIsNewest ==
  \A r \in Restorer :
    /\ view[r] = "chosen" =>
         \A n \in throughout[r] :
           \/ best[r].time > modified[n]
           \/ best[r].time = modified[n] /\ best[r].name <= n
    /\ view[r] = "nothing" => throughout[r] = {}

(* When the chosen backup is gone before it is downloaded, a more recent   *)
(* whole one is there: running the restore again is enough.                *)
MissingMeansNewer ==
  \A r \in Restorer : view[r] = "missing" =>
    \E n \in Whole : modified[n] > best[r].time
=============================================================================
