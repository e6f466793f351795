--------------------------- MODULE BackupContract ---------------------------
(***************************************************************************)
(* The backup contract of src/storage: which objects are backups, which of *)
(* them an explicit name or the absence of one selects, and which ones     *)
(* retention deletes.  These are pure functions, shared by the four        *)
(* backends; here they are stated over the content of one backend, and     *)
(* that content is everything other programs and earlier runs can have put *)
(* there.                                                                  *)
(***************************************************************************)
EXTENDS Naturals, FiniteSets, SequencesExt

CONSTANTS
  Leaf,        \* last path components, as ranks in byte order
  Stamped,     \* those that match backupObjectPattern
  Dir,         \* directories an object can be in, as ranks in byte order
  Root,        \* the directory of a name without "/"
  Prefix,      \* NormalizeBackupPrefix(cfg.BackupPrefix)
  Below,       \* directories under Prefix (HasPrefix holds, and more follows)
  MaxTime,     \* bound: clock readings
  MaxObjects,  \* bound: objects on the backend
  Day          \* clock units in a day

ASSUME BackupContractAssumption ==
  /\ Leaf \subseteq Nat /\ IsFiniteSet(Leaf) /\ Stamped \subseteq Leaf
  /\ Dir \subseteq Nat /\ IsFiniteSet(Dir)
  /\ Root \in Dir /\ Prefix \in Dir /\ Below \subseteq Dir
  /\ Root # Prefix /\ Root \notin Below /\ Prefix \notin Below
  /\ MaxTime \in Nat /\ MaxObjects \in Nat /\ Day \in Nat \ {0}

Name == [dir : Dir, leaf : Leaf]
Clock == 1..MaxTime

VARIABLES
  objects,   \* [name -> modification time] of what is on the backend
  unreadable \* names whose existence check returns an error

vars == <<objects, unreadable>>

NameBefore(m, n) == m.dir < n.dir \/ (m.dir = n.dir /\ m.leaf < n.leaf)

-----------------------------------------------------------------------------
(* What is a backup, and what is expired. *)

IsEligible(n) == n.dir = Prefix /\ n.leaf \in Stamped

(* now.Sub(modifiedAt).Hours()/24 > float64(expiryDays): the comparison is *)
(* on the exact age, not on whole days.                                    *)
IsExpired(modifiedAt, expiryDays, now) ==
  /\ expiryDays > 0
  /\ now > modifiedAt + expiryDays * Day

-----------------------------------------------------------------------------
(* Listing: the objects under the prefix, by name, in pages. *)

Scoped(content) ==
  {[name |-> n, modified |-> content[n]] :
     n \in {m \in DOMAIN content : m.dir \in {Prefix} \cup Below}}

Listing(content) ==
  CHOOSE seq \in [1..Cardinality(Scoped(content)) -> Scoped(content)] :
    \A i, j \in DOMAIN seq : i < j => NameBefore(seq[i].name, seq[j].name)

PageCount(listing, size) == (Len(listing) + size - 1) \div size
Page(listing, size, i) ==
  SubSeq(listing, (i - 1) * size + 1,
         IF i * size < Len(listing) THEN i * size ELSE Len(listing))

-----------------------------------------------------------------------------
(* Selecting the latest backup. *)

None == [name |-> [dir |-> Root, leaf |-> 0], modified |-> 0]

ChooseLater(current, candidate) ==
  IF \/ current = None
     \/ candidate.modified > current.modified
     \/ /\ candidate.modified = current.modified
        /\ NameBefore(candidate.name, current.name)
    THEN candidate ELSE current

ChooseEligible(current, candidate) ==
  IF IsEligible(candidate.name) THEN ChooseLater(current, candidate) ELSE current

LatestEligible(candidates) == FoldLeft(ChooseEligible, None, candidates)

(* getLastUpdatedObjectName: the latest of each page, then of the pages. *)
LastPageOnly(listing, size) ==
  IF listing = <<>> THEN None
  ELSE LatestEligible(Page(listing, size, PageCount(listing, size)))
ChooseFromPage(latest, page) ==
  LET pageLatest == LatestEligible(page) IN
  IF pageLatest = None THEN latest ELSE ChooseLater(latest, pageLatest)
LatestOfPages(listing, size) ==
  FoldLeft(ChooseFromPage, None,
           [i \in 1..PageCount(listing, size) |-> Page(listing, size, i)])

-----------------------------------------------------------------------------
(* Looking up an explicit name. *)

NotFound == [status |-> "notFound", name |-> None.name]

LookupCandidates(request) ==
  IF request.dir = Root /\ request.leaf \in Stamped
    THEN <<[dir |-> Prefix, leaf |-> request.leaf], request>>
    ELSE <<request>>

(* Candidates are tried in order; an error ends the search. *)
ResolveSkippingErrors(content, bad, request) ==
  LET candidates == LookupCandidates(request)
      settled == {i \in DOMAIN candidates : candidates[i] \in DOMAIN content \ bad}
  IN IF settled = {} THEN NotFound
     ELSE [status |-> "found",
           name |-> candidates[CHOOSE i \in settled : \A j \in settled : i <= j]]
ResolveExplicit(content, bad, request) ==
  LET candidates == LookupCandidates(request)
      settled == {i \in DOMAIN candidates : candidates[i] \in DOMAIN content \cup bad}
  IN IF settled = {} THEN NotFound
     ELSE LET first == candidates[CHOOSE i \in settled : \A j \in settled : i <= j]
          IN [status |-> IF first \in bad THEN "error" ELSE "found", name |-> first]

-----------------------------------------------------------------------------
(* Selecting the backend of a restore. *)

BackendNames == {"local", "azure", "aws", "gcp"}

(* The requested name, trimmed and in lower case, or "". *)
SelectRestoreStorage(configured, requested) ==
  LET fits == {b \in configured : requested \in {"", b}} IN
  IF Cardinality(fits) = 1 THEN fits ELSE {}   \* the backend, or an error

-----------------------------------------------------------------------------
(* Retention. *)

ExpiredAll(candidates, expiryDays, now, preserve) ==
  {c \in Range(candidates) : /\ IsEligible(c.name)
                             /\ IsExpired(c.modified, expiryDays, now)}
DeletionPlan(candidates, expiryDays, now, preserve) ==
  {c \in Range(candidates) : /\ IsEligible(c.name)
                             /\ c.name # preserve
                             /\ IsExpired(c.modified, expiryDays, now)}

(* What a retention without a failing deletion leaves. *)
Retained(content, expiryDays, now, preserve) ==
  LET plan == DeletionPlan(Listing(content), expiryDays, now, preserve) IN
  [n \in DOMAIN content \ {c.name : c \in plan} |-> content[n]]

-----------------------------------------------------------------------------
(* The content of the backend. *)

Init ==
  /\ objects = [n \in {} |-> 0]
  /\ unreadable = {}

(* Anything writes an object, or overwrites one, at any clock reading. *)
Put(n, time) ==
  /\ n \in DOMAIN objects \/ Cardinality(DOMAIN objects) < MaxObjects
  /\ objects' = [m \in DOMAIN objects \cup {n} |-> IF m = n THEN time ELSE objects[m]]
  /\ UNCHANGED unreadable

(* A name stops or starts answering. *)
Flip(n) ==
  /\ unreadable' = IF n \in unreadable THEN {} ELSE {n}
  /\ UNCHANGED objects

Next ==
  \/ \E n \in Name, time \in Clock : Put(n, time)
  \/ \E n \in Name : Flip(n)

Spec == Init /\ [][Next]_vars

-----------------------------------------------------------------------------
(* Properties. *)

Backups(content) == {n \in DOMAIN content : IsEligible(n)}

(* Whatever the page size, an unnamed restore selects the most recently    *)
(* modified backup, the smaller name among equals (chooseLaterObject), and *)
(* finds one whenever there is one.                                        *)
LatestIsNewest ==
  \A size \in 1..(MaxObjects + 1) :
    LET latest == LatestOfPages(Listing(objects), size) IN
    IF Backups(objects) = {} THEN latest = None
    ELSE /\ latest.name \in Backups(objects)
         /\ \A n \in Backups(objects) :
              \/ latest = [name |-> n, modified |-> objects[n]]
              \/ latest.modified > objects[n]
              \/ latest.modified = objects[n] /\ NameBefore(latest.name, n)

(* An explicit name is never redirected to an object the user did not mean:*)
(* a full name resolves to itself or to nothing; a bare backup name means  *)
(* the managed backup when there is one; and when the managed one cannot   *)
(* be checked, the legacy object of the same name is not used instead. And *)
(* no backend is chosen among several: adding one to the configuration     *)
(* never makes an unnamed restore silently read from the other.            *)
LookupNeverGuesses ==
  /\ \A configured \in SUBSET BackendNames, requested \in BackendNames \cup {""} :
       LET selected == SelectRestoreStorage(configured, requested) IN
       /\ selected # {} => selected \in {{requested}, configured}
       /\ selected = {} <=> requested \notin configured
                              /\ (requested # "" \/ Cardinality(configured) # 1)
  /\ \A request \in Name :
    LET result == ResolveExplicit(objects, unreadable, request)
        managed == [dir |-> Prefix, leaf |-> request.leaf]
        bare == request.dir = Root /\ request.leaf \in Stamped
    IN /\ result.status = "found" =>
            /\ result.name \in DOMAIN objects \ unreadable
            /\ result.name = request \/ (bare /\ result.name = managed)
       /\ bare /\ managed \in DOMAIN objects \cup unreadable =>
            result = [status |-> IF managed \in unreadable THEN "error" ELSE "found",
                      name |-> managed]
       /\ request \in DOMAIN objects \ unreadable => result.status # "notFound"

(* After a retention that preserved a backup, a restore still finds one,   *)
(* and the same one as before unless that one was itself expired, for      *)
(* every clock reading of the host, also one behind the backend's clock;   *)
(* and what is not a backup of this prefix is still there: files of other  *)
(* programs, subdirectories, malformed names, legacy objects.              *)
RetentionKeepsRestorable ==
  \A preserve \in Backups(objects), now \in Clock, days \in 0..2 :
    LET before == LatestOfPages(Listing(objects), MaxObjects)
        kept == Retained(objects, days, now, preserve)
        after == LatestOfPages(Listing(kept), MaxObjects)
    IN /\ after # None
       /\ after # before => IsExpired(before.modified, days, now)
       /\ \A n \in DOMAIN objects : ~IsEligible(n) => n \in DOMAIN kept
=============================================================================
