--------------------------- MODULE LocalDirectory ---------------------------
(***************************************************************************)
(* The directory of the local backend under the backup prefix.  Runs of    *)
(* mongo-archive upload into it through AtomicWrite and then prune it;     *)
(* restores that name no object look for the latest backup in it.  Both    *)
(* walk it: they read the names of the directory at once and look at the   *)
(* files one after the other, while the others' files come and go.  Two    *)
(* runs have the same name when they took it in the same millisecond.      *)
(* Every run starts its retention before its upload can look expired, as   *)
(* SharedStorage says, so only the backups from before are expired.  A     *)
(* process that stops half-way (its context is done, another backend       *)
(* fails) is one that takes no further step.                               *)
(***************************************************************************)
EXTENDS AtomicWrite

CONSTANTS
  Pruner,   \* the writers that are given an expiry; the others never prune
  Restorer, \* mongo-unarchive processes that name no object
  Older     \* the names of backups from before, all expired

(* Names are in listing order: the digits of a later one are smaller.      *)
ASSUME LocalDirectoryAssumption ==
  /\ Pruner \subseteq Writer
  /\ Name \subseteq Nat /\ Writer \cap Nat = {}
  /\ Older \subseteq Name
  /\ \A w \in Writer : NameOf[w] \notin Older /\ \A n \in Older : NameOf[w] < n
  /\ Restorer \cap Writer = {}

Process == Pruner \cup Restorer

VARIABLES
  older, \* the backups from before that are still there
  walk,  \* [Process -> where its walk, retention or download is]
  todo,  \* [Process -> files the directory listed and the walk has not seen]
  seen,  \* [Process -> files the walk saw; in retention, those to delete]
  pick,  \* [Process -> the chosen backup, or the file that was gone]
  got    \* [Restorer -> content it downloaded]

walkVars == <<older, walk, todo, seen, pick, got>>
localVars == <<vars, walkVars>>

(* A temporary file is named by its writer, a backup by its name.          *)
Published == {n \in Name : dest[n] # Blank} \cup older
Files == present \cup Published

(* isEligibleBackupObject: the name of a temporary file does not match.    *)
EligibleByPrefix(file) == TRUE
IsEligible(file) == file \in Name

(* filepath.Walk goes by name, and "." sorts before the digits.            *)
Before(f, g) ==
  \/ f \in Writer /\ g \notin Writer
  \/ f \notin Writer /\ g \notin Writer /\ f < g

LocalInit ==
  /\ Init
  /\ older = Older
  /\ walk = [p \in Process |-> "idle"]
  /\ todo = [p \in Process |-> {}]
  /\ seen = [p \in Process |-> {}]
  /\ pick = [p \in Process |-> Nobody]
  /\ got = [r \in Restorer |-> Blank]

At(p, s) == walk' = [walk EXCEPT ![p] = s]
Leave(p, s) ==
  /\ At(p, s)
  /\ todo' = [todo EXCEPT ![p] = {}]
  /\ seen' = [seen EXCEPT ![p] = {}]

(* os.Stat of the directory, then its names: a run after its upload was    *)
(* verified, a restore when it starts.                                     *)
BeginWalk(p) ==
  /\ walk[p] = "idle"
  /\ p \in Pruner => stage[p] = "ok"
  /\ todo' = [todo EXCEPT ![p] = Files]
  /\ At(p, "walk")
  /\ UNCHANGED <<older, seen, pick, got>>

(* os.Lstat of the next file; an error of one ends the walk.               *)
LeftoversFail(file) == file \notin Published
Gone(file) == file \notin Files

Lstat(p) ==
  /\ walk[p] = "walk"
  /\ \E file \in todo[p] :
       /\ \A other \in todo[p] : ~Before(other, file)
       /\ IF Gone(file)
            THEN Leave(p, "failed") /\ pick' = [pick EXCEPT ![p] = file]
            ELSE /\ todo' = [todo EXCEPT ![p] = @ \ {file}]
                 /\ seen' = [seen EXCEPT ![p] = @ \cup {file}]
                 /\ UNCHANGED <<walk, pick>>
  /\ UNCHANGED <<older, got>>

(* latestEligibleObject: the backups from before are older than those of   *)
(* the runs, whose order is that of their last write and left open.        *)
Latest(candidates) ==
  IF candidates \ Older # {} THEN candidates \ Older
  ELSE {n \in candidates : \A m \in candidates : n <= m}

Choose(r) ==
  /\ walk[r] = "walk" /\ todo[r] = {}
  /\ LET candidates == {file \in seen[r] : IsEligible(file)} IN
     \/ candidates = {} /\ Leave(r, "nothing") /\ UNCHANGED pick
     \/ /\ \E file \in Latest(candidates) : pick' = [pick EXCEPT ![r] = file]
        /\ Leave(r, "chosen")
  /\ UNCHANGED <<older, got>>

(* copyFile opens the chosen backup: an open file stays what it was.       *)
ContentOf(file) == IF file \in Writer THEN temp[file] ELSE dest[file]

Download(r) ==
  /\ walk[r] = "chosen"
  /\ IF Gone(pick[r])
       THEN At(r, "missing") /\ UNCHANGED got
       ELSE At(r, "restored") /\ got' = [got EXCEPT ![r] = ContentOf(pick[r])]
  /\ UNCHANGED <<older, todo, seen, pick>>

(* deleteExpiredObjects of what the walk saw.                              *)
BeginRetention(w) ==
  /\ walk[w] = "walk" /\ todo[w] = {}
  /\ seen' = [seen EXCEPT ![w] =
                {n \in @ : IsEligible(n) /\ n # NameOf[w] /\ n \in Older}]
  /\ At(w, "prune")
  /\ UNCHANGED <<older, todo, pick, got>>

Remove(w) ==
  /\ walk[w] = "prune"
  /\ \E n \in seen[w] :
       /\ \A m \in seen[w] : n <= m
       /\ IF Gone(n)
            THEN Leave(w, "failed") /\ pick' = [pick EXCEPT ![w] = n]
                   /\ UNCHANGED older
            ELSE /\ older' = older \ {n}
                 /\ seen' = [seen EXCEPT ![w] = @ \ {n}]
                 /\ UNCHANGED <<walk, todo, pick>>
  /\ UNCHANGED got

FinishRetention(w) ==
  /\ walk[w] = "prune" /\ seen[w] = {}
  /\ At(w, "done")
  /\ UNCHANGED <<older, todo, seen, pick, got>>

WalkStep ==
  \/ \E p \in Process : BeginWalk(p) \/ Lstat(p)
  \/ \E r \in Restorer : Choose(r) \/ Download(r)
  \/ \E w \in Pruner : BeginRetention(w) \/ Remove(w) \/ FinishRetention(w)

LocalNext ==
  \/ Next /\ UNCHANGED walkVars
  \/ WalkStep /\ UNCHANGED vars

LocalSpec == LocalInit /\ [][LocalNext]_localVars

-----------------------------------------------------------------------------
(* Properties. *)

(* The variables keep their types.                                         *)
LocalTypeOK ==
  /\ TypeOK
  /\ older \subseteq Older
  /\ walk \in [Process -> {"idle", "walk", "prune", "done", "failed", "nothing",
                           "chosen", "restored", "missing"}]
  /\ todo \in [Process -> SUBSET (Writer \cup Name)]
  /\ seen \in [Process -> SUBSET (Writer \cup Name)]
  /\ pick \in [Process -> Writer \cup Name \cup {Nobody}]
  /\ got \in [Restorer -> [Offset -> Writer \cup {Nobody}]]

(* listScopedObjects beside uploads and retentions: a walk or a retention  *)
(* fails only over a file that is gone, never over one that a crash left;  *)
(* what a restore downloads is the whole backup of a run that took the     *)
(* chosen name; and if that backup is gone, a newer one is there.          *)
WalksAreSound ==
  \A p \in Process :
    /\ walk[p] = "failed" => pick[p] \notin Files
    /\ walk[p] = "restored" =>
         \/ pick[p] \in Older /\ got[p] = Blank
         \/ \E w \in Writer : NameOf[w] = pick[p] /\ got[p] = Whole(w)
    /\ walk[p] = "missing" => Published \ Older # {}
=============================================================================
