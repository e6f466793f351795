----------------------------- MODULE Extraction -----------------------------
(***************************************************************************)
(* UnTar: an archive is extracted into a staging directory under limits,   *)
(* which then takes the place of the destination.  The archive is any      *)
(* sequence of headers, every file operation may fail, and the process may *)
(* crash between any two of them.  A path is a sequence of names.          *)
(***************************************************************************)
EXTENDS Integers, Sequences, FiniteSets, FiniteSetsExt

CONSTANTS
  Path,     \* paths an entry can resolve to
  Size,     \* sizes a header can declare
  Limit,    \* values of the limits
  MaxInt    \* the largest value of the byte counters (2^63 - 1 in the code)

ASSUME ExtractionAssumption ==
  /\ MaxInt \in Nat
  /\ Size \cup Limit \subseteq -MaxInt - 1 .. MaxInt
  /\ \A p \in Path : p # <<>> /\ \A k \in 1..Len(p) : SubSeq(p, 1, k) \in Path

VARIABLES
  pc,         \* "validate", "stage", "extract", "delete", "rename", "unwind", "ok",
              \* "failed" or "crashed"
  maxEntries, maxEntryBytes, maxTotalBytes, \* the limits
  entryCount, totalBytes,                   \* the counters of extractTarGz
  staging,    \* the staging directory exists
  dirs,       \* directories in what was extracted
  files,      \* [paths of files in what was extracted -> bytes in them]
  before,     \* what stood at the destination: "absent" or "old"
  dest,       \* what stands there: "absent", "old", "damaged" or "extracted"
  headers,    \* regular files the archive declared so far (history)
  complete,   \* the end of the archive was reached (history)
  lost,       \* files whose Close failed (history)
  unremoved   \* the removal of the staging directory failed (history)

limits == <<maxEntries, maxEntryBytes, maxTotalBytes>>
counters == <<entryCount, totalBytes>>
tree == <<dirs, files>>
history == <<headers, complete, lost, unremoved>>
vars == <<pc, limits, counters, staging, tree, before, dest, history>>

(* int64 arithmetic: what exceeds MaxInt comes out negative. *)
Wrap(n) ==
  LET values == 2 * (MaxInt + 1)
      m == n % values
  IN IF m <= MaxInt THEN m ELSE m - values

Parents(p) == {SubSeq(p, 1, k) : k \in 1..(Len(p) - 1)}

Init ==
  /\ pc = "validate"
  /\ maxEntries \in Limit /\ maxEntryBytes \in Limit /\ maxTotalBytes \in Limit
  /\ entryCount = 0 /\ totalBytes = 0
  /\ staging = FALSE /\ dirs = {} /\ files = <<>>
  /\ before \in {"absent", "old"} /\ dest = before
  /\ headers = {} /\ complete = FALSE /\ lost = {} /\ unremoved = FALSE

-----------------------------------------------------------------------------

Valid ==
  /\ maxEntries > 0 /\ maxEntryBytes > 0 /\ maxTotalBytes > 0
  /\ maxEntryBytes <= maxTotalBytes

Validate ==
  /\ pc = "validate"
  /\ pc' = IF Valid THEN "stage" ELSE "failed"
  /\ UNCHANGED <<limits, counters, staging, tree, before, dest, history>>

Stage ==
  /\ pc = "stage"
  /\ \/ staging' = TRUE /\ pc' = "extract"
     \/ UNCHANGED staging /\ pc' = "failed"
  /\ UNCHANGED <<limits, counters, tree, before, dest, history>>

(* An error of extractTarGz; the deferred RemoveAll follows. *)
ReplaceAnyway == pc' = "delete"
OnError == pc' = "unwind"

(* Opening the archive or reading a header fails, a path is refused, or an *)
(* entry is neither a directory nor a regular file.                        *)
ReadFails ==
  /\ pc = "extract"
  /\ OnError
  /\ entryCount' \in {entryCount, entryCount + 1}
  /\ UNCHANGED <<limits, totalBytes, staging, tree, before, dest, history>>

EndOfArchive ==
  /\ pc = "extract"
  /\ pc' = "delete"
  /\ complete' = TRUE
  /\ UNCHANGED <<limits, counters, staging, tree, before, dest, headers, lost, unremoved>>

(* The header's number is within maxEntries, and counted. *)
CountsEntry ==
  /\ entryCount < maxEntries
  /\ entryCount' = entryCount + 1

TooManyEntries ==
  /\ pc = "extract"
  /\ entryCount >= maxEntries
  /\ OnError
  /\ entryCount' = entryCount + 1
  /\ UNCHANGED <<limits, totalBytes, staging, tree, before, dest, history>>

(* os.MkdirAll: a file on the way makes it fail. *)
CanMkdirAll(p) == (Parents(p) \cup {p}) \cap DOMAIN files = {}

Directory(p) ==
  /\ pc = "extract"
  /\ CountsEntry
  /\ \/ /\ CanMkdirAll(p)
        /\ dirs' = dirs \cup Parents(p) \cup {p}
        /\ UNCHANGED pc
     \/ OnError /\ UNCHANGED dirs
  /\ UNCHANGED <<limits, totalBytes, staging, files, before, dest, history>>

(* validateArchiveEntrySize. *)
SumFits(size) ==
  size >= 0 /\ size <= maxEntryBytes /\ Wrap(totalBytes + size) <= maxTotalBytes
SizeAccepted(size) ==
  size >= 0 /\ size <= maxEntryBytes /\ totalBytes <= Wrap(maxTotalBytes - size)

(* O_CREATE|O_EXCL in an existing directory. *)
CanTruncate(p) == p \notin dirs
CanCreate(p) == p \notin dirs \cup DOMAIN files

Holding(p, n) == [q \in DOMAIN files \cup {p} |-> IF q = p THEN n ELSE files[q]]

(* A regular file.  CopyN writes all that the header declares or fails, and*)
(* then leaves a part; the error of Close is dropped, and with it may be   *)
(* what Close had still to write.  Directories made for an entry that then *)
(* fails are left out: they go with the staging directory.                 *)
RegularFile(p, size) ==
  /\ pc = "extract"
  /\ CountsEntry
  /\ headers' = headers \cup {[path |-> p, size |-> size]}
  /\ \/ /\ SizeAccepted(size)
        /\ Parents(p) \cap DOMAIN files = {}
        /\ CanCreate(p)
        /\ dirs' = dirs \cup Parents(p)
        /\ \/ /\ files' = Holding(p, size)
              /\ totalBytes' = Wrap(totalBytes + size)
              /\ UNCHANGED <<pc, lost>>
           \/ /\ files' = Holding(p, 0)
              /\ totalBytes' = Wrap(totalBytes + size)
              /\ lost' = lost \cup {p}
              /\ UNCHANGED pc
           \/ /\ files' \in {Holding(p, 0), Holding(p, size)}
              /\ OnError
              /\ UNCHANGED <<totalBytes, lost>>
     \/ /\ OnError
        /\ UNCHANGED <<tree, totalBytes, lost>>
  /\ UNCHANGED <<limits, staging, before, dest, complete, unremoved>>

(* DeleteDirectory: RemoveAll may fail half-way; and any error of os.Stat  *)
(* reads as nothing to delete.                                             *)
Delete ==
  /\ pc = "delete"
  /\ \/ dest' = "absent" /\ pc' = "rename"
     \/ UNCHANGED dest /\ pc' = "rename"
     \/ dest = "old" /\ dest' \in {"old", "damaged"} /\ pc' = "unwind"
  /\ UNCHANGED <<limits, counters, staging, tree, before, history>>

(* A directory cannot replace one that is not empty. *)
LeaveStaging == "failed"
AfterRenameError == "unwind"

Rename ==
  /\ pc = "rename"
  /\ \/ /\ dest = "absent"
        /\ dest' = "extracted"
        /\ staging' = FALSE
        /\ pc' = "ok"
     \/ pc' = AfterRenameError /\ UNCHANGED <<dest, staging>>
  /\ UNCHANGED <<limits, counters, tree, before, history>>

(* The deferred RemoveAll; its error is dropped. *)
RemoveStaging ==
  /\ pc = "unwind"
  /\ \/ staging' = FALSE /\ UNCHANGED unremoved
     \/ unremoved' = TRUE /\ UNCHANGED staging
  /\ pc' = "failed"
  /\ UNCHANGED <<limits, counters, tree, before, dest, headers, complete, lost>>

Crash ==
  /\ pc \notin {"ok", "failed", "crashed"}
  /\ pc' = "crashed"
  /\ UNCHANGED <<limits, counters, staging, tree, before, dest, history>>

Next ==
  \/ Validate \/ Stage \/ ReadFails \/ EndOfArchive \/ TooManyEntries
  \/ \E p \in Path : Directory(p)
  \/ \E p \in Path, size \in Size : RegularFile(p, size)
  \/ Delete \/ Rename \/ RemoveStaging \/ Crash

Spec == Init /\ [][Next]_vars

-----------------------------------------------------------------------------
(* Properties. *)

(* Whatever the headers declare, what is on disk stays within the limits,  *)
(* counted without overflow: no more files than entries allowed, no file   *)
(* larger than one may be, and no more bytes in all of them.               *)
LimitsHold ==
  staging =>
    /\ Cardinality(DOMAIN files) <= maxEntries
    /\ \A p \in DOMAIN files : files[p] <= maxEntryBytes
    /\ MapThenSumSet(LAMBDA p : files[p], DOMAIN files) <= maxTotalBytes

(* The destination is touched only after the whole archive was extracted,  *)
(* and what replaces it holds every declared file with all its bytes: no   *)
(* entry has replaced another, and none is short unless its Close failed,  *)
(* which goes unnoticed (file.go:414).                                     *)
DestinationIsWhole ==
  dest # before =>
    /\ complete
    /\ \A h \in headers :
         h.path \in DOMAIN files /\ (files[h.path] = h.size \/ h.path \in lost)

(* A call that returns leaves no staging directory, unless removing it     *)
(* failed as well.  Success means that the destination was replaced; after *)
(* an error it may be gone, but never holds something else.                *)
ReturnIsClean ==
  /\ pc \in {"ok", "failed"} => ~staging \/ unremoved
  /\ pc = "ok" <=> dest = "extracted"
=============================================================================
