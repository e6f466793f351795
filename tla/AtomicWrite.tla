----------------------------- MODULE AtomicWrite -----------------------------
(***************************************************************************)
(* WriteFileAtomically, as CopyFileAtomically, the local storage and the   *)
(* downloads call it: several calls write into one directory, some of them *)
(* the same destination, each through a temporary file of its own.  Every  *)
(* file operation may fail, and a process may crash between any two.       *)
(***************************************************************************)
EXTENDS Naturals

CONSTANTS
  Writer,  \* the calls, in any processes
  Nobody,  \* the writer of what was there before
  Chunks,  \* buffers in a file
  Name,    \* destinations
  NameOf,  \* [Writer -> Name], the destination of each call
  Watched  \* one of the destinations, any: Replaces is about it

ASSUME AtomicWriteAssumption ==
  /\ Nobody \notin Writer
  /\ Chunks \in Nat \ {0}
  /\ NameOf \in [Writer -> Name]
  /\ Watched \in Name

Offset == 1..Chunks

VARIABLES
  dest,    \* [Name -> [Offset -> who wrote it]], the destinations
  temp,    \* [Writer -> [Offset -> who wrote it]], the temporary files
  present, \* temporary files on disk
  stage,   \* [Writer -> where the call is]
  at,      \* [Writer -> buffers written]
  unremoved \* temporary files whose removal failed (history)

vars == <<dest, temp, present, stage, at, unremoved>>

Blank == [k \in Offset |-> Nobody]
Whole(w) == [k \in Offset |-> w]

(* os.CreateTemp: a random name, so each call has its own file.            *)
FixedName(w) == CHOOSE v \in Writer : TRUE
TempOf(w) == w

Init ==
  /\ dest = [n \in Name |-> Blank]
  /\ temp = [w \in Writer |-> Blank]
  /\ present = {}
  /\ stage = [w \in Writer |-> "check"]
  /\ at = [w \in Writer |-> 0]
  /\ unremoved = {}

Goto(w, s) == stage' = [stage EXCEPT ![w] = s]

(* ErrSameFile, a symbolic link on the way, no directory, no temp file.    *)
Refuse(w) ==
  /\ stage[w] = "check"
  /\ Goto(w, "failed")
  /\ UNCHANGED <<dest, temp, present, at, unremoved>>

CreateTemp(w) ==
  /\ stage[w] = "check"
  /\ present' = present \cup {TempOf(w)}
  /\ temp' = [temp EXCEPT ![TempOf(w)] = Blank]
  /\ Goto(w, "write")
  /\ UNCHANGED <<dest, at, unremoved>>

(* The source has more to read. *)
MoreToCopy(n) == n < Chunks

(* io.Copy, or the loop of the local copyFile. *)
WriteChunk(w) ==
  /\ stage[w] = "write"
  /\ MoreToCopy(at[w])
  /\ temp' = [temp EXCEPT ![TempOf(w)][at[w] + 1] = w]
  /\ at' = [at EXCEPT ![w] = at[w] + 1]
  /\ UNCHANGED <<dest, present, stage, unremoved>>

(* write returned nil and Close did: the whole content is in the file.     *)
CloseWithoutWaiting(w) == stage[w] = "write"
WriteIsComplete(w) == stage[w] = "write" /\ at[w] = Chunks

CloseTemp(w) ==
  /\ WriteIsComplete(w)
  /\ Goto(w, "rename")
  /\ UNCHANGED <<dest, temp, present, at, unremoved>>

Rename(w) ==
  /\ stage[w] = "rename"
  /\ TempOf(w) \in present
  /\ dest' = [dest EXCEPT ![NameOf[w]] = temp[TempOf(w)]]
  /\ present' = present \ {TempOf(w)}
  /\ Goto(w, "renamed")
  /\ UNCHANGED <<temp, at, unremoved>>

(* Chmod, a write, Close or Rename fails, or the context is done: the      *)
(* deferred calls follow.                                                  *)
StayBehind(w) == "failed"
AfterError(w) == "abort"

Break(w) ==
  /\ stage[w] \in {"write", "rename"}
  /\ Goto(w, AfterError(w))
  /\ UNCHANGED <<dest, temp, present, at, unremoved>>

(* os.Remove; its error is dropped. *)
RemoveTemp(w) ==
  /\ stage[w] = "abort"
  /\ \/ present' = present \ {TempOf(w)} /\ UNCHANGED unremoved
     \/ unremoved' = unremoved \cup {w} /\ UNCHANGED present
  /\ Goto(w, "failed")
  /\ UNCHANGED <<dest, temp, at>>

(* The callers close the source last, and its error fails a copy that is   *)
(* already in place.                                                       *)
Finish(w) ==
  /\ stage[w] = "renamed"
  /\ Goto(w, "ok") \/ Goto(w, "failed")
  /\ UNCHANGED <<dest, temp, present, at, unremoved>>

Crash(w) ==
  /\ stage[w] \notin {"ok", "failed", "crashed"}
  /\ Goto(w, "crashed")
  /\ UNCHANGED <<dest, temp, present, at, unremoved>>

WriterStep(w) ==
  \/ Refuse(w) \/ CreateTemp(w) \/ WriteChunk(w) \/ CloseTemp(w) \/ Rename(w)
  \/ Break(w) \/ RemoveTemp(w) \/ Finish(w) \/ Crash(w)

Next == \E w \in Writer : WriterStep(w)

Spec == Init /\ [][Next]_vars

-----------------------------------------------------------------------------
(* Properties. *)

(* The variables keep their types.                                         *)
TypeOK ==
  /\ dest \in [Name -> [Offset -> Writer \cup {Nobody}]]
  /\ temp \in [Writer -> [Offset -> Writer \cup {Nobody}]]
  /\ present \subseteq Writer
  /\ stage \in [Writer -> {"check", "write", "rename", "renamed", "abort", "ok",
                            "failed", "crashed"}]
  /\ at \in [Writer -> 0..Chunks]
  /\ unremoved \subseteq Writer

(* A partial file outlives its call only after a crash, or when removing it*)
(* failed too: no error path returns without having tried.                 *)
PartialsAreRemoved ==
  \A w \in present : stage[w] \in {"ok", "failed"} => w \in unremoved

(* With any number of writers of one destination, whichever fail or crash, *)
(* the destination holds the previous content or the whole content of one  *)
(* of them; it changes at once, and for each writer before it returns.     *)
(* Writers of other destinations do not touch it.                          *)
WritersOf(n) == {w \in Writer : NameOf[w] = n}

Owner ==
  IF dest[Watched] = Blank THEN Nobody
  ELSE IF \E w \in WritersOf(Watched) : dest[Watched] = Whole(w)
    THEN CHOOSE w \in WritersOf(Watched) : dest[Watched] = Whole(w)
    ELSE "torn"

Cell == INSTANCE AtomicCell WITH
  Writer <- WritersOf(Watched),
  cell <- Owner,
  result <- [w \in WritersOf(Watched) |->
               CASE stage[w] = "ok" -> "ok"
                 [] stage[w] = "renamed" -> "replaced"
                 [] stage[w] \in {"failed", "crashed"} -> "failed"
                 [] OTHER -> "pending"]

Replaces == Cell!Spec
=============================================================================
