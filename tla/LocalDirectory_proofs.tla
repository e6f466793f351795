------------------------ MODULE LocalDirectory_proofs ------------------------
(***************************************************************************)
(* What the runs and restores that share a local directory may rely on,    *)
(* for any number of them, any names and files of any length.              *)
(***************************************************************************)
EXTENDS LocalDirectory, TLAPS

(***************************************************************************)
(* WriteFileAtomically implements an atomic cell for every destination, for*)
(* any number of writers and destinations and files of any length.         *)
(***************************************************************************)

(* A temporary file holds what its writer has written so far, all of it    *)
(* when it is renamed; so every destination is always whole.               *)
Progress(w) ==
  /\ stage[w] = "check" => at[w] = 0
  /\ stage[w] = "write" => \A k \in 1..at[w] : temp[w][k] = w
  /\ stage[w] = "rename" => temp[w] = Whole(w)

(* Only a call in progress, or one that failed to remove it, has a         *)
(* temporary file; a crashed one may.                                      *)
Removal(w) ==
  w \in present =>
    \/ stage[w] \in {"write", "rename", "abort", "crashed"}
    \/ stage[w] = "failed" /\ w \in unremoved

WholeDest ==
  \A n \in Name : dest[n] = Blank \/ \E w \in WritersOf(n) : dest[n] = Whole(w)

WriteInv ==
  /\ TypeOK
  /\ WholeDest
  /\ \A w \in Writer : Progress(w) /\ Removal(w)

-----------------------------------------------------------------------------

(* Whole files of different writers differ, and from what was there before.*)
LEMMA WholeFilesDiffer ==
  ASSUME NEW v \in Writer, NEW w \in Writer
  PROVE  Whole(v) # Blank /\ (Whole(v) = Whole(w) => v = w)
<1>1. 1 \in Offset
  BY AtomicWriteAssumption DEF Offset
<1>2. Whole(v)[1] = v /\ Whole(w)[1] = w /\ Blank[1] = Nobody
  BY <1>1 DEF Whole, Blank
<1> QED
  BY <1>2, AtomicWriteAssumption

(* No temporary file is there at first.                                    *)
LEMMA InitEstablishes ==
  ASSUME Init
  PROVE  WriteInv
<1>1. Blank \in [Offset -> Writer \cup {Nobody}]
  BY DEF Blank
<1>2. TypeOK
  BY <1>1, AtomicWriteAssumption DEF Init, TypeOK
<1>3. ASSUME NEW w \in Writer PROVE Progress(w) /\ Removal(w)
  BY DEF Init, Progress, Removal
<1> QED
  BY <1>2, <1>3 DEF Init, WriteInv, WholeDest

(* What a step of one writer leaves alone in the others.                   *)
LEMMA OthersUntouched ==
  ASSUME WriteInv, NEW w \in Writer, WriterStep(w), NEW v \in Writer, v # w
  PROVE  /\ stage'[v] = stage[v] /\ at'[v] = at[v] /\ temp'[v] = temp[v]
         /\ v \in present' <=> v \in present
         /\ v \in unremoved' <=> v \in unremoved
  BY DEF WriteInv, TypeOK, WriterStep, Refuse, CreateTemp, WriteChunk, CloseTemp,
         Rename, Break, RemoveTemp, Finish, Crash, Goto, TempOf

(* No file operation leaves the types.                                     *)
LEMMA StepKeepsTypes ==
  ASSUME WriteInv, NEW w \in Writer, WriterStep(w)
  PROVE  TypeOK'
<1> USE DEF WriteInv, TypeOK, Goto, TempOf
<1>a. NameOf[w] \in Name
  BY AtomicWriteAssumption
<1>1. Blank \in [Offset -> Writer \cup {Nobody}]
  BY DEF Blank
<1>2. CASE Refuse(w)
  BY <1>2 DEF Refuse
<1>3. CASE CreateTemp(w)
  BY <1>1, <1>3 DEF CreateTemp
<1>4. CASE WriteChunk(w)
  <2>1. at[w] + 1 \in 0..Chunks /\ at[w] + 1 \in Offset
    BY <1>4, AtomicWriteAssumption DEF WriteChunk, MoreToCopy, Offset
  <2>2. [temp[w] EXCEPT ![at[w] + 1] = w] \in [Offset -> Writer \cup {Nobody}]
    BY <2>1
  <2>3. temp' = [temp EXCEPT ![w] = [temp[w] EXCEPT ![at[w] + 1] = w]]
    BY <1>4 DEF WriteChunk
  <2>4. at' \in [Writer -> 0..Chunks] /\ temp' \in [Writer -> [Offset -> Writer \cup {Nobody}]]
    BY <1>4, <2>1, <2>2, <2>3 DEF WriteChunk
  <2> QED
    BY <1>4, <2>4 DEF WriteChunk
<1>5. CASE CloseTemp(w)
  BY <1>5 DEF CloseTemp
<1>6. CASE Rename(w)
  BY <1>a, <1>6 DEF Rename
<1>7. CASE Break(w)
  BY <1>7 DEF Break, AfterError
<1>8. CASE RemoveTemp(w)
  BY <1>8 DEF RemoveTemp
<1>9. CASE Finish(w) \/ Crash(w)
  BY <1>9 DEF Finish, Crash
<1> QED
  BY <1>2, <1>3, <1>4, <1>5, <1>6, <1>7, <1>8, <1>9 DEF WriterStep

(* A step keeps the progress and the removal of the writer that takes it.  *)
LEMMA StepKeepsOwn ==
  ASSUME WriteInv, NEW w \in Writer, WriterStep(w)
  PROVE  Progress(w)' /\ Removal(w)'
<1> USE DEF WriteInv, TypeOK, Goto, TempOf, Progress, Removal
<1>1. CASE Refuse(w)
  BY <1>1 DEF Refuse
<1>2. CASE CreateTemp(w)
  <2>1. at'[w] = 0 /\ stage'[w] = "write"
    BY <1>2 DEF CreateTemp
  <2> QED
    BY <2>1
<1>3. CASE WriteChunk(w)
  <2>1. at[w] \in Nat /\ at[w] + 1 \in Offset /\ at'[w] = at[w] + 1 /\ stage'[w] = "write"
    BY <1>3, AtomicWriteAssumption DEF WriteChunk, MoreToCopy, Offset
  <2>2. temp'[w] = [temp[w] EXCEPT ![at[w] + 1] = w]
    BY <1>3 DEF WriteChunk
  <2>3. ASSUME NEW k \in 1..at'[w] PROVE temp'[w][k] = w
    <3>1. k \in Offset /\ (k = at[w] + 1 \/ k \in 1..at[w])
      BY <2>1, AtomicWriteAssumption DEF Offset
    <3> QED
      BY <1>3, <2>2, <3>1 DEF WriteChunk
  <2> QED
    BY <2>1, <2>3
<1>4. CASE CloseTemp(w)
  <2>1. \A k \in Offset : temp[w][k] = w
    BY <1>4 DEF CloseTemp, WriteIsComplete, Offset
  <2>2. temp[w] = Whole(w)
    BY <2>1 DEF Whole
  <2> QED
    BY <1>4, <2>2 DEF CloseTemp, WriteIsComplete
<1>5. CASE Rename(w)
  BY <1>5 DEF Rename
<1>6. CASE Break(w)
  BY <1>6 DEF Break, AfterError
<1>7. CASE RemoveTemp(w)
  BY <1>7 DEF RemoveTemp
<1>8. CASE Finish(w) \/ Crash(w)
  BY <1>8 DEF Finish, Crash
<1> QED
  BY <1>1, <1>2, <1>3, <1>4, <1>5, <1>6, <1>7, <1>8 DEF WriterStep

(* Only Rename changes a destination, its own, to the whole file of its    *)
(* writer.                                                                 *)
LEMMA OnlyRenameReplaces ==
  ASSUME WriteInv, NEW w \in Writer, WriterStep(w)
  PROVE  \/ dest' = dest /\ ~Rename(w)
         \/ /\ Rename(w)
            /\ \A n \in Name : dest'[n] = IF n = NameOf[w] THEN Whole(w) ELSE dest[n]
<1>1. CASE Rename(w)
  BY <1>1, AtomicWriteAssumption DEF Rename, WriteInv, TypeOK, Progress, TempOf
<1>2. CASE ~Rename(w)
  BY <1>2 DEF WriterStep, Refuse, CreateTemp, WriteChunk, CloseTemp, Break, RemoveTemp,
              Finish, Crash
<1> QED
  BY <1>1, <1>2

(* No file operation leaves a destination half written.                    *)
LEMMA StepKeepsWhole ==
  ASSUME WriteInv, NEW w \in Writer, WriterStep(w)
  PROVE  WholeDest'
<1> SUFFICES ASSUME NEW n \in Name
    PROVE  dest'[n] = Blank \/ \E v \in WritersOf(n) : dest'[n] = Whole(v)
  BY DEF WholeDest, Blank, Whole, WritersOf
<1>1. CASE dest'[n] = dest[n]
  BY <1>1 DEF WriteInv, WholeDest
<1>2. CASE n = NameOf[w] /\ dest'[n] = Whole(w)
  BY <1>2 DEF WritersOf
<1> QED
  BY <1>1, <1>2, OnlyRenameReplaces

(* Each step of the writers keeps the invariant.                           *)
LEMMA StepPreserves ==
  ASSUME WriteInv, [Next]_vars
  PROVE  WriteInv'
<1>1. CASE UNCHANGED vars
  BY <1>1 DEF vars, WriteInv, TypeOK, WholeDest, WritersOf, Blank, Whole, Progress, Removal
<1>2. ASSUME NEW w \in Writer, WriterStep(w)
      PROVE  WriteInv'
  <2>1. WholeDest'
    BY <1>2, StepKeepsWhole
  <2>2. ASSUME NEW v \in Writer
        PROVE  Progress(v)' /\ Removal(v)'
    <3>1. CASE v = w
      BY <1>2, <3>1, StepKeepsOwn
    <3>2. CASE v # w
      <4>1. Progress(v) /\ Removal(v)
        BY DEF WriteInv
      <4> QED
        BY <1>2, <3>2, <4>1, OthersUntouched DEF Progress, Removal, Whole
    <3> QED
      BY <3>1, <3>2
  <2> QED
    BY <1>2, <2>1, <2>2, StepKeepsTypes DEF WriteInv
<1> QED
  BY <1>1, <1>2 DEF Next

(* Temporary files hold their progress, destinations whole files.          *)
THEOREM Invariance == Spec => []WriteInv
<1> QED
  BY InitEstablishes, StepPreserves, PTL DEF Spec

(* Every variable keeps its type.                                          *)
THEOREM TypeCorrect == Spec => []TypeOK
<1>1. WriteInv => TypeOK
  BY DEF WriteInv
<1> QED
  BY <1>1, Invariance, PTL

(* WriteFileAtomically leaves its temporary file only if removing it failed*)
(* or the process crashed.                                                 *)
THEOREM NoPartialIsLeft == Spec => []PartialsAreRemoved
<1>1. WriteInv => PartialsAreRemoved
  BY DEF WriteInv, TypeOK, Removal, PartialsAreRemoved
<1> QED
  BY <1>1, Invariance, PTL

-----------------------------------------------------------------------------
(* The refinement. *)

(* The value of the cell.                                                  *)
LEMMA OwnerOf ==
  /\ dest[Watched] = Blank => Owner = Nobody
  /\ \A w \in WritersOf(Watched) : dest[Watched] = Whole(w) => Owner = w
  /\ \A w \in WritersOf(Watched) : dest'[Watched] = Whole(w) => Owner' = w
<1>1. ASSUME NEW w \in WritersOf(Watched)
      PROVE  /\ Whole(w) # Blank
             /\ \A v \in WritersOf(Watched) : Whole(v) = Whole(w) => v = w
  BY WholeFilesDiffer DEF WritersOf
<1>2. ASSUME NEW w \in WritersOf(Watched), NEW d, d = Whole(w)
      PROVE  (CHOOSE v \in WritersOf(Watched) : d = Whole(v)) = w
  BY <1>1, <1>2
<1>3. ASSUME NEW w \in WritersOf(Watched), dest[Watched] = Whole(w)
      PROVE  Owner = w
  BY <1>1, <1>2, <1>3 DEF Owner
<1>4. ASSUME NEW w \in WritersOf(Watched), dest'[Watched] = Whole(w)
      PROVE  Owner' = w
  <2>1. Blank' = Blank /\ WritersOf(Watched)' = WritersOf(Watched)
    BY DEF Blank, WritersOf
  <2>2. \A v \in WritersOf(Watched) : Whole(v)' = Whole(v)
    BY DEF Whole
  <2> QED
    BY <1>1, <1>2, <1>4, <2>1, <2>2 DEF Owner
<1> QED
  BY <1>3, <1>4 DEF Owner

(* What a writer's caller can know.                                        *)
Outcome(s) ==
  CASE s = "ok" -> "ok"
    [] s = "renamed" -> "replaced"
    [] s \in {"failed", "crashed"} -> "failed"
    [] OTHER -> "pending"

Results == [w \in WritersOf(Watched) |-> Outcome(stage[w])]

(* At first each name is a cell that nobody has written.                   *)
LEMMA InitImplements ==
  ASSUME Init
  PROVE  Cell!Init
<1>1. Owner = Nobody
  BY OwnerOf, AtomicWriteAssumption DEF Init
<1>2. Results = [w \in WritersOf(Watched) |-> "pending"]
  BY DEF Init, Results, Outcome, WritersOf
<1> QED
  BY <1>1, <1>2 DEF Cell!Init, Results, Outcome

(* What a step of one writer does to the outcomes.                         *)
LEMMA OutcomeMoves ==
  ASSUME WriteInv, NEW w \in Writer, WriterStep(w)
  PROVE  Results' = [Results EXCEPT ![w] = Outcome(stage'[w])]
<1>1. \A v \in Writer : v # w => stage'[v] = stage[v]
  BY OthersUntouched
<1> QED
  BY <1>1 DEF Results, WritersOf

(* What a writer has of the cell and of its outcome before and after.      *)
LEMMA OwnOutcome ==
  ASSUME WriteInv, NEW w \in Writer, WriterStep(w)
  PROVE  \/ /\ Rename(w)
            /\ Outcome(stage[w]) = "pending" /\ Outcome(stage'[w]) = "replaced"
         \/ /\ ~Rename(w)
            /\ \/ Outcome(stage'[w]) = Outcome(stage[w])
               \/ Outcome(stage[w]) = "replaced" /\ Outcome(stage'[w]) = "ok"
               \/ /\ Outcome(stage[w]) \in {"pending", "replaced"}
                  /\ Outcome(stage'[w]) = "failed"
<1> USE DEF WriteInv, TypeOK, Goto, Outcome
<1>1. CASE Rename(w)
  BY <1>1 DEF Rename
<1>2. CASE ~Rename(w) /\ (Refuse(w) \/ CreateTemp(w) \/ WriteChunk(w) \/ CloseTemp(w))
  BY <1>2 DEF Refuse, CreateTemp, WriteChunk, CloseTemp, WriteIsComplete
<1>3. CASE ~Rename(w) /\ (Break(w) \/ RemoveTemp(w))
  BY <1>3 DEF Break, AfterError, RemoveTemp
<1>4. CASE ~Rename(w) /\ Finish(w)
  BY <1>4 DEF Finish
<1>5. CASE ~Rename(w) /\ Crash(w)
  BY <1>5 DEF Crash
<1> QED
  BY <1>1, <1>2, <1>3, <1>4, <1>5 DEF WriterStep

(* A writer of another destination changes nothing of the cell.            *)
LEMMA OthersAreSilent ==
  ASSUME WriteInv, NEW w \in Writer, WriterStep(w), w \notin WritersOf(Watched)
  PROVE  Owner' = Owner /\ Results' = Results
<1>1. dest'[Watched] = dest[Watched]
  BY OnlyRenameReplaces, AtomicWriteAssumption DEF WritersOf
<1>2. \A v \in WritersOf(Watched) : stage'[v] = stage[v]
  BY OthersUntouched DEF WritersOf
<1> QED
  BY <1>1, <1>2 DEF Owner, Results, Blank, Whole, WritersOf

(* Rename replaces the cell, a return ends the call, all else is silent.   *)
LEMMA StepImplements ==
  ASSUME WriteInv, [Next]_vars
  PROVE  [Cell!Next]_(Cell!atomic)
<1> DEFINE mapped == [w \in WritersOf(Watched) |->
               CASE stage[w] = "ok" -> "ok"
                 [] stage[w] = "renamed" -> "replaced"
                 [] stage[w] \in {"failed", "crashed"} -> "failed"
                 [] OTHER -> "pending"]
<1>1. mapped = Results /\ mapped' = Results'
  BY DEF Results, Outcome, WritersOf
<1>2. CASE UNCHANGED vars
  BY <1>2 DEF vars, Cell!atomic, Owner, Blank, Whole, WritersOf
<1>3. ASSUME NEW w \in WritersOf(Watched), WriterStep(w)
      PROVE  Cell!Next \/ UNCHANGED <<Owner, mapped>>
  <2>0. w \in Writer /\ NameOf[w] = Watched /\ Watched \in Name
    BY AtomicWriteAssumption DEF WritersOf
  <2>1. /\ mapped' = [mapped EXCEPT ![w] = Outcome(stage'[w])]
        /\ mapped[w] = Outcome(stage[w])
    BY <1>1, <1>3, <2>0, OutcomeMoves DEF Results
  <2>2. CASE Rename(w)
    <3>1. Owner' = w
      BY <1>3, <2>0, <2>2, OnlyRenameReplaces, OwnerOf
    <3>2. mapped[w] = "pending" /\ mapped' = [mapped EXCEPT ![w] = "replaced"]
      BY <1>3, <2>0, <2>1, <2>2, OwnOutcome
    <3>3. Cell!Replace(w)
      BY <3>1, <3>2 DEF Cell!Replace
    <3> QED
      BY <3>3 DEF Cell!Next
  <2>3. CASE ~Rename(w)
    <3>1. Owner' = Owner
      BY <1>3, <2>0, <2>3, OnlyRenameReplaces DEF Owner, Blank, Whole, WritersOf
    <3>2. CASE Outcome(stage'[w]) = Outcome(stage[w])
      BY <2>1, <3>1, <3>2
    <3>3. CASE Outcome(stage[w]) = "replaced" /\ Outcome(stage'[w]) = "ok"
      <4>1. Cell!Succeed(w)
        BY <2>1, <3>1, <3>3 DEF Cell!Succeed
      <4> QED
        BY <4>1 DEF Cell!Next
    <3>4. CASE /\ Outcome(stage[w]) \in {"pending", "replaced"}
               /\ Outcome(stage'[w]) = "failed"
      <4>1. Cell!GiveUp(w)
        BY <2>1, <3>1, <3>4 DEF Cell!GiveUp
      <4> QED
        BY <4>1 DEF Cell!Next
    <3> QED
      BY <1>3, <2>0, <2>3, <3>2, <3>3, <3>4, OwnOutcome
  <2> QED
    BY <2>2, <2>3
<1>4. ASSUME NEW w \in Writer \ WritersOf(Watched), WriterStep(w)
      PROVE  UNCHANGED <<Owner, mapped>>
  BY <1>1, <1>4, OthersAreSilent
<1>5. Cell!Next \/ UNCHANGED <<Owner, mapped>> \/ UNCHANGED vars
  BY <1>3, <1>4 DEF Next
<1> QED
  BY <1>2, <1>5 DEF Cell!atomic

(* WriteFileAtomically implements an atomic cell.                          *)
THEOREM WriteImplementsCell == Spec => Replaces
<1>1. WriteInv /\ [Next]_vars => [Cell!Next]_(Cell!atomic)
  BY StepImplements
<1> QED
  BY <1>1, Invariance, InitImplements, PTL DEF Spec, Replaces, Cell!Spec

-----------------------------------------------------------------------------

(* A file that was in the directory at some time.                          *)
Known(file) ==
  \/ file \in Writer /\ stage[file] # "check"
  \/ file \in Older
  \/ file \in Name /\ dest[file] # Blank

(* A backup stays where it was renamed to.                                 *)
Stays == \A w \in Writer : stage[w] \in {"renamed", "ok"} => dest[NameOf[w]] # Blank

(* Only a run whose upload is in place deletes.                            *)
Replaced == older # Older => \E w \in Pruner : dest[NameOf[w]] # Blank

WalkInv(p) ==
  /\ \A file \in todo[p] \cup seen[p] : Known(file)
  /\ walk[p] = "failed" => Known(pick[p]) /\ pick[p] \notin Files
  /\ walk[p] = "chosen" => pick[p] \in Name /\ Known(pick[p])
  /\ p \in Pruner /\ walk[p] # "idle" => dest[NameOf[p]] # Blank
  /\ walk[p] \in {"chosen", "restored", "missing"} => p \in Restorer
  /\ walk[p] = "restored" =>
       \/ pick[p] \in Older /\ got[p] = Blank
       \/ \E w \in Writer : NameOf[w] = pick[p] /\ got[p] = Whole(w)
  /\ walk[p] = "missing" => Published \ Older # {}

LocalInv ==
  /\ WriteInv
  /\ LocalTypeOK
  /\ Stays
  /\ Replaced
  /\ \A p \in Process : WalkInv(p)

-----------------------------------------------------------------------------

(* No walk has begun at first.                                             *)
LEMMA LocalInitEstablishes ==
  ASSUME LocalInit
  PROVE  LocalInv
<1>1. WriteInv
  BY InitEstablishes DEF LocalInit
<1>2. Blank \in [Offset -> Writer \cup {Nobody}]
  BY DEF Blank
<1>3. LocalTypeOK
  BY <1>1, <1>2 DEF LocalInit, LocalTypeOK, WriteInv
<1>4. Stays
  BY DEF LocalInit, Init, Stays
<1>5. Replaced
  BY DEF LocalInit, Replaced
<1>6. ASSUME NEW p \in Process PROVE WalkInv(p)
  BY DEF LocalInit, WalkInv
<1> QED
  BY <1>1, <1>3, <1>4, <1>5, <1>6 DEF LocalInv

(* What a file operation of a writer does to the directory: a destination  *)
(* is never emptied, and a file that is gone does not come back.           *)
LEMMA WritersKeep ==
  ASSUME LocalInv, NEW w \in Writer, WriterStep(w), UNCHANGED walkVars
  PROVE  /\ \A n \in Name : dest[n] # Blank => dest'[n] # Blank
         /\ \A file : Known(file) => Known(file)'
         /\ \A file : Known(file) /\ file \notin Files => file \notin Files'
<1>1. NameOf[w] \in Name /\ NameOf[w] \notin Older /\ Older \subseteq Name
  BY AtomicWriteAssumption, LocalDirectoryAssumption
<1>2. \A n \in Name : dest'[n] = dest[n] \/ (n = NameOf[w] /\ dest'[n] = Whole(w))
  BY OnlyRenameReplaces DEF LocalInv
<1>3. \A n \in Name : dest[n] # Blank => dest'[n] # Blank
  BY <1>2, WholeFilesDiffer
<1>4. stage'[w] # "check"
  BY DEF LocalInv, WriteInv, TypeOK, WriterStep, Refuse, CreateTemp, WriteChunk, CloseTemp,
         Rename, Break, AfterError, RemoveTemp, Finish, Crash, Goto, WriteIsComplete
<1>5. \A v \in Writer : stage[v] # "check" => stage'[v] # "check"
  BY <1>4, OthersUntouched DEF LocalInv
<1>6. ASSUME NEW file, Known(file) PROVE Known(file)'
  BY <1>3, <1>5, <1>6 DEF Known, Blank
<1>7. \A v \in present' : v \in present \/ (v = w /\ stage[v] = "check")
  BY DEF LocalInv, WriteInv, TypeOK, WriterStep, Refuse, CreateTemp, WriteChunk, CloseTemp,
         Rename, Break, RemoveTemp, Finish, Crash, Goto, TempOf
<1>8. ASSUME NEW file, Known(file), file \notin Files PROVE file \notin Files'
  <2>1. file \notin present'
    <3>1. file \in Writer => stage[file] # "check"
      BY <1>8, <1>1, LocalDirectoryAssumption DEF Known
    <3> QED
      BY <1>7, <1>8, <3>1 DEF Files
  <2>2. file \notin Published'
    <3>1. older' = older
      BY DEF walkVars
    <3>2. file \in Name => dest[file] = Blank /\ file \notin older
      BY <1>8 DEF Files, Published
    <3>3. file \in Name => file \in Older
      BY <1>8, <3>2, LocalDirectoryAssumption DEF Known
    <3>4. file \in Name => dest'[file] = Blank
      BY <1>1, <1>2, <3>2, <3>3
    <3>5. older \subseteq Name
      BY <1>1 DEF LocalInv, LocalTypeOK
    <3> QED
      BY <3>1, <3>2, <3>4, <3>5 DEF Published, Blank
  <2> QED
    BY <2>1, <2>2 DEF Files
<1> QED
  BY <1>3, <1>6, <1>8

(* A file operation of a writer keeps what the walks know.                 *)
LEMMA WriterStepPreserves ==
  ASSUME LocalInv, NEW w \in Writer, WriterStep(w), UNCHANGED walkVars
  PROVE  LocalInv'
<1>1. WriteInv'
  BY StepPreserves DEF LocalInv, Next
<1>2. LocalTypeOK'
  BY <1>1 DEF LocalInv, LocalTypeOK, WriteInv, walkVars, Offset
<1>3. \A n \in Name : dest[n] # Blank => dest'[n] # Blank
  BY WritersKeep
<1>4. \A v \in Writer : NameOf[v] \in Name
  BY AtomicWriteAssumption
<1>5. Stays'
  <2> SUFFICES ASSUME NEW v \in Writer, stage'[v] \in {"renamed", "ok"}
      PROVE  dest'[NameOf[v]] # Blank
    BY DEF Stays, Blank
  <2>1. CASE stage[v] \in {"renamed", "ok"}
    BY <1>3, <1>4, <2>1 DEF LocalInv, Stays
  <2>2. CASE stage[v] \notin {"renamed", "ok"}
    <3>1. v = w
      BY <2>2, OthersUntouched DEF LocalInv
    <3>2. Rename(w)
      BY <2>2, <3>1 DEF LocalInv, WriteInv, TypeOK, WriterStep, Refuse, CreateTemp,
         WriteChunk, CloseTemp, Break, AfterError, RemoveTemp, Finish, Crash, Goto,
         WriteIsComplete
    <3>3. dest'[NameOf[w]] = Whole(w)
      BY <1>4, <3>2, OnlyRenameReplaces DEF LocalInv
    <3> QED
      BY <3>1, <3>3, WholeFilesDiffer
  <2> QED
    BY <2>1, <2>2
<1>6. Replaced'
  BY <1>3, <1>4, LocalDirectoryAssumption DEF LocalInv, Replaced, walkVars, Blank
<1>7. ASSUME NEW p \in Process PROVE WalkInv(p)'
  <2>1. WalkInv(p)
    BY DEF LocalInv
  <2>2. UNCHANGED <<older, walk, todo, seen, pick, got>>
    BY DEF walkVars
  <2>3. \A file \in todo'[p] \cup seen'[p] : Known(file)'
    BY <2>1, <2>2, WritersKeep DEF WalkInv
  <2>4. walk'[p] = "failed" => Known(pick[p])' /\ pick[p] \notin Files'
    BY <2>1, <2>2, WritersKeep DEF WalkInv
  <2>5. walk'[p] = "chosen" => pick[p] \in Name /\ Known(pick[p])'
    BY <2>1, <2>2, WritersKeep DEF WalkInv
  <2>6. p \in Pruner /\ walk'[p] # "idle" => dest'[NameOf[p]] # Blank
    BY <1>3, <1>4, <2>1, <2>2, LocalDirectoryAssumption DEF WalkInv
  <2>7. Published \ Older # {} => Published' \ Older # {}
    BY <1>3, <2>2 DEF Published, Blank
  <2>8. pick'[p] = pick[p] /\ walk'[p] = walk[p] /\ got'[p] = got[p]
    BY <2>2
  <2> QED
    BY <2>1, <2>3, <2>4, <2>5, <2>6, <2>7, <2>8 DEF WalkInv, Blank, Whole
<1> QED
  BY <1>1, <1>2, <1>5, <1>6, <1>7 DEF LocalInv

-----------------------------------------------------------------------------
(* The steps of the walks. *)

(* What a step of a walk leaves alone.                                     *)
LEMMA WalksKeep ==
  ASSUME LocalInv, WalkStep, UNCHANGED vars
  PROVE  /\ WriteInv' /\ Stays'
         /\ older' \subseteq older
         /\ dest' = dest /\ present' = present /\ stage' = stage
         /\ \A file : Known(file)' <=> Known(file)
         /\ \A file : file \notin Files => file \notin Files'
         /\ Published \ Older # {} => Published' \ Older # {}
<1>1. WriteInv'
  BY StepPreserves DEF LocalInv
<1>2. dest' = dest /\ present' = present /\ stage' = stage
  BY DEF vars
<1>3. older' \subseteq older
  BY DEF WalkStep, BeginWalk, Lstat, Choose, Download, BeginRetention, Remove, FinishRetention
<1>4. Stays'
  BY <1>2 DEF LocalInv, Stays, Blank
<1>5. older \subseteq Older
  BY DEF LocalInv, LocalTypeOK
<1> QED
  BY <1>1, <1>2, <1>3, <1>4, <1>5 DEF Known, Files, Published, Blank

(* A walk's step keeps the types and the invariant of the other processes. *)
OnlyOf(p) ==
  \A q \in Process \ {p} :
    /\ walk'[q] = walk[q] /\ todo'[q] = todo[q] /\ seen'[q] = seen[q]
    /\ pick'[q] = pick[q] /\ (q \in Restorer => got'[q] = got[q])

(* A step of one walk leaves the other walks as they are.                  *)
LEMMA OthersKeep ==
  ASSUME LocalInv, WalkStep, UNCHANGED vars,
         NEW p \in Process, OnlyOf(p), WalkInv(p)', LocalTypeOK', Replaced'
  PROVE  LocalInv'
<1>1. ASSUME NEW q \in Process, q # p PROVE WalkInv(q)'
  <2>1. WalkInv(q)
    BY DEF LocalInv
  <2>2. /\ walk'[q] = walk[q] /\ todo'[q] = todo[q] /\ seen'[q] = seen[q]
        /\ pick'[q] = pick[q] /\ (q \in Restorer => got'[q] = got[q])
    BY <1>1 DEF OnlyOf
  <2>3. \A file \in todo'[q] \cup seen'[q] : Known(file)'
    BY <2>1, <2>2, WalksKeep DEF WalkInv
  <2>4. walk'[q] = "failed" => Known(pick[q])' /\ pick[q] \notin Files'
    BY <2>1, <2>2, WalksKeep DEF WalkInv
  <2>5. walk'[q] = "chosen" => pick[q] \in Name /\ Known(pick[q])'
    BY <2>1, <2>2, WalksKeep DEF WalkInv
  <2>6. q \in Pruner /\ walk'[q] # "idle" => dest'[NameOf[q]] # Blank
    BY <2>1, <2>2, WalksKeep DEF WalkInv
  <2>7. q \notin Restorer => walk[q] # "restored"
    BY <2>1 DEF WalkInv
  <2>8. Published \ Older # {} => Published' \ Older # {}
    BY WalksKeep
  <2> QED
    BY <2>1, <2>2, <2>3, <2>4, <2>5, <2>6, <2>7, <2>8 DEF WalkInv, Blank, Whole
<1> QED
  BY <1>1, WalksKeep DEF LocalInv

(* Files on disk were there at some time, and have the names of files.     *)
LEMMA FilesAreKnown ==
  ASSUME LocalInv
  PROVE  /\ \A file \in Files : Known(file) /\ file \in Writer \cup Name
         /\ \A p \in Process : todo[p] \subseteq Writer \cup Name
                              /\ seen[p] \subseteq Writer \cup Name
<1>1. \A w \in present : w \in Writer /\ stage[w] # "check"
  BY DEF LocalInv, WriteInv, TypeOK, Removal
<1>2. older \subseteq Older /\ Older \subseteq Name
  BY LocalDirectoryAssumption DEF LocalInv, LocalTypeOK
<1>3. \A p \in Process : todo[p] \subseteq Writer \cup Name /\ seen[p] \subseteq Writer \cup Name
  BY DEF LocalInv, LocalTypeOK
<1> QED
  BY <1>1, <1>2, <1>3 DEF Files, Published, Known

(* What a directory lists was in it.                                       *)
LEMMA BeginWalkPreserves ==
  ASSUME LocalInv, UNCHANGED vars, NEW p \in Process, BeginWalk(p)
  PROVE  LocalInv'
<1>0. WalkStep
  BY DEF WalkStep
<1>1. LocalTypeOK'
  BY <1>0, WalksKeep, FilesAreKnown
     DEF LocalInv, LocalTypeOK, WriteInv, BeginWalk, At
<1>2. Replaced'
  BY DEF LocalInv, Replaced, BeginWalk, vars, Blank
<1>3. p \in Pruner => dest[NameOf[p]] # Blank
  BY LocalDirectoryAssumption DEF LocalInv, Stays, BeginWalk
<1>4. OnlyOf(p)
  BY DEF OnlyOf, BeginWalk, At, LocalInv, LocalTypeOK
<1>5. WalkInv(p)'
  <2>1. WalkInv(p) /\ walk'[p] = "walk" /\ todo'[p] = Files /\ seen'[p] = seen[p]
    BY DEF LocalInv, LocalTypeOK, BeginWalk, At
  <2>2. \A file \in todo'[p] \cup seen'[p] : Known(file)'
    BY <1>0, <2>1, WalksKeep, FilesAreKnown DEF WalkInv
  <2> QED
    BY <1>0, <1>3, <2>1, <2>2, WalksKeep DEF WalkInv, Blank
<1> QED
  BY <1>0, <1>1, <1>2, <1>4, <1>5, OthersKeep

(* A walk fails over a file that is gone, or has seen one more.            *)
LEMMA LstatPreserves ==
  ASSUME LocalInv, UNCHANGED vars, NEW p \in Process, Lstat(p)
  PROVE  LocalInv'
<1>0. WalkStep
  BY DEF WalkStep
<1>a. /\ DOMAIN walk = Process
      /\ pick \in [Process -> Writer \cup Name \cup {Nobody}]
      /\ todo \in [Process -> SUBSET (Writer \cup Name)]
      /\ seen \in [Process -> SUBSET (Writer \cup Name)]
  BY DEF LocalInv, LocalTypeOK
<1>1. PICK file \in todo[p] :
        IF Gone(file)
          THEN Leave(p, "failed") /\ pick' = [pick EXCEPT ![p] = file]
          ELSE /\ todo' = [todo EXCEPT ![p] = @ \ {file}]
               /\ seen' = [seen EXCEPT ![p] = @ \cup {file}]
               /\ UNCHANGED <<walk, pick>>
  BY DEF Lstat
<1>2. file \in Writer \cup Name /\ Known(file)
  BY <1>1, FilesAreKnown DEF LocalInv, WalkInv
<1>3. Replaced'
  BY DEF LocalInv, Replaced, Lstat, vars, Blank
<1>4. walk[p] = "walk" /\ older' = older /\ got' = got
  BY DEF Lstat
<1>5. CASE Gone(file)
  <2>1. /\ walk' = [walk EXCEPT ![p] = "failed"] /\ pick' = [pick EXCEPT ![p] = file]
        /\ todo' = [todo EXCEPT ![p] = {}] /\ seen' = [seen EXCEPT ![p] = {}]
    BY <1>1, <1>5 DEF Leave, At
  <2>2. LocalTypeOK'
    BY <1>0, <1>2, <1>4, <2>1, WalksKeep DEF LocalInv, LocalTypeOK, WriteInv
  <2>3. OnlyOf(p)
    BY <1>a, <1>4, <2>1 DEF OnlyOf
  <2>4. WalkInv(p)'
    <3>1. /\ walk'[p] = "failed" /\ pick'[p] = file
          /\ todo'[p] = {} /\ seen'[p] = {}
      BY <1>a, <2>1
    <3>2. Known(file)' /\ file \notin Files'
      BY <1>0, <1>2, <1>5, WalksKeep DEF Gone
    <3>3. p \in Pruner => dest'[NameOf[p]] # Blank
      BY <1>0, <1>4, WalksKeep DEF LocalInv, WalkInv
    <3> QED
      BY <3>1, <3>2, <3>3 DEF WalkInv, Blank
  <2> QED
    BY <1>0, <1>3, <2>2, <2>3, <2>4, OthersKeep
<1>6. CASE ~Gone(file)
  <2>1. /\ todo' = [todo EXCEPT ![p] = @ \ {file}]
        /\ seen' = [seen EXCEPT ![p] = @ \cup {file}]
        /\ walk' = walk /\ pick' = pick
    BY <1>1, <1>6
  <2>2. LocalTypeOK'
    <3>1. todo' \in [Process -> SUBSET (Writer \cup Name)]
      BY <1>a, <2>1
    <3>2. seen' \in [Process -> SUBSET (Writer \cup Name)]
      BY <1>a, <1>2, <2>1
    <3> QED
      BY <1>0, <1>4, <2>1, <3>1, <3>2, WalksKeep DEF LocalInv, LocalTypeOK, WriteInv
  <2>3. OnlyOf(p)
    BY <1>a, <1>4, <2>1 DEF OnlyOf
  <2>4. WalkInv(p)'
    <3>1. /\ walk'[p] = "walk" /\ todo'[p] \subseteq todo[p]
          /\ seen'[p] = seen[p] \cup {file}
      BY <1>a, <1>4, <2>1
    <3>2. WalkInv(p)
      BY DEF LocalInv
    <3>3. \A f \in todo'[p] \cup seen'[p] : Known(f)'
      BY <1>0, <1>2, <3>1, <3>2, WalksKeep DEF WalkInv
    <3>4. p \in Pruner => dest'[NameOf[p]] # Blank
      BY <1>0, <1>4, <3>2, WalksKeep DEF WalkInv
    <3> QED
      BY <3>1, <3>3, <3>4 DEF WalkInv, Blank
  <2> QED
    BY <1>0, <1>3, <2>2, <2>3, <2>4, OthersKeep
<1> QED
  BY <1>5, <1>6

(* A restore chooses a backup that was there.                              *)
LEMMA ChoosePreserves ==
  ASSUME LocalInv, UNCHANGED vars, NEW r \in Restorer, Choose(r)
  PROVE  LocalInv'
<1>0. WalkStep /\ r \in Process /\ r \notin Pruner
  BY LocalDirectoryAssumption DEF WalkStep, Process
<1>a. /\ DOMAIN walk = Process
      /\ pick \in [Process -> Writer \cup Name \cup {Nobody}]
      /\ todo \in [Process -> SUBSET (Writer \cup Name)]
      /\ seen \in [Process -> SUBSET (Writer \cup Name)]
  BY DEF LocalInv, LocalTypeOK
<1>1. Replaced'
  BY DEF LocalInv, Replaced, Choose, vars, Blank
<1>2. /\ older' = older /\ got' = got
      /\ todo' = [todo EXCEPT ![r] = {}] /\ seen' = [seen EXCEPT ![r] = {}]
  BY DEF Choose, Leave
<1>3. CASE walk' = [walk EXCEPT ![r] = "nothing"] /\ pick' = pick
  <2>1. LocalTypeOK'
    BY <1>0, <1>2, <1>3, WalksKeep DEF LocalInv, LocalTypeOK, WriteInv
  <2>2. OnlyOf(r)
    BY <1>a, <1>2, <1>3 DEF OnlyOf
  <2>3. WalkInv(r)'
    BY <1>0, <1>a, <1>2, <1>3 DEF WalkInv
  <2> QED
    BY <1>0, <1>1, <2>1, <2>2, <2>3, OthersKeep
<1>4. ASSUME NEW file \in seen[r], IsEligible(file),
             walk' = [walk EXCEPT ![r] = "chosen"], pick' = [pick EXCEPT ![r] = file]
      PROVE  LocalInv'
  <2>0. file \in Name /\ Known(file)
    BY <1>0, <1>4 DEF IsEligible, LocalInv, WalkInv
  <2>1. LocalTypeOK'
    BY <1>0, <1>2, <1>4, <2>0, WalksKeep DEF LocalInv, LocalTypeOK, WriteInv
  <2>2. OnlyOf(r)
    BY <1>a, <1>2, <1>4 DEF OnlyOf
  <2>3. WalkInv(r)'
    <3>1. /\ walk'[r] = "chosen" /\ pick'[r] = file
          /\ todo'[r] = {} /\ seen'[r] = {}
      BY <1>0, <1>a, <1>2, <1>4
    <3>2. Known(file)'
      BY <1>0, <2>0, WalksKeep
    <3> QED
      BY <1>0, <2>0, <3>1, <3>2 DEF WalkInv
  <2> QED
    BY <1>0, <1>1, <2>1, <2>2, <2>3, OthersKeep
<1>5. \/ walk' = [walk EXCEPT ![r] = "nothing"] /\ pick' = pick
      \/ \E file \in seen[r] : /\ IsEligible(file)
                              /\ walk' = [walk EXCEPT ![r] = "chosen"]
                              /\ pick' = [pick EXCEPT ![r] = file]
  BY DEF Choose, Leave, At, Latest
<1> QED
  BY <1>3, <1>4, <1>5

(* A backup that is gone was one from before, deleted after a newer one    *)
(* was in place; one that is there is whole.                               *)
LEMMA DownloadPreserves ==
  ASSUME LocalInv, UNCHANGED vars, NEW r \in Restorer, Download(r)
  PROVE  LocalInv'
<1>0. WalkStep /\ r \in Process /\ r \notin Pruner /\ r \notin Writer
  BY LocalDirectoryAssumption DEF WalkStep, Process
<1>a. DOMAIN walk = Process /\ DOMAIN got = Restorer
  BY DEF LocalInv, LocalTypeOK
<1>1. Replaced'
  BY DEF LocalInv, Replaced, Download, vars, Blank
<1>2. /\ UNCHANGED <<older, todo, seen, pick>>
      /\ pick[r] \in Name /\ Known(pick[r]) /\ WalkInv(r)
  BY <1>0 DEF Download, LocalInv, WalkInv
<1>3. pick[r] \notin Writer
  BY <1>2, LocalDirectoryAssumption
<1>4. Name \subseteq Nat /\ Older \subseteq Name /\ older \subseteq Older
  BY LocalDirectoryAssumption DEF LocalInv, LocalTypeOK
<1>5. CASE Gone(pick[r])
  <2>1. walk' = [walk EXCEPT ![r] = "missing"] /\ got' = got
    BY <1>5 DEF Download, At
  <2>2. dest[pick[r]] = Blank /\ pick[r] \in Older /\ pick[r] \notin older
    BY <1>2, <1>3, <1>5 DEF Gone, Files, Published, Known
  <2>3. PICK w \in Pruner : dest[NameOf[w]] # Blank
    BY <2>2 DEF LocalInv, Replaced
  <2>4. NameOf[w] \in Published \ Older
    BY <2>3, LocalDirectoryAssumption, AtomicWriteAssumption DEF Published
  <2>5. LocalTypeOK'
    BY <1>0, <1>2, <2>1, WalksKeep DEF LocalInv, LocalTypeOK, WriteInv
  <2>6. OnlyOf(r)
    BY <1>a, <1>2, <2>1 DEF OnlyOf
  <2>7. WalkInv(r)'
    <3>1. walk'[r] = "missing"
      BY <1>0, <1>a, <2>1
    <3>2. Published' \ Older # {}
      BY <1>0, <2>4, WalksKeep
    <3>3. \A file \in todo'[r] \cup seen'[r] : Known(file)'
      BY <1>0, <1>2, WalksKeep DEF WalkInv
    <3> QED
      BY <1>0, <3>1, <3>2, <3>3 DEF WalkInv
  <2> QED
    BY <1>0, <1>1, <2>5, <2>6, <2>7, OthersKeep
<1>6. CASE ~Gone(pick[r])
  <2>1. /\ walk' = [walk EXCEPT ![r] = "restored"]
        /\ got' = [got EXCEPT ![r] = dest[pick[r]]]
    BY <1>3, <1>6 DEF Download, At, ContentOf
  <2>2. /\ dest[pick[r]] \in [Offset -> Writer \cup {Nobody}]
        /\ got \in [Restorer -> [Offset -> Writer \cup {Nobody}]]
    BY <1>2 DEF LocalInv, LocalTypeOK, WriteInv, TypeOK
  <2>3. got' \in [Restorer -> [Offset -> Writer \cup {Nobody}]]
    BY <2>1, <2>2
  <2>4. LocalTypeOK'
    BY <1>0, <1>2, <2>1, <2>3, WalksKeep DEF LocalInv, LocalTypeOK, WriteInv, Offset
  <2>5. OnlyOf(r)
    BY <1>a, <1>2, <2>1 DEF OnlyOf
  <2>6. \/ pick[r] \in Older /\ dest[pick[r]] = Blank
        \/ \E w \in Writer : NameOf[w] = pick[r] /\ dest[pick[r]] = Whole(w)
    <3>1. \/ dest[pick[r]] = Blank
          \/ \E w \in WritersOf(pick[r]) : dest[pick[r]] = Whole(w)
      BY <1>2 DEF LocalInv, WriteInv, WholeDest
    <3>2. dest[pick[r]] = Blank => pick[r] \in Older
      BY <1>2, <1>3 DEF Known
    <3> QED
      BY <3>1, <3>2 DEF WritersOf
  <2>7. WalkInv(r)'
    <3>1. walk'[r] = "restored" /\ got'[r] = dest[pick[r]] /\ pick'[r] = pick[r]
      BY <1>0, <1>a, <1>2, <2>1
    <3>2. \A file \in todo'[r] \cup seen'[r] : Known(file)'
      BY <1>0, <1>2, WalksKeep DEF WalkInv
    <3> QED
      BY <1>0, <2>6, <3>1, <3>2 DEF WalkInv, Blank, Whole
  <2> QED
    BY <1>0, <1>1, <2>4, <2>5, <2>7, OthersKeep
<1> QED
  BY <1>5, <1>6

(* A retention begins and ends with its own backup in place.               *)
LEMMA RetentionPreserves ==
  ASSUME LocalInv, UNCHANGED vars, NEW w \in Pruner,
         BeginRetention(w) \/ FinishRetention(w)
  PROVE  LocalInv'
<1>0. WalkStep /\ w \in Process
  BY DEF WalkStep, Process
<1>a. /\ DOMAIN walk = Process
      /\ seen \in [Process -> SUBSET (Writer \cup Name)]
  BY DEF LocalInv, LocalTypeOK
<1>1. Replaced'
  BY DEF LocalInv, Replaced, BeginRetention, FinishRetention, vars, Blank
<1>2. /\ UNCHANGED <<older, todo, pick, got>>
      /\ walk[w] # "idle" /\ WalkInv(w)
  BY <1>0 DEF BeginRetention, FinishRetention, LocalInv
<1>3. PICK s \in {"prune", "done"}, kept \in SUBSET seen[w] :
        walk' = [walk EXCEPT ![w] = s] /\ seen' = [seen EXCEPT ![w] = kept]
  <2>1. CASE BeginRetention(w)
    BY <1>0, <1>a, <2>1 DEF BeginRetention, At
  <2>2. CASE FinishRetention(w)
    <3>1. walk' = [walk EXCEPT ![w] = "done"] /\ seen' = [seen EXCEPT ![w] = seen[w]]
      BY <1>a, <2>2 DEF FinishRetention, At
    <3> QED
      BY <3>1
  <2> QED
    BY <2>1, <2>2
<1>4. LocalTypeOK'
  BY <1>0, <1>a, <1>2, <1>3, WalksKeep DEF LocalInv, LocalTypeOK, WriteInv
<1>5. OnlyOf(w)
  BY <1>a, <1>2, <1>3 DEF OnlyOf
<1>6. WalkInv(w)'
  <2>1. walk'[w] \in {"prune", "done"} /\ todo'[w] = todo[w] /\ seen'[w] \subseteq seen[w]
    BY <1>0, <1>a, <1>2, <1>3
  <2>2. \A file \in todo'[w] \cup seen'[w] : Known(file)'
    BY <1>0, <1>2, <2>1, WalksKeep DEF WalkInv
  <2>3. dest'[NameOf[w]] # Blank
    BY <1>0, <1>2, WalksKeep DEF WalkInv
  <2> QED
    BY <2>1, <2>2, <2>3 DEF WalkInv, Blank
<1> QED
  BY <1>0, <1>1, <1>4, <1>5, <1>6, OthersKeep

(* A deletion comes after the own upload, so something newer is in place.  *)
LEMMA RemovePreserves ==
  ASSUME LocalInv, UNCHANGED vars, NEW w \in Pruner, Remove(w)
  PROVE  LocalInv'
<1>0. WalkStep /\ w \in Process
  BY DEF WalkStep, Process
<1>a. /\ DOMAIN walk = Process
      /\ pick \in [Process -> Writer \cup Name \cup {Nobody}]
      /\ todo \in [Process -> SUBSET (Writer \cup Name)]
      /\ seen \in [Process -> SUBSET (Writer \cup Name)]
      /\ older \subseteq Older
  BY DEF LocalInv, LocalTypeOK
<1>1. WalkInv(w) /\ walk[w] = "prune" /\ got' = got
  BY <1>0 DEF Remove, LocalInv
<1>2. dest'[NameOf[w]] # Blank /\ dest' = dest
  BY <1>0, <1>1, WalksKeep DEF WalkInv
<1>3. Replaced'
  BY <1>2 DEF Replaced, Blank
<1>4. PICK n \in seen[w] :
        IF Gone(n)
          THEN Leave(w, "failed") /\ pick' = [pick EXCEPT ![w] = n] /\ UNCHANGED older
          ELSE /\ older' = older \ {n}
               /\ seen' = [seen EXCEPT ![w] = @ \ {n}]
               /\ UNCHANGED <<walk, todo, pick>>
  BY DEF Remove
<1>5. n \in Writer \cup Name /\ Known(n)
  BY <1>0, <1>1, <1>4, FilesAreKnown DEF WalkInv
<1>6. CASE Gone(n)
  <2>1. /\ walk' = [walk EXCEPT ![w] = "failed"] /\ pick' = [pick EXCEPT ![w] = n]
        /\ todo' = [todo EXCEPT ![w] = {}] /\ seen' = [seen EXCEPT ![w] = {}]
        /\ older' = older
    BY <1>4, <1>6 DEF Leave, At
  <2>2. LocalTypeOK'
    BY <1>0, <1>1, <1>5, <2>1, WalksKeep DEF LocalInv, LocalTypeOK, WriteInv
  <2>3. OnlyOf(w)
    BY <1>a, <1>1, <2>1 DEF OnlyOf
  <2>4. WalkInv(w)'
    <3>1. /\ walk'[w] = "failed" /\ pick'[w] = n
          /\ todo'[w] = {} /\ seen'[w] = {}
      BY <1>0, <1>a, <2>1
    <3>2. Known(n)' /\ n \notin Files'
      BY <1>0, <1>5, <1>6, WalksKeep DEF Gone
    <3> QED
      BY <1>2, <3>1, <3>2 DEF WalkInv, Blank
  <2> QED
    BY <1>0, <1>3, <2>2, <2>3, <2>4, OthersKeep
<1>7. CASE ~Gone(n)
  <2>1. /\ older' = older \ {n} /\ seen' = [seen EXCEPT ![w] = @ \ {n}]
        /\ UNCHANGED <<walk, todo, pick>>
    BY <1>4, <1>7
  <2>2. LocalTypeOK'
    <3>1. seen' \in [Process -> SUBSET (Writer \cup Name)]
      BY <1>a, <2>1
    <3> QED
      BY <1>0, <1>a, <1>1, <2>1, <3>1, WalksKeep DEF LocalInv, LocalTypeOK, WriteInv
  <2>3. OnlyOf(w)
    BY <1>a, <1>1, <2>1 DEF OnlyOf
  <2>4. WalkInv(w)'
    <3>1. walk'[w] = "prune" /\ todo'[w] = todo[w] /\ seen'[w] \subseteq seen[w]
      BY <1>0, <1>a, <1>1, <2>1
    <3>2. \A file \in todo'[w] \cup seen'[w] : Known(file)'
      BY <1>0, <1>1, <3>1, WalksKeep DEF WalkInv
    <3> QED
      BY <1>2, <3>1, <3>2 DEF WalkInv, Blank
  <2> QED
    BY <1>0, <1>3, <2>2, <2>3, <2>4, OthersKeep
<1> QED
  BY <1>6, <1>7

(* Walks hold files that existed, and backups are only replaced.           *)
THEOREM LocalInvariance == LocalSpec => []LocalInv
<1>1. ASSUME LocalInv, [LocalNext]_localVars
      PROVE  LocalInv'
  <2>1. CASE UNCHANGED localVars
    <3>1. WriteInv'
      BY <1>1, <2>1, StepPreserves DEF localVars, LocalInv
    <3>2. LocalTypeOK' /\ Stays' /\ Replaced'
      BY <1>1, <2>1, <3>1 DEF localVars, walkVars, vars, LocalInv, LocalTypeOK, WriteInv,
         Stays, Replaced, Blank, Offset
    <3>3. ASSUME NEW p \in Process PROVE WalkInv(p)'
      BY <1>1, <2>1 DEF localVars, walkVars, vars, LocalInv, WalkInv, Known, Files,
         Published, Blank, Whole
    <3> QED
      BY <3>1, <3>2, <3>3 DEF LocalInv
  <2>2. CASE Next /\ UNCHANGED walkVars
    BY <1>1, <2>2, WriterStepPreserves DEF Next
  <2>3. CASE WalkStep /\ UNCHANGED vars
    BY <1>1, <2>3, BeginWalkPreserves, LstatPreserves, ChoosePreserves, DownloadPreserves,
       RetentionPreserves, RemovePreserves DEF WalkStep
  <2> QED
    BY <1>1, <2>1, <2>2, <2>3 DEF LocalNext
<1> QED
  BY <1>1, LocalInitEstablishes, PTL DEF LocalSpec

(* Every variable of the directory and of its walks keeps its type.        *)
THEOREM LocalTypeCorrect == LocalSpec => []LocalTypeOK
<1>1. LocalInv => LocalTypeOK
  BY DEF LocalInv
<1> QED
  BY <1>1, LocalInvariance, PTL

(* A walk fails only over a file that is gone, a restore gets a whole      *)
(* backup, and misses the one it chose only for a newer one.               *)
THEOREM WalksSound == LocalSpec => []WalksAreSound
<1>1. LocalInv => WalksAreSound
  BY DEF LocalInv, WalkInv, WalksAreSound
<1> QED
  BY <1>1, LocalInvariance, PTL

(* The walks and the retentions leave what the writers promise: the        *)
(* destinations are cells, and partial files go.                           *)
THEOREM DirectoryKeepsCells == LocalSpec => Replaces /\ []PartialsAreRemoved
<1>1. LocalInit => Init
  BY DEF LocalInit
<1>2. [LocalNext]_localVars => [Next]_vars
  BY DEF LocalNext, localVars
<1>3. LocalSpec => Spec
  BY <1>1, <1>2, PTL DEF LocalSpec, Spec
<1> QED
  BY <1>3, WriteImplementsCell, NoPartialIsLeft
=============================================================================
