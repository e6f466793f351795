-------------------------- MODULE RestoreRun_proofs --------------------------
(***************************************************************************)
(* What holds of a restore for any number of updates and signals.          *)
(***************************************************************************)
EXTENDS RestoreRun, SequenceTheorems, TLAPS

(* What the place in run says about the other variables.                   *)
Phases ==
  /\ pc \in Body => retErr = {}
  /\ pc \in Body \ {"parseUpdates"} => UpdatesAccepted
  /\ pc = "parseUpdates" => files = {} /\ ~open /\ ~session /\ db = "untouched"
  /\ pc \in Body \ {"restoring", "connect", "update"} => db = "untouched"
  /\ pc = "restoring" => db = IF dryRun THEN "untouched" ELSE "loading"
  /\ pc \in {"connect", "update"} => db = "loaded" /\ ~dryRun /\ applied < requested
  /\ pc \in Body \ {"update"} => applied = 0
  /\ pc \in Body => doubtful = {}
  /\ dryRun \/ ~UpdatesAccepted => db = "untouched" /\ applied = 0 /\ doubtful = {}
  /\ ~UpdatesAccepted => files = {} /\ ~open /\ ~session
  /\ dryRun /\ UpdatesAccepted => requested = 0
  /\ ~hasUpdates => requested = 0
  /\ applied > 0 => db = "loaded"
  /\ pc \notin Body \cup {"killed"} /\ retErr = {}
       => applied = requested /\ db = IF dryRun THEN "untouched" ELSE "loaded"

(* The inductive invariant.                                                *)
RunInv == TypeOK /\ Phases /\ AtMostOneInDoubt

-----------------------------------------------------------------------------

(* A step of the run is one of its actions.                                *)
LEMMA StepCases ==
  ASSUME [Next]_vars
  PROVE  \/ ParseUpdates \/ CreateWorkspace \/ GetStorages \/ Select \/ Lookup
         \/ Download \/ Extract \/ NewRestore \/ RestoreBegins \/ RestoreReturns
         \/ Connect \/ Update
         \/ CloseInterrupt \/ CloseSession \/ CloseStorages \/ RemoveArtifact
         \/ CleanupDone \/ Exit \/ Signal \/ UNCHANGED vars
  BY DEF Next, Step, Ended

(* The cleanup stack stays a sequence of artifacts when one is registered. *)
LEMMA PushIsStack ==
  ASSUME NEW s \in Seq(Artifact), NEW a \in Artifact
  PROVE  Append(s, a) \in Seq(Artifact)
  OBVIOUS

(* The cleanup stack stays a sequence of artifacts when one is taken off.  *)
LEMMA RestIsStack ==
  ASSUME NEW s \in Seq(Artifact), s # <<>>
  PROVE  Rest(s) \in Seq(Artifact) /\ s[Len(s)] \in Artifact
  BY DEF Rest

(* The inductive invariant starts true.                                    *)
LEMMA InitEstablishes ==
  ASSUME Init
  PROVE  RunInv
PROOF
<1> USE RestoreRunAssumption
<1>1. requested \in 0..MaxUpdates /\ (~hasUpdates => requested = 0)
  BY DEF Init
<1>2. TypeOK
  <2>1. pc \in Body /\ cleanup \in Seq(Artifact)
    BY DEF Init, Body
  <2>2. /\ deferred = {} /\ retErr = {} /\ files = {} /\ stuck = {} /\ unseen = {}
        /\ doubtful = {} /\ db = "untouched" /\ handler = "off"
        /\ open \in BOOLEAN /\ session \in BOOLEAN /\ keep \in BOOLEAN
        /\ dryRun \in BOOLEAN /\ hasUpdates \in BOOLEAN /\ wellFormed \in BOOLEAN
        /\ cancelled \in BOOLEAN
    BY DEF Init
  <2>3. signals \in 0..MaxSignals /\ applied \in 0..requested
    BY <1>1 DEF Init
  <2> QED
    BY <1>1, <2>1, <2>2, <2>3 DEF TypeOK
<1>3. dryRun /\ UpdatesAccepted => requested = 0
  BY <1>1 DEF UpdatesAccepted
<1>4. Phases /\ AtMostOneInDoubt
  BY <1>1, <1>3 DEF Init, Phases, AtMostOneInDoubt, Body
<1> QED
  BY <1>2, <1>4 DEF RunInv

(* The actions that prepare the restore.                                   *)
LEMMA PreparationPreserves ==
  ASSUME RunInv,
         ParseUpdates \/ CreateWorkspace \/ GetStorages \/ Select \/ Lookup
           \/ Download \/ Extract \/ NewRestore
  PROVE  RunInv'
PROOF
<1> USE RestoreRunAssumption
        DEF RunInv, TypeOK, Phases, AtMostOneInDoubt, UpdatesAccepted, Body, Fail,
            Proceed, config, target, disk, held, sigs
<1>1. CASE ParseUpdates
  BY <1>1 DEF ParseUpdates
<1>2. CASE CreateWorkspace
  <2>1. cleanup' \in Seq(Artifact) /\ files' \subseteq Artifact
    BY <1>2, PushIsStack DEF CreateWorkspace, Artifact
  <2> QED
    BY <1>2, <2>1 DEF CreateWorkspace
<1>3. CASE GetStorages
  BY <1>3 DEF GetStorages
<1>4. CASE Select
  BY <1>4 DEF Select
<1>5. CASE Lookup
  BY <1>5 DEF Lookup
<1>6. CASE Download
  <2>1. cleanup' \in Seq(Artifact) /\ files' \subseteq Artifact
    BY <1>6, PushIsStack DEF Download, Artifact
  <2> QED
    BY <1>6, <2>1 DEF Download
<1>7. CASE Extract
  <2>1. cleanup' \in Seq(Artifact) /\ files' \subseteq Artifact
    BY <1>7, PushIsStack DEF Extract, Artifact
  <2> QED
    BY <1>7, <2>1 DEF Extract
<1>8. CASE NewRestore
  BY <1>8 DEF NewRestore
<1> QED
  BY <1>1, <1>2, <1>3, <1>4, <1>5, <1>6, <1>7, <1>8

(* The restore and the updates.                                            *)
LEMMA RestorePreserves ==
  ASSUME RunInv, RestoreBegins \/ RestoreReturns \/ Connect \/ Update
  PROVE  RunInv'
PROOF
<1> USE RestoreRunAssumption
        DEF RunInv, TypeOK, Phases, AtMostOneInDoubt, UpdatesAccepted, Body, Fail,
            Proceed, config, target, disk, held, sigs
<1>1. CASE RestoreBegins
  BY <1>1 DEF RestoreBegins
<1>2. CASE RestoreReturns
  <2>1. /\ pc = "restoring" /\ UNCHANGED <<deferred, config, applied, doubtful, disk, held, sigs>>
        /\ db = IF dryRun THEN "untouched" ELSE "loading"
        /\ applied = 0 /\ doubtful = {} /\ retErr = {} /\ UpdatesAccepted
    BY <1>2 DEF RestoreReturns
  <2>2. CASE OnRestoreError /\ UNCHANGED db
    BY <2>1, <2>2 DEF OnRestoreError
  <2>3. CASE AfterRestore /\ db' = IF db = "loading" THEN "loaded" ELSE db
    <3>1. db' = IF dryRun THEN "untouched" ELSE "loaded"
      BY <2>1, <2>3
    <3>2. /\ retErr' = {} /\ applied' = 0 /\ doubtful' = {}
          /\ pc' = IF requested > 0 THEN "connect" ELSE "unwind"
      BY <2>1, <2>3 DEF AfterRestore
    <3> QED
      BY <2>1, <3>1, <3>2
  <2> QED
    BY <1>2, <2>2, <2>3 DEF RestoreReturns
<1>3. CASE Connect
  BY <1>3 DEF Connect
<1>4. CASE Update
  <2>1. /\ pc = "update" /\ applied < requested /\ applied \in Nat /\ requested \in Nat
        /\ applied + 1 \in 1..requested /\ ~dryRun /\ UpdatesAccepted
        /\ db = "loaded" /\ doubtful = {} /\ retErr = {}
    BY <1>4 DEF Update
  <2>2. UNCHANGED <<deferred, config, db, disk, held, sigs>>
    BY <1>4 DEF Update
  <2>3. CASE /\ applied' = applied + 1
             /\ Proceed(IF LastUpdate(applied + 1) THEN "unwind" ELSE "update")
             /\ UNCHANGED doubtful
    BY <2>1, <2>2, <2>3 DEF LastUpdate
  <2>4. CASE /\ OnUpdateError
             /\ doubtful' \in IF cancelled THEN {doubtful}
                              ELSE {doubtful, doubtful \cup {applied + 1}}
             /\ UNCHANGED applied
    <3>1. doubtful' = {} \/ doubtful' = {applied + 1}
      BY <2>1, <2>4
    <3>2. pc' = "unwind" /\ retErr' = {"primary"} /\ applied' = applied
      BY <2>1, <2>4 DEF OnUpdateError
    <3> QED
      BY <2>1, <2>2, <3>1, <3>2
  <2> QED
    BY <1>4, <2>3, <2>4 DEF Update
<1> QED
  BY <1>1, <1>2, <1>3, <1>4

(* A deferred call only gives up what the run holds and adds to its error. *)
LEMMA UnwindingPreserves ==
  ASSUME RunInv, pc = "unwind", pc' = "unwind", UNCHANGED <<config, target>>,
         files' \subseteq files, open' => open, session' => session,
         retErr \subseteq retErr', TypeOK'
  PROVE  RunInv'
PROOF
<1>1. retErr' = {} => retErr = {}
  OBVIOUS
<1>2. ~UpdatesAccepted => files' = {}
  BY DEF RunInv, Phases
<1>3. Phases'
  BY <1>1, <1>2 DEF RunInv, Phases, UpdatesAccepted, Body, config, target
<1>4. AtMostOneInDoubt'
  BY DEF RunInv, AtMostOneInDoubt, target
<1> QED
  BY <1>3, <1>4 DEF RunInv

(* The deferred calls, the exit, a signal, or a step of something else.    *)
LEMMA ReturnPreserves ==
  ASSUME RunInv,
         CloseInterrupt \/ CloseSession \/ CloseStorages \/ RemoveArtifact
           \/ CleanupDone \/ Exit \/ Signal \/ UNCHANGED vars
  PROVE  RunInv'
PROOF
<1> USE RestoreRunAssumption DEF TypeOK, config, target, disk, held, sigs
<1> RunInv => TypeOK
  BY DEF RunInv
<1>1. CASE CloseInterrupt
  BY <1>1, UnwindingPreserves DEF CloseInterrupt, RunsNext
<1>2. CASE CloseSession
  BY <1>2, UnwindingPreserves DEF CloseSession, RunsNext
<1>3. CASE CloseStorages
  <2>1. /\ pc = "unwind" /\ retErr' \in {retErr, retErr \cup {"close"}}
        /\ open' = FALSE /\ deferred' = deferred \ {"closeStorages"}
        /\ UNCHANGED <<pc, config, target, disk, session, sigs>>
    BY <1>3 DEF CloseStorages, RunsNext
  <2>2. TypeOK'
    BY <2>1
  <2> QED
    BY <2>1, <2>2, UnwindingPreserves
<1>4. CASE RemoveArtifact
  <2>1. /\ cleanup' \in Seq(Artifact) /\ files' \subseteq files
        /\ stuck' \subseteq Artifact /\ unseen' \subseteq Artifact
    BY <1>4, RestIsStack DEF RemoveArtifact
  <2>2. /\ pc = "unwind" /\ UNCHANGED <<pc, deferred, config, target, held, sigs>>
        /\ retErr' \in {retErr, retErr \cup {"cleanup"}}
    BY <1>4 DEF RemoveArtifact, RunsNext
  <2>3. TypeOK'
    BY <2>1, <2>2
  <2> QED
    BY <2>1, <2>2, <2>3, UnwindingPreserves
<1>5. CASE CleanupDone
  BY <1>5, UnwindingPreserves DEF CleanupDone, RunsNext
<1>6. CASE Exit
  BY <1>6 DEF Exit, RunInv, Phases, UpdatesAccepted, AtMostOneInDoubt, Body
<1>7. CASE Signal
  BY <1>7 DEF Signal, RunInv, Phases, UpdatesAccepted, AtMostOneInDoubt, Body
<1>8. CASE UNCHANGED vars
  BY <1>8 DEF vars, RunInv, Phases, UpdatesAccepted, AtMostOneInDoubt, Body
<1> QED
  BY <1>1, <1>2, <1>3, <1>4, <1>5, <1>6, <1>7, <1>8

(* Every reachable state of a restore satisfies the inductive invariant.   *)
THEOREM Invariance == Spec => []RunInv
<1>1. RunInv /\ [Next]_vars => RunInv'
  BY StepCases, PreparationPreserves, RestorePreserves, ReturnPreserves
<1> QED
  BY <1>1, InitEstablishes, PTL DEF Spec

(* Every variable keeps its type.                                          *)
THEOREM TypeCorrect == Spec => []TypeOK
<1>1. RunInv => TypeOK
  BY DEF RunInv
<1> QED
  BY <1>1, Invariance, PTL

(* parseUpdates: refused updates and dry runs write nothing.               *)
THEOREM RefusalIsHarmless == Spec => []RefusedTouchesNothing
<1>1. RunInv => RefusedTouchesNothing
  BY DEF RunInv, Phases, RefusedTouchesNothing, UpdatesAccepted
<1> QED
  BY <1>1, Invariance, PTL

(* applyValidatedUpdates: at most one update is in doubt, the next one.    *)
THEOREM DoubtIsBounded == Spec => []AtMostOneInDoubt
<1>1. RunInv => AtMostOneInDoubt
  BY DEF RunInv
<1> QED
  BY <1>1, Invariance, PTL

-----------------------------------------------------------------------------
(* What a run holds, and who will release it. *)

(* Every resource has its deferred call, every artifact goes with the      *)
(* workspace at the bottom of the stack, and no failed removal is silent.  *)
ReleaseInv ==
  /\ cleanup # <<>> => cleanup[1] = "workspace" /\ (keep \/ "cleanup" \in deferred)
  /\ cleanup = <<>> => files = {} \/ "workspace" \in stuck \cup unseen
  /\ pc \in Body \ {"parseUpdates", "createWorkspace"} => cleanup # <<>>
  /\ stuck # {} => "cleanup" \in retErr
  /\ open => "closeStorages" \in deferred
  /\ session => "closeSession" \in deferred
  /\ handler # "off" => "closeInterrupt" \in deferred
  /\ pc = "exited" => deferred = {}

(* The bottom of the stack stays when something is registered above it.    *)
LEMMA PushKeepsBottom ==
  ASSUME NEW s \in Seq(Artifact), NEW a \in Artifact
  PROVE  /\ Append(s, a) # <<>>
         /\ s # <<>> => Append(s, a)[1] = s[1]
         /\ s = <<>> => Append(s, a)[1] = a
  OBVIOUS

(* It is the last to be taken off.                                         *)
LEMMA RestKeepsBottom ==
  ASSUME NEW s \in Seq(Artifact), s # <<>>
  PROVE  \/ Rest(s) = <<>> /\ s[Len(s)] = s[1]
         \/ Rest(s) # <<>> /\ Rest(s)[1] = s[1]
<1>1. CASE Len(s) = 1
  BY <1>1 DEF Rest
<1>2. CASE Len(s) # 1
  <2>1. Len(s) \in Nat /\ Len(s) - 1 >= 1 /\ Len(s) - 1 <= Len(s)
    <3>1. Len(s) \in Nat /\ Len(s) # 0
      BY Zenon, EmptySeq, LenProperties
    <3>2. \A n \in Nat : n # 0 /\ n # 1 => n - 1 >= 1 /\ n - 1 <= n
      OBVIOUS
    <3> QED
      BY Zenon, <1>2, <3>1, <3>2
  <2>2. Rest(s) = [k \in 1..(Len(s) - 1) |-> s[k]]
    BY <2>1 DEF Rest
  <2>3. Rest(s)[1] = s[1] /\ 1 \in DOMAIN Rest(s)
    BY <2>1, <2>2
  <2> QED
    BY <2>3
<1> QED
  BY <1>1, <1>2

(* A run holds nothing when it starts.                                     *)
LEMMA InitReleases ==
  ASSUME Init
  PROVE  ReleaseInv
  BY DEF Init, ReleaseInv

(* The steps that acquire something register its release.                  *)
LEMMA BodyReleases ==
  ASSUME TypeOK, ReleaseInv,
         ParseUpdates \/ CreateWorkspace \/ GetStorages \/ Select \/ Lookup
           \/ Download \/ Extract \/ NewRestore \/ RestoreBegins \/ RestoreReturns
           \/ Connect \/ Update
  PROVE  ReleaseInv'
<1> USE DEF TypeOK, ReleaseInv, Body, Fail, Proceed, config, target, disk, held, sigs
<1>1. CASE ParseUpdates \/ Select \/ Lookup \/ RestoreBegins \/ Connect
  BY <1>1 DEF ParseUpdates, Select, Lookup, RestoreBegins, Connect
<1>2. CASE CreateWorkspace
  BY <1>2, PushKeepsBottom DEF CreateWorkspace, Artifact
<1>3. CASE GetStorages
  BY <1>3 DEF GetStorages
<1>4. CASE Download
  BY <1>4, PushKeepsBottom DEF Download, Artifact
<1>5. CASE Extract
  BY <1>5, PushKeepsBottom DEF Extract, Artifact
<1>6. CASE NewRestore
  BY <1>6 DEF NewRestore
<1>7. CASE RestoreReturns
  BY <1>7 DEF RestoreReturns, AfterRestore, OnRestoreError
<1>8. CASE Update
  BY <1>8 DEF Update, OnUpdateError
<1> QED
  BY <1>1, <1>2, <1>3, <1>4, <1>5, <1>6, <1>7, <1>8

(* The deferred calls release what they were registered for.               *)
LEMMA ReturnReleases ==
  ASSUME TypeOK, ReleaseInv,
         CloseInterrupt \/ CloseSession \/ CloseStorages \/ RemoveArtifact
           \/ CleanupDone \/ Exit \/ Signal \/ UNCHANGED vars
  PROVE  ReleaseInv'
<1> USE DEF TypeOK, ReleaseInv, Body, RunsNext, config, target, disk, held, sigs
<1>1. CASE CloseInterrupt \/ CloseSession
  BY <1>1 DEF CloseInterrupt, CloseSession
<1>2. CASE CloseStorages
  BY <1>2 DEF CloseStorages
<1>3. CASE RemoveArtifact
  <2>1. /\ cleanup # <<>> /\ cleanup[1] = "workspace" /\ "cleanup" \in deferred
        /\ pc = "unwind" /\ cleanup' = Rest(cleanup)
        /\ UNCHANGED <<pc, deferred, config, target, held, sigs>>
    BY <1>3 DEF RemoveArtifact
  <2>2. stuck' # {} => "cleanup" \in retErr'
    BY <1>3 DEF RemoveArtifact
  <2>3. CASE Rest(cleanup) # <<>>
    BY <2>1, <2>2, <2>3, RestKeepsBottom
  <2>4. CASE Rest(cleanup) = <<>>
    <3>1. cleanup[Len(cleanup)] = "workspace"
      BY <2>1, <2>4, RestKeepsBottom
    <3>2. files' = {} \/ "workspace" \in stuck' \cup unseen'
      BY <1>3, <3>1 DEF RemoveArtifact
    <3> QED
      BY <2>1, <2>2, <2>4, <3>2
  <2> QED
    BY <2>3, <2>4
<1>4. CASE CleanupDone
  BY <1>4 DEF CleanupDone
<1>5. CASE Exit
  BY <1>5 DEF Exit
<1>6. CASE Signal
  BY <1>6 DEF Signal
<1>7. CASE UNCHANGED vars
  BY <1>7 DEF vars
<1> QED
  BY <1>1, <1>2, <1>3, <1>4, <1>5, <1>6, <1>7

(* What is held has its deferred call, at all times.                       *)
LEMMA Releases == Spec => []ReleaseInv
<1>1. TypeOK /\ ReleaseInv /\ [Next]_vars => ReleaseInv'
  BY StepCases, BodyReleases, ReturnReleases
<1> QED
  BY <1>1, InitReleases, TypeCorrect, PTL DEF Spec

(* Whatever fails, an exit has closed everything, and what is left on disk *)
(* was kept, could not be removed, or was hidden by os.Stat.               *)
THEOREM ExitIsClean == Spec => []ExitReleasesEverything
<1>1. ReleaseInv => ExitReleasesEverything
  BY DEF ReleaseInv, ExitReleasesEverything
<1> QED
  BY <1>1, Releases, PTL

(* Exit code 0 means restored, updated, closed and removed.                *)
THEOREM SuccessIsTrue == Spec => []SuccessIsEarned
<1>1. RunInv /\ ReleaseInv => SuccessIsEarned
  BY DEF RunInv, TypeOK, Phases, ReleaseInv, SuccessIsEarned, Body
<1> QED
  BY <1>1, Invariance, Releases, PTL

-----------------------------------------------------------------------------
(* Refinement. *)

(* The initial states are initial states of the contract.                  *)
LEMMA InitImplements ==
  ASSUME Init
  PROVE  Contract!Init
PROOF
<1>1. requested \in 0..MaxUpdates
  BY InitEstablishes DEF RunInv, TypeOK
<1> QED
  BY <1>1 DEF Init, Contract!Init

(* A step that leaves the database and the verdict alone is a stutter.     *)
LEMMA QuietStep ==
  ASSUME UNCHANGED <<requested, db, applied>>, pc \notin {"exited", "killed"},
         pc' \notin {"exited", "killed"}
  PROVE  UNCHANGED Contract!contract
  BY DEF Contract!contract

(* Every step is a step of the contract or a stutter.                      *)
LEMMA StepImplements ==
  ASSUME RunInv, [Next]_vars
  PROVE  Contract!Next \/ UNCHANGED Contract!contract
PROOF
<1> USE DEF Fail, Proceed, config, target, disk, held, sigs
<1>1. CASE \/ ParseUpdates \/ CreateWorkspace \/ GetStorages \/ Select \/ Lookup
           \/ Download \/ Extract \/ NewRestore \/ Connect
  BY <1>1, QuietStep
  DEF ParseUpdates, CreateWorkspace, GetStorages, Select, Lookup, Download,
      Extract, NewRestore, Connect
<1>2. CASE RestoreBegins
  <2>1. /\ pc = "restore" /\ pc' = "restoring" /\ db = "untouched"
        /\ db' = (IF dryRun THEN db ELSE "loading") /\ UNCHANGED <<requested, applied>>
    BY <1>2 DEF RestoreBegins, RunInv, Phases, Body
  <2> QED
    BY <2>1 DEF Contract!Next, Contract!Load, Contract!contract
<1>3. CASE RestoreReturns
  <2>1. /\ pc = "restoring" /\ pc' \in {"connect", "unwind"}
        /\ UNCHANGED <<requested, applied>>
        /\ db' = db \/ (db = "loading" /\ db' = "loaded")
    BY <1>3 DEF RestoreReturns, AfterRestore, OnRestoreError
  <2> QED
    BY <2>1 DEF Contract!Next, Contract!Load, Contract!contract
<1>4. CASE Update
  <2>1. /\ pc = "update" /\ pc' \in {"update", "unwind"} /\ UNCHANGED <<requested, db>>
        /\ applied' = applied \/ applied' = applied + 1
        /\ db = "loaded" /\ applied < requested
    BY <1>4 DEF Update, OnUpdateError, RunInv, Phases
  <2> QED
    BY <2>1 DEF Contract!Next, Contract!Apply, Contract!contract
<1>5. CASE \/ CloseInterrupt \/ CloseSession \/ CloseStorages \/ RemoveArtifact
           \/ CleanupDone
  BY <1>5, QuietStep
  DEF CloseInterrupt, CloseSession, CloseStorages, RemoveArtifact, CleanupDone, RunsNext
<1>6. CASE Exit
  <2>1. /\ pc = "unwind" /\ pc' = "exited" /\ retErr' = retErr
        /\ UNCHANGED <<requested, db, applied>>
        /\ retErr = {} => applied = requested /\ db \in {"untouched", "loaded"}
    BY <1>6 DEF Exit, RunInv, Phases, Body
  <2> QED
    BY <2>1 DEF Contract!Next, Contract!Succeed, Contract!Abandon
<1>7. CASE Signal
  <2>1. /\ pc \notin {"exited", "killed"} /\ pc' \in {pc, "killed"}
        /\ UNCHANGED <<requested, db, applied, retErr>>
    BY <1>7 DEF Signal
  <2> QED
    BY <2>1 DEF Contract!Next, Contract!Abandon, Contract!contract
<1>8. CASE UNCHANGED vars
  BY <1>8 DEF vars, Contract!contract
<1> QED
  BY <1>1, <1>2, <1>3, <1>4, <1>5, <1>6, <1>7, <1>8, StepCases

(* A restore implements RestoreContract.                                   *)
THEOREM RestoreImplementsContract == Spec => Delivery
<1>1. RunInv /\ [Next]_vars => [Contract!Next]_(Contract!contract)
  BY StepImplements
<1> QED
  BY <1>1, Invariance, InitImplements, PTL DEF Spec, Delivery, Contract!Spec
=============================================================================
