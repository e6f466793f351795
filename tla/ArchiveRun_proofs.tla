-------------------------- MODULE ArchiveRun_proofs --------------------------
(***************************************************************************)
(* What holds of a run for any number of backends and destinations, any    *)
(* older backups and any number of signals.                                *)
(***************************************************************************)
EXTENDS ArchiveRun, SequenceTheorems, TLAPS

(* What the place in run says about the other variables: the counters of   *)
(* the two upload phases are bounded only together with pc, and an error   *)
(* returned by the body is never forgotten.                                *)
Phases ==
  /\ pc \in Body => retErr = {}
  /\ pc \in Body \ {"getStorages"} => NumBackends > 0
  /\ pc \in Body \ {"upload", "retain"} => uploaded = 0
  /\ pc \in Body \ {"retain"} => retained = 0
  /\ pc = "upload" => uploaded < NumBackends
  /\ pc = "retain" => uploaded = NumBackends /\ retained < NumBackends
  /\ retained > 0 => uploaded = NumBackends
  /\ retErr = {} /\ pc \notin Body \cup {"killed"}
       => uploaded = NumBackends /\ retained = NumBackends

(* A verdict is chosen after the body, and only a run without an error is  *)
(* announced as a success.                                                 *)
Verdicts ==
  /\ pc \in Body => notice = "none"
  /\ pc = "notify" => notice # "none"
  /\ notice = "success" => retErr = {} /\ uploaded = NumBackends /\ deferred = {}
  /\ notice = "failure" => retErr # {} /\ pc # "unwind"

(* The inductive invariant.                                                *)
RunInv == TypeOK /\ Phases /\ Verdicts /\ NewArchiveSurvives

-----------------------------------------------------------------------------

(* A step of the run is one of its actions.                                *)
LEMMA StepCases ==
  ASSUME [Next]_vars
  PROVE  \/ GetStorages \/ CreateWorkspace \/ NewDump \/ InitDump \/ Dump \/ Tar
         \/ BuildObjectName \/ Upload \/ Retain
         \/ CloseInterrupt \/ RemoveArtifact \/ CleanupDone \/ CloseStorages
         \/ NotifySuccess \/ Notify \/ NotifyDone \/ Returned
         \/ Signal \/ UNCHANGED vars
  BY DEF Next, Step, Ended

(* The cleanup stack stays a sequence of artifacts when one is registered. *)
LEMMA PushIsStack ==
  ASSUME NEW s \in Seq(Artifact), NEW a \in Artifact
  PROVE  Append(s, a) \in Seq(Artifact)
  OBVIOUS

(* The cleanup stack stays a sequence of artifacts when one is taken off.  *)
LEMMA RestIsStack ==
  ASSUME NEW s \in Seq(Artifact), s # <<>>
  PROVE  Rest(s) \in Seq(Artifact) /\ s[Len(s)] \in Artifact
  BY DEF Rest

(* Retention deletes older objects only.                                   *)
LEMMA DeleteKeeps ==
  ASSUME TypeOK, NEW b \in Backend, NEW past \in SUBSET Object,
         NEW gone \in SUBSET Deletable(b, past), Delete(b, gone)
  PROVE  /\ store' \in [Backend -> [Object -> {"absent", "truncated", "whole"}]]
         /\ \A c \in Backend : store'[c][New] = store[c][New]
  BY ArchiveRunAssumption DEF TypeOK, Delete, Deletable, Object

(* A report names what the counters say.                                   *)
LEMMA ReportType ==
  ASSUME TypeOK, NEW phase \in {"upload", "retention"}
  PROVE  Report(phase) \in [phase : {"none", "upload", "retention"},
                            received : SUBSET Backend, pruned : SUBSET Backend]
  BY ArchiveRunAssumption DEF TypeOK, Report, NoReport, Backend

(* An Upload that returns leaves the object store well typed and touches   *)
(* no backend before its own.                                              *)
LEMMA UploadPreserves ==
  ASSUME RunInv, Upload
  PROVE  RunInv'
PROOF
<1> DEFINE b == uploaded + 1
<1> USE ArchiveRunAssumption
<1>1. /\ pc = "upload" /\ uploaded < NumBackends /\ retained = 0
      /\ uploaded \in Nat /\ retErr = {} /\ notice = "none" /\ b \in Backend
      /\ NumBackends \in Nat /\ NumBackends > 0
  BY DEF RunInv, TypeOK, Phases, Verdicts, Upload, Body, Backend
<1>2. UNCHANGED <<deferred, config, retained, open, disk, sigs, notices>>
  BY DEF Upload
<1>3. CASE UploadSucceeds(b)
  <2>1. /\ store' = [store EXCEPT ![b][New] = "whole"]
        /\ uploaded' = b /\ UNCHANGED <<retErr, report>>
        /\ pc' = IF b = NumBackends THEN "retain" ELSE "upload"
    BY <1>3 DEF UploadSucceeds, AfterUpload
  <2>2. store' \in [Backend -> [Object -> {"absent", "truncated", "whole"}]]
    BY <2>1, <1>1 DEF RunInv, TypeOK, Object
  <2>3. TypeOK'
    BY <1>1, <1>2, <2>1, <2>2
    DEF RunInv, TypeOK, Body, config, disk, sigs, notices, Backend
  <2>4. Phases' /\ Verdicts'
    BY <1>1, <1>2, <2>1 DEF Phases, Verdicts, Body, notices
  <2>5. NewArchiveSurvives'
    BY <1>1, <2>1 DEF RunInv, TypeOK, NewArchiveSurvives, Object, Backend
  <2> QED
    BY <2>3, <2>4, <2>5 DEF RunInv
<1>4. CASE UploadFails(b)
  <2>1. PICK left \in {"absent", "truncated", "whole"} :
          store' = [store EXCEPT ![b][New] = left]
    <3>1. store[b][New] \in {"absent", "truncated", "whole"}
      BY <1>1 DEF RunInv, TypeOK, Object
    <3>2. PICK left \in IF cancelled THEN {store[b][New]} ELSE LeftBehind(b) :
            store' = [store EXCEPT ![b][New] = left]
      BY <1>4 DEF UploadFails
    <3>3. left \in {"absent", "truncated", "whole"}
      BY <3>1 DEF LeftBehind
    <3> QED
      BY <3>2, <3>3
  <2>2. /\ report' = Report("upload")
        /\ retErr' = {"primary"} /\ pc' = "unwind" /\ uploaded' = uploaded
    BY <1>4, <1>1 DEF UploadFails, Return
  <2>3. store' \in [Backend -> [Object -> {"absent", "truncated", "whole"}]]
    BY <2>1, <1>1 DEF RunInv, TypeOK, Object
  <2>4. TypeOK'
    BY <1>1, <1>2, <2>2, <2>3, ReportType
    DEF RunInv, TypeOK, Body, config, disk, sigs, notices
  <2>5. Phases' /\ Verdicts'
    BY <1>1, <1>2, <2>2 DEF Phases, Verdicts, Body, notices
  <2>6. NewArchiveSurvives'
    BY <1>1, <2>1, <2>2 DEF RunInv, TypeOK, NewArchiveSurvives, Object, Backend
  <2> QED
    BY <2>4, <2>5, <2>6 DEF RunInv
<1>5. CASE TimeoutInvalid
  <2>1. /\ retErr' = {"primary"} /\ pc' = "unwind"
        /\ UNCHANGED <<store, report, uploaded>>
    BY <1>5, <1>1 DEF TimeoutInvalid, Return
  <2> QED
    BY <1>1, <1>2, <2>1 DEF RunInv, TypeOK, Phases, Verdicts, NewArchiveSurvives,
       Body, config, disk, sigs, notices
<1> QED
  BY <1>3, <1>4, <1>5 DEF Upload

(* So does a DeleteOldObjects, whether it completes or stops at an error.  *)
LEMMA RetainPreserves ==
  ASSUME RunInv, Retain
  PROVE  RunInv'
PROOF
<1> DEFINE b == retained + 1
<1> USE ArchiveRunAssumption
<1>1. /\ pc = "retain" /\ uploaded = NumBackends /\ retained < NumBackends
      /\ retained \in Nat /\ retErr = {} /\ notice = "none" /\ b \in Backend
      /\ NumBackends \in Nat /\ NumBackends > 0
  BY DEF RunInv, TypeOK, Phases, Verdicts, Retain, Body, Backend
<1>2. UNCHANGED <<deferred, config, uploaded, open, disk, sigs, notices>>
  BY DEF Retain
<1>3. \E past \in SUBSET Object : \E gone \in SUBSET Deletable(b, past) :
        Delete(b, gone)
  <2>1. PastExpiry \subseteq SUBSET Object
    BY DEF PastExpiry
  <2>2. CASE RetainSucceeds(b)
    BY <2>1, <2>2 DEF RetainSucceeds
  <2>3. CASE RetainFails(b)
    <3>1. PICK past \in PastExpiry :
            \E gone \in IF cancelled THEN {{}} ELSE SUBSET Deletable(b, past) :
              Delete(b, gone)
      BY <2>3 DEF RetainFails
    <3>2. \E gone \in SUBSET Deletable(b, past) : Delete(b, gone)
      BY <3>1
    <3> QED
      BY <2>1, <3>2
  <2> QED
    BY <2>2, <2>3 DEF Retain
<1>4. /\ store' \in [Backend -> [Object -> {"absent", "truncated", "whole"}]]
      /\ \A c \in Backend : store'[c][New] = store[c][New]
  BY <1>1, <1>3, DeleteKeeps DEF RunInv
<1>5. NewArchiveSurvives'
  BY <1>1, <1>2, <1>4 DEF RunInv, NewArchiveSurvives, Backend
<1>6. CASE RetainSucceeds(b)
  <2>1. /\ retained' = b /\ UNCHANGED <<retErr, report>>
        /\ pc' = IF b = NumBackends THEN "unwind" ELSE "retain"
    BY <1>6 DEF RetainSucceeds
  <2>2. TypeOK'
    BY <1>1, <1>2, <1>4, <2>1
    DEF RunInv, TypeOK, Body, config, disk, sigs, notices
  <2>3. Phases' /\ Verdicts'
    BY <1>1, <1>2, <2>1 DEF Phases, Verdicts, Body, notices
  <2> QED
    BY <1>5, <2>2, <2>3 DEF RunInv
<1>7. CASE RetainFails(b)
  <2>1. /\ report' = Report("retention") /\ retained' = retained
        /\ retErr' = {"primary"} /\ pc' = "unwind"
    BY <1>1, <1>7 DEF RetainFails, Return
  <2>2. TypeOK'
    BY <1>1, <1>2, <1>4, <2>1, ReportType
    DEF RunInv, TypeOK, Body, config, disk, sigs, notices
  <2>3. Phases' /\ Verdicts'
    BY <1>1, <1>2, <2>1 DEF RunInv, TypeOK, Phases, Verdicts, Body, notices
  <2> QED
    BY <1>5, <2>2, <2>3 DEF RunInv
<1> QED
  BY <1>6, <1>7 DEF Retain

(* The actions of the body before the upload.                              *)
LEMMA BodyPreserves ==
  ASSUME RunInv,
         GetStorages \/ CreateWorkspace \/ NewDump \/ InitDump \/ Dump \/ Tar
           \/ BuildObjectName
  PROVE  RunInv'
PROOF
<1> USE ArchiveRunAssumption
        DEF RunInv, TypeOK, Phases, Verdicts, NewArchiveSurvives, Body, Return,
            config, backends, disk, sigs, notices
<1>1. CASE GetStorages
  BY <1>1 DEF GetStorages, CloseOpened, Deferred
<1>2. CASE CreateWorkspace
  <2>1. cleanup' \in Seq(Artifact)
    BY <1>2, PushIsStack DEF CreateWorkspace, Artifact
  <2>2. files' \subseteq Artifact
    BY <1>2 DEF CreateWorkspace, Artifact
  <2> QED
    BY <1>2, <2>1, <2>2 DEF CreateWorkspace, Deferred
<1>3. CASE NewDump
  BY <1>3 DEF NewDump, Deferred
<1>4. CASE InitDump
  BY <1>4 DEF InitDump
<1>5. CASE Dump
  <2>1. cleanup' \in Seq(Artifact)
    BY <1>5, PushIsStack DEF Dump, Artifact
  <2>2. files' \subseteq Artifact
    BY <1>5 DEF Dump, Artifact
  <2> QED
    BY <1>5, <2>1, <2>2 DEF Dump
<1>6. CASE Tar
  <2>1. cleanup' \in Seq(Artifact)
    BY <1>6, PushIsStack DEF Tar, Artifact
  <2>2. files' \subseteq Artifact
    BY <1>6 DEF Tar, Artifact
  <2> QED
    BY <1>6, <2>1, <2>2 DEF Tar
<1>7. CASE BuildObjectName
  BY <1>7 DEF BuildObjectName
<1> QED
  BY <1>1, <1>2, <1>3, <1>4, <1>5, <1>6, <1>7

(* The deferred calls and the announcement of the result.                  *)
LEMMA ReturnPreserves ==
  ASSUME RunInv,
         CloseInterrupt \/ RemoveArtifact \/ CleanupDone \/ CloseStorages
           \/ NotifySuccess \/ Notify \/ NotifyDone \/ Returned
  PROVE  RunInv'
PROOF
<1> USE ArchiveRunAssumption
        DEF RunInv, TypeOK, Phases, Verdicts, NewArchiveSurvives, Body,
            config, backends, disk, sigs, notices
<1>1. CASE CloseInterrupt
  BY <1>1 DEF CloseInterrupt, RunsNext
<1>2. CASE RemoveArtifact
  <2>1. /\ cleanup' \in Seq(Artifact) /\ files' \subseteq Artifact
        /\ stuck' \subseteq Artifact /\ unseen' \subseteq Artifact
    BY <1>2, RestIsStack DEF RemoveArtifact
  <2> QED
    BY <1>2, <2>1 DEF RemoveArtifact, RunsNext
<1>3. CASE CleanupDone
  BY <1>3 DEF CleanupDone, RunsNext
<1>4. CASE CloseStorages
  BY <1>4 DEF CloseStorages, RunsNext
<1>5. CASE NotifySuccess
  <2>1. deferred' = {} /\ notice = "none"
    <3>1. \A e \in deferred : e = "notifySuccess"
      BY <1>5 DEF NotifySuccess, RunsNext, Registered, Deferred
    <3> QED
      BY <1>5, <3>1 DEF NotifySuccess, RunsNext
  <2> QED
    BY <1>5, <2>1 DEF NotifySuccess, BeginNotice, RunsNext
<1>6. CASE Notify
  <2>1. /\ next' \in 1..(NumDestinations + 1)
        /\ tried' \subseteq Destination \X {"success", "failure"}
    BY <1>6 DEF Notify, NextDestination, Destination
  <2> QED
    BY <1>6, <2>1 DEF Notify
<1>7. CASE NotifyDone
  BY <1>7 DEF NotifyDone
<1>8. CASE Returned
  BY <1>8 DEF Returned, BeginNotice
<1> QED
  BY <1>1, <1>2, <1>3, <1>4, <1>5, <1>6, <1>7, <1>8

(* A signal, or a step of something else.                                  *)
LEMMA SignalPreserves ==
  ASSUME RunInv, Signal \/ UNCHANGED vars
  PROVE  RunInv'
PROOF
<1> USE ArchiveRunAssumption
        DEF RunInv, TypeOK, Phases, Verdicts, NewArchiveSurvives, Body,
            config, backends, disk, sigs, notices
<1>1. CASE Signal
  BY <1>1 DEF Signal
<1>2. CASE UNCHANGED vars
  BY <1>2 DEF vars
<1> QED
  BY <1>1, <1>2

(* The inductive invariant starts true.                                    *)
LEMMA InitEstablishes ==
  ASSUME Init
  PROVE  RunInv
PROOF
<1> USE ArchiveRunAssumption
<1>1. store \in [Backend -> [Object -> {"absent", "truncated", "whole"}]]
  BY DEF Init
<1>2. TypeOK
  <2>1. cleanup \in Seq(Artifact)
    BY DEF Init
  <2>2. report \in [phase : {"none", "upload", "retention"},
                    received : SUBSET Backend, pruned : SUBSET Backend]
    BY DEF Init, NoReport
  <2>3. /\ pc \in Body /\ deferred \subseteq Deferred /\ retErr = {}
        /\ open = {} /\ files = {} /\ stuck = {} /\ unseen = {} /\ tried = {}
    BY DEF Init, Body, Deferred
  <2>4. /\ keep \in BOOLEAN /\ retention \in BOOLEAN /\ cancelled \in BOOLEAN
        /\ handler = "off" /\ notice = "none"
    BY DEF Init
  <2>5. /\ uploaded \in 0..NumBackends /\ retained \in 0..NumBackends
        /\ signals \in 0..MaxSignals /\ next \in 1..(NumDestinations + 1)
    BY DEF Init
  <2> QED
    BY <1>1, <2>1, <2>2, <2>3, <2>4, <2>5 DEF TypeOK
<1>3. Phases /\ Verdicts /\ NewArchiveSurvives
  BY DEF Init, Phases, Verdicts, NewArchiveSurvives, Body
<1> QED
  BY <1>2, <1>3 DEF RunInv

(* Every reachable state of a run satisfies the inductive invariant.       *)
THEOREM Invariance == Spec => []RunInv
<1>1. RunInv /\ [Next]_vars => RunInv'
  BY StepCases, UploadPreserves, RetainPreserves, BodyPreserves, ReturnPreserves,
     SignalPreserves
<1> QED
  BY <1>1, InitEstablishes, PTL DEF Spec

(* Every variable keeps its type.                                          *)
THEOREM TypeCorrect == Spec => []TypeOK
<1>1. RunInv => TypeOK
  BY DEF RunInv
<1> QED
  BY <1>1, Invariance, PTL

(* uploadBackupToStorages and DeleteOldObjects: a backend whose Upload was *)
(* verified holds the whole archive to the end of the run.                 *)
THEOREM ArchiveSurvives == Spec => []NewArchiveSurvives
<1>1. RunInv => NewArchiveSurvives
  BY DEF RunInv
<1> QED
  BY <1>1, Invariance, PTL

-----------------------------------------------------------------------------
(* Deletions. *)

(* An upload writes this run's object only.                                *)
LEMMA UploadKeepsOlder ==
  ASSUME RunInv, Upload, NEW c \in Backend, NEW o \in Older
  PROVE  store'[c][o] = store[c][o]
PROOF
<1> DEFINE b == uploaded + 1
<1> USE ArchiveRunAssumption
<1>1. b \in Backend /\ New \in Object /\ o \in Object /\ o # New
  BY DEF RunInv, TypeOK, Phases, Upload, Backend, Object
<1>2. CASE UploadSucceeds(b)
  BY <1>1, <1>2 DEF UploadSucceeds, RunInv, TypeOK
<1>3. CASE UploadFails(b)
  <2>1. PICK left : store' = [store EXCEPT ![b][New] = left]
    BY <1>3 DEF UploadFails
  <2> QED
    BY <1>1, <2>1 DEF RunInv, TypeOK
<1>4. CASE TimeoutInvalid
  BY <1>4 DEF TimeoutInvalid
<1> QED
  BY <1>2, <1>3, <1>4 DEF Upload

(* Retention changes one backend, and there only removes objects; none at  *)
(* all when it is not configured or the run is cancelled.                  *)
LEMMA RetainPrunes ==
  ASSUME RunInv, Retain
  PROVE  \E gone \in SUBSET Older :
           /\ store' = [store EXCEPT ![retained + 1] = [o \in Object |->
                          IF o \in gone THEN "absent" ELSE store[retained + 1][o]]]
           /\ cancelled \/ ~retention => gone = {}
PROOF
<1> DEFINE b == retained + 1
<1>1. \A past \in PastExpiry : Deletable(b, past) \subseteq Older
  BY DEF PastExpiry, Deletable, Object
<1>2. ~retention => \A past \in PastExpiry : Deletable(b, past) = {}
  BY DEF PastExpiry, Deletable
<1>3. CASE RetainSucceeds(b)
  <2>1. PICK past \in PastExpiry : Delete(b, Deletable(b, past))
    BY <1>3 DEF RetainSucceeds
  <2>2. cancelled => ~retention
    BY <1>3 DEF RetainSucceeds
  <2> QED
    BY <1>1, <1>2, <2>1, <2>2 DEF Delete
<1>4. CASE RetainFails(b)
  <2>1. PICK past \in PastExpiry :
          \E gone \in IF cancelled THEN {{}} ELSE SUBSET Deletable(b, past) :
            Delete(b, gone)
    BY <1>4 DEF RetainFails
  <2>2. PICK gone \in IF cancelled THEN {{}} ELSE SUBSET Deletable(b, past) :
          Delete(b, gone)
    BY <2>1
  <2>3. gone \subseteq Deletable(b, past) /\ (cancelled => gone = {})
    OBVIOUS
  <2> QED
    BY <1>1, <1>2, <2>2, <2>3 DEF Delete
<1> QED
  BY <1>3, <1>4 DEF Retain

(* Nothing else touches the backends.                                      *)
LEMMA OnlyUploadAndRetainStore ==
  ASSUME [Next]_vars, ~Upload, ~Retain
  PROVE  UNCHANGED <<store, uploaded, retained>>
  BY StepCases
  DEF GetStorages, CloseOpened, CreateWorkspace, NewDump, InitDump, Dump, Tar, BuildObjectName,
      CloseInterrupt, RemoveArtifact, CleanupDone, CloseStorages, NotifySuccess,
      Notify, NotifyDone, Returned, Signal, vars, backends

(* The two phases of uploadBackupToStorages: no older backup is deleted    *)
(* before every backend holds a verified copy, nor on a cancelled run.     *)
THEOREM DeletionSafe == Spec => DeletionIsSafe
<1> DEFINE Safe ==
      \A b \in Backend, o \in Older :
        store[b][o] # "absent" /\ store'[b][o] = "absent" =>
          /\ uploaded = NumBackends
          /\ \A c \in Backend : store[c][New] = "whole"
          /\ retention /\ ~cancelled
<1>1. RunInv /\ [Next]_vars => Safe
  <2> SUFFICES ASSUME RunInv, [Next]_vars,
                      NEW b \in Backend, NEW o \in Older,
                      store[b][o] # "absent", store'[b][o] = "absent"
               PROVE  /\ uploaded = NumBackends
                      /\ \A c \in Backend : store[c][New] = "whole"
                      /\ retention /\ ~cancelled
    OBVIOUS
  <2>1. Retain
    BY UploadKeepsOlder, OnlyUploadAndRetainStore
  <2>2. PICK gone \in SUBSET Older :
          /\ store' = [store EXCEPT ![retained + 1] = [x \in Object |->
                         IF x \in gone THEN "absent" ELSE store[retained + 1][x]]]
          /\ cancelled \/ ~retention => gone = {}
    BY <2>1, RetainPrunes
  <2>3. o \in gone
    BY <2>2 DEF RunInv, TypeOK, Object
  <2>4. uploaded = NumBackends
    BY <2>1 DEF Retain, RunInv, Phases
  <2>5. \A c \in Backend : store[c][New] = "whole"
    BY <2>4 DEF RunInv, NewArchiveSurvives, Backend
  <2>6. retention /\ ~cancelled
    BY <2>2, <2>3 DEF RunInv, TypeOK
  <2> QED
    BY <2>4, <2>5, <2>6
<1>2. RunInv /\ [Next]_vars => [Safe]_vars
  BY <1>1
<1> QED
  BY <1>2, Invariance, PTL DEF Spec, DeletionIsSafe

-----------------------------------------------------------------------------
(* The report. *)

(* A report is written where the body ends, so the counters it was taken   *)
(* from no longer move.                                                    *)
ReportInv ==
  /\ RunInv
  /\ ReportFaithful
  /\ pc \in Body => report = NoReport

(* What an error of the two phases names is what the counters say.         *)
LEMMA ReportOfCounters ==
  ASSUME RunInv, NEW phase \in {"upload", "retention"}
  PROVE  /\ NumBackends > 1 => Report(phase).phase # "none"
         /\ Report(phase).phase # "none" =>
              /\ Report(phase).received = 1..uploaded
              /\ Report(phase).pruned = 1..retained
  BY DEF Report, NoReport

(* A failed upload or retention is reported as it happened.                *)
LEMMA ReportPreserved ==
  ASSUME ReportInv, Upload \/ Retain, RunInv'
  PROVE  ReportInv'
PROOF
<1> USE ArchiveRunAssumption
<1>1. /\ pc \in Body /\ report = NoReport /\ retErr = {}
      /\ pc' \in Body => UNCHANGED <<report, retErr>>
  BY DEF ReportInv, RunInv, Phases, Upload, Retain, Body, Return, UploadSucceeds,
     UploadFails, TimeoutInvalid, RetainSucceeds, RetainFails
<1>2. CASE UNCHANGED <<report, retErr>>
  BY <1>1, <1>2 DEF ReportInv, ReportFaithful, NoReport
<1>3. CASE \E phase \in {"upload", "retention"} :
             report' = Report(phase) /\ UNCHANGED <<uploaded, retained>>
                /\ pc' = "unwind"
  <2>1. PICK phase \in {"upload", "retention"} :
          report' = Report(phase) /\ UNCHANGED <<uploaded, retained>>
             /\ pc' = "unwind"
    BY <1>3
  <2>2. \A b \in 1..uploaded' : store'[b][New] = "whole"
    BY DEF RunInv, NewArchiveSurvives
  <2>3. NumBackends > 1 => report'.phase # "none"
    BY <2>1, ReportOfCounters DEF ReportInv
  <2>4. report'.phase # "none" =>
          report'.received = 1..uploaded' /\ report'.pruned = 1..retained'
    BY <2>1, ReportOfCounters DEF ReportInv
  <2> QED
    BY <2>1, <2>2, <2>3, <2>4 DEF ReportInv, ReportFaithful, Body
<1>4. CASE pc = "upload" /\ uploaded = 0 /\ TimeoutInvalid
  BY <1>1, <1>4 DEF ReportInv, ReportFaithful, NoReport, TimeoutInvalid, Return, Body
<1>5. CASE Upload
  <2>1. CASE UploadSucceeds(uploaded + 1)
    BY <1>2, <2>1 DEF UploadSucceeds
  <2>2. CASE UploadFails(uploaded + 1)
    BY <1>3, <1>5, <2>2 DEF UploadFails, Upload, Return
  <2> QED
    BY <1>4, <1>5, <2>1, <2>2 DEF Upload
<1>6. CASE Retain
  <2>1. CASE RetainSucceeds(retained + 1)
    BY <1>2, <2>1 DEF RetainSucceeds
  <2>2. CASE RetainFails(retained + 1)
    BY <1>3, <1>6, <2>2 DEF RetainFails, Retain, Return
  <2> QED
    BY <1>6, <2>1, <2>2 DEF Retain
<1> QED
  BY <1>5, <1>6

(* The rest of the run neither writes the report nor moves the counters,   *)
(* and no upload has completed where it adds the primary error.            *)
LEMMA ReportUntouched ==
  ASSUME ReportInv, [Next]_vars, ~Upload, ~Retain, RunInv'
  PROVE  ReportInv'
PROOF
<1>1. UNCHANGED <<store, uploaded, retained>>
  BY OnlyUploadAndRetainStore
<1>2. UNCHANGED report /\ (pc' \in Body => pc \in Body)
  BY StepCases
  DEF GetStorages, CloseOpened, CreateWorkspace, NewDump, InitDump, Dump, Tar, BuildObjectName,
      CloseInterrupt, RemoveArtifact, CleanupDone, CloseStorages, NotifySuccess,
      Notify, NotifyDone, Returned, BeginNotice, RunsNext, Signal, vars, Body, Return
<1>3. "primary" \in retErr' => "primary" \in retErr \/ uploaded = 0
  <2>1. CASE GetStorages \/ CreateWorkspace \/ NewDump \/ InitDump \/ Dump \/ Tar
               \/ BuildObjectName
    BY <2>1 DEF ReportInv, RunInv, Phases, Body, GetStorages, CloseOpened, CreateWorkspace, NewDump,
       InitDump, Dump, Tar, BuildObjectName
  <2>2. CASE RemoveArtifact
    BY <2>2 DEF RemoveArtifact
  <2>3. CASE CloseStorages
    BY <2>3 DEF CloseStorages
  <2>4. CASE CloseInterrupt \/ CleanupDone \/ NotifySuccess \/ Notify \/ NotifyDone
               \/ Returned \/ Signal \/ UNCHANGED vars
    BY <2>4 DEF CloseInterrupt, CleanupDone, NotifySuccess, Notify, NotifyDone,
       Returned, Signal, vars
  <2> QED
    BY <2>1, <2>2, <2>3, <2>4, StepCases
<1>4. uploaded \in Nat
  BY ArchiveRunAssumption DEF ReportInv, RunInv, TypeOK
<1> QED
  BY <1>1, <1>2, <1>3, <1>4 DEF ReportInv, ReportFaithful

(* multiBackendArchiveError: after a partial failure the operator is told  *)
(* exactly which backends received the archive and which finished          *)
(* retention.                                                              *)
THEOREM ReportIsFaithful == Spec => []ReportFaithful
<1>1. Init => ReportInv
  <2> SUFFICES ASSUME Init PROVE ReportInv
    OBVIOUS
  <2>1. report = NoReport /\ report.phase = "none" /\ retErr = {}
    BY DEF Init, NoReport
  <2>2. RunInv
    BY InitEstablishes
  <2> QED
    BY <2>1, <2>2 DEF ReportInv, ReportFaithful
<1>2. ReportInv /\ [Next]_vars => ReportInv'
  <2>1. ReportInv /\ [Next]_vars => RunInv'
    BY StepCases, UploadPreserves, RetainPreserves, BodyPreserves, ReturnPreserves,
       SignalPreserves DEF ReportInv
  <2> QED
    BY <2>1, ReportPreserved, ReportUntouched
<1>3. ReportInv => ReportFaithful
  BY DEF ReportInv
<1> QED
  BY <1>1, <1>2, <1>3, PTL DEF Spec

-----------------------------------------------------------------------------
(* The refinement. *)

OlderHeld == [b \in Backend |-> {o \in Older : store[b][o] # "absent"}]

Verdict == IF pc = "killed" /\ notice = "none" THEN "failure"
           ELSE IF notice = "none" THEN "pending" ELSE notice

(* An upload delivers the archive to one more backend, or nothing happens  *)
(* that the contract speaks of.                                            *)
LEMMA UploadDelivers ==
  ASSUME RunInv, Upload
  PROVE  (\E b \in Backend : Contract!Deliver(b)) \/ UNCHANGED Contract!contract
PROOF
<1> DEFINE b == uploaded + 1
<1> USE ArchiveRunAssumption
<1>1. b \in Backend /\ uploaded \in Nat
  BY DEF RunInv, TypeOK, Phases, Upload, Backend
<1>2. \A c \in Backend :
        {o \in Older : store'[c][o] # "absent"} = {o \in Older : store[c][o] # "absent"}
  BY UploadKeepsOlder
<1>3. OlderHeld' = OlderHeld
  BY <1>2 DEF OlderHeld
<1>4. notice = "none" /\ notice' = "none" /\ pc # "killed" /\ pc' # "killed"
  BY DEF RunInv, Verdicts, Upload, UploadSucceeds, UploadFails, TimeoutInvalid, Return,
     AfterUpload, Body, notices
<1>5. CASE uploaded' = uploaded
  BY <1>3, <1>4, <1>5 DEF Contract!contract, OlderHeld
<1>6. CASE uploaded' = b
  <2>1. 1..uploaded' = (1..uploaded) \cup {b}
    BY <1>1, <1>6
  <2>2. Contract!Deliver(b)
    BY <1>3, <1>4, <2>1 DEF Contract!Deliver, OlderHeld
  <2> QED
    BY <1>1, <2>2
<1> QED
  BY <1>5, <1>6 DEF Upload, UploadSucceeds, UploadFails, TimeoutInvalid

(* A retention prunes one backend, when every backend has the archive.     *)
LEMMA RetentionPrunes ==
  ASSUME RunInv, Retain
  PROVE  \E b \in Backend : Contract!Prune(b)
PROOF
<1> USE ArchiveRunAssumption
<1>1. PICK b \in Backend : b = retained + 1 /\ uploaded = NumBackends
  BY DEF RunInv, TypeOK, Phases, Retain, Backend
<1>2. PICK gone \in SUBSET Older :
        store' = [store EXCEPT ![b] = [o \in Object |->
                    IF o \in gone THEN "absent" ELSE store[b][o]]]
  BY <1>1, RetainPrunes
<1>3. OlderHeld' = [OlderHeld EXCEPT ![b] = OlderHeld[b] \ gone]
  <2>1. \A c \in Backend \ {b} : OlderHeld'[c] = OlderHeld[c]
    BY <1>1, <1>2 DEF OlderHeld, RunInv, TypeOK
  <2>2. \A o \in Older : store'[b][o] = IF o \in gone THEN "absent" ELSE store[b][o]
    BY <1>1, <1>2 DEF RunInv, TypeOK, Object
  <2>3. OlderHeld'[b] = OlderHeld[b] \ gone
    BY <1>1, <2>2 DEF OlderHeld
  <2> QED
    BY <1>1, <2>1, <2>3 DEF OlderHeld
<1>4. notice = "none" /\ notice' = "none" /\ pc # "killed" /\ pc' # "killed"
  BY DEF RunInv, Verdicts, Retain, RetainSucceeds, RetainFails, Return, Body, notices
<1>5. uploaded' = uploaded
  BY DEF Retain
<1>6. \E rest \in SUBSET OlderHeld[b] : OlderHeld' = [OlderHeld EXCEPT ![b] = rest]
  BY <1>3
<1>7. Contract!Prune(b)
  BY <1>1, <1>4, <1>5, <1>6 DEF Contract!Prune, OlderHeld, Backend
<1> QED
  BY <1>7

(* Any other step passes a verdict or is invisible to the contract.        *)
LEMMA OthersDecide ==
  ASSUME RunInv, [Next]_vars, ~Upload, ~Retain
  PROVE  Contract!Succeed \/ Contract!Abandon \/ UNCHANGED Contract!contract
PROOF
<1> USE ArchiveRunAssumption
<1>1. UNCHANGED <<store, uploaded>> /\ OlderHeld' = OlderHeld
  BY OnlyUploadAndRetainStore DEF OlderHeld
<1>2. CASE Verdict' = Verdict
  BY <1>1, <1>2 DEF Contract!contract, OlderHeld, Verdict
<1>3. CASE Verdict = "pending" /\ Verdict' = "failure"
  BY <1>1, <1>3 DEF Contract!Abandon, OlderHeld, Verdict
<1>4. CASE NotifySuccess /\ retErr = {}
  <2>1. pc = "unwind" /\ notice = "none"
    BY <1>4 DEF NotifySuccess, RunsNext, RunInv, TypeOK, Verdicts
  <2>2. uploaded = NumBackends
    BY <1>4, <2>1 DEF RunInv, Phases, Body
  <2>3. Verdict = "pending" /\ Verdict' = "success"
    BY <1>4, <2>1 DEF NotifySuccess, BeginNotice, Verdict
  <2> QED
    BY <1>1, <2>2, <2>3 DEF Contract!Succeed, OlderHeld, Verdict, Backend
<1>5. CASE Returned
  <2>1. pc = "unwind" /\ pc' # "killed" /\ notice \in {"none", "success", "failure"}
    BY <1>5 DEF Returned, BeginNotice, RunInv, TypeOK
  <2>2. CASE retErr = {}
    BY <1>2, <1>5, <2>1, <2>2 DEF Returned, BeginNotice, Verdict, notices
  <2>3. CASE retErr # {}
    BY <1>3, <1>5, <2>1, <2>3 DEF Returned, BeginNotice, RunInv, Verdicts, Verdict
  <2> QED
    BY <2>2, <2>3
<1>6. CASE Signal
  BY <1>2, <1>3, <1>6 DEF Signal, Verdict, notices
<1>7. CASE NotifySuccess /\ retErr # {}
  BY <1>2, <1>7 DEF NotifySuccess, RunsNext, Verdict, notices
<1>8. ASSUME ~NotifySuccess, ~Returned, ~Signal PROVE Verdict' = Verdict
  BY <1>8, StepCases
  DEF GetStorages, CloseOpened, CreateWorkspace, NewDump, InitDump, Dump, Tar, BuildObjectName,
      CloseInterrupt, RemoveArtifact, CleanupDone, CloseStorages,
      Notify, NotifyDone, RunsNext, vars, Return, Verdict, notices
<1> QED
  BY <1>2, <1>4, <1>5, <1>6, <1>7, <1>8

(* A run implements the contract of README.md, "Multi-Backend Archive      *)
(* Contract", as BackupDelivery states it.                                 *)
THEOREM RunImplementsContract == Spec => Delivery
<1>1. Init => Contract!Init
  <2> SUFFICES ASSUME Init PROVE Contract!Init
    OBVIOUS
  <2>1. 1..uploaded = {}
    BY DEF Init
  <2>2. OlderHeld \in [Backend -> SUBSET Older]
    BY DEF OlderHeld
  <2>3. Verdict = "pending"
    BY DEF Init, Verdict
  <2> QED
    BY <2>1, <2>2, <2>3 DEF Contract!Init, OlderHeld, Verdict
<1>2. RunInv /\ [Next]_vars => [Contract!Next]_(Contract!contract)
  BY UploadDelivers, RetentionPrunes, OthersDecide DEF Contract!Next
<1> QED
  BY <1>1, <1>2, Invariance, PTL DEF Spec, Delivery, Contract!Spec

-----------------------------------------------------------------------------
(***************************************************************************)
(* How a run returns: what it has released, and what it has announced.     *)
(***************************************************************************)

(* Every resource has its deferred call, every artifact goes with the      *)
(* workspace at the bottom of the stack, and no failed removal is silent.  *)
ReleaseInv ==
  /\ cleanup # <<>> => cleanup[1] = "workspace" /\ (keep \/ "cleanup" \in deferred)
  /\ cleanup = <<>> => files = {} \/ "workspace" \in stuck \cup unseen
  /\ pc \in Body \ {"getStorages", "createWorkspace"} => cleanup # <<>>
  /\ stuck # {} => "cleanup" \in retErr
  /\ open # {} => "closeStorages" \in deferred
  /\ handler # "off" => "closeInterrupt" \in deferred
  /\ pc \in {"notify", "exited"} => deferred = {}

(* One verdict at most was begun, and the destinations before the next one *)
(* were tried with it.                                                     *)
VerdictInv ==
  /\ tried \subseteq Destination \X {notice}
  /\ notice = "none" /\ retErr = {} /\ pc # "killed" => "notifySuccess" \in deferred
  /\ notice = "none" => pc \notin {"notify", "exited"}
  /\ notice = "success" => pc # "killed"
  /\ notice = "none" => tried = {}
  /\ tried = {} => next \in {1, NumDestinations + 1}
  /\ tried # {} => \A d \in Destination : d < next => <<d, notice>> \in tried
  /\ notice # "none" /\ pc \notin {"notify", "killed"} => next \notin Destination

-----------------------------------------------------------------------------

(* The bottom of the stack stays when something is registered above it.    *)
LEMMA PushKeepsBottom ==
  ASSUME NEW s \in Seq(Artifact), NEW a \in Artifact
  PROVE  /\ Append(s, a) # <<>>
         /\ s # <<>> => Append(s, a)[1] = s[1]
         /\ s = <<>> => Append(s, a)[1] = a
  OBVIOUS

(* It is the last to be taken off.                                         *)
LEMMA RestKeepsBottom ==
  ASSUME NEW s \in Seq(Artifact), s # <<>>
  PROVE  \/ Rest(s) = <<>> /\ s[Len(s)] = s[1]
         \/ Rest(s) # <<>> /\ Rest(s)[1] = s[1]
<1>1. CASE Len(s) = 1
  BY <1>1 DEF Rest
<1>2. CASE Len(s) # 1
  <2>1. Len(s) \in Nat /\ Len(s) - 1 >= 1 /\ Len(s) - 1 <= Len(s)
    <3>1. Len(s) \in Nat /\ Len(s) # 0
      BY Zenon, EmptySeq, LenProperties
    <3>2. \A n \in Nat : n # 0 /\ n # 1 => n - 1 >= 1 /\ n - 1 <= n
      OBVIOUS
    <3> QED
      BY Zenon, <1>2, <3>1, <3>2
  <2>2. Rest(s) = [k \in 1..(Len(s) - 1) |-> s[k]]
    BY <2>1 DEF Rest
  <2>3. Rest(s)[1] = s[1] /\ 1 \in DOMAIN Rest(s)
    BY <2>1, <2>2
  <2> QED
    BY <2>3
<1> QED
  BY <1>1, <1>2

(* A run holds nothing when it starts.                                     *)
LEMMA InitReleases ==
  ASSUME Init
  PROVE  ReleaseInv /\ VerdictInv
  BY DEF Init, ReleaseInv, VerdictInv, Body

(* The steps that acquire something register its release.                  *)
LEMMA BodyReleases ==
  ASSUME TypeOK, ReleaseInv,
         GetStorages \/ CreateWorkspace \/ NewDump \/ InitDump \/ Dump \/ Tar
           \/ BuildObjectName \/ Upload \/ Retain
  PROVE  ReleaseInv'
<1> USE DEF TypeOK, ReleaseInv, Body, Return, config, backends, disk, sigs, notices
<1>1. CASE GetStorages
  BY <1>1 DEF GetStorages, CloseOpened
<1>2. CASE CreateWorkspace
  BY <1>2, PushKeepsBottom DEF CreateWorkspace, Artifact
<1>3. CASE NewDump
  BY <1>3 DEF NewDump
<1>4. CASE InitDump \/ BuildObjectName
  BY <1>4 DEF InitDump, BuildObjectName
<1>5. CASE Dump
  BY <1>5, PushKeepsBottom DEF Dump, Artifact
<1>6. CASE Tar
  BY <1>6, PushKeepsBottom DEF Tar, Artifact
<1>7. CASE Upload
  <2>1. retErr \subseteq retErr' /\ pc' \in {"upload", "retain", "unwind"}
    BY <1>7 DEF Upload, UploadSucceeds, UploadFails, TimeoutInvalid, AfterUpload
  <2> QED
    BY <1>7, <2>1 DEF Upload
<1>8. CASE Retain
  <2>1. retErr \subseteq retErr' /\ pc' \in {"retain", "unwind"}
    BY <1>8 DEF Retain, RetainSucceeds, RetainFails
  <2> QED
    BY <1>8, <2>1 DEF Retain
<1> QED
  BY <1>1, <1>2, <1>3, <1>4, <1>5, <1>6, <1>7, <1>8

(* notifySuccess is registered first and runs last.                        *)
LEMMA NoticeRunsLast ==
  ASSUME TypeOK, NotifySuccess
  PROVE  deferred' = {}
<1>1. \A e \in deferred : e = "notifySuccess"
  BY DEF NotifySuccess, RunsNext, Registered, TypeOK, Deferred
<1> QED
  BY <1>1 DEF NotifySuccess

(* The deferred calls release what they were registered for.               *)
LEMMA ReturnReleases ==
  ASSUME TypeOK, ReleaseInv,
         CloseInterrupt \/ RemoveArtifact \/ CleanupDone \/ CloseStorages
           \/ NotifySuccess \/ Notify \/ NotifyDone \/ Returned
           \/ Signal \/ UNCHANGED vars
  PROVE  ReleaseInv'
<1> USE DEF TypeOK, ReleaseInv, Body, RunsNext, config, backends, disk, sigs, notices
<1>1. CASE CloseInterrupt \/ CloseStorages
  BY <1>1 DEF CloseInterrupt, CloseStorages
<1>2. CASE RemoveArtifact
  <2>1. /\ cleanup # <<>> /\ cleanup[1] = "workspace" /\ "cleanup" \in deferred
        /\ pc = "unwind" /\ cleanup' = Rest(cleanup)
        /\ UNCHANGED <<pc, deferred, report, config, backends, sigs, notices>>
    BY <1>2 DEF RemoveArtifact
  <2>2. stuck' # {} => "cleanup" \in retErr'
    BY <1>2 DEF RemoveArtifact
  <2>3. CASE Rest(cleanup) # <<>>
    BY <2>1, <2>2, <2>3, RestKeepsBottom
  <2>4. CASE Rest(cleanup) = <<>>
    <3>1. cleanup[Len(cleanup)] = "workspace"
      BY <2>1, <2>4, RestKeepsBottom
    <3>2. files' = {} \/ "workspace" \in stuck' \cup unseen'
      BY <1>2, <3>1 DEF RemoveArtifact
    <3> QED
      BY <2>1, <2>2, <2>4, <3>2
  <2> QED
    BY <2>3, <2>4
<1>3. CASE CleanupDone
  BY <1>3 DEF CleanupDone
<1>4. CASE NotifySuccess
  BY <1>4, NoticeRunsLast DEF NotifySuccess, BeginNotice
<1>5. CASE Notify \/ NotifyDone
  BY <1>5 DEF Notify, NotifyDone
<1>6. CASE Returned
  BY <1>6 DEF Returned, BeginNotice
<1>7. CASE Signal
  BY <1>7 DEF Signal
<1>8. CASE UNCHANGED vars
  BY <1>8 DEF vars
<1> QED
  BY <1>1, <1>2, <1>3, <1>4, <1>5, <1>6, <1>7, <1>8

(* What is held has its deferred call, at all times.                       *)
LEMMA Releases == Spec => []ReleaseInv
<1>1. TypeOK /\ ReleaseInv /\ [Next]_vars => ReleaseInv'
  BY StepCases, BodyReleases, ReturnReleases
<1> QED
  BY <1>1, InitReleases, TypeCorrect, PTL DEF Spec

(* Whatever fails, when a result is announced everything is closed, and    *)
(* what is left on disk was kept, could not be removed, or was hidden.     *)
THEOREM ReturnIsClean == Spec => []ReturnReleasesEverything
<1>1. ReleaseInv => ReturnReleasesEverything
  BY DEF ReleaseInv, ReturnReleasesEverything
<1> QED
  BY <1>1, Releases, PTL

-----------------------------------------------------------------------------
(* The announcement. *)

(* Before the last deferred call nothing is announced.                     *)
LEMMA QuietBefore ==
  ASSUME RunInv, ReleaseInv, VerdictInv,
         GetStorages \/ CreateWorkspace \/ NewDump \/ InitDump \/ Dump \/ Tar
           \/ BuildObjectName \/ Upload \/ Retain
           \/ CloseInterrupt \/ RemoveArtifact \/ CleanupDone \/ CloseStorages
  PROVE  VerdictInv'
<1>1. UNCHANGED notices
  BY DEF GetStorages, CloseOpened, CreateWorkspace, NewDump, InitDump, Dump, Tar, BuildObjectName,
     Upload, Retain, CloseInterrupt, RemoveArtifact, CleanupDone, CloseStorages
<1>2. notice = "none"
  BY DEF RunInv, TypeOK, Verdicts, Body, RunsNext, GetStorages, CloseOpened, CreateWorkspace, NewDump,
     InitDump, Dump, Tar, BuildObjectName, Upload, Retain, CloseInterrupt,
     RemoveArtifact, CleanupDone, CloseStorages
<1>3. /\ retErr \subseteq retErr'
      /\ "notifySuccess" \in deferred => "notifySuccess" \in deferred'
      /\ pc # "killed" /\ pc' \notin {"notify", "exited"}
  <2>1. CASE Upload
    BY <2>1 DEF Upload, UploadSucceeds, UploadFails, TimeoutInvalid, AfterUpload, Return
  <2>2. CASE Retain
    BY <2>2 DEF Retain, RetainSucceeds, RetainFails, Return
  <2>3. CASE GetStorages \/ CreateWorkspace \/ NewDump \/ InitDump \/ Dump \/ Tar
             \/ BuildObjectName
    BY <2>3 DEF GetStorages, CloseOpened, CreateWorkspace, NewDump, InitDump, Dump, Tar,
       BuildObjectName, Return
  <2>4. CASE CloseInterrupt \/ RemoveArtifact \/ CleanupDone \/ CloseStorages
    BY <2>4 DEF CloseInterrupt, RemoveArtifact, CleanupDone, CloseStorages, RunsNext
  <2> QED
    BY <2>1, <2>2, <2>3, <2>4
<1> QED
  BY <1>1, <1>2, <1>3 DEF VerdictInv, notices

(* One call of Send.                                                       *)
LEMMA SendTries ==
  ASSUME RunInv, VerdictInv, Notify
  PROVE  VerdictInv'
<1>1. /\ pc = "notify" /\ pc' = pc /\ notice' = notice /\ notice # "none"
      /\ next \in Destination /\ next' = next + 1
      /\ tried' = tried \cup {<<next, notice>>}
  BY DEF Notify, NextDestination, RunInv, Verdicts
<1>2. tried = {} => next = 1
  <2>1. NumDestinations + 1 \notin Destination
    BY ArchiveRunAssumption DEF Destination
  <2>2. tried = {} => next = 1 \/ next = NumDestinations + 1
    BY DEF VerdictInv
  <2> QED
    BY <1>1, <2>1, <2>2
<1>3. ASSUME NEW d \in Destination, d < next' PROVE <<d, notice>> \in tried'
  <2>1. CASE d = next
    BY <1>1, <2>1
  <2>2. CASE d # next
    <3>1. d < next /\ next # 1
      BY <1>1, <1>3, <2>2 DEF Destination
    <3> QED
      BY <1>1, <1>2, <3>1 DEF VerdictInv
  <2> QED
    BY <2>1, <2>2
<1>4. tried' \subseteq Destination \X {notice'} /\ tried' # {}
  <2>1. tried \subseteq Destination \X {notice}
    BY DEF VerdictInv
  <2>2. <<next, notice>> \in Destination \X {notice} /\ <<next, notice>> \in tried'
    BY <1>1
  <2> QED
    BY Zenon, <1>1, <2>1, <2>2
<1> QED
  BY <1>1, <1>3, <1>4 DEF VerdictInv

(* A verdict is begun once, and a success is never taken back.             *)
LEMMA VerdictIsBegunOnce ==
  ASSUME RunInv, ReleaseInv, VerdictInv,
         NotifySuccess \/ NotifyDone \/ Returned \/ Signal \/ UNCHANGED vars
  PROVE  VerdictInv'
<1> USE ArchiveRunAssumption DEF VerdictInv, notices, sigs
<1>1. CASE NotifySuccess
  <2>1. notice = "none" /\ tried = {} /\ pc = "unwind" /\ deferred' = {}
    BY <1>1, NoticeRunsLast DEF NotifySuccess, RunsNext, RunInv, TypeOK, Verdicts
  <2>2. CASE retErr = {} /\ BeginNotice("success")
    <3>1. /\ notice' = "success" /\ pc' = "notify" /\ tried' = {}
          /\ next' \in {1, NumDestinations + 1}
      BY <2>1, <2>2 DEF BeginNotice
    <3> QED
      BY <3>1
  <2>3. CASE retErr # {} /\ UNCHANGED <<pc, notices>>
    BY <1>1, <2>1, <2>3 DEF NotifySuccess
  <2> QED
    BY <1>1, <2>2, <2>3 DEF NotifySuccess
<1>2. CASE NotifyDone
  BY <1>2 DEF NotifyDone, RunInv, Verdicts
<1>3. CASE Returned
  <2>1. pc = "unwind" /\ deferred = {} /\ UNCHANGED <<deferred, retErr>>
    BY <1>3 DEF Returned
  <2>2. CASE retErr = {} /\ pc' = "exited" /\ UNCHANGED notices
    BY <2>1, <2>2
  <2>3. CASE retErr # {} /\ BeginNotice("failure")
    <3>1. notice = "none" /\ tried = {}
      BY <2>1, <2>3 DEF RunInv, TypeOK, Verdicts
    <3>2. /\ notice' = "failure" /\ pc' = "notify" /\ tried' = {}
          /\ next' \in {1, NumDestinations + 1}
      BY <2>3, <3>1 DEF BeginNotice
    <3> QED
      BY <3>2
  <2> QED
    BY <1>3, <2>2, <2>3 DEF Returned
<1>4. CASE Signal
  <2>1. pc' = pc \/ (pc' = "killed" /\ handler = "fired")
    BY <1>4 DEF Signal
  <2>2. notice = "success" => handler = "off"
    BY DEF RunInv, TypeOK, Verdicts, ReleaseInv
  <2> QED
    BY <1>4, <2>1, <2>2 DEF Signal
<1>5. CASE UNCHANGED vars
  BY <1>5 DEF vars
<1> QED
  BY <1>1, <1>2, <1>3, <1>4, <1>5

(* The verdict of a run is one, at all times.                              *)
LEMMA Announces == Spec => []VerdictInv
<1>1. RunInv /\ ReleaseInv /\ VerdictInv /\ [Next]_vars => VerdictInv'
  BY StepCases, QuietBefore, SendTries, VerdictIsBegunOnce
<1> QED
  BY <1>1, InitReleases, Invariance, Releases, PTL DEF Spec

(* A success that anybody sees, or an exit code 0, means stored, pruned,   *)
(* closed and removed.                                                     *)
THEOREM SuccessIsTrue == Spec => []SuccessIsEarned
<1>1. RunInv /\ ReleaseInv /\ VerdictInv => SuccessIsEarned
  <2> SUFFICES ASSUME RunInv, ReleaseInv, VerdictInv,
                      notice = "success" \/ (pc = "exited" /\ retErr = {})
               PROVE  /\ \A b \in Backend : store[b][New] = "whole"
                      /\ retained = NumBackends
                      /\ open = {}
                      /\ keep \/ files = {} \/ unseen # {}
    BY DEF SuccessIsEarned
  <2>1. retErr = {} /\ deferred = {} /\ pc \notin Body \cup {"killed"}
    BY DEF RunInv, TypeOK, Verdicts, VerdictInv, ReleaseInv, Body
  <2>2. uploaded = NumBackends /\ retained = NumBackends
    BY <2>1 DEF RunInv, Phases
  <2>3. stuck = {} /\ open = {}
    BY <2>1 DEF ReleaseInv
  <2> QED
    BY <2>1, <2>2, <2>3 DEF RunInv, NewArchiveSurvives, Backend, ReleaseInv
<1> QED
  BY <1>1, Invariance, Releases, Announces, PTL

(* Every destination hears one verdict, and the exit code is the same.     *)
THEOREM VerdictIsOne == Spec => []OneVerdict
<1>1. RunInv /\ ReleaseInv /\ VerdictInv => OneVerdict
  <2> SUFFICES ASSUME RunInv, ReleaseInv, VerdictInv PROVE OneVerdict
    OBVIOUS
  <2>1. ASSUME pc = "exited"
        PROVE  notice = IF retErr = {} THEN "success" ELSE "failure"
    BY <2>1 DEF RunInv, TypeOK, Verdicts, VerdictInv
  <2>2. ASSUME NEW d \in Destination, NEW e \in Destination,
               <<d, "success">> \in tried, <<e, "failure">> \in tried
        PROVE  FALSE
    BY <2>2 DEF VerdictInv
  <2> QED
    BY <2>1, <2>2 DEF OneVerdict
<1> QED
  BY <1>1, Invariance, Releases, Announces, PTL

(* sendNotification goes through all destinations whatever Send returns.   *)
THEOREM AllDestinationsTried == Spec => []EveryDestinationTried
<1>1. RunInv /\ VerdictInv => EveryDestinationTried
  <2> SUFFICES ASSUME RunInv, VerdictInv, pc = "exited", tried # {},
                      NEW d \in Destination
               PROVE  <<d, notice>> \in tried
    BY DEF EveryDestinationTried
  <2>1. next \in 1..(NumDestinations + 1) /\ next \notin Destination
    BY DEF RunInv, TypeOK, VerdictInv
  <2>2. d < next
    BY <2>1, ArchiveRunAssumption DEF Destination
  <2> QED
    BY <2>2 DEF VerdictInv
<1> QED
  BY <1>1, Invariance, Announces, PTL
=============================================================================
