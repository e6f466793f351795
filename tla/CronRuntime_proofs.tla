------------------------ MODULE CronRuntime_proofs ------------------------
(***************************************************************************)
(* Theorems about CronRuntime, for any number of runs and signals.         *)
(***************************************************************************)
EXTENDS CronRuntime, TLAPS

Types ==
  /\ main \in {"boot", "registered", "started", "waiting", "shutdown", "exited", "killed"}
  /\ inbox \in BOOLEAN /\ caught \in BOOLEAN /\ cancelled \in BOOLEAN
  /\ job \in {"idle", "work", "announce"} /\ failed \in BOOLEAN
  /\ handler \in {"off", "armed", "fired"} /\ timedOut \in BOOLEAN
  /\ runs \in Nat /\ signals \in Nat

(* A run is in progress only once the scheduler was started, and an        *)
(* interrupt handler only while its run works.                             *)
CronInv ==
  /\ Types
  /\ main \in {"boot", "registered"} => job = "idle" /\ runs = 0
  /\ handler # "off" => job = "work"
  /\ StopIsClean

(* No signal is caught before main listens, and none that main has not     *)
(* been told of while it waits.                                            *)
QuietInv ==
  /\ cancelled => caught
  /\ main \in {"boot", "registered", "started"} => ~caught
  /\ main = "waiting" /\ ~inbox => ~caught

-----------------------------------------------------------------------------

(* A step of the main goroutine.                                           *)
LEMMA MainKeepsCron ==
  ASSUME CronInv, MainStep
  PROVE  CronInv'
<1> USE DEF CronInv, Types, StopIsClean, task
<1>1. CASE Register
  BY <1>1 DEF Register
<1>2. CASE ScheduleFails
  BY <1>2 DEF ScheduleFails
<1>3. CASE Start
  BY <1>3 DEF Start
<1>4. CASE Listen
  BY <1>4 DEF Listen
<1>5. CASE WakeUp
  BY <1>5 DEF WakeUp
<1>6. CASE GiveUp
  BY <1>6 DEF GiveUp
<1>7. CASE Exit
  BY <1>7 DEF Exit, ShutdownReturns
<1> QED
  BY <1>1, <1>2, <1>3, <1>4, <1>5, <1>6, <1>7 DEF MainStep

(* A step of the scheduled task: the handler goes before its run does.     *)
LEMMA TaskKeepsCron ==
  ASSUME CronInv, Tick \/ TaskStep
  PROVE  CronInv'
<1> USE DEF CronInv, Types, StopIsClean, task, Ended
<1>1. CASE Tick
  BY <1>1 DEF Tick
<1>2. CASE ArmHandler
  BY <1>2 DEF ArmHandler
<1>3. CASE TaskReturns
  BY <1>3 DEF TaskReturns, CloseHandler
<1>4. CASE Announce
  BY <1>4 DEF Announce
<1> QED
  BY <1>1, <1>2, <1>3, <1>4 DEF TaskStep

(* The process ends with a run in progress only when Shutdown gave up on   *)
(* it or a second signal reached its interrupt handler.                    *)
THEOREM StopsClean == Spec => []StopIsClean
<1>1. Init => CronInv
  <2>1. 0 \in Nat
    OBVIOUS
  <2> QED
    BY <2>1, Zenon DEF Init, CronInv, Types, StopIsClean
<1>2. CronInv /\ [Next]_vars => CronInv'
  <2> SUFFICES ASSUME CronInv, [Next]_vars PROVE CronInv'
    OBVIOUS
  <2>1. CASE MainStep
    BY <2>1, MainKeepsCron
  <2>2. CASE Tick \/ TaskStep
    BY <2>2, TaskKeepsCron
  <2>3. CASE CancelContext
    BY <2>3 DEF CancelContext, CronInv, Types, StopIsClean, task
  <2>4. CASE Signal
    BY <2>4 DEF Signal, Listening, Ended, CronInv, Types, StopIsClean, task
  <2>5. CASE Stopped \/ UNCHANGED vars
    BY <2>5 DEF Stopped, vars, CronInv, Types, StopIsClean, task
  <2> QED
    BY <2>1, <2>2, <2>3, <2>4, <2>5 DEF Next
<1>3. CronInv => StopIsClean
  BY DEF CronInv
<1> QED
  BY <1>1, <1>2, <1>3, PTL DEF Spec

-----------------------------------------------------------------------------

(* When no signal comes before main listens, a run that fails while the    *)
(* scheduler goes on is announced on a live context.                       *)
THEOREM AnnouncedLive ==
  ASSUME ~EarlySignals
  PROVE  Spec => []FailuresAreAnnounced
<1>1. Init => QuietInv
  BY DEF Init, QuietInv
<1>2. QuietInv /\ [Next]_vars => QuietInv'
  <2> SUFFICES ASSUME QuietInv, [Next]_vars PROVE QuietInv'
    OBVIOUS
  <2> USE DEF QuietInv
  <2>1. CASE MainStep
    BY <2>1 DEF MainStep, Register, ScheduleFails, Start, Listen, WakeUp, GiveUp, Exit
  <2>2. CASE Tick \/ TaskStep
    BY <2>2 DEF Tick, TaskStep, ArmHandler, TaskReturns, Announce
  <2>3. CASE CancelContext
    BY <2>3 DEF CancelContext
  <2>4. CASE Signal
    BY <2>4 DEF Signal, Listening
  <2>5. CASE Stopped \/ UNCHANGED vars
    BY <2>5 DEF Stopped, vars
  <2> QED
    BY <2>1, <2>2, <2>3, <2>4, <2>5 DEF Next
<1>3. QuietInv => FailuresAreAnnounced
  BY DEF QuietInv, FailuresAreAnnounced
<1> QED
  BY <1>1, <1>2, <1>3, PTL DEF Spec
=============================================================================
