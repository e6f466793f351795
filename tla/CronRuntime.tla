---------------------------- MODULE CronRuntime ----------------------------
(***************************************************************************)
(* mongo-archive with --cron: main's signal context, cronRuntime.run, the  *)
(* scheduled task, and the three receivers of a signal: the context of     *)
(* main, the channel of waitForShutdown, and the interrupt handler of a    *)
(* run in progress.  What a run does is the business of ArchiveRun; here it*)
(* is work that uses the context, and an outcome to announce.              *)
(***************************************************************************)
EXTENDS Naturals

CONSTANTS
  MaxRuns,      \* bound: scheduled runs that start
  MaxSignals,   \* bound: SIGINT/SIGTERM deliveries
  EarlySignals  \* whether one may come before waitForShutdown listens

ASSUME CronRuntimeAssumption ==
  /\ MaxRuns \in Nat /\ MaxSignals \in Nat /\ EarlySignals \in BOOLEAN

VARIABLES
  main,      \* where the main goroutine is
  inbox,     \* waitForShutdown's channel holds a signal
  caught,    \* NotifyContext's channel has received a signal
  cancelled, \* the context is done
  job,       \* the scheduled task: "idle", "work" or "announce"
  failed,    \* the outcome of the run being announced
  handler,   \* the run's interrupt handler: "off", "armed" or "fired"
  timedOut,  \* Shutdown gave up on a run
  runs,      \* runs started
  signals    \* signals delivered

task == <<job, failed, runs>>
vars == <<main, inbox, caught, cancelled, handler, timedOut, signals, task>>

Ended == main \in {"exited", "killed"}

Init ==
  /\ main = "boot"
  /\ inbox = FALSE /\ caught = FALSE /\ cancelled = FALSE
  /\ job = "idle" /\ failed = FALSE /\ runs = 0
  /\ handler = "off" /\ timedOut = FALSE /\ signals = 0

-----------------------------------------------------------------------------
(* The main goroutine. *)

(* signal.NotifyContext; before it a signal has its default effect. *)
Register ==
  /\ main = "boot"
  /\ main' = "registered"
  /\ UNCHANGED <<inbox, caught, cancelled, handler, timedOut, signals, task>>

(* No location, no cron expression, or the scheduler refuses the job. *)
ScheduleFails ==
  /\ main = "registered"
  /\ main' = "exited"
  /\ UNCHANGED <<inbox, caught, cancelled, handler, timedOut, signals, task>>

Start ==
  /\ main = "registered"
  /\ main' = "started"
  /\ UNCHANGED <<inbox, caught, cancelled, handler, timedOut, signals, task>>

(* waitForShutdown: signal.Notify, then the receive. *)
Listen ==
  /\ main = "started"
  /\ main' = "waiting"
  /\ UNCHANGED <<inbox, caught, cancelled, handler, timedOut, signals, task>>

WakeUp ==
  /\ main = "waiting"
  /\ inbox
  /\ main' = "shutdown"
  /\ inbox' = FALSE
  /\ UNCHANGED <<caught, cancelled, handler, timedOut, signals, task>>

(* Shutdown waits for the run in progress, for the stop timeout at most;   *)
(* then main returns and the process is gone.                              *)
WaitForever == main = "shutdown" /\ job = "idle"
ShutdownReturns == main = "shutdown" /\ (job = "idle" \/ timedOut)

GiveUp ==
  /\ main = "shutdown"
  /\ job # "idle"
  /\ timedOut' = TRUE
  /\ UNCHANGED <<main, inbox, caught, cancelled, handler, signals, task>>

Exit ==
  /\ ShutdownReturns
  /\ main' = "exited"
  /\ UNCHANGED <<inbox, caught, cancelled, handler, timedOut, signals, task>>

-----------------------------------------------------------------------------
(* The scheduled task. *)

(* A tick of the cron expression. LimitModeReschedule skips it while a run *)
(* is in progress.                                                         *)
Tick ==
  /\ main \in {"started", "waiting"}
  /\ job = "idle"
  /\ runs < MaxRuns
  /\ runs' = runs + 1
  /\ job' = "work"
  /\ UNCHANGED <<main, inbox, caught, cancelled, handler, timedOut, signals, failed>>

ArmHandler ==
  /\ ~Ended
  /\ job = "work" /\ handler = "off"
  /\ handler' = "armed"
  /\ UNCHANGED <<main, inbox, caught, cancelled, timedOut, signals, task>>

LeakHandler == UNCHANGED handler
CloseHandler == handler' = "off"

(* runTask returns; its deferred calls have run. A run that is cancelled    *)
(* after its last use of the context still succeeds.                       *)
StopsTheContext ==
  /\ ~Ended
  /\ job = "work"
  /\ job' = "announce"
  /\ failed' \in BOOLEAN
  /\ CloseHandler
  /\ cancelled' = TRUE
  /\ UNCHANGED <<main, inbox, caught, timedOut, signals, runs>>
TaskReturns ==
  /\ ~Ended
  /\ job = "work"
  /\ job' = "announce"
  /\ failed' \in BOOLEAN
  /\ CloseHandler
  /\ UNCHANGED <<main, inbox, caught, cancelled, timedOut, signals, runs>>

(* notify, or the log line of a success. *)
Announce ==
  /\ ~Ended
  /\ job = "announce"
  /\ job' = "idle"
  /\ failed' = FALSE
  /\ UNCHANGED <<main, inbox, caught, cancelled, handler, timedOut, signals, runs>>

-----------------------------------------------------------------------------
(* Signals. *)

CancelContext ==
  /\ ~Ended
  /\ caught /\ ~cancelled
  /\ cancelled' = TRUE
  /\ UNCHANGED <<main, inbox, caught, handler, timedOut, signals, task>>

(* Every registered channel receives the signal. *)
Listening == main = "waiting"
Signal ==
  /\ ~Ended
  /\ signals < MaxSignals
  /\ EarlySignals \/ main \in {"waiting", "shutdown"}
  /\ signals' = signals + 1
  /\ caught' = (caught \/ main # "boot")
  /\ inbox' = (inbox \/ Listening)
  /\ handler' = IF handler = "armed" THEN "fired" ELSE handler
  /\ main' = IF main = "boot" \/ handler = "fired" THEN "killed" ELSE main
  /\ UNCHANGED <<cancelled, timedOut, task>>

Stopped ==
  /\ Ended
  /\ UNCHANGED vars

MainStep == Register \/ ScheduleFails \/ Start \/ Listen \/ WakeUp \/ GiveUp \/ Exit
TaskStep == ArmHandler \/ TaskReturns \/ Announce

Next == MainStep \/ Tick \/ TaskStep \/ CancelContext \/ Signal \/ Stopped

(* The Go scheduler runs main and the goroutine of the context; a run may  *)
(* hang in a call without a timeout, and neither ticks nor signals are due.*)
Spec == Init /\ [][Next]_vars /\ WF_vars(MainStep) /\ WF_vars(CancelContext)

-----------------------------------------------------------------------------
(* Properties. *)

(* The process ends with a run in progress only when Shutdown gave up on   *)
(* it, or when a second signal reached the interrupt handler of that run:  *)
(* a handler never outlives its run to kill the process later.             *)
StopIsClean ==
  /\ main = "exited" => job = "idle" \/ timedOut
  /\ main = "killed" /\ runs > 0 => job = "work" /\ handler = "fired"

(* Once main listens, a signal ends the process, even when the run that is *)
(* in progress hangs.                                                      *)
SignalStops == (main = "waiting" /\ inbox) ~> Ended

(* A failed run is announced on a live context as long as the scheduler    *)
(* goes on (README.md: "failure notifications are sent while the scheduler *)
(* keeps running").                                                        *)
FailuresAreAnnounced ==
  job = "announce" /\ failed /\ main = "waiting" /\ ~inbox => ~cancelled
=============================================================================
